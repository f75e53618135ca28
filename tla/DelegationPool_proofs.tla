----------------------- MODULE DelegationPool_proofs -----------------------
(***************************************************************************)
(* Proofs about DelegationPool, for any scale, rates, amounts, penalties   *)
(* and epochs: amounts keep their types, every penalty reaches the         *)
(* exchange rate, no stake leaves before it has answered for the           *)
(* validator's acts and, where no tournament reward is deposited, the pool *)
(* is the supply of delegation tokens and roundings never make stake.      *)
(*                                                                         *)
(* The argument.  A pool is bonded exactly while its validator is active,  *)
(* and lastActive is then the start of the current epoch; the unbonding    *)
(* height set when it leaves is therefore a full delay after lastActive    *)
(* (Bond).  A penalty is recorded only for a validator that the consensus  *)
(* set index or the history variable late announces to end_epoch           *)
(* (Announced), so the rate of the next epoch is the product of one        *)
(* penalty more (KeptFromDef).  For the supply, queued changes are         *)
(* announced by touched (Queued), and the worth of what is in circulation  *)
(* is bounded action by action with the lemmas on integer division.  The   *)
(* recursive function of the compounded penalty is shown to exist and is   *)
(* reasoned about by induction with the property written as a set of       *)
(* naturals (NatSetInduction).                                             *)
(***************************************************************************)
EXTENDS DelegationPool, SumTheorems

-----------------------------------------------------------------------------
(* The inductive invariant                                                  *)

\* An epoch is at least a block long, so there are penalties for each.
Clock ==
  /\ Len(starts) > 0 /\ starts[1] = 0
  /\ IF phase = "begin" THEN Epoch <= height /\ EpochStart <= height + 1
                        ELSE Epoch < height /\ EpochStart <= height

\* The pool is bonded exactly while the validator is active; afterwards it
\* unbonds no sooner than the delay after the last epoch it was active in.
Bond ==
  /\ lastActive <= EpochStart
  /\ state = "Active" => bonding = "Bonded" /\ lastActive = EpochStart /\ indexed
  /\ bonding = "Bonded" => state = "Active"
  /\ bonding = "Unbonding" => unbondsAt >= lastActive + UnbondingDelay
  /\ bonding = "Unbonded" =>
       state = "Tombstoned" \/ EpochStart >= lastActive + UnbondingDelay

\* What is queued is announced to the end of the epoch.
Queued == ~ touched => delegations = 0 /\ undelegations = 0

\* A penalty of this epoch is announced by the consensus set index.
Announced ==
  /\ \A e \in 0 .. MaxHeight : e > Epoch => penalty[e] = Scale
  /\ indexed \/ late \/ penalty[Epoch] = Scale

IInv == TypeOK /\ Clock /\ Bond /\ Queued /\ Announced /\ SlashReachesRate

-----------------------------------------------------------------------------
(* What penalties compound to                                               *)

\* A value of the recursive function in CompoundedPenalty.
Kept1(f, p, from, e) == IF e <= from THEN Scale ELSE Compound(f[e - 1], p[e - 1])

KeptFrom(p, from) == CHOOSE f : f = [e \in Nat |-> Kept1(f, p, from, e)]

KeptUpTo(p, from, n) == CHOOSE f : f = [e \in 0 .. n |-> Kept1(f, p, from, e)]

\* Up to every bound, a function satisfies the recursion of the penalties.
LEMMA KeptPrefix ==
  ASSUME NEW p, NEW from \in Nat
  PROVE  \A n \in Nat : \E g : g = [e \in 0 .. n |-> Kept1(g, p, from, e)]
<1> DEFINE P(k) == \E g : g = [e \in 0 .. k |-> Kept1(g, p, from, e)]
           S == {k \in Nat : P(k)}
<1>1. 0 \in S
  <2>1. [e \in 0 .. 0 |-> Scale]
           = [e \in 0 .. 0 |-> Kept1([x \in 0 .. 0 |-> Scale], p, from, e)]
    BY DEF Kept1
  <2> QED BY <2>1
<1>2. ASSUME NEW n \in Nat, n \in S PROVE n + 1 \in S
  <2> DEFINE m == n + 1
  <2>1. PICK g : g = [e \in 0 .. n |-> Kept1(g, p, from, e)]
    BY <1>2
  <2>2. PICK v : v = Kept1(g, p, from, m)
    OBVIOUS
  <2>3. PICK h : h = [e \in 0 .. m |-> IF e = m THEN v ELSE g[e]]
    OBVIOUS
  <2>4. ASSUME NEW e \in 0 .. m PROVE h[e] = Kept1(h, p, from, e)
    <3>1. e > from => h[e - 1] = g[e - 1]
      <4>1. e > from => e - 1 \in 0 .. m /\ e - 1 # m
        OBVIOUS
      <4> QED  BY <4>1, <2>3
    <3>2. CASE e = m
      BY <3>1, <3>2, <2>2, <2>3 DEF Kept1
    <3>3. CASE e # m
      <4>1. e \in 0 .. n
        BY <3>3
      <4>2. h[e] = g[e] /\ g[e] = Kept1(g, p, from, e)
        BY <3>3, <4>1, <2>1, <2>3
      <4> QED  BY <4>2, <3>1 DEF Kept1
    <3> QED  BY <3>2, <3>3
  <2>5. h = [e \in 0 .. m |-> Kept1(h, p, from, e)]
    BY <2>3, <2>4
  <2> QED  BY <2>5
<1>3. \A n \in Nat : n \in S
  <2> HIDE DEF S
  <2> QED BY <1>1, <1>2, NatSetInduction
<1> QED  BY <1>3

\* The recursive function exists.
LEMMA KeptFromDef ==
  ASSUME NEW p, NEW from \in Nat
  PROVE  \A e \in Nat : KeptFrom(p, from)[e] = Kept1(KeptFrom(p, from), p, from, e)
<1> DEFINE G(n) == KeptUpTo(p, from, n)
<1>1. ASSUME NEW n \in Nat
      PROVE  G(n) = [e \in 0 .. n |-> Kept1(G(n), p, from, e)]
  BY KeptPrefix DEF KeptUpTo
<1> HIDE DEF G
<1>2. ASSUME NEW n \in Nat
      PROVE  \A e \in 0 .. n : G(n + 1)[e] = G(n)[e]
  <2> DEFINE S == {e \in Nat : e <= n => G(n + 1)[e] = G(n)[e]}
  <2>0. ASSUME NEW e \in 0 .. n
        PROVE  /\ G(n)[e] = Kept1(G(n), p, from, e)
               /\ G(n + 1)[e] = Kept1(G(n + 1), p, from, e)
    BY <1>1
  <2>1. 0 \in S
    BY <2>0 DEF Kept1
  <2>2. ASSUME NEW e \in Nat, e \in S PROVE e + 1 \in S
    <3>1. SUFFICES ASSUME e + 1 <= n PROVE G(n + 1)[e + 1] = G(n)[e + 1]
      OBVIOUS
    <3>2. G(n + 1)[e] = G(n)[e] /\ (e + 1) - 1 = e
      BY <2>2, <3>1
    <3>3. /\ G(n)[e + 1] = Kept1(G(n), p, from, e + 1)
          /\ G(n + 1)[e + 1] = Kept1(G(n + 1), p, from, e + 1)
      BY <3>1, <2>0
    <3> QED BY <3>2, <3>3 DEF Kept1
  <2>3. \A e \in Nat : e \in S
    <3> HIDE DEF S
    <3> QED BY <2>1, <2>2, NatSetInduction
  <2> QED BY <2>3
<1>3. PICK f : f = [e \in Nat |-> G(e)[e]]
  OBVIOUS
<1>4. ASSUME NEW e \in Nat PROVE f[e] = Kept1(f, p, from, e)
  <2>1. G(e)[e] = Kept1(G(e), p, from, e)
    BY <1>1
  <2>2. e > from => G(e)[e - 1] = G(e - 1)[e - 1]
    <3>1. SUFFICES ASSUME e > from PROVE G(e)[e - 1] = G(e - 1)[e - 1]
      OBVIOUS
    <3>2. PICK d \in Nat : d = e - 1
      BY <3>1
    <3>3. G(d + 1)[d] = G(d)[d] /\ d + 1 = e
      BY <1>2, <3>2
    <3> QED BY <3>2, <3>3
  <2>3. e > from => f[e - 1] = G(e - 1)[e - 1]
    BY <1>3
  <2>4. f[e] = G(e)[e]
    BY <1>3
  <2> QED BY <2>1, <2>2, <2>3, <2>4 DEF Kept1
<1>5. f = [e \in Nat |-> Kept1(f, p, from, e)]
  BY <1>3, <1>4
<1>6. KeptFrom(p, from) = [e \in Nat |-> Kept1(KeptFrom(p, from), p, from, e)]
  BY <1>5 DEF KeptFrom
<1> HIDE DEF KeptFrom
<1> QED BY <1>6

\* compounded_penalty_over_range is that recursive function.
LEMMA CompoundedPenaltyDef ==
  ASSUME NEW from \in Nat, NEW to \in Nat
  PROVE  CompoundedPenalty(from, to) = KeptFrom(penalty, from)[to]
BY DEF CompoundedPenalty, KeptFrom, Kept1

\* Compounding stays within 0 and 1.
LEMMA CompoundBound ==
  ASSUME NEW a \in 0 .. Scale, NEW b \in 0 .. Scale
  PROVE  Compound(a, b) \in 0 .. Scale /\ Compound(a, b) <= a
<1>1. Scale \in Nat /\ Scale > 0
  BY ParameterAssumption
<1>2. a * b \in Nat /\ a * b <= a * Scale
  BY <1>1
<1>3. (a * Scale) \div Scale = a
  BY <1>1
<1>4. (a * b) \div Scale <= (a * Scale) \div Scale
  BY <1>1, <1>2
<1>5. (a * b) \div Scale \in Nat
  BY <1>1, <1>2
<1> QED BY <1>1, <1>3, <1>4, <1>5 DEF Compound

\* What penalties leave of a unit is between nothing and the unit.
LEMMA KeptFromType ==
  ASSUME NEW p, NEW from \in Nat, NEW n \in Nat,
         \A e \in 0 .. (n - 1) : p[e] \in 0 .. Scale
  PROVE  KeptFrom(p, from)[n] \in 0 .. Scale
<1> DEFINE K == KeptFrom(p, from)
           S == {e \in Nat : e <= n => K[e] \in 0 .. Scale}
<1>0. Scale \in 0 .. Scale
  BY ParameterAssumption
<1>1. 0 \in S
  BY <1>0, KeptFromDef DEF Kept1
<1>2. ASSUME NEW e \in Nat, e \in S PROVE e + 1 \in S
  <2>1. SUFFICES ASSUME e + 1 <= n PROVE K[e + 1] \in 0 .. Scale
    OBVIOUS
  <2>2. K[e] \in 0 .. Scale /\ p[e] \in 0 .. Scale
    BY <1>2, <2>1
  <2>3. Compound(K[e], p[e]) \in 0 .. Scale
    BY <2>2, CompoundBound
  <2>4. K[e + 1] = Kept1(K, p, from, e + 1) /\ (e + 1) - 1 = e
    BY KeptFromDef
  <2> HIDE DEF K
  <2> QED BY <2>3, <2>4, <1>0 DEF Kept1
<1>3. \A e \in Nat : e \in S
  <2> HIDE DEF S
  <2> QED BY <1>1, <1>2, NatSetInduction
<1> QED BY <1>3

\* Only the penalties of the range count.
LEMMA KeptFromSame ==
  ASSUME NEW p, NEW q, NEW from \in Nat, NEW n \in Nat,
         \A e \in 0 .. (n - 1) : p[e] = q[e]
  PROVE  KeptFrom(p, from)[n] = KeptFrom(q, from)[n]
<1> DEFINE K == KeptFrom(p, from)
           L == KeptFrom(q, from)
           S == {e \in Nat : e <= n => K[e] = L[e]}
<1>0. ASSUME NEW e \in Nat
      PROVE  K[e] = Kept1(K, p, from, e) /\ L[e] = Kept1(L, q, from, e)
  BY KeptFromDef
<1> HIDE DEF K, L
<1>1. 0 \in S
  BY <1>0 DEF Kept1
<1>2. ASSUME NEW e \in Nat, e \in S PROVE e + 1 \in S
  <2>1. SUFFICES ASSUME e + 1 <= n PROVE K[e + 1] = L[e + 1]
    OBVIOUS
  <2>2. K[e] = L[e] /\ p[e] = q[e] /\ (e + 1) - 1 = e
    BY <1>2, <2>1
  <2>3. K[e + 1] = Kept1(K, p, from, e + 1) /\ L[e + 1] = Kept1(L, q, from, e + 1)
    BY <1>0
  <2> QED BY <2>2, <2>3 DEF Kept1
<1>3. \A e \in Nat : e \in S
  <2> HIDE DEF S
  <2> QED BY <1>1, <1>2, NatSetInduction
<1>4. K[n] = L[n]
  BY <1>3
<1> QED BY <1>4 DEF K, L

-----------------------------------------------------------------------------
(* Rounding                                                                 *)

\* Truncated division, by what it leaves.
LEMMA DivBounds ==
  ASSUME NEW a \in Nat, NEW s \in Nat, s > 0
  PROVE  /\ a \div s \in Nat
         /\ s * (a \div s) <= a /\ a < s * (a \div s) + s
OBVIOUS

\* An upper bound of a quotient.
LEMMA DivAtMost ==
  ASSUME NEW a \in Nat, NEW s \in Nat, s > 0, NEW k \in Nat, a < s * k + s
  PROVE  a \div s <= k
<1>1. PICK q \in Nat : q = a \div s /\ s * q <= a
  BY DivBounds
<1>2. s * q < s * (k + 1)
  BY <1>1
<1>3. q < k + 1
  BY <1>2
<1> QED BY <1>1, <1>3

\* Truncated division is monotone in the dividend.
LEMMA DivMonotone ==
  ASSUME NEW a \in Nat, NEW b \in Nat, a <= b, NEW s \in Nat, s > 0
  PROVE  a \div s <= b \div s
<1>1. PICK q \in Nat : q = b \div s /\ b < s * q + s
  BY DivBounds
<1> QED BY <1>1, DivAtMost

\* What is delegated is worth no more than the stake it took.
LEMMA DelegateRounds ==
  ASSUME NEW s \in Nat, s > 0, NEW r \in Nat, NEW h \in Nat, NEW x \in Nat,
         NEW d \in Nat, d * r <= x * s
  PROVE  ((h + d) * r) \div s <= (h * r) \div s + x
<1>1. PICK q \in Nat : q = (h * r) \div s /\ h * r < s * q + s
  BY DivBounds
<1>2. (h + d) * r = h * r + d * r
  OBVIOUS
<1>3. s * (q + x) = s * q + x * s
  OBVIOUS
<1>4. (h + d) * r < s * (q + x) + s
  BY <1>1, <1>2, <1>3
<1> QED BY <1>1, <1>4, DivAtMost

\* A position that is split is worth no more than before.
LEMMA UndelegateRounds ==
  ASSUME NEW s \in Nat, s > 0, NEW r \in Nat, NEW h \in Nat, NEW n \in Nat, n <= h
  PROVE  ((h - n) * r) \div s + (n * r) \div s <= (h * r) \div s
<1>1. PICK k \in Nat : k = h - n
  OBVIOUS
<1>2. PICK p \in Nat : p = (k * r) \div s /\ s * p <= k * r
  BY DivBounds
<1>3. PICK q \in Nat : q = (n * r) \div s /\ s * q <= n * r
  BY DivBounds
<1>4. s * (p + q) <= h * r
  <2>1. h * r = k * r + n * r
    <3>1. h = k + n
      BY <1>1
    <3> QED BY <3>1
  <2>2. s * (p + q) = s * p + s * q
    OBVIOUS
  <2> QED BY <1>2, <1>3, <2>1, <2>2
<1>5. (s * (p + q)) \div s <= (h * r) \div s
  BY <1>4, DivMonotone
<1>6. (s * (p + q)) \div s = p + q
  OBVIOUS
<1> QED BY <1>1, <1>2, <1>3, <1>5, <1>6

\* A fraction of an amount is no more than the amount.
LEMMA FractionRounds ==
  ASSUME NEW s \in Nat, s > 0, NEW a \in Nat, NEW k \in 0 .. s
  PROVE  (a * k) \div s \in Nat /\ (a * k) \div s <= a
<1>1. a * k \in Nat /\ a * k <= a * s
  OBVIOUS
<1>2. (a * s) \div s = a
  OBVIOUS
<1> QED BY <1>1, <1>2, DivMonotone, DivBounds

-----------------------------------------------------------------------------
(* The validator's moves                                                    *)

States == {"Defined", "Inactive", "Active", "Disabled", "Jailed", "Tombstoned"}

\* The epoch and its start are within the heights that have a penalty and
\* unbonding tokens.
LEMMA EpochType ==
  ASSUME TypeOK, Clock
  PROVE  /\ Epoch \in Nat /\ Epoch \in 0 .. MaxHeight
         /\ EpochStart \in Nat /\ EpochStart \in 0 .. MaxHeight + 1
<1>1. MaxHeight \in Nat /\ height \in Nat /\ height <= MaxHeight
  BY ParameterAssumption DEF TypeOK, Heights
<1>2. Len(starts) \in Nat /\ Len(starts) > 0
  BY DEF TypeOK, Clock
<1>3. EpochStart \in Nat
  BY <1>2 DEF TypeOK, EpochStart
<1>4. Epoch \in Nat /\ Epoch <= height /\ EpochStart <= height + 1
  <2>1. Epoch \in Nat
    BY <1>2 DEF Epoch
  <2> HIDE DEF Epoch, EpochStart
  <2> QED BY <1>1, <1>3, <2>1 DEF Clock
<1> QED BY <1>1, <1>3, <1>4

\* The epoch is a function of the epoch starts.
LEMMA SameEpoch ==
  ASSUME starts' = starts
  PROVE  Epoch' = Epoch /\ EpochStart' = EpochStart
BY DEF Epoch, EpochStart

\* What a move does to the pool.
LEMMA MovedBond ==
  ASSUME TypeOK, Clock, Bond, NEW new \in States,
         new = "Active" => state = "Active", state = "Tombstoned" => new = "Tombstoned"
  PROVE  LET m == Moved(bonding, unbondsAt, state, new) IN
         /\ m.bonding \in {"Bonded", "Unbonding", "Unbonded"}
         /\ m.at \in Nat
         /\ new = "Active" => m.bonding = "Bonded"
         /\ m.bonding = "Bonded" => new = "Active"
         /\ m.bonding = "Unbonding" => m.at >= lastActive + UnbondingDelay
         /\ m.bonding = "Unbonded" =>
              new = "Tombstoned" \/ EpochStart >= lastActive + UnbondingDelay
<1> DEFINE m == Moved(bonding, unbondsAt, state, new)
<1>0. /\ UnbondingDelay \in Nat /\ EpochStart \in Nat /\ lastActive \in Nat
      /\ unbondsAt \in Nat
  BY ParameterAssumption, EpochType DEF TypeOK
<1> HIDE DEF EpochStart
<1>1. CASE state = "Active" /\ new \in {"Inactive", "Defined", "Disabled", "Jailed"}
  <2>1. m = [bonding |-> "Unbonding", at |-> EpochStart + UnbondingDelay]
    BY <1>1 DEF Moved, UnbondingHeight, Bond
  <2>2. lastActive = EpochStart
    BY <1>1 DEF Bond
  <2> HIDE DEF m
  <2>3. /\ m.bonding = "Unbonding" /\ m.at \in Nat
        /\ m.at >= lastActive + UnbondingDelay
    BY <1>0, <2>1, <2>2
  <2> QED BY <2>3, <1>1 DEF m
<1>2. CASE state # "Tombstoned" /\ new = "Tombstoned"
  <2>1. m = [bonding |-> "Unbonded", at |-> unbondsAt]
    BY <1>2 DEF Moved
  <2> HIDE DEF m
  <2>2. m.bonding = "Unbonded" /\ m.at \in Nat
    BY <1>0, <2>1
  <2> QED BY <2>2, <1>2 DEF m
<1>3. CASE /\ ~ (state = "Active" /\ new \in {"Inactive", "Defined", "Disabled", "Jailed"})
           /\ ~ (state # "Tombstoned" /\ new = "Tombstoned")
  <2>1. ~ (state = "Inactive" /\ new = "Active")
    OBVIOUS
  <2>2. m = [bonding |-> bonding, at |-> unbondsAt]
    BY <1>3, <2>1 DEF Moved
  <2>3. state = "Active" <=> new = "Active"
    BY <1>3 DEF States
  <2>4. state = "Tombstoned" <=> new = "Tombstoned"
    BY <1>3
  <2> HIDE DEF m
  <2>5. m.bonding = bonding /\ m.at = unbondsAt
    BY <2>2
  <2>6. bonding \in {"Bonded", "Unbonding", "Unbonded"}
    BY DEF TypeOK
  <2>7. /\ state = "Active" => bonding = "Bonded"
        /\ bonding = "Bonded" => state = "Active"
        /\ bonding = "Unbonding" => unbondsAt >= lastActive + UnbondingDelay
        /\ bonding = "Unbonded" =>
             state = "Tombstoned" \/ EpochStart >= lastActive + UnbondingDelay
    BY DEF Bond
  <2>8. /\ new = "Active" => m.bonding = "Bonded"
        /\ m.bonding = "Bonded" => new = "Active"
    BY <2>3, <2>5, <2>7
  <2>9. /\ m.bonding = "Unbonding" => m.at >= lastActive + UnbondingDelay
        /\ m.bonding = "Unbonded" =>
             new = "Tombstoned" \/ EpochStart >= lastActive + UnbondingDelay
    BY <2>4, <2>5, <2>7
  <2>10. m.bonding \in {"Bonded", "Unbonding", "Unbonded"} /\ m.at \in Nat
    BY <2>5, <2>6, <1>0
  <2> QED BY <2>8, <2>9, <2>10 DEF m
<1> QED BY <1>1, <1>2, <1>3

\* A move in the course of a block.
LEMMA MoveKeeps ==
  ASSUME TypeOK, Clock, Bond, Announced, NEW new \in States, MoveTo(new),
         starts' = starts, lastActive' = lastActive,
         new = "Active" => state = "Active", state = "Tombstoned" => new = "Tombstoned",
         new = "Jailed" => state \in {"Active", "Jailed"},
         late' <=> (late \/ (new = "Tombstoned" /\ state # new /\ ~ indexed))
  PROVE  /\ state' \in States /\ bonding' \in {"Bonded", "Unbonding", "Unbonded"}
         /\ unbondsAt' \in Nat /\ indexed' \in BOOLEAN
         /\ penalty' \in [0 .. MaxHeight -> 0 .. Scale]
         /\ \A e \in 0 .. MaxHeight : e # Epoch => penalty'[e] = penalty[e]
         /\ Bond' /\ Announced'
<1> DEFINE m == Moved(bonding, unbondsAt, state, new)
<1>1. /\ state' = new /\ bonding' = m.bonding /\ unbondsAt' = m.at
      /\ penalty' = Penalized(new)
      /\ indexed' <=> (indexed \/ (new = "Inactive" /\ state # "Inactive"))
  <2>1. /\ state' = new /\ bonding' = m.bonding /\ unbondsAt' = m.at
        /\ penalty' = Penalized(new)
    BY DEF MoveTo
  <2>2. indexed' = (indexed \/ (new = "Inactive" /\ state # "Inactive"))
    BY DEF MoveTo
  <2> QED BY <2>1, <2>2, Zenon
<1>2. LET mm == Moved(bonding, unbondsAt, state, new) IN
      /\ mm.bonding \in {"Bonded", "Unbonding", "Unbonded"}
      /\ mm.at \in Nat
      /\ new = "Active" => mm.bonding = "Bonded"
      /\ mm.bonding = "Bonded" => new = "Active"
      /\ mm.bonding = "Unbonding" => mm.at >= lastActive + UnbondingDelay
      /\ mm.bonding = "Unbonded" =>
           new = "Tombstoned" \/ EpochStart >= lastActive + UnbondingDelay
  BY MovedBond
<1>3. indexed' \in BOOLEAN
  BY <1>1 DEF MoveTo
<1>4. Epoch \in 0 .. MaxHeight /\ Epoch' = Epoch /\ EpochStart' = EpochStart
  BY EpochType, SameEpoch
<1>5. CASE new \in DOMAIN Kept /\ state # new
  <2>1. penalty' = [penalty EXCEPT ![Epoch] = Compound(penalty[Epoch], Kept[new])]
    BY <1>1, <1>5 DEF Penalized
  <2>2. penalty[Epoch] \in 0 .. Scale /\ Kept[new] \in 0 .. Scale
    BY <1>4, <1>5, ParameterAssumption DEF TypeOK
  <2>3. Compound(penalty[Epoch], Kept[new]) \in 0 .. Scale
    BY <2>2, CompoundBound
  <2>4. penalty' \in [0 .. MaxHeight -> 0 .. Scale]
    BY <2>1, <2>3 DEF TypeOK
  <2>5. \A e \in 0 .. MaxHeight : e # Epoch => penalty'[e] = penalty[e]
    BY <2>1 DEF TypeOK
  <2>6. indexed' \/ late'
    <3>1. new \in {"Jailed", "Tombstoned"}
      BY <1>5, ParameterAssumption
    <3>2. state = "Active" => indexed
      BY DEF Bond
    <3> QED BY <1>1, <1>5, <3>1, <3>2
  <2>7. Announced'
    <3>1. ASSUME NEW e \in 0 .. MaxHeight, e > Epoch PROVE penalty'[e] = Scale
      <4>1. e # Epoch /\ penalty[e] = Scale
        <5>1. Epoch \in Nat
          BY <1>4, ParameterAssumption
        <5> HIDE DEF Epoch
        <5> QED BY <3>1, <5>1 DEF Announced
      <4> QED BY <2>5, <4>1
    <3> QED BY <2>6, <3>1, <1>4 DEF Announced
  <2>8. Bond'
    <3>1. state = "Active" => lastActive = EpochStart /\ indexed
      BY DEF Bond
    <3>2. lastActive <= EpochStart
      BY DEF Bond
    <3> HIDE DEF m
    <3> QED BY <1>1, <1>2, <1>4, <3>1, <3>2 DEF Bond, m
  <2> QED BY <1>1, <1>2, <1>3, <2>4, <2>5, <2>7, <2>8
<1>6. CASE ~ (new \in DOMAIN Kept /\ state # new)
  <2>1. penalty' = penalty
    BY <1>1, <1>6 DEF Penalized
  <2>2. Announced'
    <3>1. (indexed => indexed') /\ (late => late')
      BY <1>1
    <3> QED BY <2>1, <3>1, <1>4 DEF Announced
  <2>8. Bond'
    <3>1. state = "Active" => lastActive = EpochStart /\ indexed
      BY DEF Bond
    <3>2. lastActive <= EpochStart
      BY DEF Bond
    <3> HIDE DEF m
    <3> QED BY <1>1, <1>2, <1>4, <3>1, <3>2 DEF Bond, m
  <2> QED BY <1>1, <1>2, <1>3, <2>1, <2>2, <2>8 DEF TypeOK
<1> QED BY <1>5, <1>6

\* Within an epoch neither the rate nor the penalties that made it change.
LEMMA RateStays ==
  ASSUME TypeOK, Clock, SlashReachesRate, starts' = starts, rate' = rate,
         rewarded' = rewarded, late => late',
         \A e \in 0 .. MaxHeight : e # Epoch => penalty'[e] = penalty[e]
  PROVE  SlashReachesRate'
<1>1. Epoch \in Nat /\ Epoch \in 0 .. MaxHeight /\ Epoch' = Epoch /\ MaxHeight \in Nat
  BY EpochType, SameEpoch, ParameterAssumption
<1>2. CompoundedPenalty(0, Epoch) = KeptFrom(penalty, 0)[Epoch]
  BY <1>1, CompoundedPenaltyDef
<1>3. CompoundedPenalty(0, Epoch)' = KeptFrom(penalty', 0)[Epoch]
  BY <1>1 DEF CompoundedPenalty, KeptFrom, Kept1
<1>4. KeptFrom(penalty, 0)[Epoch] = KeptFrom(penalty', 0)[Epoch]
  <2> HIDE DEF Epoch
  <2>1. ASSUME NEW e \in 0 .. (Epoch - 1) PROVE penalty[e] = penalty'[e]
    BY <1>1
  <2> QED BY <1>1, <2>1, KeptFromSame
<1> QED BY <1>2, <1>3, <1>4 DEF SlashReachesRate

\* Evidence and downtime at the start of a block keep the invariant.
LEMMA BeginBlockKeeps ==
  ASSUME IInv, NEW new \in {state, "Jailed", "Tombstoned"}, BeginBlock(new)
  PROVE  IInv'
<1>0. /\ TypeOK /\ Clock /\ Bond /\ Queued /\ Announced /\ SlashReachesRate
      /\ new \in States
  BY DEF IInv, TypeOK, States
<1>1. /\ phase = "begin" /\ height < MaxHeight /\ MoveTo(new)
      /\ height' = height + 1 /\ phase' = "deliver"
      /\ UNCHANGED <<rate, pool, queue, tokens, starts, lastActive, rewarded>>
      /\ new = state \/ (new = "Jailed" /\ state = "Active") \/ new = "Tombstoned"
  BY DEF BeginBlock
<1>2. /\ late' <=> (late \/ (new = "Tombstoned" /\ state # new /\ ~ indexed))
      /\ late' \in BOOLEAN /\ endEpochEarly' \in BOOLEAN
  <2>1. /\ late' = (late \/ (new = "Tombstoned" /\ state # new /\ ~ indexed))
        /\ endEpochEarly' = (state = "Active" /\ new # "Active")
    BY DEF BeginBlock
  <2> QED BY <2>1, Zenon
<1>3. /\ new = "Active" => state = "Active"
      /\ state = "Tombstoned" => new = "Tombstoned"
      /\ new = "Jailed" => state \in {"Active", "Jailed"}
  BY <1>1
<1>4. /\ state' \in States /\ bonding' \in {"Bonded", "Unbonding", "Unbonded"}
      /\ unbondsAt' \in Nat /\ indexed' \in BOOLEAN
      /\ penalty' \in [0 .. MaxHeight -> 0 .. Scale]
      /\ \A e \in 0 .. MaxHeight : e # Epoch => penalty'[e] = penalty[e]
      /\ Bond' /\ Announced'
  BY <1>0, <1>1, <1>2, <1>3, MoveKeeps
<1>5. TypeOK'
  <2>1. height' \in Heights
    BY <1>0, <1>1, ParameterAssumption DEF TypeOK, Heights
  <2> QED BY <1>0, <1>1, <1>2, <1>4, <2>1 DEF TypeOK, queue, tokens, States, Heights
<1>6. Clock'
  <2>1. Epoch' = Epoch /\ EpochStart' = EpochStart /\ Epoch \in Nat /\ EpochStart \in Nat
    BY <1>0, <1>1, SameEpoch, EpochType
  <2>2. height \in Nat
    BY <1>0, ParameterAssumption DEF TypeOK, Heights
  <2>3. Len(starts') > 0 /\ starts'[1] = 0 /\ Epoch <= height /\ EpochStart <= height + 1
    BY <1>0, <1>1 DEF Clock
  <2> HIDE DEF Epoch, EpochStart
  <2> QED BY <1>1, <2>1, <2>2, <2>3 DEF Clock
<1>7. Queued'
  BY <1>0, <1>1 DEF Queued, queue
<1>8. SlashReachesRate'
  BY <1>0, <1>1, <1>2, <1>4, RateStays
<1> QED BY <1>4, <1>5, <1>6, <1>7, <1>8 DEF IInv

\* So does an uploaded definition.
LEMMA RedefineKeeps ==
  ASSUME IInv, NEW new \in {"Disabled", "Defined", "Inactive"}, Redefine(new)
  PROVE  IInv'
<1>0. /\ TypeOK /\ Clock /\ Bond /\ Queued /\ Announced /\ SlashReachesRate
      /\ new \in States
  BY DEF IInv, States
<1>1. /\ phase = "deliver" /\ MoveTo(new)
      /\ UNCHANGED <<rate, pool, queue, tokens, height, starts, phase, lastActive,
                     rewarded, late>>
      /\ state # "Tombstoned"
  BY DEF Redefine
<1>2. /\ late' <=> (late \/ (new = "Tombstoned" /\ state # new /\ ~ indexed))
      /\ late' \in BOOLEAN /\ endEpochEarly' \in BOOLEAN
  <2>1. late' = late /\ late \in BOOLEAN
    BY <1>0, <1>1 DEF TypeOK
  <2>2. endEpochEarly' = (endEpochEarly \/ state = "Active")
    BY DEF Redefine
  <2> QED BY <2>1, <2>2, Zenon
<1>4. /\ state' \in States /\ bonding' \in {"Bonded", "Unbonding", "Unbonded"}
      /\ unbondsAt' \in Nat /\ indexed' \in BOOLEAN
      /\ penalty' \in [0 .. MaxHeight -> 0 .. Scale]
      /\ \A e \in 0 .. MaxHeight : e # Epoch => penalty'[e] = penalty[e]
      /\ Bond' /\ Announced'
  BY <1>0, <1>1, <1>2, MoveKeeps
<1>5. TypeOK'
  BY <1>0, <1>1, <1>2, <1>4 DEF TypeOK, queue, tokens, States, Heights
<1>6. Clock'
  <2>1. Epoch' = Epoch /\ EpochStart' = EpochStart
    BY <1>1, SameEpoch
  <2> QED BY <1>0, <1>1, <2>1 DEF Clock
<1>7. Queued'
  BY <1>0, <1>1 DEF Queued, queue
<1>8. SlashReachesRate'
  BY <1>0, <1>1, <1>4, RateStays
<1> QED BY <1>4, <1>5, <1>6, <1>7, <1>8 DEF IInv

\* A transaction touches neither the validator nor the clock.
LEMMA TransactionKeeps ==
  ASSUME IInv, UNCHANGED <<lifecycle, rate, penalty, chain>>
  PROVE  Clock' /\ Bond' /\ Announced' /\ SlashReachesRate'
<1>1. /\ TypeOK /\ Clock /\ Bond /\ Announced /\ SlashReachesRate
      /\ starts' = starts /\ height' = height /\ phase' = phase
      /\ state' = state /\ bonding' = bonding /\ unbondsAt' = unbondsAt
      /\ indexed' = indexed /\ lastActive' = lastActive /\ rewarded' = rewarded
      /\ late' = late /\ rate' = rate /\ penalty' = penalty
  BY DEF IInv, lifecycle, chain
<1>2. Epoch' = Epoch /\ EpochStart' = EpochStart
  BY <1>1, SameEpoch
<1>3. Clock'
  BY <1>1, <1>2 DEF Clock
<1>4. Bond'
  BY <1>1, <1>2 DEF Bond
<1>5. Announced'
  BY <1>1, <1>2 DEF Announced
<1>6. SlashReachesRate'
  BY <1>1, RateStays
<1> QED BY <1>3, <1>4, <1>5, <1>6

\* The delegation tokens that an amount buys are worth no more than it.
LEMMA DelegationAmountType ==
  ASSUME TypeOK, NEW x \in Nat
  PROVE  DelegationAmount(x) \in Nat /\ DelegationAmount(x) * rate <= x * Scale
<1>1. rate \in Nat /\ Scale \in Nat /\ x * Scale \in Nat
  BY ParameterAssumption DEF TypeOK
<1>2. CASE rate = 0
  BY <1>1, <1>2 DEF DelegationAmount
<1>3. CASE rate # 0
  <2>1. DelegationAmount(x) = (x * Scale) \div rate
    BY <1>3 DEF DelegationAmount
  <2>2. PICK q \in Nat : q = (x * Scale) \div rate /\ rate * q <= x * Scale
    BY <1>1, <1>3, DivBounds
  <2> QED BY <1>1, <2>1, <2>2
<1> QED BY <1>2, <1>3

\* A delegation keeps the invariant.
LEMMA DelegateKeeps ==
  ASSUME IInv, NEW x \in Stakes, Delegate(x)
  PROVE  IInv'
<1>1. UNCHANGED <<lifecycle, rate, penalty, chain>>
  BY DEF Delegate
<1>2. TypeOK'
  <2>1. x \in Nat /\ TypeOK
    BY ParameterAssumption DEF IInv
  <2>2. DelegationAmount(x) \in Nat
    BY <2>1, DelegationAmountType
  <2>3. held' \in Nat /\ delegations' \in Nat /\ staked' \in Nat /\ touched' \in BOOLEAN
    BY <2>1, <2>2 DEF TypeOK, Delegate
  <2>4. UNCHANGED <<lifecycle, rate, pool, undelegations, penalty, unbonding,
                    claimed, chain>>
    BY DEF Delegate
  <2> QED BY <2>1, <2>3, <2>4 DEF TypeOK, lifecycle, chain
<1>3. Queued'
  BY DEF Queued, Delegate
<1> QED BY <1>1, <1>2, <1>3, TransactionKeeps DEF IInv

\* The staking tokens of an undelegation are a natural.
LEMMA UnbondedAmountType ==
  ASSUME TypeOK, NEW n \in Nat
  PROVE  UnbondedAmount(n) \in Nat
<1>1. n * rate \in Nat /\ Scale \in Nat /\ Scale > 0
  BY ParameterAssumption DEF TypeOK
<1> QED BY <1>1, DivBounds DEF UnbondedAmount

\* An undelegation keeps the invariant.
LEMMA UndelegateKeeps ==
  ASSUME IInv, NEW n \in 1 .. held, Undelegate(n)
  PROVE  IInv'
<1>1. UNCHANGED <<lifecycle, rate, penalty, chain>>
  BY DEF Undelegate
<1>2. TypeOK'
  <2>1. TypeOK /\ Clock /\ n \in Nat /\ held \in Nat /\ n <= held
    BY DEF IInv, TypeOK
  <2>2. UnbondedAmount(n) \in Nat
    BY <2>1, UnbondedAmountType
  <2>3. unbonding' = [unbonding EXCEPT ![EpochStart] = unbonding[EpochStart] + UnbondedAmount(n)]
    BY DEF Undelegate
  <2>4. EpochStart \in 0 .. MaxHeight + 1
    BY <2>1, EpochType
  <2>5. unbonding' \in [0 .. MaxHeight + 1 -> Nat]
    BY <2>1, <2>2, <2>3, <2>4 DEF TypeOK
  <2>6. held' \in Nat /\ undelegations' \in Nat /\ touched' \in BOOLEAN
    BY <2>1 DEF TypeOK, Undelegate
  <2>7. UNCHANGED <<lifecycle, rate, pool, delegations, penalty, staked, claimed,
                    chain>>
    BY DEF Undelegate
  <2> QED BY <2>1, <2>5, <2>6, <2>7 DEF TypeOK, lifecycle, chain
<1>3. Queued'
  BY DEF Queued, Undelegate
<1> QED BY <1>1, <1>2, <1>3, TransactionKeeps DEF IInv

\* An epoch of a height is one of those so far.
LEMMA EpochOfType ==
  ASSUME TypeOK, Clock, NEW h \in Nat
  PROVE  EpochOf(h) \in 0 .. Epoch /\ EpochOf(h) \in Nat
<1> DEFINE S == {i \in DOMAIN starts : starts[i] <= h}
<1>1. Len(starts) \in Nat /\ Len(starts) > 0 /\ DOMAIN starts = 1 .. Len(starts)
  BY DEF TypeOK, Clock
<1>2. IsFiniteSet(1 .. Len(starts)) /\ Cardinality(1 .. Len(starts)) = Len(starts)
  BY <1>1, FS_Interval
<1>3. S \subseteq 1 .. Len(starts)
  BY <1>1
<1>4. /\ IsFiniteSet(S) /\ Cardinality(S) <= Len(starts)
      /\ Cardinality(S) \in Nat
  <2> HIDE DEF S
  <2> QED BY <1>2, <1>3, FS_Subset, FS_CardinalityType
<1>5. Cardinality(S) # 0
  <2>1. 1 \in S
    BY <1>1 DEF Clock
  <2> HIDE DEF S
  <2> QED BY <2>1, <1>4, FS_EmptySet
<1> HIDE DEF S
<1>6. Cardinality(S) - 1 \in 0 .. (Len(starts) - 1) /\ Cardinality(S) - 1 \in Nat
  BY <1>1, <1>4, <1>5
<1> QED BY <1>6 DEF EpochOf, Epoch, S

\* The height up to which a claim answers is a natural.
LEMMA ClaimHeightType ==
  ASSUME TypeOK, NEW s \in Heights
  PROVE  ClaimHeight(s) \in Nat
<1>1. /\ s \in Nat /\ UnbondingDelay \in Nat /\ unbondsAt \in Nat /\ height \in Nat
  BY ParameterAssumption DEF TypeOK, Heights
<1>2. UnbondingHeight(bonding, unbondsAt, s) \in Nat \cup {NoHeight}
  BY <1>1 DEF UnbondingHeight
<1> QED BY <1>1, <1>2 DEF ClaimHeight

\* The penalty of a claim is between 0 and 1.
LEMMA ClaimPenaltyType ==
  ASSUME TypeOK, Clock, NEW s \in Heights
  PROVE  ClaimPenalty(s) \in 0 .. Scale
<1>1. s \in Nat /\ ClaimHeight(s) \in Nat /\ MaxHeight \in Nat
  BY ClaimHeightType, ParameterAssumption DEF Heights
<1>2. PICK from \in Nat : from = EpochOf(s)
  BY <1>1, EpochOfType
<1>3. PICK to \in Nat : to = EpochOf(ClaimHeight(s)) /\ to <= Epoch
  BY <1>1, EpochOfType
<1>4. Epoch \in 0 .. MaxHeight
  BY EpochType
<1>5. ASSUME NEW e \in 0 .. (to - 1) PROVE penalty[e] \in 0 .. Scale
  <2>1. e \in 0 .. MaxHeight
    <3> HIDE DEF Epoch
    <3> QED BY <1>1, <1>3, <1>4
  <2> QED BY <2>1 DEF TypeOK
<1>6. KeptFrom(penalty, from)[to] \in 0 .. Scale
  BY <1>5, KeptFromType
<1> QED BY <1>2, <1>3, <1>6, CompoundedPenaltyDef DEF ClaimPenalty

\* A claim keeps the invariant and pays no more than was unbonding.
LEMMA UndelegateClaimKeeps ==
  ASSUME IInv, NEW s \in Heights, UndelegateClaim(s)
  PROVE  /\ IInv'
         /\ claimed' \in Nat /\ claimed' <= claimed + unbonding[s]
<1>1. UNCHANGED <<lifecycle, rate, penalty, chain>>
  BY DEF UndelegateClaim
<1>2. TypeOK /\ Clock /\ Scale \in Nat /\ Scale > 0
  BY ParameterAssumption DEF IInv
<1>3. s \in 0 .. MaxHeight + 1 /\ unbonding[s] \in Nat
  BY <1>2, ParameterAssumption DEF Heights, TypeOK
<1>4. PICK got : got = (unbonding[s] * ClaimPenalty(s)) \div Scale
  OBVIOUS
<1>5. got \in Nat /\ got <= unbonding[s]
  BY <1>2, <1>3, <1>4, ClaimPenaltyType, FractionRounds
<1>6. claimed' = claimed + got /\ claimed \in Nat
  BY <1>2, <1>4 DEF UndelegateClaim, TypeOK
<1>7. TypeOK'
  <2>1. unbonding' \in [0 .. MaxHeight + 1 -> Nat]
    BY <1>2 DEF TypeOK, UndelegateClaim
  <2>2. UNCHANGED <<lifecycle, rate, pool, queue, penalty, held, staked, chain>>
    BY DEF UndelegateClaim
  <2> QED BY <1>2, <1>5, <1>6, <2>1, <2>2 DEF TypeOK, lifecycle, chain, queue
<1>8. Queued'
  BY DEF Queued, UndelegateClaim, IInv, queue
<1> QED BY <1>1, <1>3, <1>5, <1>6, <1>7, <1>8, TransactionKeeps DEF IInv

\* The end of a block keeps the invariant.
LEMMA EndBlockKeeps ==
  ASSUME IInv, EndBlock
  PROVE  IInv'
<1>0. TypeOK /\ Clock /\ Bond /\ Queued /\ Announced /\ SlashReachesRate
  BY DEF IInv
<1>1. /\ phase = "deliver" /\ phase' = "begin"
      /\ UNCHANGED <<lifecycle, rate, pool, queue, penalty, tokens, starts, height,
                     endEpochEarly>>
  BY DEF EndBlock
<1>2. TypeOK'
  BY <1>0, <1>1 DEF TypeOK, lifecycle, queue, tokens
<1>3. Epoch' = Epoch /\ EpochStart' = EpochStart /\ Epoch \in Nat /\ EpochStart \in Nat
  BY <1>0, <1>1, SameEpoch, EpochType
<1>4. Clock'
  <2>1. height \in Nat
    BY <1>0, ParameterAssumption DEF TypeOK, Heights
  <2>2. Len(starts') > 0 /\ starts'[1] = 0 /\ Epoch < height /\ EpochStart <= height
    BY <1>0, <1>1 DEF Clock
  <2> HIDE DEF Epoch, EpochStart
  <2> QED BY <1>1, <1>3, <2>1, <2>2 DEF Clock
<1>5. Bond' /\ Queued' /\ Announced'
  BY <1>0, <1>1, <1>3 DEF Bond, Queued, Announced, lifecycle, queue
<1>6. SlashReachesRate'
  BY <1>0, <1>1, RateStays DEF lifecycle
<1> QED BY <1>2, <1>4, <1>5, <1>6 DEF IInv

-----------------------------------------------------------------------------
(* The end of an epoch                                                      *)

\* The rate after an epoch: a penalty is applied, and a reward adds to it only
\* when the validator was active.
LEMMA NextRateSlashed ==
  ASSUME TypeOK, Clock, NEW reward \in Nat
  PROVE  /\ NextRate(reward) \in Nat
         /\ ~ (state = "Active" /\ reward > 0) =>
              /\ NextRate(reward) = Compound(rate, penalty[Epoch])
              /\ NextRate(reward) <= rate
<1>1. /\ rate \in Nat /\ Scale \in Nat /\ Scale > 0 /\ penalty[Epoch] \in 0 .. Scale
  BY ParameterAssumption, EpochType, SMTT(30) DEF TypeOK
<1>2. PICK slashed : slashed = (rate * penalty[Epoch]) \div Scale
  OBVIOUS
<1>3. slashed \in Nat /\ slashed <= rate
  BY <1>1, <1>2, FractionRounds
<1>4. slashed = Compound(rate, penalty[Epoch])
  BY <1>2 DEF Compound
<1>5. (slashed * (Scale + reward)) \div Scale \in Nat
  <2>1. slashed * (Scale + reward) \in Nat
    BY <1>1, <1>3
  <2> QED BY <1>1, <2>1, DivBounds
<1>6. reward = 0 => (slashed * (Scale + reward)) \div Scale = slashed
  <2>1. reward = 0 => Scale + reward = Scale
    BY <1>1
  <2>2. (slashed * Scale) \div Scale = slashed
    BY <1>1, <1>3
  <2> QED BY <2>1, <2>2
<1>7. NextRate(reward) = IF state = "Active" THEN (slashed * (Scale + reward)) \div Scale
                                             ELSE slashed
  BY <1>2 DEF NextRate
<1> QED BY <1>3, <1>4, <1>5, <1>6, <1>7

\* What the end of an epoch does to the pool's bond.
LEMMA EndEpochBond ==
  ASSUME TypeOK, Clock, Bond, NEW power, NEW active, NEW final, NEW precursor,
         precursor = (IF Processed THEN Precursor(power) ELSE state),
         final \in {precursor, "Active", "Inactive"},
         final # precursor => precursor \in {"Active", "Inactive"}
  PROVE  LET first == Moved(bonding, unbondsAt, state, precursor)
             settled == IF Processed THEN PoolState(first) ELSE first
             last == Moved(settled.bonding, settled.at, precursor, final) IN
         /\ final \in States
         /\ last.bonding \in {"Bonded", "Unbonding", "Unbonded"}
         /\ last.at \in Nat
         /\ final = "Active" => last.bonding = "Bonded"
         /\ last.bonding = "Bonded" => final = "Active"
         /\ last.bonding = "Unbonding" => last.at >= lastActive + UnbondingDelay
         /\ last.bonding = "Unbonded" =>
              final = "Tombstoned" \/ EpochStart >= lastActive + UnbondingDelay
<1> DEFINE first == Moved(bonding, unbondsAt, state, precursor)
           settled == IF Processed THEN PoolState(first) ELSE first
           last == Moved(settled.bonding, settled.at, precursor, final)
<1>0. /\ UnbondingDelay \in Nat \ {0} /\ EpochStart \in Nat /\ lastActive \in Nat
  BY ParameterAssumption, EpochType DEF TypeOK
<1> HIDE DEF EpochStart, Processed
<1>1. /\ precursor \in States
      /\ precursor = "Active" => state = "Active"
      /\ state = "Tombstoned" <=> precursor = "Tombstoned"
      /\ state = "Active" => lastActive = EpochStart
  BY DEF Precursor, TypeOK, States, Bond
<1>2. LET m == Moved(bonding, unbondsAt, state, precursor) IN
      /\ m.bonding \in {"Bonded", "Unbonding", "Unbonded"}
      /\ m.at \in Nat
      /\ precursor = "Active" => m.bonding = "Bonded"
      /\ m.bonding = "Bonded" => precursor = "Active"
      /\ m.bonding = "Unbonding" => m.at >= lastActive + UnbondingDelay
      /\ m.bonding = "Unbonded" =>
           precursor = "Tombstoned" \/ EpochStart >= lastActive + UnbondingDelay
  BY <1>1, MovedBond
<1>3. first = [bonding |-> first.bonding, at |-> first.at]
  BY DEF Moved
<1>4. /\ first.bonding \in {"Bonded", "Unbonding", "Unbonded"}
      /\ first.at \in Nat
      /\ precursor = "Active" => first.bonding = "Bonded"
      /\ first.bonding = "Bonded" => precursor = "Active"
      /\ first.bonding = "Unbonding" => first.at >= lastActive + UnbondingDelay
      /\ first.bonding = "Unbonded" =>
           precursor = "Tombstoned" \/ EpochStart >= lastActive + UnbondingDelay
  BY <1>2
<1> HIDE DEF first
<1>5. /\ settled.at = first.at
      /\ settled.bonding \in {"Bonded", "Unbonding", "Unbonded"}
      /\ precursor = "Active" => settled.bonding = "Bonded"
      /\ settled.bonding = "Bonded" => precursor = "Active"
      /\ settled.bonding = "Unbonding" => first.bonding = "Unbonding"
      /\ settled.bonding = "Unbonded" =>
           precursor = "Tombstoned" \/ EpochStart >= lastActive + UnbondingDelay
  <2>1. CASE settled = first
    BY <1>4, <2>1
  <2>2. CASE settled # first
    <3>1. /\ settled = [first EXCEPT !.bonding = "Unbonded"]
          /\ \/ UnbondingHeight(first.bonding, first.at, EpochStart) = NoHeight
             \/ EpochStart >= UnbondingHeight(first.bonding, first.at, EpochStart)
      BY <2>2 DEF PoolState
    <3>2. settled.at = first.at /\ settled.bonding = "Unbonded"
      BY <3>1, <1>3
    <3>3. first.bonding # "Bonded"
      BY <3>1, <1>0, <1>4 DEF UnbondingHeight, NoHeight
    <3>4. first.bonding = "Unbonding" => EpochStart >= first.at
      BY <3>1, <1>0, <1>4 DEF UnbondingHeight, NoHeight
    <3>5. first.bonding = "Unbonding" => EpochStart >= lastActive + UnbondingDelay
      BY <3>4, <1>0, <1>4
    <3> QED BY <3>2, <3>3, <3>5, <1>4
  <2> QED BY <2>1, <2>2
<1> HIDE DEF settled
<1>6. final \in States
  BY <1>1 DEF States
<1>7. CASE precursor = "Active" /\ final = "Inactive"
  <2>1. last = [bonding |-> "Unbonding", at |-> EpochStart + UnbondingDelay]
    BY <1>5, <1>7 DEF Moved, UnbondingHeight
  <2> HIDE DEF last
  <2>2. /\ last.bonding = "Unbonding" /\ last.at \in Nat
        /\ last.at >= lastActive + UnbondingDelay
    BY <1>0, <1>1, <1>7, <2>1
  <2> QED BY <1>6, <1>7, <2>2 DEF last, settled, first
<1>8. CASE precursor = "Inactive" /\ final = "Active"
  <2>1. last = [bonding |-> "Bonded", at |-> settled.at]
    BY <1>8 DEF Moved
  <2> HIDE DEF last
  <2>2. last.bonding = "Bonded" /\ last.at \in Nat
    BY <1>4, <1>5, <2>1
  <2> QED BY <1>6, <1>8, <2>2 DEF last, settled, first
<1>9. CASE final = precursor
  <2>1. last = [bonding |-> settled.bonding, at |-> settled.at]
    BY <1>9 DEF Moved
  <2> HIDE DEF last
  <2>2. last.bonding = settled.bonding /\ last.at = first.at
    BY <1>5, <2>1
  <2>3. last.bonding = "Unbonding" => last.at >= lastActive + UnbondingDelay
    BY <1>4, <1>5, <2>2
  <2>4. last.bonding = "Unbonded" =>
              final = "Tombstoned" \/ EpochStart >= lastActive + UnbondingDelay
    BY <1>5, <1>9, <2>2
  <2>5. /\ last.bonding \in {"Bonded", "Unbonding", "Unbonded"} /\ last.at \in Nat
        /\ final = "Active" => last.bonding = "Bonded"
        /\ last.bonding = "Bonded" => final = "Active"
    BY <1>4, <1>5, <1>9, <2>2
  <2> QED BY <1>6, <2>3, <2>4, <2>5 DEF last, settled, first
<1> QED BY <1>7, <1>8, <1>9

\* The rate at the end of an epoch has taken the penalty of the epoch.
LEMMA EndEpochRate ==
  ASSUME IInv, NEW reward \in Nat,
         rate' = IF Processed THEN NextRate(reward) ELSE rate,
         starts' = Append(starts, height + 1), penalty' = penalty, late' = late,
         rewarded' <=> (rewarded \/ (state = "Active" /\ reward > 0))
  PROVE  SlashReachesRate'
<1>0. TypeOK /\ Clock /\ Announced /\ SlashReachesRate
  BY DEF IInv
<1>1. SUFFICES ASSUME ~ rewarded', ~ late
               PROVE  rate' = CompoundedPenalty(0, Epoch)'
  BY DEF SlashReachesRate
<1>2. /\ Epoch \in Nat /\ Epoch \in 0 .. MaxHeight /\ rate \in Nat
      /\ Scale \in Nat /\ Scale > 0 /\ penalty[Epoch] \in 0 .. Scale
  BY <1>0, EpochType, ParameterAssumption DEF TypeOK
<1>3. Epoch' = Epoch + 1
  <2>1. starts \in Seq(Nat) /\ height \in Nat
    BY <1>0, ParameterAssumption DEF TypeOK, Heights
  <2> QED BY <2>1 DEF Epoch
<1>4. rate = KeptFrom(penalty, 0)[Epoch]
  BY <1>0, <1>1, <1>2, CompoundedPenaltyDef DEF SlashReachesRate
<1>5. CompoundedPenalty(0, Epoch)' = KeptFrom(penalty, 0)[Epoch + 1]
  BY <1>3 DEF CompoundedPenalty, KeptFrom, Kept1
<1>6. KeptFrom(penalty, 0)[Epoch + 1] = Compound(rate, penalty[Epoch])
  <2> HIDE DEF Epoch
  <2>1. Epoch + 1 \in Nat /\ ~ (Epoch + 1 <= 0) /\ (Epoch + 1) - 1 = Epoch
    BY <1>2
  <2> QED BY <1>4, <2>1, KeptFromDef DEF Kept1
<1>7. CASE Processed
  BY <1>0, <1>1, <1>5, <1>6, <1>7, NextRateSlashed
<1>8. CASE ~ Processed
  <2>1. penalty[Epoch] = Scale
    BY <1>0, <1>1, <1>8 DEF Announced, Processed
  <2>2. Compound(rate, Scale) = rate
    BY <1>2 DEF Compound
  <2> QED BY <1>5, <1>6, <1>8, <2>1, <2>2
<1> QED BY <1>7, <1>8

\* The end of an epoch keeps it: the penalties of the epoch enter the next
\* rate.
LEMMA EndEpochKeeps ==
  ASSUME IInv, NEW reward \in RewardRates, NEW active \in BOOLEAN, NEW deposit \in Deposits,
         EndEpoch(reward, active, deposit)
  PROVE  IInv'
<1> DEFINE next == IF Processed THEN NextRate(reward) ELSE rate
           size == IF Processed THEN PoolAfter ELSE pool
           precursor == IF Processed THEN Precursor(VotingPower(next, size)) ELSE state
           first == Moved(bonding, unbondsAt, state, precursor)
           settled == IF Processed THEN PoolState(first) ELSE first
           inSet == (indexed \/ precursor = "Inactive") /\ Belongs(precursor)
           final == IF ~ inSet THEN precursor ELSE IF active THEN "Active" ELSE "Inactive"
           last == Moved(settled.bonding, settled.at, precursor, final)
<1>0. /\ TypeOK /\ Clock /\ Bond /\ Queued /\ Announced /\ SlashReachesRate
      /\ reward \in Nat /\ deposit \in Nat
  BY ParameterAssumption DEF IInv
<1>1. /\ phase = "deliver" /\ pool + delegations >= undelegations
      /\ rate' = next /\ pool' = size + deposit
      /\ held' = held + Bonded(next, deposit)
      /\ delegations' = 0 /\ undelegations' = 0 /\ touched' = FALSE
      /\ state' = final
      /\ bonding' = last.bonding /\ unbondsAt' = last.at
      /\ starts' = Append(starts, height + 1)
      /\ lastActive' = (IF final = "Active" THEN height + 1 ELSE lastActive)
      /\ endEpochEarly' = FALSE /\ phase' = "begin"
      /\ UNCHANGED <<penalty, unbonding, staked, claimed, height, late>>
  BY DEF EndEpoch
<1>2. /\ indexed' <=> inSet
      /\ rewarded' <=> (rewarded \/ (state = "Active" /\ reward > 0))
      /\ indexed' \in BOOLEAN /\ rewarded' \in BOOLEAN
  <2>1. /\ indexed' = inSet
        /\ rewarded' = (rewarded \/ (state = "Active" /\ reward > 0))
    BY DEF EndEpoch
  <2> HIDE DEF precursor
  <2> QED BY <2>1, Zenon
<1>3. next \in Nat /\ size \in Nat
  <2>1. next \in Nat
    BY <1>0, NextRateSlashed DEF TypeOK
  <2>2. size \in Nat
    <3>1. pool + delegations - undelegations \in Nat
      BY <1>0, <1>1 DEF TypeOK
    <3> QED BY <1>0, <3>1 DEF TypeOK, PoolAfter
  <2> QED BY <2>1, <2>2
<1>4. Bonded(next, deposit) \in Nat
  <2>1. Scale \in Nat /\ deposit * Scale \in Nat
    BY <1>0, ParameterAssumption
  <2> HIDE DEF next
  <2> QED BY <1>3, <2>1, DivBounds DEF Bonded
<1>5. /\ final \in {precursor, "Active", "Inactive"}
      /\ final # precursor => precursor \in {"Active", "Inactive"}
      /\ final = "Active" => inSet
  <2>1. final = "Active" => inSet \/ precursor = "Active"
    OBVIOUS
  <2>2. precursor = "Active" => inSet
    <3>1. precursor = "Active" => state = "Active"
      <4> HIDE DEF Processed
      <4> QED BY DEF Precursor
    <3>2. state = "Active" => indexed
      BY <1>0 DEF Bond
    <3> HIDE DEF precursor
    <3> QED BY <3>1, <3>2 DEF Belongs
  <2> HIDE DEF precursor
  <2> QED BY <2>1, <2>2 DEF Belongs
<1>6. PICK power : power = VotingPower(next, size)
  OBVIOUS
<1>7. LET one == Moved(bonding, unbondsAt, state, precursor)
          two == IF Processed THEN PoolState(one) ELSE one
          three == Moved(two.bonding, two.at, precursor, final) IN
      /\ final \in States
      /\ three.bonding \in {"Bonded", "Unbonding", "Unbonded"}
      /\ three.at \in Nat
      /\ final = "Active" => three.bonding = "Bonded"
      /\ three.bonding = "Bonded" => final = "Active"
      /\ three.bonding = "Unbonding" => three.at >= lastActive + UnbondingDelay
      /\ three.bonding = "Unbonded" =>
           final = "Tombstoned" \/ EpochStart >= lastActive + UnbondingDelay
  <2>1. precursor = (IF Processed THEN Precursor(power) ELSE state)
    BY <1>6
  <2> HIDE DEF precursor, final
  <2> QED BY <1>0, <1>5, <2>1, EndEpochBond
<1>8. /\ final \in States
      /\ last.bonding \in {"Bonded", "Unbonding", "Unbonded"}
      /\ last.at \in Nat
      /\ final = "Active" => last.bonding = "Bonded"
      /\ last.bonding = "Bonded" => final = "Active"
      /\ last.bonding = "Unbonding" => last.at >= lastActive + UnbondingDelay
      /\ last.bonding = "Unbonded" =>
           final = "Tombstoned" \/ EpochStart >= lastActive + UnbondingDelay
  <2> HIDE DEF precursor, final
  <2> QED BY <1>7, Zenon
<1> HIDE DEF next, size, precursor, first, settled, inSet, final, last
<1>9. height \in Nat /\ lastActive \in Nat /\ starts \in Seq(Nat)
  BY <1>0, ParameterAssumption DEF TypeOK, Heights
<1>10. TypeOK'
  <2>1. /\ state' \in States /\ bonding' \in {"Bonded", "Unbonding", "Unbonded"}
        /\ unbondsAt' \in Nat /\ rate' \in Nat /\ pool' \in Nat /\ held' \in Nat
        /\ starts' \in Seq(Nat) /\ lastActive' \in Nat
    BY <1>0, <1>1, <1>3, <1>4, <1>8, <1>9 DEF TypeOK
  <2>2. touched' \in BOOLEAN /\ endEpochEarly' \in BOOLEAN
    BY <1>1
  <2> QED BY <1>0, <1>1, <1>2, <2>1, <2>2 DEF TypeOK, States
<1>11. Epoch' = Epoch + 1 /\ EpochStart' = height + 1
  BY <1>1, <1>9 DEF Epoch, EpochStart
<1>12. Epoch \in Nat /\ EpochStart \in Nat /\ Epoch < height /\ EpochStart <= height
  BY <1>0, <1>1, EpochType DEF Clock
<1>13. Clock'
  <2>1. Len(starts') > 0 /\ starts'[1] = 0
    BY <1>0, <1>1, <1>9 DEF Clock
  <2> HIDE DEF Epoch, EpochStart
  <2> QED BY <1>1, <1>9, <1>11, <1>12, <2>1 DEF Clock
<1>14. Bond'
  <2>1. lastActive <= EpochStart /\ UnbondingDelay \in Nat
    BY <1>0, ParameterAssumption DEF Bond
  <2> HIDE DEF EpochStart
  <2>2. final = "Active" => indexed'
    BY <1>2, <1>5
  <2>3. lastActive' <= EpochStart'
    BY <1>1, <1>9, <1>11, <1>12, <2>1
  <2>4. state' = "Active" => bonding' = "Bonded" /\ lastActive' = EpochStart' /\ indexed'
    BY <1>1, <1>8, <1>11, <2>2
  <2>5. bonding' = "Bonded" => state' = "Active"
    BY <1>1, <1>8
  <2>6. bonding' # "Bonded" => lastActive' = lastActive
    BY <1>1, <1>8
  <2>7. bonding' = "Unbonding" => unbondsAt' >= lastActive' + UnbondingDelay
    BY <1>1, <1>8, <2>6
  <2>8. bonding' = "Unbonded" =>
          state' = "Tombstoned" \/ EpochStart' >= lastActive' + UnbondingDelay
    BY <1>1, <1>8, <1>9, <1>11, <1>12, <2>1, <2>6
  <2> QED BY <2>3, <2>4, <2>5, <2>7, <2>8 DEF Bond
<1>15. Queued'
  BY <1>1 DEF Queued
<1>16. Announced'
  <2> HIDE DEF Epoch
  <2>1. ASSUME NEW e \in 0 .. MaxHeight, e > Epoch' PROVE penalty'[e] = Scale
    <3>1. e > Epoch
      BY <1>11, <1>12, <2>1
    <3> QED BY <1>0, <1>1, <3>1 DEF Announced
  <2>2. penalty'[Epoch'] = Scale
    <3>1. height <= MaxHeight /\ MaxHeight \in Nat
      BY <1>0, ParameterAssumption DEF TypeOK, Heights
    <3>2. Epoch + 1 \in 0 .. MaxHeight /\ Epoch + 1 > Epoch
      BY <1>9, <1>12, <3>1
    <3> QED BY <1>0, <1>1, <1>11, <3>2 DEF Announced
  <2> QED BY <2>1, <2>2 DEF Announced
<1>17. SlashReachesRate'
  <2>1. rate' = IF Processed THEN NextRate(reward) ELSE rate
    BY <1>1 DEF next
  <2> QED BY <1>0, <1>1, <1>2, <2>1, EndEpochRate
<1> QED BY <1>10, <1>13, <1>14, <1>15, <1>16, <1>17 DEF IInv

-----------------------------------------------------------------------------
(* The theorems                                                             *)

\* Genesis satisfies the invariant.
LEMMA InitIInv == Init => IInv
<1> SUFFICES ASSUME Init PROVE IInv
  OBVIOUS
<1>1. PICK x \in Stakes :
        /\ pool = x /\ held = x /\ staked = x
        /\ state = "Active" /\ bonding = "Bonded" /\ unbondsAt = 0 /\ indexed = TRUE
        /\ rate = Scale /\ delegations = 0 /\ undelegations = 0 /\ touched = FALSE
        /\ penalty = [e \in 0 .. MaxHeight |-> Scale]
        /\ unbonding = [s \in 0 .. MaxHeight + 1 |-> 0]
        /\ starts = <<0>> /\ height = 0 /\ endEpochEarly = FALSE /\ phase = "begin"
        /\ claimed = 0 /\ lastActive = 0 /\ rewarded = FALSE /\ late = FALSE
  BY DEF Init
<1>2. /\ x \in Nat /\ Scale \in Nat /\ MaxHeight \in Nat /\ UnbondingDelay \in Nat
      /\ 0 \in 0 .. MaxHeight /\ Scale \in 0 .. Scale
  BY ParameterAssumption
<1>3. Len(starts) = 1 /\ starts[1] = 0 /\ starts \in Seq(Nat)
  BY <1>1
<1>4. Epoch = 0 /\ EpochStart = 0
  BY <1>3 DEF Epoch, EpochStart
<1>5. TypeOK
  <2>1. penalty \in [0 .. MaxHeight -> 0 .. Scale]
    BY <1>1, <1>2
  <2>2. unbonding \in [0 .. MaxHeight + 1 -> Nat]
    BY <1>1
  <2> QED BY <1>1, <1>2, <1>3, <2>1, <2>2 DEF TypeOK, Heights
<1>6. Clock
  BY <1>1, <1>3, <1>4 DEF Clock
<1>7. Bond
  BY <1>1, <1>4 DEF Bond
<1>8. Queued /\ Announced
  BY <1>1, <1>2, <1>4 DEF Queued, Announced
<1>9. SlashReachesRate
  <2>1. CompoundedPenalty(0, 0) = Scale
    BY CompoundedPenaltyDef, KeptFromDef DEF Kept1
  <2> QED BY <1>1, <1>4, <2>1 DEF SlashReachesRate
<1> QED BY <1>5, <1>6, <1>7, <1>8, <1>9 DEF IInv

\* Every step keeps the invariant.
LEMMA NextIInv == IInv /\ [Next]_vars => IInv'
<1> SUFFICES ASSUME IInv, [Next]_vars PROVE IInv'
  OBVIOUS
<1>1. CASE \E new \in {state, "Jailed", "Tombstoned"} : BeginBlock(new)
  BY <1>1, BeginBlockKeeps
<1>2. CASE \E new \in {"Disabled", "Defined", "Inactive"} : Redefine(new)
  BY <1>2, RedefineKeeps
<1>3. CASE \E x \in Stakes : Delegate(x)
  BY <1>3, DelegateKeeps
<1>4. CASE \E n \in 1 .. held : Undelegate(n)
  BY <1>4, UndelegateKeeps
<1>5. CASE \E s \in Heights : UndelegateClaim(s)
  BY <1>5, UndelegateClaimKeeps
<1>6. CASE EndBlock
  BY <1>6, EndBlockKeeps
<1>7. CASE \E reward \in RewardRates, active \in BOOLEAN, deposit \in Deposits :
             EndEpoch(reward, active, deposit)
  BY <1>7, EndEpochKeeps
<1>8. CASE UNCHANGED vars
  <2>1. UNCHANGED <<lifecycle, rate, penalty, chain, pool, queue, tokens>>
    BY <1>8 DEF vars
  <2>2. Clock' /\ Bond' /\ Announced' /\ SlashReachesRate'
    BY <2>1, TransactionKeeps
  <2>3. TypeOK' /\ Queued'
    BY <2>1 DEF IInv, TypeOK, Queued, lifecycle, chain, queue, tokens
  <2> QED BY <2>2, <2>3 DEF IInv
<1> QED BY <1>1, <1>2, <1>3, <1>4, <1>5, <1>6, <1>7, <1>8 DEF Next

\* The inductive invariant of the pool, for any parameters, rewards, penalties
\* and tournament deposits.
THEOREM Invariant == Spec => []IInv
<1>1. Init => IInv
  BY InitIInv
<1>2. IInv /\ [Next]_vars => IInv'
  BY NextIInv
<1> QED BY <1>1, <1>2, PTL DEF Spec

\* Amounts stay natural numbers and penalties fractions.
THEOREM TypeCorrect == Spec => []TypeOK
<1>1. IInv => TypeOK
  BY DEF IInv
<1> QED BY <1>1, Invariant, PTL

\* Until a reward is paid, the exchange rate is what the penalties of all past
\* epochs have left of 1: end_epoch misses none, but for a validator that is
\* tombstoned after it left the consensus set.
THEOREM PenaltiesReachRate == Spec => []SlashReachesRate
<1>1. IInv => SlashReachesRate
  BY DEF IInv
<1> QED BY <1>1, Invariant, PTL

\* Who takes unbonding tokens out has waited.
LEMMA ClaimWaits ==
  ASSUME IInv, NEW s \in Heights, ClaimAllowed(s), phase = "deliver"
  PROVE  \/ state = "Tombstoned"
         \/ height >= s + UnbondingDelay
         \/ height >= lastActive + UnbondingDelay
<1>0. /\ TypeOK /\ Clock /\ Bond
      /\ s \in Nat /\ height \in Nat /\ unbondsAt \in Nat /\ lastActive \in Nat
      /\ UnbondingDelay \in Nat /\ bonding \in {"Bonded", "Unbonding", "Unbonded"}
  BY ParameterAssumption, SMTT(30) DEF IInv, TypeOK, Heights
<1>1. s <= height /\ ClaimHeight(s) <= height
  BY DEF ClaimAllowed
<1>2. CASE bonding = "Bonded"
  BY <1>0, <1>1, <1>2 DEF ClaimHeight, UnbondingHeight, NoHeight
<1>3. CASE bonding = "Unbonding"
  <2>1. unbondsAt >= lastActive + UnbondingDelay
    BY <1>0, <1>3 DEF Bond
  <2>2. unbondsAt > s => height >= unbondsAt \/ height >= s + UnbondingDelay
    BY <1>0, <1>1, <1>3 DEF ClaimHeight, UnbondingHeight, NoHeight
  <2> QED BY <1>0, <1>1, <2>1, <2>2
<1>4. CASE bonding = "Unbonded"
  <2>1. state = "Tombstoned" \/ EpochStart >= lastActive + UnbondingDelay
    BY <1>0, <1>4 DEF Bond
  <2>2. phase = "deliver" => EpochStart <= height
    BY <1>0 DEF Clock
  <2>3. EpochStart \in Nat
    BY <1>0, EpochType
  <2> HIDE DEF EpochStart
  <2> QED BY <1>0, <2>1, <2>2, <2>3
<1> QED BY <1>0, <1>2, <1>3, <1>4

\* Stake answers for the validator's acts: UndelegateClaim pays out no unbonding
\* token before the delay has passed since its undelegation, or since the last
\* epoch in which the validator was active, unless it has been tombstoned.
THEOREM StakeHeldAccountable == Spec => HeldAccountable
<1>1. ASSUME IInv, [Next]_vars, NEW s \in Heights, unbonding'[s] < unbonding[s]
      PROVE  \/ state = "Tombstoned"
             \/ height >= s + UnbondingDelay
             \/ height >= lastActive + UnbondingDelay
  <2>0. TypeOK /\ Clock /\ s \in 0 .. MaxHeight + 1 /\ unbonding[s] \in Nat
    BY <1>1, ParameterAssumption, SMTT(30) DEF IInv, TypeOK, Heights
  <2>1. ASSUME unbonding' = unbonding PROVE FALSE
    BY <1>1, <2>0, <2>1
  <2>2. ASSUME NEW n \in 1 .. held, Undelegate(n) PROVE FALSE
    <3>0. n \in Nat
      BY <2>0 DEF TypeOK
    <3>1. UnbondedAmount(n) \in Nat /\ EpochStart \in 0 .. MaxHeight + 1
      BY <2>0, <3>0, UnbondedAmountType, EpochType
    <3>2. unbonding' = [unbonding EXCEPT ![EpochStart] = unbonding[EpochStart] + UnbondedAmount(n)]
      BY <2>2 DEF Undelegate
    <3>3. unbonding'[s] >= unbonding[s]
      BY <2>0, <3>1, <3>2 DEF TypeOK
    <3>4. unbonding'[s] \in Nat
      BY <2>0, <3>1, <3>2 DEF TypeOK
    <3> QED BY <1>1, <2>0, <3>3, <3>4
  <2>3. ASSUME NEW t \in Heights, UndelegateClaim(t)
        PROVE  t = s /\ ClaimAllowed(s) /\ phase = "deliver"
    <3>1. unbonding' = [unbonding EXCEPT ![t] = 0] /\ ClaimAllowed(t) /\ phase = "deliver"
      BY <2>3 DEF UndelegateClaim
    <3>2. t # s => unbonding'[s] = unbonding[s]
      BY <2>0, <3>1 DEF TypeOK
    <3>3. t = s
      BY <1>1, <2>0, <3>2
    <3> QED BY <3>1, <3>3
  <2>4. CASE \E t \in Heights : UndelegateClaim(t)
    BY <1>1, <2>3, <2>4, ClaimWaits
  <2>5. CASE \E n \in 1 .. held : Undelegate(n)
    BY <2>2, <2>5
  <2>6. CASE \E new \in {state, "Jailed", "Tombstoned"} : BeginBlock(new)
    BY <2>1, <2>6 DEF BeginBlock, tokens
  <2>7. CASE \E new \in {"Disabled", "Defined", "Inactive"} : Redefine(new)
    BY <2>1, <2>7 DEF Redefine, tokens
  <2>8. CASE \E x \in Stakes : Delegate(x)
    BY <2>1, <2>8 DEF Delegate
  <2>9. CASE EndBlock
    BY <2>1, <2>9 DEF EndBlock, tokens
  <2>10. CASE \E reward \in RewardRates, active \in BOOLEAN, deposit \in Deposits :
                EndEpoch(reward, active, deposit)
    BY <2>1, <2>10 DEF EndEpoch
  <2>11. CASE UNCHANGED vars
    BY <2>1, <2>11 DEF vars, tokens
  <2> QED BY <1>1, <2>4, <2>5, <2>6, <2>7, <2>8, <2>9, <2>10, <2>11 DEF Next
<1>2. IInv /\ [Next]_vars =>
        [\A s \in Heights : unbonding'[s] < unbonding[s] =>
           \/ state = "Tombstoned"
           \/ height >= s + UnbondingDelay
           \/ height >= lastActive + UnbondingDelay]_vars
  BY <1>1
<1> QED BY <1>2, Invariant, PTL DEF Spec, HeldAccountable

-----------------------------------------------------------------------------
(* Supply, without tournament deposits                                      *)

\* What the tokens in circulation are worth is a natural.
LEMMA WorthType ==
  ASSUME TypeOK
  PROVE  VotingPower(rate, held) \in Nat /\ InUnbonding \in Nat /\ claimed \in Nat
<1>1. held * rate \in Nat /\ Scale \in Nat /\ Scale > 0 /\ MaxHeight \in Nat
  BY ParameterAssumption DEF TypeOK
<1>2. VotingPower(rate, held) \in Nat
  BY <1>1, DivBounds DEF VotingPower
<1>3. IsFiniteSet(0 .. MaxHeight + 1)
  BY <1>1, FS_Interval
<1>4. InUnbonding \in Nat
  <2>1. DOMAIN unbonding = 0 .. MaxHeight + 1 /\ \A s \in 0 .. MaxHeight + 1 : unbonding[s] \in Nat
    BY DEF TypeOK
  <2> QED BY <1>3, <2>1, SumNat DEF InUnbonding, SumFunction
<1> QED BY <1>2, <1>4 DEF TypeOK

\* The sum of the unbonding tokens depends on them alone.
LEMMA UnbondingSame ==
  ASSUME unbonding' = unbonding
  PROVE  InUnbonding' = InUnbonding
BY DEF InUnbonding

\* It changes by as much as the amount of one epoch start does.
LEMMA UnbondingChanged ==
  ASSUME TypeOK, NEW s \in 0 .. MaxHeight + 1, NEW n \in Nat,
         unbonding' = [unbonding EXCEPT ![s] = n]
  PROVE  InUnbonding' = InUnbonding + n - unbonding[s]
<1>1. IsFiniteSet(0 .. MaxHeight + 1)
  BY ParameterAssumption, FS_Interval
<1>2. /\ DOMAIN unbonding = 0 .. MaxHeight + 1 /\ DOMAIN unbonding' = 0 .. MaxHeight + 1
      /\ \A t \in 0 .. MaxHeight + 1 : unbonding[t] \in Int
      /\ unbonding'[s] = n /\ n \in Int
      /\ \A t \in 0 .. MaxHeight + 1 : t # s => unbonding'[t] = unbonding[t]
  BY DEF TypeOK
<1>3. SumFunctionOnSet(unbonding', 0 .. MaxHeight + 1)
        = SumFunctionOnSet(unbonding, 0 .. MaxHeight + 1) + n - unbonding[s]
  <2>1. PICK f, g, S : f = unbonding /\ g = unbonding' /\ S = 0 .. MaxHeight + 1
    OBVIOUS
  <2>2. /\ IsFiniteSet(S) /\ \A t \in S : f[t] \in Int
        /\ s \in S /\ g[s] \in Int /\ \A t \in S : t # s => g[t] = f[t]
    BY <1>1, <1>2, <2>1
  <2>3. SumFunctionOnSet(g, S) = SumFunctionOnSet(f, S) + g[s] - f[s]
    BY <2>2, SumChange
  <2> QED BY <1>2, <2>1, <2>3
<1> QED BY <1>2, <1>3 DEF InUnbonding, SumFunction

SupplyInv == PoolMatchesSupply /\ NoFreeStake

\* Genesis has no more stake than was put in.
LEMMA SupplyInit ==
  ASSUME Init
  PROVE  SupplyInv
<1>1. PICK x \in Stakes :
        /\ pool = x /\ held = x /\ staked = x /\ rate = Scale /\ claimed = 0
        /\ delegations = 0 /\ undelegations = 0
        /\ unbonding = [s \in 0 .. MaxHeight + 1 |-> 0]
  BY DEF Init
<1>2. x \in Nat /\ Scale \in Nat /\ Scale > 0 /\ MaxHeight \in Nat
  BY ParameterAssumption
<1>3. PoolMatchesSupply
  BY <1>1, <1>2 DEF PoolMatchesSupply
<1>4. VotingPower(rate, held) = x
  BY <1>1, <1>2 DEF VotingPower
<1>5. InUnbonding = 0
  <2>1. DOMAIN unbonding = 0 .. MaxHeight + 1 /\ \A s \in 0 .. MaxHeight + 1 : unbonding[s] = 0
    BY <1>1
  <2>2. IsFiniteSet(0 .. MaxHeight + 1)
    BY <1>2, FS_Interval
  <2> QED BY <2>1, <2>2, SumZero DEF InUnbonding, SumFunction
<1> QED BY <1>1, <1>2, <1>3, <1>4, <1>5 DEF SupplyInv, NoFreeStake

\* No step makes stake, or makes the pool and the supply differ.
LEMMA SupplyNext ==
  ASSUME Deposits \subseteq {0}, IInv, SupplyInv, [Next]_vars
  PROVE  SupplyInv'
<1>0. /\ TypeOK /\ Clock /\ Queued
      /\ pool \in Nat /\ held \in Nat /\ delegations \in Nat /\ undelegations \in Nat
      /\ rate \in Nat /\ staked \in Nat /\ claimed \in Nat
      /\ Scale \in Nat /\ Scale > 0
      /\ held = pool + delegations - undelegations
      /\ VotingPower(rate, held) \in Nat /\ InUnbonding \in Nat
  BY ParameterAssumption, WorthType, SMTT(30) DEF IInv, TypeOK, SupplyInv, PoolMatchesSupply
<1>1. rewarded \/ VotingPower(rate, held) + InUnbonding + claimed <= staked
  BY DEF SupplyInv, NoFreeStake
<1>2. ASSUME UNCHANGED <<rate, pool, queue, tokens, rewarded>>
      PROVE  SupplyInv'
  <2>1. /\ rate' = rate /\ pool' = pool /\ delegations' = delegations
        /\ undelegations' = undelegations /\ held' = held /\ unbonding' = unbonding
        /\ staked' = staked /\ claimed' = claimed /\ rewarded' = rewarded
    BY <1>2 DEF queue, tokens
  <2>2. InUnbonding' = InUnbonding
    BY <2>1, UnbondingSame
  <2> QED BY <2>1, <2>2 DEF SupplyInv, PoolMatchesSupply, NoFreeStake, VotingPower
<1>3. ASSUME NEW x \in Stakes, Delegate(x)
      PROVE  SupplyInv'
  <2>1. x \in Nat
    BY ParameterAssumption
  <2>2. PICK d \in Nat : d = DelegationAmount(x) /\ d * rate <= x * Scale
    BY <1>0, <2>1, DelegationAmountType
  <2>3. /\ held' = held + d /\ delegations' = delegations + d /\ staked' = staked + x
        /\ UNCHANGED <<rate, pool, undelegations, unbonding, claimed, rewarded>>
    BY <1>3, <2>2 DEF Delegate, lifecycle
  <2>4. PoolMatchesSupply'
    BY <1>0, <2>3 DEF PoolMatchesSupply
  <2>5. VotingPower(rate, held + d) <= VotingPower(rate, held) + x
    BY <1>0, <2>1, <2>2, DelegateRounds DEF VotingPower
  <2>6. InUnbonding' = InUnbonding
    BY <2>3, UnbondingSame
  <2>7. VotingPower(rate, held + d) \in Nat
    <3>1. (held + d) * rate \in Nat
      BY <1>0
    <3> QED BY <1>0, <3>1, DivBounds DEF VotingPower
  <2>8. VotingPower(rate, held)' = VotingPower(rate, held + d)
    BY <2>3 DEF VotingPower
  <2>9. rewarded \/ VotingPower(rate, held + d) + InUnbonding + claimed <= staked + x
    BY <1>0, <1>1, <2>1, <2>5, <2>7
  <2>10. NoFreeStake'
    BY <2>3, <2>6, <2>8, <2>9 DEF NoFreeStake
  <2> QED BY <2>4, <2>10 DEF SupplyInv
<1>4. ASSUME NEW n \in 1 .. held, Undelegate(n)
      PROVE  SupplyInv'
  <2>1. n \in Nat /\ n <= held
    BY <1>0
  <2>2. PICK v \in Nat : v = UnbondedAmount(n)
    BY <1>0, <2>1, UnbondedAmountType
  <2>3. /\ held' = held - n /\ undelegations' = undelegations + n
        /\ unbonding' = [unbonding EXCEPT ![EpochStart] = unbonding[EpochStart] + v]
        /\ UNCHANGED <<rate, pool, delegations, staked, claimed, rewarded>>
    BY <1>4, <2>2 DEF Undelegate, lifecycle
  <2>4. PoolMatchesSupply'
    BY <1>0, <2>1, <2>3 DEF PoolMatchesSupply
  <2>5. VotingPower(rate, held - n) + v <= VotingPower(rate, held)
    BY <1>0, <2>1, <2>2, UndelegateRounds DEF VotingPower, UnbondedAmount
  <2>6. InUnbonding' = InUnbonding + v
    <3>1. EpochStart \in 0 .. MaxHeight + 1
      BY <1>0, EpochType
    <3>2. unbonding[EpochStart] \in Nat
      BY <1>0, <3>1 DEF TypeOK
    <3>3. PICK w \in Nat : w = unbonding[EpochStart] + v
      BY <3>2
    <3>4. InUnbonding' = InUnbonding + w - unbonding[EpochStart]
      BY <1>0, <2>3, <3>1, <3>3, UnbondingChanged
    <3> QED BY <1>0, <3>2, <3>3, <3>4
  <2>7. VotingPower(rate, held - n) \in Nat
    <3>1. (held - n) * rate \in Nat
      BY <1>0, <2>1
    <3> QED BY <1>0, <3>1, DivBounds DEF VotingPower
  <2>8. VotingPower(rate, held)' = VotingPower(rate, held - n)
    BY <2>3 DEF VotingPower
  <2>9. rewarded \/ VotingPower(rate, held - n) + (InUnbonding + v) + claimed <= staked
    BY <1>0, <1>1, <2>5, <2>7
  <2>10. NoFreeStake'
    BY <2>3, <2>6, <2>8, <2>9 DEF NoFreeStake
  <2> QED BY <2>4, <2>10 DEF SupplyInv
<1>5. ASSUME NEW s \in Heights, UndelegateClaim(s)
      PROVE  SupplyInv'
  <2>1. s \in 0 .. MaxHeight + 1 /\ unbonding[s] \in Nat
    BY <1>0, ParameterAssumption DEF Heights, TypeOK
  <2>2. claimed' \in Nat /\ claimed' <= claimed + unbonding[s]
    BY <1>5, UndelegateClaimKeeps
  <2>3. /\ unbonding' = [unbonding EXCEPT ![s] = 0]
        /\ UNCHANGED <<rate, pool, delegations, undelegations, held, staked, rewarded>>
    BY <1>5 DEF UndelegateClaim, queue, lifecycle
  <2>4. InUnbonding' = InUnbonding - unbonding[s]
    <3>1. InUnbonding' = InUnbonding + 0 - unbonding[s]
      BY <1>0, <2>1, <2>3, UnbondingChanged
    <3> QED BY <1>0, <2>1, <3>1
  <2>5. PoolMatchesSupply'
    BY <1>0, <2>3 DEF PoolMatchesSupply
  <2>6. rewarded \/ VotingPower(rate, held) + (InUnbonding - unbonding[s]) + claimed' <= staked
    BY <1>0, <1>1, <2>1, <2>2
  <2>7. VotingPower(rate, held)' = VotingPower(rate, held)
    BY <2>3 DEF VotingPower
  <2>8. NoFreeStake'
    BY <2>3, <2>4, <2>6, <2>7 DEF NoFreeStake
  <2> QED BY <2>5, <2>8 DEF SupplyInv
<1>6. ASSUME NEW reward \in RewardRates, NEW active \in BOOLEAN, NEW deposit \in Deposits,
             EndEpoch(reward, active, deposit)
      PROVE  SupplyInv'
  <2>1. deposit = 0 /\ reward \in Nat
    BY ParameterAssumption
  <2>2. PICK next \in Nat : /\ next = (IF Processed THEN NextRate(reward) ELSE rate)
                            /\ ~ (state = "Active" /\ reward > 0) => next <= rate
    BY <1>0, <2>1, NextRateSlashed
  <2>3. /\ rate' = next
        /\ pool' = (IF Processed THEN PoolAfter ELSE pool) + deposit
        /\ held' = held + Bonded(next, deposit)
        /\ delegations' = 0 /\ undelegations' = 0
        /\ rewarded' = (rewarded \/ (state = "Active" /\ reward > 0))
        /\ UNCHANGED <<unbonding, staked, claimed>>
    BY <1>6, <2>2 DEF EndEpoch
  <2>4. Bonded(next, deposit) = 0
    BY <1>0, <2>1, <2>2 DEF Bonded
  <2>5. held' = held
    BY <1>0, <2>3, <2>4
  <2>6. PoolMatchesSupply'
    <3>1. pool' = (IF Processed THEN pool + delegations - undelegations ELSE pool)
      BY <1>0, <2>1, <2>3 DEF PoolAfter
    <3>2. ~ Processed => delegations = 0 /\ undelegations = 0
      BY <1>0 DEF Queued, Processed
    <3>3. pool' = held
      BY <1>0, <3>1, <3>2
    <3> QED BY <1>0, <2>3, <2>5, <3>3 DEF PoolMatchesSupply
  <2>7. InUnbonding' = InUnbonding
    BY <2>3, UnbondingSame
  <2>8. next <= rate => VotingPower(next, held) <= VotingPower(rate, held)
    <3>1. SUFFICES ASSUME next <= rate
                   PROVE  (held * next) \div Scale <= (held * rate) \div Scale
      BY DEF VotingPower
    <3>2. held * next \in Nat /\ held * rate \in Nat
      BY <1>0
    <3>3. held * next <= held * rate
      BY <1>0, <3>1
    <3> QED BY <1>0, <3>2, <3>3, DivMonotone
  <2>9. VotingPower(next, held) \in Nat
    <3>1. held * next \in Nat
      BY <1>0
    <3> QED BY <1>0, <3>1, DivBounds DEF VotingPower
  <2>10. ~ rewarded' => ~ rewarded /\ next <= rate
    BY <2>2, <2>3
  <2>11. ~ rewarded' => VotingPower(next, held) + InUnbonding + claimed <= staked
    BY <1>0, <1>1, <2>8, <2>9, <2>10
  <2>12. VotingPower(rate, held)' = VotingPower(next, held)
    BY <2>3, <2>5 DEF VotingPower
  <2>13. NoFreeStake'
    BY <2>3, <2>7, <2>11, <2>12 DEF NoFreeStake
  <2> QED BY <2>6, <2>13 DEF SupplyInv
<1>7. CASE \E new \in {state, "Jailed", "Tombstoned"} : BeginBlock(new)
  BY <1>2, <1>7 DEF BeginBlock
<1>8. CASE \E new \in {"Disabled", "Defined", "Inactive"} : Redefine(new)
  BY <1>2, <1>8 DEF Redefine
<1>9. CASE EndBlock
  BY <1>2, <1>9 DEF EndBlock, lifecycle
<1>10. CASE UNCHANGED vars
  BY <1>2, <1>10 DEF vars, lifecycle
<1> QED BY <1>3, <1>4, <1>5, <1>6, <1>7, <1>8, <1>9, <1>10 DEF Next

\* Without tournament deposits the pool is the delegation tokens in circulation,
\* but for the changes that wait for the end of the epoch.
THEOREM PoolIsSupply ==
  ASSUME Deposits \subseteq {0}
  PROVE  Spec => []PoolMatchesSupply
<1>1. Init => SupplyInv
  BY SupplyInit
<1>2. IInv /\ SupplyInv /\ [Next]_vars => SupplyInv'
  BY SupplyNext
<1>3. SupplyInv => PoolMatchesSupply
  BY DEF SupplyInv
<1> QED BY <1>1, <1>2, <1>3, Invariant, PTL DEF Spec

\* Without tournament deposits, and until a reward is paid, no order of
\* delegations, undelegations, penalties and claims gets more stake out than
\* was put in, whatever the amounts: every rounding favours the pool.
THEOREM RoundingFavoursPool ==
  ASSUME Deposits \subseteq {0}
  PROVE  Spec => []NoFreeStake
<1>1. Init => SupplyInv
  BY SupplyInit
<1>2. IInv /\ SupplyInv /\ [Next]_vars => SupplyInv'
  BY SupplyNext
<1>3. SupplyInv => NoFreeStake
  BY DEF SupplyInv
<1> QED BY <1>1, <1>2, <1>3, Invariant, PTL DEF Spec

\* Without tournament deposits the subtraction that process_validator expects
\* to succeed does; with them the run MCDelegationPoolTournament shows it fail.
THEOREM NoUnderflowWithoutDeposits ==
  ASSUME Deposits \subseteq {0}
  PROVE  Spec => []PoolNeverUnderflows
<1>1. IInv /\ PoolMatchesSupply => PoolNeverUnderflows
  BY DEF IInv, TypeOK, PoolMatchesSupply, PoolNeverUnderflows
<1> QED BY <1>1, Invariant, PoolIsSupply, PTL

=============================================================================
