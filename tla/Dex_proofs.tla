----------------------------- MODULE Dex_proofs -----------------------------
(***************************************************************************)
(* Proofs about Dex.                                                       *)
(***************************************************************************)
EXTENDS Dex, SumTheorems, SequenceTheorems

PosStates == {"Absent", "Opened", "Closed", "Withdrawn"}

Position == [state : PosStates, seq : Int, r : Nat \X Nat]

OpenIn(pos) == {i \in Ids : pos[i].state = "Opened"}

-----------------------------------------------------------------------------
(* Books: the positions, and the indexes that follow from them              *)

KeysOf(pos) == UNION {InventoryKeys(i, pos[i]) : i \in OpenIn(pos)}
EntriesOf(pos) == UNION {PriceEntries(i, pos[i]) : i \in OpenIn(pos)}
CountOf(pos) == [p \in Pairs |-> Cardinality({i \in OpenIn(pos) : PairOf(i) = p})]

IndexesMatch(b) ==
  b.inventory = KeysOf(b.pos) /\ b.price = EntriesOf(b.pos) /\ b.count = CountOf(b.pos)

BookOK(b) == b.pos \in [Ids -> Position] /\ IndexesMatch(b)

\* What the indexes hold of a position.
Indexed(i, x) == x.state = "Opened"
Keys(i, x) == IF x.state = "Opened" THEN InventoryKeys(i, x) ELSE {}
Entries(i, x) == IF x.state = "Opened" THEN PriceEntries(i, x) ELSE {}

\* An index that holds the keys of every open position holds, after the keys
\* of one of them are replaced, those of the changed positions.
LEMMA ReplaceKeys ==
  ASSUME NEW pos \in [Ids -> Position], NEW i \in Ids, NEW new \in Position,
         NEW q, q = [pos EXCEPT ![i] = new]
  PROVE  (KeysOf(pos) \ InventoryKeys(i, pos[i])) \cup Keys(i, new) = KeysOf(q)
<1>2. q[i] = new /\ \A j \in Ids : j # i => q[j] = pos[j]
  OBVIOUS
<1>3. \A k, j, x, y : j # i /\ k \in InventoryKeys(j, x) => k \notin InventoryKeys(i, y)
  BY DEF InventoryKeys
<1>5. \A j \in Ids : j # i => (j \in OpenIn(q) <=> j \in OpenIn(pos))
  BY <1>2 DEF OpenIn
<1>6. ASSUME NEW k, k \in (KeysOf(pos) \ InventoryKeys(i, pos[i])) \cup Keys(i, new)
      PROVE  k \in KeysOf(q)
  <2>1. CASE k \in Keys(i, new)
    BY <1>2, <2>1 DEF OpenIn, Keys, KeysOf
  <2>2. CASE k \notin Keys(i, new)
    <3>1. PICK j \in OpenIn(pos) : k \in InventoryKeys(j, pos[j])
      BY <1>6, <2>2 DEF KeysOf
    <3>2. j # i /\ j \in Ids
      BY <1>6, <2>2, <3>1 DEF OpenIn
    <3>3. j \in OpenIn(q) /\ q[j] = pos[j]
      BY <1>2, <1>5, <3>1, <3>2
    <3> QED BY <3>1, <3>3 DEF KeysOf
  <2> QED BY <2>1, <2>2
<1>7. ASSUME NEW k, k \in KeysOf(q)
      PROVE  k \in (KeysOf(pos) \ InventoryKeys(i, pos[i])) \cup Keys(i, new)
  <2>1. PICK j \in OpenIn(q) : k \in InventoryKeys(j, q[j])
    BY <1>7 DEF KeysOf
  <2>2. CASE j = i
    BY <1>2, <2>1, <2>2 DEF OpenIn, Keys
  <2>3. CASE j # i
    <3>1. j \in Ids /\ j \in OpenIn(pos) /\ q[j] = pos[j]
      BY <1>2, <1>5, <2>1, <2>3 DEF OpenIn
    <3>2. k \in KeysOf(pos)
      BY <2>1, <3>1 DEF KeysOf
    <3>3. k \notin InventoryKeys(i, pos[i])
      BY <1>3, <2>1, <2>3
    <3> QED BY <3>2, <3>3
  <2> QED BY <2>2, <2>3
<1> QED BY <1>6, <1>7

\* The price index follows a position that is rewritten.
LEMMA ReplaceEntries ==
  ASSUME NEW pos \in [Ids -> Position], NEW i \in Ids, NEW new \in Position,
         NEW q, q = [pos EXCEPT ![i] = new]
  PROVE  {e \in EntriesOf(pos) : e.id # i} \cup Entries(i, new) = EntriesOf(q)
<1>2. q[i] = new /\ \A j \in Ids : j # i => q[j] = pos[j]
  OBVIOUS
<1>3. \A k, j, x : k \in PriceEntries(j, x) => k.id = j
  BY DEF PriceEntries
<1>5. \A j \in Ids : j # i => (j \in OpenIn(q) <=> j \in OpenIn(pos))
  BY <1>2 DEF OpenIn
<1>6. ASSUME NEW k, k \in {e \in EntriesOf(pos) : e.id # i} \cup Entries(i, new)
      PROVE  k \in EntriesOf(q)
  <2>1. CASE k \in Entries(i, new)
    BY <1>2, <2>1 DEF OpenIn, Entries, EntriesOf
  <2>2. CASE k \notin Entries(i, new)
    <3>1. PICK j \in OpenIn(pos) : k \in PriceEntries(j, pos[j])
      BY <1>6, <2>2 DEF EntriesOf
    <3>2. j # i /\ j \in Ids
      BY <1>3, <1>6, <2>2, <3>1 DEF OpenIn
    <3>3. j \in OpenIn(q) /\ q[j] = pos[j]
      BY <1>2, <1>5, <3>1, <3>2
    <3> QED BY <3>1, <3>3 DEF EntriesOf
  <2> QED BY <2>1, <2>2
<1>7. ASSUME NEW k, k \in EntriesOf(q)
      PROVE  k \in {e \in EntriesOf(pos) : e.id # i} \cup Entries(i, new)
  <2>1. PICK j \in OpenIn(q) : k \in PriceEntries(j, q[j])
    BY <1>7 DEF EntriesOf
  <2>2. CASE j = i
    BY <1>2, <2>1, <2>2 DEF OpenIn, Entries
  <2>3. CASE j # i
    <3>1. j \in Ids /\ j \in OpenIn(pos) /\ q[j] = pos[j]
      BY <1>2, <1>5, <2>1, <2>3 DEF OpenIn
    <3>2. k \in EntriesOf(pos)
      BY <2>1, <3>1 DEF EntriesOf
    <3>3. k.id # i
      BY <1>3, <2>1, <2>3
    <3> QED BY <3>2, <3>3
  <2> QED BY <2>2, <2>3
<1> QED BY <1>6, <1>7

\* The moves of a position that update_position sees.
Moves(old, new) ==
  /\ new.state = "Opened" => old.state \in {"Absent", "Opened"}
  /\ old.state = "Opened" => new.state \in {"Opened", "Closed"}

\* The number of open positions of a pair follows.
LEMMA ReplaceCount ==
  ASSUME NEW pos \in [Ids -> Position], NEW i \in Ids, NEW new \in Position,
         NEW q, q = [pos EXCEPT ![i] = new], Moves(pos[i], new)
  PROVE  [CountOf(pos) EXCEPT ![PairOf(i)] = @ + CountChange(pos[i], new)] = CountOf(q)
<1>2. q[i] = new /\ \A j \in Ids : j # i => q[j] = pos[j]
  OBVIOUS
<1> DEFINE A(p) == {j \in OpenIn(pos) : PairOf(j) = p}
           B(p) == {j \in OpenIn(q) : PairOf(j) = p}
<1>3. ASSUME NEW p \in Pairs, p # PairOf(i) PROVE A(p) = B(p)
  BY <1>2, <1>3 DEF OpenIn
<1>4. Cardinality(B(PairOf(i))) = Cardinality(A(PairOf(i))) + CountChange(pos[i], new)
  <2>0. PICK a, b : a = A(PairOf(i)) /\ b = B(PairOf(i))
    OBVIOUS
  <2>1. IsFiniteSet(a) /\ IsFiniteSet(b) /\ Cardinality(a) \in Nat /\ Cardinality(b) \in Nat
    BY <2>0, PositionAssumption, FS_Subset, FS_CardinalityType DEF OpenIn
  <2>2. CASE pos[i].state # "Opened" /\ new.state = "Opened"
    <3>1. b = a \cup {i} /\ i \notin a
      BY <1>2, <2>0, <2>2 DEF OpenIn
    <3>2. CountChange(pos[i], new) = 1
      BY <2>2 DEF Moves, CountChange
    <3>3. Cardinality(b) = Cardinality(a) + CountChange(pos[i], new)
      BY <2>1, <3>1, <3>2, FS_AddElement
    <3> QED BY <2>0, <3>3
  <2>3. CASE pos[i].state = "Opened" /\ new.state # "Opened"
    <3>1. b = a \ {i} /\ i \in a
      BY <1>2, <2>0, <2>3 DEF OpenIn
    <3>2. CountChange(pos[i], new) = -1
      BY <2>3 DEF Moves, CountChange
    <3>3. Cardinality(b) = Cardinality(a) + CountChange(pos[i], new)
      BY <2>1, <3>1, <3>2, FS_RemoveElement
    <3> QED BY <2>0, <3>3
  <2>4. CASE pos[i].state = "Opened" <=> new.state = "Opened"
    <3>1. b = a
      BY <1>2, <2>0, <2>4 DEF OpenIn
    <3>2. CountChange(pos[i], new) = 0
      BY <2>4 DEF CountChange
    <3>3. Cardinality(b) = Cardinality(a) + CountChange(pos[i], new)
      BY <2>1, <3>1, <3>2
    <3> QED BY <2>0, <3>3
  <2> QED BY <2>2, <2>3, <2>4
<1>5. PairOf(i) \in Pairs
  BY DEF Pairs
<1> HIDE DEF A, B
<1>6. [[p \in Pairs |-> Cardinality(A(p))] EXCEPT ![PairOf(i)] = @ + CountChange(pos[i], new)]
        = [p \in Pairs |-> Cardinality(B(p))]
  BY <1>3, <1>4, <1>5
<1> QED BY <1>6 DEF A, B, CountOf

\* update_position keeps the indexes exact.
LEMMA UpdateExact ==
  ASSUME NEW b, BookOK(b), NEW i \in Ids, NEW new \in Position, Moves(b.pos[i], new)
  PROVE  /\ BookOK(UpdatePosition(b, i, new))
         /\ UpdatePosition(b, i, new).pos = [b.pos EXCEPT ![i] = new]
<1>1. PICK c : c = UpdatePosition(b, i, new)
  OBVIOUS
<1>2. /\ c.pos = [b.pos EXCEPT ![i] = new]
      /\ c.inventory = (b.inventory \ InventoryKeys(i, b.pos[i])) \cup Keys(i, new)
      /\ c.count = [b.count EXCEPT ![PairOf(i)] = @ + CountChange(b.pos[i], new)]
      /\ c.price = {e \in b.price : e.id # i} \cup Entries(i, new)
  BY <1>1 DEF UpdatePosition, Keys, Entries
<1>3. b.pos \in [Ids -> Position]
  BY DEF BookOK
<1>4. c.inventory = KeysOf(c.pos)
  BY <1>2, <1>3, ReplaceKeys DEF BookOK, IndexesMatch
<1>5. c.price = EntriesOf(c.pos)
  BY <1>2, <1>3, ReplaceEntries DEF BookOK, IndexesMatch
<1>6. c.count = CountOf(c.pos)
  BY <1>2, <1>3, ReplaceCount DEF BookOK, IndexesMatch
<1>7. c.pos \in [Ids -> Position]
  BY <1>2, <1>3
<1> QED BY <1>1, <1>2, <1>4, <1>5, <1>6, <1>7 DEF BookOK, IndexesMatch

-----------------------------------------------------------------------------
(* Closing positions, and executing against them                            *)

\* What may happen to a position that is closed or executed against.
Evolves(old, new) ==
  /\ new.seq = old.seq
  /\ new.state = old.state \/ (old.state = "Opened" /\ new.state = "Closed")
  /\ old.state # "Opened" => new = old

Closed(x) == IF x.state = "Opened" THEN [x EXCEPT !.state = "Closed"] ELSE x

\* Closing changes the state of an open position and nothing else.
LEMMA ClosedType ==
  ASSUME NEW x \in Position
  PROVE  /\ Closed(x) \in Position /\ Closed(x).r = x.r /\ Closed(x).seq = x.seq
         /\ Closed(x).state = IF x.state = "Opened" THEN "Closed" ELSE x.state
BY DEF Closed, Position, PosStates

\* Closing a position.
LEMMA CloseExact ==
  ASSUME NEW b, BookOK(b), NEW i \in Ids
  PROVE  /\ BookOK(ClosePosition(b, i))
         /\ ClosePosition(b, i).pos = [b.pos EXCEPT ![i] = Closed(@)]
<1>1. b.pos[i] \in Position
  BY DEF BookOK
<1>2. CASE b.pos[i].state = "Opened"
  <2>1. PICK x : x = Closed(b.pos[i])
    OBVIOUS
  <2>2. x \in Position /\ x.state = "Closed"
    BY <1>1, <1>2, <2>1, ClosedType
  <2>3. ClosePosition(b, i) = UpdatePosition(b, i, x)
    BY <1>2, <2>1 DEF ClosePosition, Closed
  <2>4. Moves(b.pos[i], x)
    BY <1>2, <2>2 DEF Moves
  <2> QED BY <2>1, <2>2, <2>3, <2>4, UpdateExact
<1>3. CASE b.pos[i].state # "Opened"
  <2>1. ClosePosition(b, i) = b /\ Closed(b.pos[i]) = b.pos[i]
    BY <1>3 DEF ClosePosition, Closed
  <2>2. [b.pos EXCEPT ![i] = b.pos[i]] = b.pos
    BY DEF BookOK
  <2> QED BY <2>1, <2>2
<1> QED BY <1>2, <1>3

\* Executing against an open position, or writing what is there already.
LEMMA ExecutionExact ==
  ASSUME NEW b, BookOK(b), NEW i \in Ids, NEW r \in Nat \X Nat,
         b.pos[i].state = "Opened" \/ r = b.pos[i].r
  PROVE  LET c == PositionExecution(b, i, r) IN
         /\ BookOK(c)
         /\ \A j \in Ids : j # i => c.pos[j] = b.pos[j]
         /\ c.pos[i].r = r /\ Evolves(b.pos[i], c.pos[i])
<1>1. b.pos[i] \in Position
  BY DEF BookOK
<1>2. CASE r = b.pos[i].r
  BY <1>2 DEF PositionExecution, Evolves
<1>3. CASE r # b.pos[i].r
  <2>1. b.pos[i].state = "Opened"
    BY <1>3
  <2>2. PICK x : x = Executed(b.pos[i], r, Phi[i].cof)
    OBVIOUS
  <2>3. x \in Position /\ x.r = r /\ x.seq = b.pos[i].seq /\ x.state \in {"Opened", "Closed"}
    BY <1>1, <2>1, <2>2 DEF Executed, Position, PosStates
  <2>4. PositionExecution(b, i, r) = UpdatePosition(b, i, x)
    BY <1>3, <2>2 DEF PositionExecution
  <2>5. Moves(b.pos[i], x) /\ Evolves(b.pos[i], x)
    BY <2>1, <2>3 DEF Moves, Evolves
  <2>6. PICK c : c = UpdatePosition(b, i, x)
    OBVIOUS
  <2>7. BookOK(c) /\ c.pos = [b.pos EXCEPT ![i] = x]
    BY <2>3, <2>5, <2>6, UpdateExact
  <2>8. c.pos[i] = x /\ \A j \in Ids : j # i => c.pos[j] = b.pos[j]
    BY <2>7 DEF BookOK
  <2> QED BY <2>3, <2>4, <2>5, <2>6, <2>7, <2>8
<1> QED BY <1>2, <1>3

\* The fold of CloseAll over the subsets of a set.
CloseStep(b, g, T) == IF T = {} THEN b ELSE ClosePosition(g[T \ {Chosen(T)}], Chosen(T))
CloseIter(b, S) == CHOOSE g : g = [T \in SUBSET S |-> CloseStep(b, g, T)]

\* Closing a set of positions is the recursive function that closes one at a time.
LEMMA CloseAllIsIter ==
  ASSUME NEW b, NEW S
  PROVE  CloseAll(b, S) = CloseIter(b, S)[S]
BY DEF CloseAll, FoldSet, MapThenFoldSet, CloseIter, CloseStep, Chosen

\* The fold exists.
LEMMA CloseIterDef ==
  ASSUME NEW b, NEW S, IsFiniteSet(S), NEW T \in SUBSET S
  PROVE  CloseIter(b, S)[T] = CloseStep(b, CloseIter(b, S), T)
<1> DEFINE Built(n) == \E g : /\ g = [U \in SUBSET S |-> g[U]]
                              /\ \A U \in SUBSET S :
                                   Cardinality(U) <= n => g[U] = CloseStep(b, g, U)
           N == {n \in Nat : Built(n)}
<1>1. 0 \in N
  <2>1. PICK g : g = [U \in SUBSET S |-> b]
    OBVIOUS
  <2>2. ASSUME NEW U \in SUBSET S, Cardinality(U) <= 0 PROVE g[U] = CloseStep(b, g, U)
    <3>1. Cardinality(U) = 0
      BY <2>2, SubsetFinite
    <3>2. U = {}
      BY <3>1, SubsetEmpty
    <3> QED BY <2>1, <3>2 DEF CloseStep
  <2>3. g = [U \in SUBSET S |-> g[U]]
    BY <2>1
  <2> QED BY <2>2, <2>3
<1>2. ASSUME NEW n \in Nat, n \in N PROVE n + 1 \in N
  <2>1. PICK g : /\ g = [U \in SUBSET S |-> g[U]]
                 /\ \A U \in SUBSET S : Cardinality(U) <= n => g[U] = CloseStep(b, g, U)
    BY <1>2
  <2>2. PICK h : h = [U \in SUBSET S |-> IF Cardinality(U) = n + 1 THEN CloseStep(b, g, U) ELSE g[U]]
    OBVIOUS
  <2>3. ASSUME NEW U \in SUBSET S, Cardinality(U) <= n + 1 PROVE h[U] = CloseStep(b, h, U)
    <3>1. h[U] = CloseStep(b, g, U)
      <4>1. Cardinality(U) \in Nat
        BY SubsetFinite
      <4>2. CASE Cardinality(U) = n + 1
        BY <2>2, <4>2
      <4>3. CASE Cardinality(U) # n + 1
        <5>1. Cardinality(U) <= n
          BY <2>3, <4>1, <4>3
        <5> QED BY <2>1, <2>2, <4>3, <5>1
      <4> QED BY <4>2, <4>3
    <3>2. U # {} => h[U \ {Chosen(U)}] = g[U \ {Chosen(U)}]
      <4>1. SUFFICES ASSUME U # {} PROVE h[U \ {Chosen(U)}] = g[U \ {Chosen(U)}]
        OBVIOUS
      <4>2. Chosen(U) \in U
        BY <4>1 DEF Chosen
      <4>4. /\ U \ {Chosen(U)} \in SUBSET S
            /\ Cardinality(U \ {Chosen(U)}) = Cardinality(U) - 1
            /\ Cardinality(U) \in Nat
        BY <4>2, SubsetLess
      <4>3. Cardinality(U \ {Chosen(U)}) # n + 1
        BY <2>3, <4>4
      <4> QED BY <2>2, <4>4, <4>3
    <3> QED BY <3>1, <3>2 DEF CloseStep
  <2>4. h = [U \in SUBSET S |-> h[U]]
    BY <2>2
  <2>5. Built(n + 1)
    BY <2>3, <2>4
  <2> HIDE DEF Built
  <2> QED BY <2>5
<1>3. \A n \in Nat : n \in N
  <2> HIDE DEF N
  <2> QED BY <1>1, <1>2, NatSetInduction
<1>4. Cardinality(S) \in Nat
  BY FS_CardinalityType
<1>5. PICK g : /\ g = [U \in SUBSET S |-> g[U]]
               /\ \A U \in SUBSET S :
                    Cardinality(U) <= Cardinality(S) => g[U] = CloseStep(b, g, U)
  BY <1>3, <1>4
<1>6. \A U \in SUBSET S : g[U] = CloseStep(b, g, U)
  BY <1>5, FS_Subset
<1>7. g = [U \in SUBSET S |-> CloseStep(b, g, U)]
  BY <1>5, <1>6
<1>8. CloseIter(b, S) = [U \in SUBSET S |-> CloseStep(b, CloseIter(b, S), U)]
  BY <1>7 DEF CloseIter
<1> HIDE DEF CloseIter
<1> QED BY <1>8

\* Closing a set of positions closes each of them and leaves the others alone.
LEMMA CloseAllExact ==
  ASSUME NEW b, BookOK(b), NEW S \in SUBSET Ids
  PROVE  /\ BookOK(CloseAll(b, S))
         /\ \A j \in Ids : CloseAll(b, S).pos[j] = IF j \in S THEN Closed(b.pos[j]) ELSE b.pos[j]
<1> DEFINE I == CloseIter(b, S)
           Holds(T) == /\ BookOK(I[T])
                       /\ \A j \in Ids : I[T].pos[j] = IF j \in T THEN Closed(b.pos[j]) ELSE b.pos[j]
           N == {n \in Nat : \A T \in SUBSET S : Cardinality(T) = n => Holds(T)}
<1>0. IsFiniteSet(S)
  BY PositionAssumption, FS_Subset
<1>1. \A T \in SUBSET S : I[T] = CloseStep(b, I, T)
  BY <1>0, CloseIterDef
<1>2. 0 \in N
  <2>1. ASSUME NEW T \in SUBSET S, Cardinality(T) = 0 PROVE Holds(T)
    <3>1. T = {}
      BY <1>0, <2>1, SubsetEmpty
    <3>2. I[T] = b
      BY <1>1, <3>1 DEF CloseStep
    <3> QED BY <3>1, <3>2
  <2> QED BY <2>1
<1>3. ASSUME NEW n \in Nat, n \in N PROVE n + 1 \in N
  <2>1. ASSUME NEW T \in SUBSET S, Cardinality(T) = n + 1 PROVE Holds(T)
    <3>1. PICK x, R : x = Chosen(T) /\ R = T \ {x}
      OBVIOUS
    <3>2. T # {} /\ x \in T /\ R \in SUBSET S /\ Cardinality(R) = n
      BY <1>0, <2>1, <3>1, SubsetChosen
    <3>3. Holds(R)
      BY <1>3, <3>2
    <3>4. PICK c, d : c = I[R] /\ d = I[T]
      OBVIOUS
    <3>5. d = ClosePosition(c, x)
      BY <1>1, <3>1, <3>2, <3>4 DEF CloseStep
    <3>6. x \in Ids /\ BookOK(c)
      BY <3>2, <3>3, <3>4
    <3>7. BookOK(d) /\ d.pos = [c.pos EXCEPT ![x] = Closed(@)]
      BY <3>5, <3>6, CloseExact
    <3>8. x \notin R /\ T = R \cup {x}
      BY <3>1, <3>2
    <3>9. ASSUME NEW j \in Ids
          PROVE  d.pos[j] = IF j \in T THEN Closed(b.pos[j]) ELSE b.pos[j]
      <4>1. c.pos[j] = IF j \in R THEN Closed(b.pos[j]) ELSE b.pos[j]
        BY <3>3, <3>4
      <4>2. d.pos[j] = IF j = x THEN Closed(c.pos[j]) ELSE c.pos[j]
        BY <3>6, <3>7 DEF BookOK
      <4> QED BY <3>8, <4>1, <4>2
    <3> QED BY <3>4, <3>7, <3>9
  <2> QED BY <2>1
<1>4. \A n \in Nat : n \in N
  <2> HIDE DEF N
  <2> QED BY <1>2, <1>3, NatSetInduction
<1>5. Cardinality(S) \in Nat
  BY <1>0, FS_CardinalityType
<1>6. Holds(S)
  BY <1>4, <1>5
<1> QED BY <1>6, CloseAllIsIter

-----------------------------------------------------------------------------
(* Orders                                                                   *)

\* A finite set that is not empty has a first element in a total order.
LEMMA FirstExists ==
  ASSUME NEW S, IsFiniteSet(S), S # {}, NEW R,
         \A x, y \in S : x = y \/ <<x, y>> \in R \/ <<y, x>> \in R,
         \A x, y, z \in S : <<x, y>> \in R /\ <<y, z>> \in R => <<x, z>> \in R
  PROVE  \E x \in S : \A y \in S : y = x \/ <<x, y>> \in R
<1> DEFINE Holds(T) == T # {} => \E x \in T : \A y \in T : y = x \/ <<x, y>> \in R
           N == {n \in Nat : \A T \in SUBSET S : Cardinality(T) = n => Holds(T)}
<1>1. 0 \in N
  BY SubsetEmpty
<1>2. ASSUME NEW n \in Nat, n \in N PROVE n + 1 \in N
  <2>1. ASSUME NEW T \in SUBSET S, Cardinality(T) = n + 1 PROVE Holds(T)
    <3>1. PICK x, U : x = Chosen(T) /\ U = T \ {x}
      OBVIOUS
    <3>2. T # {} /\ x \in T /\ U \in SUBSET S /\ Cardinality(U) = n
      BY <2>1, <3>1, SubsetChosen
    <3>3. CASE U = {}
      BY <3>1, <3>2, <3>3
    <3>4. CASE U # {}
      <4>1. PICK u \in U : \A y \in U : y = u \/ <<u, y>> \in R
        BY <1>2, <3>2, <3>4
      <4>2. u \in S /\ x \in S /\ u # x /\ u \in T
        BY <3>1, <3>2
      <4>3. CASE <<u, x>> \in R
        BY <3>1, <4>1, <4>2, <4>3
      <4>4. CASE <<x, u>> \in R
        <5>1. ASSUME NEW y \in T, y # x PROVE <<x, y>> \in R
          <6>1. y \in U /\ y \in S
            BY <3>1, <5>1
          <6> QED BY <4>1, <4>2, <4>4, <6>1
        <5> QED BY <3>2, <5>1
      <4> QED BY <4>2, <4>3, <4>4
    <3> QED BY <3>3, <3>4
  <2> QED BY <2>1
<1>3. \A n \in Nat : n \in N
  <2> HIDE DEF N
  <2> QED BY <1>1, <1>2, NatSetInduction
<1>4. Cardinality(S) \in Nat
  BY FS_CardinalityType
<1>5. Holds(S)
  BY <1>3, <1>4
<1> QED BY <1>5

\* A positive factor can be cancelled.
LEMMA CancelLess ==
  ASSUME NEW x \in Nat, NEW y \in Nat, NEW n \in Nat, n > 0
  PROVE  /\ n * x <= n * y => x <= y
         /\ n * x < n * y => x < y
         /\ x <= y => n * x <= n * y
         /\ x < y => n * x < n * y
<1>1. ASSUME x < y PROVE n * x < n * y
  <2>1. PICK d \in Nat : y = x + d /\ d > 0
    <3>1. y - x \in Nat /\ y = x + (y - x)
      BY <1>1
    <3> QED BY <1>1, <3>1
  <2>2. n * y = n * x + n * d
    BY <2>1
  <2>3. n * d > 0 /\ n * d \in Nat /\ n * x \in Nat /\ n * y \in Nat
    BY <2>1
  <2> QED BY <2>2, <2>3
<1>2. ASSUME y < x PROVE n * y < n * x
  <2>1. PICK d \in Nat : x = y + d /\ d > 0
    <3>1. x - y \in Nat /\ x = y + (x - y)
      BY <1>2
    <3> QED BY <1>2, <3>1
  <2>2. n * x = n * y + n * d
    BY <2>1
  <2>3. n * d > 0 /\ n * d \in Nat /\ n * x \in Nat /\ n * y \in Nat
    BY <2>1
  <2> QED BY <2>2, <2>3
<1>3. n * x \in Nat /\ n * y \in Nat
  OBVIOUS
<1>4. x < y \/ y < x \/ x = y
  OBVIOUS
<1> QED BY <1>1, <1>2, <1>3, <1>4

\* Products keep the order.
LEMMA ProductLess ==
  ASSUME NEW a \in Nat, NEW b \in Nat, NEW c \in Nat, NEW d \in Nat, a <= b, c <= d
  PROVE  a * c <= b * d
<1>1. a * c <= a * d
  <2>1. CASE a = 0
    BY <2>1
  <2>2. CASE a > 0
    BY <2>2, CancelLess
  <2> QED BY <2>1, <2>2
<1>2. a * d <= b * d
  <2>1. CASE d = 0
    BY <2>1
  <2>2. CASE d > 0
    <3>1. d * a <= d * b
      BY <2>2, CancelLess
    <3> QED BY <3>1
  <2> QED BY <2>1, <2>2
<1>3. a * c \in Nat /\ a * d \in Nat /\ b * d \in Nat
  OBVIOUS
<1> QED BY <1>1, <1>2, <1>3

\* Division rounded down, by what it leaves.
LEMMA DivBounds ==
  ASSUME NEW a \in Nat, NEW s \in Nat, s > 0
  PROVE  /\ a \div s \in Nat /\ s * (a \div s) <= a /\ a < s * (a \div s) + s
OBVIOUS

\* It is the largest such number.
LEMMA DivLargest ==
  ASSUME NEW a \in Nat, NEW s \in Nat, s > 0, NEW k \in Nat, s * k <= a
  PROVE  k <= a \div s
<1>1. PICK q : q = a \div s
  OBVIOUS
<1>2. q \in Nat /\ a < s * q + s
  BY <1>1, DivBounds
<1>3. SUFFICES ASSUME k > q PROVE FALSE
  BY <1>1, <1>2
<1>4. q + 1 <= k /\ q + 1 \in Nat
  BY <1>2, <1>3
<1>5. s * (q + 1) <= s * k
  BY <1>4, CancelLess
<1>6. s * (q + 1) = s * q + s
  BY <1>2
<1>7. s * q \in Nat /\ s * k \in Nat
  BY <1>2
<1> QED BY <1>2, <1>5, <1>6, <1>7

\* Division rounded up is the least number that is enough.
LEMMA CeilBounds ==
  ASSUME NEW x \in Nat, NEW y \in Nat, y > 0
  PROVE  /\ CeilDiv(x, y) \in Nat /\ x <= y * CeilDiv(x, y)
         /\ \A k \in Nat : x <= y * k => CeilDiv(x, y) <= k
<1>1. x + y - 1 \in Nat
  OBVIOUS
<1>2. PICK q : q = (x + y - 1) \div y
  OBVIOUS
<1>3. q \in Nat /\ y * q <= x + y - 1 /\ x + y - 1 < y * q + y
  BY <1>1, <1>2, DivBounds
<1>4. y * q \in Nat
  BY <1>3
<1>5. x <= y * q
  BY <1>3, <1>4
<1>6. ASSUME NEW k \in Nat, x <= y * k PROVE q <= k
  <2>1. SUFFICES ASSUME k < q PROVE FALSE
    BY <1>3
  <2>2. k + 1 <= q /\ k + 1 \in Nat
    BY <1>3, <2>1
  <2>3. y * (k + 1) <= y * q
    BY <1>3, <2>2, CancelLess
  <2>4. y * (k + 1) = y * k + y
    OBVIOUS
  <2>5. y * k \in Nat
    OBVIOUS
  <2> QED BY <1>3, <1>4, <1>6, <2>3, <2>4, <2>5
<1> QED BY <1>2, <1>3, <1>5, <1>6 DEF CeilDiv

-----------------------------------------------------------------------------
(* Prices in fixed point                                                    *)

\* A price and the price of the other direction, both rounded down and with the
\* fee g on the side of the position, have a product of at most 1.
LEMMA Inverses ==
  ASSUME NEW one \in Nat, NEW p \in Nat, NEW q \in Nat, NEW g \in Nat,
         one > 0, p > 0, q > 0, g > 0,
         NEW u \in Nat, NEW v \in Nat, NEW s \in Nat, NEW t \in Nat,
         u * q <= p * one, v * p <= q * one, s * one <= u * g, t * g <= v * one
  PROVE  s * t <= one * one
<1>0. /\ u * q \in Nat /\ p * one \in Nat /\ v * p \in Nat /\ q * one \in Nat
      /\ s * one \in Nat /\ u * g \in Nat /\ t * g \in Nat /\ v * one \in Nat
      /\ s * t \in Nat /\ u * v \in Nat /\ one * one \in Nat
  OBVIOUS
<1>1. PICK m, n : m = one * g /\ n = p * q
  OBVIOUS
<1>2. m \in Nat /\ n \in Nat /\ m > 0 /\ n > 0
  BY <1>1
<1>3. s * t <= u * v
  <2>1. (s * one) * (t * g) <= (u * g) * (v * one)
    BY <1>0, ProductLess
  <2>2. (s * one) * (t * g) = m * (s * t) /\ (u * g) * (v * one) = m * (u * v)
    BY <1>1
  <2> QED BY <1>0, <1>2, <2>1, <2>2, CancelLess
<1>4. u * v <= one * one
  <2>1. (u * q) * (v * p) <= (p * one) * (q * one)
    BY <1>0, ProductLess
  <2>2. (u * q) * (v * p) = n * (u * v) /\ (p * one) * (q * one) = n * (one * one)
    BY <1>1
  <2> QED BY <1>0, <1>2, <2>1, <2>2, CancelLess
<1> QED BY <1>0, <1>3, <1>4

\* The coefficients of a trading function are positive in both directions.
LEMMA Coefficients ==
  ASSUME NEW i \in Ids, NEW a
  PROVE  P(i, a) \in Nat /\ P(i, a) > 0 /\ Q(i, a) \in Nat /\ Q(i, a) > 0
BY PositionAssumption DEF P, Q

\* The fee leaves a part of the price, and never more than the price.
LEMMA GammaBounds ==
  ASSUME NEW i \in Ids
  PROVE  Gamma(i) \in Nat /\ Gamma(i) > 0 /\ Gamma(i) <= One
<1>1. One \in Nat /\ One >= 2
  BY FixpointAssumption
<1>2. PICK k : k = BasisPoints - Phi[i].fee
  OBVIOUS
<1>3. k \in Nat /\ 5000 <= k /\ k <= 10000
  BY <1>2, PositionAssumption DEF BasisPoints, MaxFeeBps
<1>4. k * One \in Nat /\ 5000 * One <= k * One /\ k * One <= 10000 * One
  BY <1>1, <1>3, ProductLess
<1>5. PICK g : g = (k * One) \div 10000
  OBVIOUS
<1>6. g \in Nat /\ 10000 * g <= k * One /\ k * One < 10000 * g + 10000
  BY <1>4, <1>5, DivBounds
<1>7. g > 0 /\ g <= One
  BY <1>1, <1>4, <1>6
<1> QED BY <1>2, <1>5, <1>6, <1>7 DEF Gamma, FpDiv, BasisPoints

\* What truncation does to the prices of a position: its price for selling is
\* never above p / q, its price for buying falls short of q / p by less than the
\* last unit, and their product is at most 1.
LEMMA Prices ==
  ASSUME NEW i \in Ids, NEW a
  PROVE  LET s == EffectivePriceInv(i, a)
             t == EffectivePrice(i, a)
         IN /\ s \in Nat /\ t \in Nat
            /\ Q(i, a) * s <= One * P(i, a)
            /\ One * Q(i, a) <= P(i, a) * t + P(i, a)
            /\ s * t <= One * One
<1>1. PICK one, p, q, g : one = One /\ p = P(i, a) /\ q = Q(i, a) /\ g = Gamma(i)
  OBVIOUS
<1>2. one \in Nat /\ one > 0 /\ p \in Nat /\ p > 0 /\ q \in Nat /\ q > 0
  BY <1>1, Coefficients, FixpointAssumption
<1>3. g \in Nat /\ g > 0 /\ g <= one
  BY <1>1, GammaBounds
<1>4. PICK u, v, s, t : /\ u = (p * one) \div q /\ v = (q * one) \div p
                        /\ s = (u * g) \div one /\ t = (v * one) \div g
  OBVIOUS
<1>5. p * one \in Nat /\ q * one \in Nat
  BY <1>2
<1>6. /\ u \in Nat /\ q * u <= p * one
      /\ v \in Nat /\ p * v <= q * one /\ q * one < p * v + p
  BY <1>2, <1>4, <1>5, DivBounds
<1>7. u * g \in Nat /\ v * one \in Nat
  BY <1>2, <1>3, <1>6
<1>8. /\ s \in Nat /\ one * s <= u * g
      /\ t \in Nat /\ g * t <= v * one
  BY <1>2, <1>3, <1>4, <1>7, DivBounds
<1>9. s <= u
  <2>1. u * g <= u * one /\ u * one \in Nat
    BY <1>2, <1>3, <1>6, ProductLess
  <2>2. one * s <= one * u
    BY <1>2, <1>6, <1>7, <1>8, <2>1
  <2> QED BY <1>2, <1>6, <1>8, <2>2, CancelLess
<1>10. v <= t
  <2>1. v * g <= v * one /\ v * g = g * v
    BY <1>2, <1>3, <1>6, ProductLess
  <2> QED BY <1>2, <1>3, <1>4, <1>6, <1>7, <2>1, DivLargest
<1>11. q * s <= one * p
  <2>1. q * s <= q * u
    BY <1>2, <1>6, <1>8, <1>9, CancelLess
  <2> QED BY <1>2, <1>5, <1>6, <1>8, <2>1
<1>12. one * q <= p * t + p
  <2>1. p * v <= p * t
    BY <1>2, <1>6, <1>8, <1>10, CancelLess
  <2>2. p * v \in Nat /\ p * t \in Nat
    BY <1>2, <1>6, <1>8
  <2>3. one * q = q * one
    BY <1>2
  <2> QED BY <1>2, <1>5, <1>6, <2>1, <2>2, <2>3
<1>13. s * t <= one * one
  <2>1. /\ u * q = q * u /\ v * p = p * v /\ s * one = one * s /\ t * g = g * t
    BY <1>2, <1>3, <1>6, <1>8
  <2>2. u * q <= p * one /\ v * p <= q * one /\ s * one <= u * g /\ t * g <= v * one
    BY <1>6, <1>8, <2>1
  <2> QED BY <1>2, <1>3, <1>6, <1>8, <2>2, Inverses
<1>14. s = EffectivePriceInv(i, a) /\ t = EffectivePrice(i, a)
  BY <1>1, <1>4 DEF EffectivePriceInv, EffectivePrice, FpMul, FpDiv
<1> QED BY <1>1, <1>8, <1>11, <1>12, <1>13, <1>14

-----------------------------------------------------------------------------
(* The frontier of best positions                                           *)

HopSet == [id : Ids, dir : Nat \X Nat, rin : Nat, rout : Nat]

\* A hop uses a position in one of its directions.
HopOK(f) == f \in HopSet /\ f.dir \in Directions(f.id)

\* A hop as it is loaded from a book.
Fresh(pos, f) ==
  /\ HopOK(f) /\ pos[f.id].state = "Opened"
  /\ HopReserves(f) = pos[f.id].r /\ f.rout > 0

\* The two slots of a direction.
LEMMA Slots ==
  ASSUME NEW i \in Ids, NEW d \in Directions(i)
  PROVE  /\ d \in Nat \X Nat
         /\ \/ Slot(i, d[1]) = 1 /\ Slot(i, d[2]) = 2
            \/ Slot(i, d[1]) = 2 /\ Slot(i, d[2]) = 1
<1>3. Phi[i].a1 \in Nat /\ Phi[i].a2 \in Nat /\ Phi[i].a1 < Phi[i].a2
  BY PositionAssumption
<1>1. Phi[i].a1 \in Nat /\ Phi[i].a2 \in Nat /\ Phi[i].a1 # Phi[i].a2
  BY <1>3
<1>2. d = <<Phi[i].a1, Phi[i].a2>> \/ d = <<Phi[i].a2, Phi[i].a1>>
  BY DEF Directions, PairOf, Flip
<1> QED BY <1>1, <1>2 DEF Slot

\* The order of positions by price is total and transitive.
LEMMA CheaperOrder ==
  ASSUME NEW a, NEW i \in Ids, NEW j \in Ids
  PROVE  /\ i = j \/ Cheaper(i, j, a) \/ Cheaper(j, i, a)
         /\ \A k \in Ids : Cheaper(i, j, a) /\ Cheaper(j, k, a) => Cheaper(i, k, a)
<1>1. i \in Nat /\ j \in Nat
  BY PositionAssumption
<1>2. PICK x, y : x = EffectivePrice(i, a) /\ y = EffectivePrice(j, a)
  OBVIOUS
<1>3. x \in Nat /\ y \in Nat
  BY <1>2, Prices
<1>4. i = j \/ Cheaper(i, j, a) \/ Cheaper(j, i, a)
  BY <1>1, <1>2, <1>3 DEF Cheaper
<1>5. ASSUME NEW k \in Ids, Cheaper(i, j, a), Cheaper(j, k, a) PROVE Cheaper(i, k, a)
  <2>1. PICK z : z = EffectivePrice(k, a)
    OBVIOUS
  <2>2. z \in Nat /\ k \in Nat
    BY <2>1, Prices, PositionAssumption
  <2>3. (x < y \/ (x = y /\ i < j)) /\ (y < z \/ (y = z /\ j < k))
    BY <1>2, <1>5, <2>1 DEF Cheaper
  <2>4. x < z \/ (x = z /\ i < k)
    BY <1>1, <1>3, <2>2, <2>3
  <2> QED BY <1>2, <2>1, <2>4 DEF Cheaper
<1> QED BY <1>4, <1>5

\* What the price index has in a direction, outside of the used positions.
LEMMA AvailableExact ==
  ASSUME NEW b, BookOK(b), NEW dir, NEW used, NEW e
  PROVE  e \in Available(b, dir, used)
           <=> \E j \in OpenIn(b.pos) :
                 /\ j \notin used /\ dir \in Directions(j)
                 /\ e = [dir |-> dir, id |-> j, r |-> b.pos[j].r]
                 /\ e.r[Slot(j, dir[2])] # 0
<1>1. b.price = EntriesOf(b.pos)
  BY DEF BookOK, IndexesMatch
<1>2. ASSUME e \in Available(b, dir, used)
      PROVE  \E j \in OpenIn(b.pos) :
                 /\ j \notin used /\ dir \in Directions(j)
                 /\ e = [dir |-> dir, id |-> j, r |-> b.pos[j].r]
                 /\ e.r[Slot(j, dir[2])] # 0
  <2>1. e \in EntriesOf(b.pos) /\ e.dir = dir /\ e.id \notin used
    BY <1>1, <1>2 DEF Available
  <2>2. PICK j \in OpenIn(b.pos) : e \in PriceEntries(j, b.pos[j])
    BY <2>1 DEF EntriesOf
  <2>3. PICK d \in Directions(j) : /\ e = [dir |-> d, id |-> j, r |-> b.pos[j].r]
                                   /\ b.pos[j].r[Slot(j, d[2])] # 0
    BY <2>2 DEF PriceEntries
  <2>4. d = dir /\ j \notin used /\ e.r = b.pos[j].r
    BY <2>1, <2>3
  <2> QED BY <2>3, <2>4
<1>3. ASSUME NEW j \in OpenIn(b.pos), j \notin used, dir \in Directions(j),
             e = [dir |-> dir, id |-> j, r |-> b.pos[j].r], e.r[Slot(j, dir[2])] # 0
      PROVE  e \in Available(b, dir, used)
  <2>1. e.dir = dir /\ e.id = j /\ e.r = b.pos[j].r
    BY <1>3
  <2>2. dir \in {d \in Directions(j) : b.pos[j].r[Slot(j, d[2])] # 0}
    BY <1>3, <2>1
  <2>3. e \in PriceEntries(j, b.pos[j])
    BY <1>3, <2>2 DEF PriceEntries
  <2>4. e \in EntriesOf(b.pos)
    BY <2>3 DEF EntriesOf
  <2> QED BY <1>1, <1>3, <2>1, <2>4 DEF Available
<1> QED BY <1>2, <1>3

\* The best of them exists.
LEMMA BestExact ==
  ASSUME NEW b, BookOK(b), NEW dir, NEW used, Available(b, dir, used) # {}
  PROVE  LET f == Best(b, dir, used)
         IN Fresh(b.pos, f) /\ f.dir = dir /\ f.id \notin used
<1> DEFINE A == Available(b, dir, used)
           J == {j \in Ids : \E e \in A : e.id = j}
           R == {x \in Ids \X Ids : Cheaper(x[1], x[2], dir[1])}
           First(e) == \A g \in A : g = e \/ Cheaper(e.id, g.id, dir[1])
<1>1. \A e \in A : e.id \in OpenIn(b.pos) /\ e.id \in Ids
                   /\ e = [dir |-> dir, id |-> e.id, r |-> b.pos[e.id].r]
  <2> SUFFICES ASSUME NEW e \in A
               PROVE  e.id \in OpenIn(b.pos) /\ e.id \in Ids
                      /\ e = [dir |-> dir, id |-> e.id, r |-> b.pos[e.id].r]
    OBVIOUS
  <2>1. PICK j \in OpenIn(b.pos) : e = [dir |-> dir, id |-> j, r |-> b.pos[j].r]
    BY AvailableExact
  <2> QED BY <2>1 DEF OpenIn
<1>2. IsFiniteSet(J) /\ J # {}
  <2>1. J \subseteq Ids
    OBVIOUS
  <2>2. J # {}
    <3>1. PICK e : e \in A
      OBVIOUS
    <3>2. e.id \in Ids
      BY <1>1, <3>1
    <3> HIDE DEF A
    <3> QED BY <3>1, <3>2
  <2> QED BY <2>1, <2>2, PositionAssumption, FS_Subset
<1>3. \A x, y \in J : x = y \/ <<x, y>> \in R \/ <<y, x>> \in R
  <2> SUFFICES ASSUME NEW x \in Ids, NEW y \in Ids PROVE x = y \/ <<x, y>> \in R \/ <<y, x>> \in R
    OBVIOUS
  <2> QED BY CheaperOrder
<1>4. \A x, y, z \in J : <<x, y>> \in R /\ <<y, z>> \in R => <<x, z>> \in R
  <2> SUFFICES ASSUME NEW x \in Ids, NEW y \in Ids, NEW z \in Ids, <<x, y>> \in R, <<y, z>> \in R
               PROVE <<x, z>> \in R
    OBVIOUS
  <2> QED BY CheaperOrder
<1>5. PICK x \in J : \A y \in J : y = x \/ <<x, y>> \in R
  <2> HIDE DEF J, R
  <2> QED BY <1>2, <1>3, <1>4, FirstExists
<1>6. \E e \in A : First(e)
  <2>1. PICK e \in A : e.id = x
    OBVIOUS
  <2>2. ASSUME NEW g \in A PROVE g = e \/ Cheaper(e.id, g.id, dir[1])
    <3>1. g.id \in J
      BY <1>1
    <3>2. CASE g.id = x
      <4>1. g = [dir |-> dir, id |-> x, r |-> b.pos[x].r] /\ e = [dir |-> dir, id |-> x, r |-> b.pos[x].r]
        BY <1>1, <2>1, <3>2
      <4> QED BY <4>1
    <3>3. CASE g.id # x
      BY <1>5, <2>1, <3>1, <3>3
    <3> QED BY <3>2, <3>3
  <2> QED BY <2>1, <2>2
<1>7. PICK e : e = CHOOSE y \in A : First(y)
  OBVIOUS
<1>8. e \in A
  <2> HIDE DEF A, First
  <2> QED BY <1>6, <1>7
<1>9. PICK f : f = Best(b, dir, used)
  OBVIOUS
<1>10. f = [id |-> e.id, dir |-> dir, rin |-> e.r[Slot(e.id, dir[1])], rout |-> e.r[Slot(e.id, dir[2])]]
  BY <1>7, <1>9 DEF Best
<1>11. PICK j \in OpenIn(b.pos) :
          /\ j \notin used /\ dir \in Directions(j)
          /\ e = [dir |-> dir, id |-> j, r |-> b.pos[j].r]
          /\ e.r[Slot(j, dir[2])] # 0
  BY <1>8, AvailableExact
<1>12. PICK r : r = b.pos[j].r
  OBVIOUS
<1>13. r \in Nat \X Nat /\ j \in Ids /\ b.pos[j].state = "Opened"
  BY <1>12 DEF OpenIn, BookOK, Position
<1>14. e.id = j /\ e.r = r
  BY <1>11, <1>12
<1>15. /\ f.id = j /\ f.dir = dir
       /\ f.rin = r[Slot(j, dir[1])] /\ f.rout = r[Slot(j, dir[2])]
       /\ f = [id |-> j, dir |-> dir, rin |-> f.rin, rout |-> f.rout]
  BY <1>10, <1>14
<1>16. f.rin \in Nat /\ f.rout \in Nat /\ f.rout > 0 /\ HopReserves(f) = r /\ dir \in Nat \X Nat
  <2>1. dir \in Nat \X Nat /\ r[1] \in Nat /\ r[2] \in Nat /\ r = <<r[1], r[2]>>
    BY <1>11, <1>13, Slots
  <2>2. r[Slot(j, dir[2])] # 0
    BY <1>11, <1>14
  <2>3. CASE Slot(j, dir[1]) = 1 /\ Slot(j, dir[2]) = 2
    BY <1>15, <2>1, <2>2, <2>3 DEF HopReserves
  <2>4. CASE Slot(j, dir[1]) = 2 /\ Slot(j, dir[2]) = 1
    BY <1>15, <2>1, <2>2, <2>4 DEF HopReserves
  <2> QED BY <1>11, <1>13, <2>3, <2>4, Slots
<1>17. f \in HopSet
  BY <1>13, <1>15, <1>16 DEF HopSet
<1> QED BY <1>9, <1>11, <1>12, <1>13, <1>15, <1>16, <1>17 DEF Fresh, HopOK

-----------------------------------------------------------------------------
(* One hop                                                                  *)

\* The coefficients of a hop.
LEMMA HopCoefficients ==
  ASSUME NEW f, HopOK(f)
  PROVE  /\ f.id \in Ids /\ f.rin \in Nat /\ f.rout \in Nat
         /\ P(f.id, f.dir[1]) \in Nat /\ P(f.id, f.dir[1]) > 0
         /\ Q(f.id, f.dir[1]) \in Nat /\ Q(f.id, f.dir[1]) > 0
BY Coefficients DEF HopOK, HopSet

\* A position that gets bought for sold is paid what its trading function asks
\* for, but for the truncation of its price.
Fair(f, bought, sold) ==
  One * (Q(f.id, f.dir[1]) * sold)
    <= One * (P(f.id, f.dir[1]) * bought) + P(f.id, f.dir[1]) * sold

\* What a position sells for an input is no more than it has, nor more than its
\* price allows.
LEMMA FillOutBounds ==
  ASSUME NEW f, HopOK(f), NEW x \in Nat
  PROVE  /\ FillOut(f, x) \in Nat /\ FillOut(f, x) <= f.rout
         /\ One * FillOut(f, x) <= x * EffectivePriceInv(f.id, f.dir[1])
         /\ Fair(f, x, FillOut(f, x))
<1>1. PICK one, p, q, r, s : /\ one = One /\ p = P(f.id, f.dir[1]) /\ q = Q(f.id, f.dir[1])
                             /\ r = f.rout /\ s = EffectivePriceInv(f.id, f.dir[1])
  OBVIOUS
<1>2. /\ one \in Nat /\ one > 0 /\ p \in Nat /\ q \in Nat /\ r \in Nat /\ p > 0 /\ q > 0
      /\ s \in Nat /\ q * s <= one * p
  BY <1>1, HopCoefficients, Prices, FixpointAssumption
<1>3. x * s \in Nat /\ r * one \in Nat /\ r * one = one * r
  BY <1>2
<1>4. PICK y : y = FillOut(f, x)
  OBVIOUS
<1>5. y \in Nat /\ y <= r /\ one * y <= x * s
  <2>1. CASE x * s <= r * one
    <3>1. y = (x * s) \div one
      BY <1>1, <1>4, <2>1 DEF FillOut, Fits
    <3>2. y \in Nat /\ one * y <= x * s
      BY <1>2, <1>3, <3>1, DivBounds
    <3>3. one * y <= one * r /\ one * y \in Nat
      BY <1>2, <1>3, <2>1, <3>2
    <3> QED BY <1>2, <3>2, <3>3, CancelLess
  <2>2. CASE ~(x * s <= r * one)
    <3>1. y = r
      BY <1>1, <1>4, <2>2 DEF FillOut, Fits
    <3> QED BY <1>2, <1>3, <2>2, <3>1
  <2> QED BY <2>1, <2>2
<1>6. one * (q * y) <= one * (p * x)
  <2>1. q * (one * y) <= q * (x * s)
    BY <1>2, <1>3, <1>5, CancelLess
  <2>2. (q * s) * x <= (one * p) * x
    BY <1>2, ProductLess
  <2>3. /\ q * (one * y) = one * (q * y) /\ q * (x * s) = (q * s) * x
        /\ (one * p) * x = one * (p * x)
    BY <1>2, <1>5
  <2>4. one * (q * y) \in Nat /\ (q * s) * x \in Nat /\ one * (p * x) \in Nat
    BY <1>2, <1>5
  <2> QED BY <2>1, <2>2, <2>3, <2>4
<1>7. one * (q * y) <= one * (p * x) + p * y
  <2>1. one * (q * y) \in Nat /\ one * (p * x) \in Nat /\ p * y \in Nat
    BY <1>2, <1>5
  <2> QED BY <1>6, <2>1
<1> QED BY <1>1, <1>4, <1>5, <1>7 DEF Fair

\* What it asks for an output is the least input that its price demands.
LEMMA FillInBounds ==
  ASSUME NEW f, HopOK(f), NEW y \in Nat
  PROVE  /\ FillIn(f, y) \in Nat
         /\ Fair(f, FillIn(f, y), y)
         /\ \A x \in Nat : y * EffectivePrice(f.id, f.dir[1]) <= One * x => FillIn(f, y) <= x
<1>1. PICK one, p, q, t : /\ one = One /\ p = P(f.id, f.dir[1]) /\ q = Q(f.id, f.dir[1])
                          /\ t = EffectivePrice(f.id, f.dir[1])
  OBVIOUS
<1>2. /\ one \in Nat /\ one > 0 /\ p \in Nat /\ q \in Nat /\ p > 0 /\ q > 0
      /\ t \in Nat /\ one * q <= p * t + p
  BY <1>1, HopCoefficients, Prices, FixpointAssumption
<1>3. y * t \in Nat
  BY <1>2
<1>4. PICK k : k = FillIn(f, y)
  OBVIOUS
<1>5. k = CeilDiv(y * t, one)
  BY <1>1, <1>4 DEF FillIn
<1>6. k \in Nat /\ y * t <= one * k /\ \A x \in Nat : y * t <= one * x => k <= x
  BY <1>2, <1>3, <1>5, CeilBounds
<1>7. one * (q * y) <= one * (p * k) + p * y
  <2>1. (one * q) * y <= (p * t + p) * y
    BY <1>2, ProductLess
  <2>2. p * (y * t) <= p * (one * k)
    BY <1>2, <1>3, <1>6, CancelLess
  <2>3. /\ (one * q) * y = one * (q * y) /\ (p * t + p) * y = p * (y * t) + p * y
        /\ p * (one * k) = one * (p * k)
    BY <1>2, <1>6
  <2>4. /\ one * (q * y) \in Nat /\ p * (y * t) \in Nat /\ p * y \in Nat
        /\ one * (p * k) \in Nat
    BY <1>2, <1>6
  <2> QED BY <2>1, <2>2, <2>3, <2>4
<1> QED BY <1>1, <1>4, <1>6, <1>7 DEF Fair

\* Selling an output takes no more than an input that would sell as much.
LEMMA FillInOut ==
  ASSUME NEW f, HopOK(f), NEW x \in Nat, NEW y \in Nat, y <= FillOut(f, x)
  PROVE  FillIn(f, y) <= x
<1>1. PICK one, s, t, z : /\ one = One /\ s = EffectivePriceInv(f.id, f.dir[1])
                          /\ t = EffectivePrice(f.id, f.dir[1]) /\ z = FillOut(f, x)
  OBVIOUS
<1>2. /\ one \in Nat /\ one > 0 /\ s \in Nat /\ t \in Nat /\ s * t <= one * one
      /\ z \in Nat /\ one * z <= x * s
  BY <1>1, HopCoefficients, Prices, FillOutBounds, FixpointAssumption
<1>3. one * y <= x * s
  <2>1. one * y <= one * z
    BY <1>1, <1>2, CancelLess
  <2>2. one * y \in Nat /\ one * z \in Nat /\ x * s \in Nat
    BY <1>2
  <2> QED BY <1>2, <2>1, <2>2
<1>4. (one * y) * t <= (x * s) * t
  <2>1. one * y \in Nat /\ x * s \in Nat
    BY <1>2
  <2> QED BY <1>2, <1>3, <2>1, ProductLess
<1>5. x * (s * t) <= x * (one * one)
  <2>1. s * t \in Nat /\ one * one \in Nat
    BY <1>2
  <2> QED BY <1>2, <2>1, ProductLess
<1>6. one * (y * t) <= one * (one * x)
  <2>1. /\ (one * y) * t = one * (y * t) /\ (x * s) * t = x * (s * t)
        /\ x * (one * one) = one * (one * x)
    BY <1>2
  <2>2. one * (y * t) \in Nat /\ x * (s * t) \in Nat /\ one * (one * x) \in Nat
    BY <1>2
  <2> QED BY <1>4, <1>5, <2>1, <2>2
<1>7. y * t <= one * x
  <2>1. y * t \in Nat /\ one * x \in Nat
    BY <1>2
  <2> QED BY <1>2, <1>6, <2>1, CancelLess
<1> QED BY <1>1, <1>7, FillInBounds

\* A smaller input sells no more, and is filled if the larger one is.
LEMMA FillMonotone ==
  ASSUME NEW f, HopOK(f), NEW x \in Nat, NEW y \in Nat, y <= x
  PROVE  /\ FillOut(f, y) <= FillOut(f, x)
         /\ ~(Unfilled(f, x) > 0) => ~(Unfilled(f, y) > 0)
<1>1. PICK one, s, r : /\ one = One /\ s = EffectivePriceInv(f.id, f.dir[1]) /\ r = f.rout
  OBVIOUS
<1>2. one \in Nat /\ one > 0 /\ s \in Nat /\ r \in Nat
  BY <1>1, HopCoefficients, Prices, FixpointAssumption
<1>3. y * s <= x * s /\ y * s \in Nat /\ x * s \in Nat /\ r * one \in Nat
  BY <1>2, ProductLess
<1>4. Fits(f, x) => Fits(f, y)
  BY <1>1, <1>3 DEF Fits
<1>5. FillOut(f, y) <= FillOut(f, x)
  <2>1. CASE Fits(f, x)
    <3>1. FillOut(f, x) = (x * s) \div one /\ FillOut(f, y) = (y * s) \div one
      BY <1>1, <1>4, <2>1 DEF FillOut
    <3>2. PICK k : k = (y * s) \div one
      OBVIOUS
    <3>3. k \in Nat /\ one * k <= y * s
      BY <1>2, <1>3, <3>2, DivBounds
    <3>4. one * k <= x * s /\ one * k \in Nat
      BY <1>2, <1>3, <3>3
    <3> QED BY <1>2, <1>3, <3>1, <3>2, <3>3, <3>4, DivLargest
  <2>2. CASE ~Fits(f, x)
    <3>1. FillOut(f, x) = f.rout
      BY <2>2 DEF FillOut
    <3> QED BY <3>1, FillOutBounds
  <2> QED BY <2>1, <2>2
<1>6. ASSUME Unfilled(f, y) > 0 PROVE Unfilled(f, x) > 0
  <2>1. ~Fits(f, y)
    BY <1>6 DEF Unfilled
  <2>2. PICK k : k = FillIn(f, f.rout)
    OBVIOUS
  <2>3. k \in Nat
    BY <1>1, <1>2, <2>2, FillInBounds
  <2>4. Unfilled(f, y) = y - k /\ Unfilled(f, x) = x - k
    BY <1>4, <2>1, <2>2 DEF Unfilled
  <2> QED BY <1>6, <2>3, <2>4
<1> QED BY <1>5, <1>6

-----------------------------------------------------------------------------
(* A fill along a route                                                     *)

Frontier(fr) == fr \in Seq(HopSet) /\ \A n \in 1..Len(fr) : HopOK(fr[n])

ForwardStep(fr, x, g, n) == IF n = 1 THEN x ELSE FillOut(fr[n - 1], g[n - 1])

\* The recursive function of Forward exists.
LEMMA ForwardExists ==
  ASSUME NEW fr, NEW x
  PROVE  \A k \in Nat : \E g : g = [n \in 1..(k + 1) |-> ForwardStep(fr, x, g, n)]
<1> DEFINE R(k) == \E g : g = [n \in 1..(k + 1) |-> ForwardStep(fr, x, g, n)]
           S == {k \in Nat : R(k)}
<1>1. 0 \in S
  <2>1. PICK g : g = [n \in 1..1 |-> x]
    OBVIOUS
  <2>2. g = [n \in 1..(0 + 1) |-> ForwardStep(fr, x, g, n)]
    BY <2>1 DEF ForwardStep
  <2> QED BY <2>2
<1>2. ASSUME NEW k \in Nat, k \in S PROVE k + 1 \in S
  <2>1. PICK g : g = [n \in 1..(k + 1) |-> ForwardStep(fr, x, g, n)]
    BY <1>2
  <2>2. PICK h : h = [n \in 1..(k + 2) |-> ForwardStep(fr, x, g, n)]
    OBVIOUS
  <2>3. ASSUME NEW n \in 1..(k + 2) PROVE ForwardStep(fr, x, g, n) = ForwardStep(fr, x, h, n)
    <3>1. CASE n = 1
      BY <3>1 DEF ForwardStep
    <3>2. CASE n # 1
      <4>1. n - 1 \in 1..(k + 1) /\ n - 1 \in 1..(k + 2)
        BY <3>2
      <4>2. g[n - 1] = ForwardStep(fr, x, g, n - 1) /\ h[n - 1] = ForwardStep(fr, x, g, n - 1)
        BY <2>1, <2>2, <4>1
      <4> QED BY <4>2 DEF ForwardStep
    <3> QED BY <3>1, <3>2
  <2>4. h = [n \in 1..(k + 1 + 1) |-> ForwardStep(fr, x, h, n)]
    BY <2>2, <2>3
  <2>5. R(k + 1)
    BY <2>4
  <2> QED BY <2>5
<1> HIDE DEF S
<1>3. \A k \in Nat : k \in S
  BY <1>1, <1>2, NatSetInduction
<1> QED BY <1>3 DEF S

\* The equations of the amounts that flow through a frontier.
LEMMA ForwardDef ==
  ASSUME NEW fr, Frontier(fr), NEW x
  PROVE  LET t == Forward(fr, x) IN
         /\ t = [n \in 1..(Len(fr) + 1) |-> t[n]]
         /\ t[1] = x
         /\ \A n \in 1..Len(fr) : t[n + 1] = FillOut(fr[n], t[n])
<1>1. Len(fr) \in Nat
  BY DEF Frontier
<1>2. PICK t : t = Forward(fr, x)
  OBVIOUS
<1>3. t = CHOOSE g : g = [n \in 1..(Len(fr) + 1) |-> ForwardStep(fr, x, g, n)]
  BY <1>2 DEF Forward, ForwardStep
<1>4. t = [n \in 1..(Len(fr) + 1) |-> ForwardStep(fr, x, t, n)]
  BY <1>1, <1>3, ForwardExists
<1>5. \A n \in 1..(Len(fr) + 1) : t[n] = ForwardStep(fr, x, t, n)
  BY <1>4
<1>6. t[1] = x
  BY <1>1, <1>5 DEF ForwardStep
<1>7. ASSUME NEW n \in 1..Len(fr) PROVE t[n + 1] = FillOut(fr[n], t[n])
  <2>1. n + 1 \in 1..(Len(fr) + 1) /\ n + 1 # 1 /\ n + 1 - 1 = n
    BY <1>1
  <2> QED BY <1>5, <2>1 DEF ForwardStep
<1>8. t = [n \in 1..(Len(fr) + 1) |-> t[n]]
  BY <1>4
<1> QED BY <1>2, <1>6, <1>7, <1>8

\* Induction along a route.
LEMMA RouteInduction ==
  ASSUME NEW N \in Nat, NEW S, 1 \in S, \A n \in 1..N : n \in S => n + 1 \in S
  PROVE  \A n \in 1..(N + 1) : n \in S
<1> DEFINE T == {k \in Nat : k + 1 <= N + 1 => k + 1 \in S}
<1>1. 0 \in T
  OBVIOUS
<1>2. ASSUME NEW k \in Nat, k \in T PROVE k + 1 \in T
  BY <1>2
<1>3. \A k \in Nat : k \in T
  <2> HIDE DEF T
  <2> QED BY <1>1, <1>2, NatSetInduction
<1>4. ASSUME NEW n \in 1..(N + 1) PROVE n \in S
  <2>1. n - 1 \in Nat /\ n - 1 \in T /\ n - 1 + 1 = n
    BY <1>3
  <2> QED BY <2>1
<1> QED BY <1>4

\* No hop puts out more than it holds, nor more than its price allows.
LEMMA ForwardType ==
  ASSUME NEW fr, Frontier(fr), NEW x \in Nat
  PROVE  LET t == Forward(fr, x) IN
         /\ \A n \in 1..(Len(fr) + 1) : t[n] \in Nat
         /\ \A n \in 1..Len(fr) : /\ t[n + 1] <= fr[n].rout
                                  /\ Fair(fr[n], t[n], t[n + 1])
<1>1. Len(fr) \in Nat /\ \A n \in 1..Len(fr) : HopOK(fr[n])
  BY DEF Frontier
<1>2. PICK t : t = Forward(fr, x)
  OBVIOUS
<1>3. t[1] = x /\ \A n \in 1..Len(fr) : t[n + 1] = FillOut(fr[n], t[n])
  BY <1>2, ForwardDef
<1>4. \A n \in 1..(Len(fr) + 1) : t[n] \in Nat
  <2> DEFINE S == {n \in Nat : t[n] \in Nat}
  <2>1. 1 \in S
    BY <1>3
  <2>2. ASSUME NEW n \in 1..Len(fr), n \in S PROVE n + 1 \in S
    <3>1. t[n] \in Nat /\ HopOK(fr[n]) /\ n + 1 \in Nat
      BY <1>1, <2>2
    <3>2. FillOut(fr[n], t[n]) \in Nat
      BY <3>1, FillOutBounds
    <3> QED BY <1>3, <3>1, <3>2
  <2>3. \A n \in 1..(Len(fr) + 1) : n \in S
    <3> HIDE DEF S
    <3> QED BY <1>1, <2>1, <2>2, RouteInduction
  <2> QED BY <2>3
<1>5. ASSUME NEW n \in 1..Len(fr)
      PROVE  /\ t[n + 1] <= fr[n].rout
             /\ Fair(fr[n], t[n], t[n + 1])
  <2>1. t[n] \in Nat /\ HopOK(fr[n])
    BY <1>1, <1>4
  <2> QED BY <1>3, <2>1, FillOutBounds
<1> QED BY <1>2, <1>4, <1>5

\* Smaller amounts stay smaller.
LEMMA ForwardMonotone ==
  ASSUME NEW fr, Frontier(fr), NEW x \in Nat, NEW y \in Nat, y <= x
  PROVE  \A n \in 1..(Len(fr) + 1) : Forward(fr, y)[n] <= Forward(fr, x)[n]
<1>1. Len(fr) \in Nat /\ \A n \in 1..Len(fr) : HopOK(fr[n])
  BY DEF Frontier
<1>2. PICK s, t : s = Forward(fr, y) /\ t = Forward(fr, x)
  OBVIOUS
<1>3. /\ s[1] = y /\ \A n \in 1..Len(fr) : s[n + 1] = FillOut(fr[n], s[n])
      /\ t[1] = x /\ \A n \in 1..Len(fr) : t[n + 1] = FillOut(fr[n], t[n])
  BY <1>2, ForwardDef
<1>4. \A n \in 1..(Len(fr) + 1) : s[n] \in Nat /\ t[n] \in Nat
  BY <1>2, ForwardType
<1> DEFINE S == {n \in Nat : s[n] <= t[n]}
<1>5. 1 \in S
  BY <1>3
<1>6. ASSUME NEW n \in 1..Len(fr), n \in S PROVE n + 1 \in S
  <2>1. n \in 1..(Len(fr) + 1) /\ n + 1 \in Nat
    BY <1>1
  <2>2. s[n] \in Nat /\ t[n] \in Nat /\ HopOK(fr[n]) /\ s[n] <= t[n]
    BY <1>1, <1>4, <1>6, <2>1
  <2>3. FillOut(fr[n], s[n]) <= FillOut(fr[n], t[n])
    BY <2>2, FillMonotone
  <2> QED BY <1>3, <2>1, <2>3
<1>7. \A n \in 1..(Len(fr) + 1) : n \in S
  <2> HIDE DEF S
  <2> QED BY <1>1, <1>5, <1>6, RouteInduction
<1> QED BY <1>2, <1>7

\* Induction backwards along a route.
LEMMA RouteDescent ==
  ASSUME NEW N \in Nat, NEW S, N + 1 \in S, \A n \in 1..N : n + 1 \in S => n \in S
  PROVE  \A n \in 1..(N + 1) : n \in S
<1> DEFINE T == {k \in Nat : k <= N => N + 1 - k \in S}
<1>1. 0 \in T
  OBVIOUS
<1>2. ASSUME NEW k \in Nat, k \in T PROVE k + 1 \in T
  <2>1. SUFFICES ASSUME k + 1 <= N PROVE N + 1 - (k + 1) \in S
    OBVIOUS
  <2>2. PICK n \in 1..N : n = N - k
    BY <2>1
  <2>3. n + 1 \in S
    <3>1. N + 1 - k \in S
      BY <1>2, <2>1
    <3>2. n + 1 = N + 1 - k
      BY <2>2
    <3> QED BY <3>1, <3>2
  <2>4. N + 1 - (k + 1) = n
    BY <2>2
  <2> QED BY <2>3, <2>4
<1>3. \A k \in Nat : k \in T
  <2> HIDE DEF T
  <2> QED BY <1>1, <1>2, NatSetInduction
<1>4. ASSUME NEW n \in 1..(N + 1) PROVE n \in S
  <2>1. PICK k \in Nat : k = N + 1 - n
    OBVIOUS
  <2>2. k \in T /\ k <= N /\ N + 1 - k = n
    BY <1>3, <2>1
  <2> QED BY <2>2
<1> QED BY <1>4

BackStep(fr, c, g, n) == IF n = c + 1 THEN fr[c].rout ELSE FillIn(fr[n], g[n + 1])
Back(fr, c) == CHOOSE g : g = [n \in 1..(c + 1) |-> BackStep(fr, c, g, n)]

\* The recursive function of Trace exists.
LEMMA BackExists ==
  ASSUME NEW fr, NEW c \in Nat
  PROVE  \A k \in Nat : \E g : g = [n \in (c + 1 - k)..(c + 1) |-> BackStep(fr, c, g, n)]
<1> DEFINE R(k) == \E g : g = [n \in (c + 1 - k)..(c + 1) |-> BackStep(fr, c, g, n)]
           S == {k \in Nat : R(k)}
<1>1. 0 \in S
  <2>1. PICK g : g = [n \in (c + 1)..(c + 1) |-> fr[c].rout]
    OBVIOUS
  <2>2. g = [n \in (c + 1 - 0)..(c + 1) |-> BackStep(fr, c, g, n)]
    BY <2>1 DEF BackStep
  <2> QED BY <2>2
<1>2. ASSUME NEW k \in Nat, k \in S PROVE k + 1 \in S
  <2>1. PICK g : g = [n \in (c + 1 - k)..(c + 1) |-> BackStep(fr, c, g, n)]
    BY <1>2
  <2>2. PICK h : h = [n \in (c - k)..(c + 1) |-> BackStep(fr, c, g, n)]
    OBVIOUS
  <2>3. ASSUME NEW n \in (c - k)..(c + 1) PROVE BackStep(fr, c, g, n) = BackStep(fr, c, h, n)
    <3>1. CASE n = c + 1
      BY <3>1 DEF BackStep
    <3>2. CASE n # c + 1
      <4>1. n + 1 \in (c + 1 - k)..(c + 1) /\ n + 1 \in (c - k)..(c + 1)
        BY <3>2
      <4>2. g[n + 1] = BackStep(fr, c, g, n + 1) /\ h[n + 1] = BackStep(fr, c, g, n + 1)
        BY <2>1, <2>2, <4>1
      <4> QED BY <4>2 DEF BackStep
    <3> QED BY <3>1, <3>2
  <2>4. h = [n \in (c + 1 - (k + 1))..(c + 1) |-> BackStep(fr, c, h, n)]
    <3>1. c + 1 - (k + 1) = c - k
      OBVIOUS
    <3>2. h = [n \in (c - k)..(c + 1) |-> BackStep(fr, c, h, n)]
      BY <2>2, <2>3
    <3> QED BY <3>1, <3>2
  <2>5. R(k + 1)
    BY <2>4
  <2> QED BY <2>5
<1> HIDE DEF S
<1>3. \A k \in Nat : k \in S
  BY <1>1, <1>2, NatSetInduction
<1> QED BY <1>3 DEF S

\* The equations of the amounts that a constraining hop requires of those before it.
LEMMA BackDef ==
  ASSUME NEW fr, NEW c \in Nat, c > 0
  PROVE  /\ Back(fr, c)[c + 1] = fr[c].rout
         /\ \A n \in 1..c : Back(fr, c)[n] = FillIn(fr[n], Back(fr, c)[n + 1])
<1>1. PICK t : t = Back(fr, c)
  OBVIOUS
<1>2. \E g : g = [n \in 1..(c + 1) |-> BackStep(fr, c, g, n)]
  <2>1. PICK k \in Nat : k = c
    OBVIOUS
  <2>2. c + 1 - k = 1
    BY <2>1
  <2>3. \E g : g = [n \in (c + 1 - k)..(c + 1) |-> BackStep(fr, c, g, n)]
    BY BackExists
  <2> QED BY <2>2, <2>3
<1>3. t = [n \in 1..(c + 1) |-> BackStep(fr, c, t, n)]
  BY <1>1, <1>2 DEF Back
<1>4. \A n \in 1..(c + 1) : t[n] = BackStep(fr, c, t, n)
  BY <1>3
<1>5. t[c + 1] = fr[c].rout
  BY <1>4 DEF BackStep
<1>6. ASSUME NEW n \in 1..c PROVE t[n] = FillIn(fr[n], t[n + 1])
  <2>1. n \in 1..(c + 1) /\ n # c + 1
    OBVIOUS
  <2> QED BY <1>4, <2>1 DEF BackStep
<1> QED BY <1>1, <1>5, <1>6

\* The constraint is the last hop that cannot take its amount.
LEMMA ConstraintExact ==
  ASSUME NEW fr, Frontier(fr), NEW t
  PROVE  LET c == Constraint(fr, t) IN
         /\ c \in 0..Len(fr)
         /\ c # 0 => Unfilled(fr[c], t[c]) > 0
         /\ \A n \in 1..Len(fr) : n > c => ~(Unfilled(fr[n], t[n]) > 0)
<1>1. Len(fr) \in Nat
  BY DEF Frontier
<1>2. PICK over, R : /\ over = {n \in 1..Len(fr) : Unfilled(fr[n], t[n]) > 0}
                     /\ R = {z \in Nat \X Nat : z[1] > z[2]}
  OBVIOUS
<1>3. CASE over = {}
  <2>1. Constraint(fr, t) = 0
    BY <1>2, <1>3 DEF Constraint
  <2> QED BY <1>1, <1>2, <1>3, <2>1
<1>4. CASE over # {}
  <2>0. over \subseteq 1..Len(fr)
    BY <1>2
  <2>1. over \subseteq 1..Len(fr) /\ IsFiniteSet(over)
    <3>1. IsFiniteSet(1..Len(fr))
      BY <1>1, FS_Interval
    <3> QED BY <2>0, <3>1, FS_Subset
  <2>2. \A x, y \in over : x = y \/ <<x, y>> \in R \/ <<y, x>> \in R
    BY <1>1, <1>2, <2>1
  <2>3. \A x, y, z \in over : <<x, y>> \in R /\ <<y, z>> \in R => <<x, z>> \in R
    BY <1>1, <1>2, <2>1
  <2>4. \E x \in over : \A y \in over : y = x \/ <<x, y>> \in R
    BY <1>4, <2>1, <2>2, <2>3, FirstExists, ZenonT(60)
  <2>5. \E x \in over : \A y \in over : x >= y
    <3>1. PICK x \in over : \A y \in over : y = x \/ <<x, y>> \in R
      BY <2>4
    <3>2. ASSUME NEW y \in over PROVE x >= y
      <4>1. x \in Nat /\ y \in Nat /\ (y = x \/ <<x, y>> \in R)
        BY <1>1, <2>1, <3>1
      <4>2. <<x, y>> \in R => x > y
        BY <1>2
      <4> QED BY <4>1, <4>2
    <3> QED BY <3>2
  <2>6. PICK c : c = Max(over)
    OBVIOUS
  <2>7. c \in over /\ \A y \in over : c >= y
    BY <2>5, <2>6 DEF Max
  <2>8. Constraint(fr, t) = c
    BY <1>2, <1>4, <2>6 DEF Constraint
  <2> QED BY <1>1, <1>2, <2>1, <2>7, <2>8
<1> QED BY <1>3, <1>4

\* The hops after the constraint.
LEMMA SuffixFrontier ==
  ASSUME NEW fr, Frontier(fr), NEW c \in 1..Len(fr)
  PROVE  LET s == SubSeq(fr, c + 1, Len(fr)) IN
         Frontier(s) /\ Len(s) = Len(fr) - c /\ \A n \in 1..Len(s) : s[n] = fr[n + c]
<1>1. fr \in Seq(HopSet) /\ Len(fr) \in Nat /\ \A n \in 1..Len(fr) : HopOK(fr[n])
  BY DEF Frontier
<1>2. PICK s : s = SubSeq(fr, c + 1, Len(fr))
  OBVIOUS
<1>3. /\ s \in Seq(HopSet) /\ Len(s) = Len(fr) - (c + 1) + 1
      /\ \A n \in 1..(Len(fr) - (c + 1) + 1) : s[n] = fr[c + 1 + n - 1]
  BY <1>1, <1>2, SubSeqProperties
<1>4. Len(s) = Len(fr) - c
  BY <1>1, <1>3
<1>5. ASSUME NEW n \in 1..Len(s) PROVE s[n] = fr[n + c] /\ HopOK(s[n])
  <2>1. n + c \in 1..Len(fr) /\ c + 1 + n - 1 = n + c
    BY <1>1, <1>4
  <2>2. s[n] = fr[c + 1 + n - 1]
    BY <1>3, <1>5
  <2> QED BY <1>1, <2>1, <2>2
<1> QED BY <1>2, <1>3, <1>4, <1>5 DEF Frontier

\* The amounts after the constraint, where it sells what it has, are those of
\* the whole input.
LEMMA SuffixForward ==
  ASSUME NEW fr, Frontier(fr), NEW x \in Nat, NEW c \in 1..Len(fr),
         Forward(fr, x)[c + 1] = fr[c].rout
  PROVE  \A n \in (c + 1)..(Len(fr) + 1) :
           Forward(SubSeq(fr, c + 1, Len(fr)), fr[c].rout)[n - c] = Forward(fr, x)[n]
<1>1. Len(fr) \in Nat /\ \A n \in 1..Len(fr) : HopOK(fr[n])
  BY DEF Frontier
<1>2. PICK s, t, u : /\ s = SubSeq(fr, c + 1, Len(fr)) /\ t = Forward(fr, x)
                     /\ u = Forward(s, fr[c].rout)
  OBVIOUS
<1>3. Frontier(s) /\ Len(s) = Len(fr) - c /\ \A n \in 1..Len(s) : s[n] = fr[n + c]
  BY <1>2, SuffixFrontier
<1>4. \A n \in 1..Len(fr) : t[n + 1] = FillOut(fr[n], t[n])
  BY <1>2, ForwardDef, SMTT(60)
<1>5. u[1] = fr[c].rout /\ \A n \in 1..Len(s) : u[n + 1] = FillOut(s[n], u[n])
  <2>1. PICK y : y = fr[c].rout
    OBVIOUS
  <2>2. Frontier(s) /\ u = Forward(s, y)
    BY <1>2, <1>3, <2>1
  <2> QED BY <2>1, <2>2, ForwardDef, SMTT(60)
<1> DEFINE S == {n \in Nat : u[n] = t[n + c]}
<1>6. 1 \in S
  <2>1. 1 + c = c + 1
    OBVIOUS
  <2> QED BY <1>2, <1>5, <2>1
<1>7. ASSUME NEW n \in 1..Len(s), n \in S PROVE n + 1 \in S
  <2>1. n + c \in 1..Len(fr) /\ n + c + 1 = n + 1 + c /\ n + 1 \in Nat
    <3>1. Len(fr) \in Nat /\ c \in Nat /\ c >= 1 /\ n \in Nat /\ n >= 1 /\ n <= Len(fr) - c
      BY <1>1, <1>3
    <3> QED BY <3>1
  <2>2. t[n + c + 1] = FillOut(fr[n + c], t[n + c])
    BY <1>4, <2>1
  <2>3. u[n + 1] = FillOut(s[n], u[n]) /\ s[n] = fr[n + c]
    BY <1>3, <1>5
  <2>4. u[n + 1] = t[n + 1 + c]
    BY <1>7, <2>1, <2>2, <2>3
  <2> QED BY <2>1, <2>4
<1>8. \A n \in 1..(Len(s) + 1) : n \in S
  <2>1. Len(s) \in Nat
    BY <1>3 DEF Frontier
  <2> HIDE DEF S
  <2> QED BY <1>6, <1>7, <2>1, RouteInduction
<1>9. ASSUME NEW n \in (c + 1)..(Len(fr) + 1) PROVE u[n - c] = t[n]
  <2>0. n \in Int /\ c \in Int /\ Len(s) = Len(fr) - c
    BY <1>1, <1>3
  <2>1. PICK m \in 1..(Len(s) + 1) : m = n - c
    BY <1>1, <2>0
  <2>2. m + c = n
    BY <1>1, <2>1
  <2>3. m \in S
    BY <1>8
  <2> QED BY <2>1, <2>2, <2>3
<1> QED BY <1>2, <1>9

\* What a trade along the frontier must be: at every hop no more than it has is
\* sold, for at least what it is worth.
Sound(fr, t) ==
  /\ t \in [1..(Len(fr) + 1) -> Nat]
  /\ \A n \in 1..Len(fr) : /\ t[n + 1] <= fr[n].rout
                           /\ Fair(fr[n], t[n], t[n + 1])

\* The amounts before the constraint are no more than those of the whole input.
LEMMA BackBounds ==
  ASSUME NEW fr, Frontier(fr), NEW x \in Nat, NEW c \in 1..Len(fr),
         Forward(fr, x)[c + 1] = fr[c].rout
  PROVE  /\ \A n \in 1..(c + 1) : /\ Back(fr, c)[n] \in Nat
                                  /\ Back(fr, c)[n] <= Forward(fr, x)[n]
         /\ \A n \in 1..c : Fair(fr[n], Back(fr, c)[n], Back(fr, c)[n + 1])
<1>1. Len(fr) \in Nat /\ \A n \in 1..Len(fr) : HopOK(fr[n])
  BY DEF Frontier
<1>2. PICK t, u : t = Forward(fr, x) /\ u = Back(fr, c)
  OBVIOUS
<1>3. /\ \A n \in 1..Len(fr) : t[n + 1] = FillOut(fr[n], t[n])
      /\ \A n \in 1..(Len(fr) + 1) : t[n] \in Nat
  BY <1>2, ForwardDef, ForwardType
<1>4. u[c + 1] = fr[c].rout /\ \A n \in 1..c : u[n] = FillIn(fr[n], u[n + 1])
  BY <1>2, BackDef
<1> DEFINE S == {n \in Nat : u[n] \in Nat /\ u[n] <= t[n]}
<1>5. c + 1 \in S
  <2>1. fr[c].rout \in Nat
    BY <1>1, HopCoefficients
  <2> QED BY <1>2, <1>4, <2>1
<1>6. ASSUME NEW n \in 1..c, n + 1 \in S PROVE n \in S
  <2>1. n \in 1..Len(fr) /\ HopOK(fr[n]) /\ t[n] \in Nat /\ t[n + 1] = FillOut(fr[n], t[n])
    BY <1>1, <1>3
  <2>2. u[n + 1] \in Nat /\ u[n + 1] <= FillOut(fr[n], t[n])
    BY <1>6, <2>1
  <2>3. FillIn(fr[n], u[n + 1]) <= t[n] /\ FillIn(fr[n], u[n + 1]) \in Nat
    BY <2>1, <2>2, FillInOut, FillInBounds
  <2> QED BY <1>4, <2>3
<1>7. \A n \in 1..(c + 1) : n \in S
  <2>1. c \in Nat
    BY <1>1
  <2> HIDE DEF S
  <2> QED BY <1>5, <1>6, <2>1, RouteDescent
<1>8. ASSUME NEW n \in 1..c
      PROVE  Fair(fr[n], u[n], u[n + 1])
  <2>1. HopOK(fr[n]) /\ u[n + 1] \in Nat /\ u[n] = FillIn(fr[n], u[n + 1])
    <3>1. n \in 1..Len(fr) /\ n + 1 \in 1..(c + 1)
      BY <1>1
    <3>2. n + 1 \in S
      BY <1>7, <3>1
    <3> QED BY <1>1, <1>4, <3>1, <3>2
  <2> QED BY <2>1, FillInBounds
<1> QED BY <1>2, <1>7, <1>8

\* What the filling loop trades is sound, passes the checks of fill_forward and
\* fill_backward, and takes no more than the input.
LEMMA TraceSound ==
  ASSUME NEW fr, Frontier(fr), NEW x \in Nat,
         NEW c, c = Constraint(fr, Forward(fr, x)), NEW t, t = Trace(fr, x, c)
  PROVE  Sound(fr, t) /\ t[1] <= x /\ ~TraceFails(fr, t, c)
<1>1. Len(fr) \in Nat /\ \A n \in 1..Len(fr) : HopOK(fr[n])
  BY DEF Frontier
<1>2. PICK a : a = Forward(fr, x)
  OBVIOUS
<1>3. /\ a[1] = x /\ a = [n \in 1..(Len(fr) + 1) |-> a[n]]
      /\ \A n \in 1..Len(fr) : a[n + 1] = FillOut(fr[n], a[n])
  BY <1>2, ForwardDef
<1>4. /\ \A n \in 1..(Len(fr) + 1) : a[n] \in Nat
      /\ \A n \in 1..Len(fr) : /\ a[n + 1] <= fr[n].rout
                               /\ Fair(fr[n], a[n], a[n + 1])
  BY <1>2, ForwardType
<1>8. \A n \in 1..Len(fr) : n + 1 \in 1..(Len(fr) + 1) /\ fr[n].rout \in Nat
  BY <1>1, HopCoefficients
<1>5. /\ c \in 0..Len(fr)
      /\ c # 0 => Unfilled(fr[c], a[c]) > 0
      /\ \A n \in 1..Len(fr) : n > c => ~(Unfilled(fr[n], a[n]) > 0)
  BY <1>2, ConstraintExact
<1>6. CASE c = 0
  <2>1. t = a
    BY <1>2, <1>6 DEF Trace
  <2>2. a \in [1..(Len(fr) + 1) -> Nat]
    BY <1>3, <1>4
  <2>3. ASSUME NEW n \in 1..Len(fr) PROVE ~(a[n + 1] > fr[n].rout)
    <3>1. a[n + 1] <= fr[n].rout /\ a[n + 1] \in Nat /\ fr[n].rout \in Nat
      BY <1>4, <1>8
    <3> QED BY <3>1
  <2>4. ~TraceFails(fr, a, c)
    BY <1>1, <1>5, <2>3 DEF TraceFails
  <2>5. Sound(fr, a)
    BY <1>4, <2>2 DEF Sound
  <2> QED BY <1>1, <1>3, <2>1, <2>4, <2>5
<1>7. CASE c # 0
  <2>1. c \in 1..Len(fr)
    BY <1>1, <1>5, <1>7
  <2>2. a[c + 1] = fr[c].rout
    <3>1. ~Fits(fr[c], a[c])
      BY <1>5, <1>7 DEF Unfilled
    <3>2. FillOut(fr[c], a[c]) = fr[c].rout
      BY <3>1 DEF FillOut
    <3> QED BY <1>3, <2>1, <3>2
  <2>3. PICK u, v : u = Back(fr, c) /\ v = Forward(SubSeq(fr, c + 1, Len(fr)), fr[c].rout)
    OBVIOUS
  <2>4. t = [n \in 1..(Len(fr) + 1) |-> IF n <= c + 1 THEN u[n] ELSE v[n - c]]
    BY <1>7, <2>3 DEF Trace, Back, BackStep
  <2>5. /\ \A n \in 1..(c + 1) : u[n] \in Nat /\ u[n] <= a[n]
        /\ \A n \in 1..c : Fair(fr[n], u[n], u[n + 1])
        /\ u[c + 1] = a[c + 1]
    BY <1>2, <1>5, <2>1, <2>2, <2>3, BackBounds, BackDef, SMTT(60)
  <2>6. \A n \in (c + 1)..(Len(fr) + 1) : v[n - c] = a[n]
    BY <1>2, <2>1, <2>2, <2>3, SuffixForward
  <2>7. ASSUME NEW n \in 1..(Len(fr) + 1), n <= c + 1
        PROVE  t[n] = u[n] /\ n \in 1..(c + 1) /\ t[n] \in Nat /\ t[n] <= a[n]
    <3>1. n \in 1..(c + 1)
      BY <2>1, <2>7
    <3>2. t[n] = u[n]
      BY <2>4, <2>7
    <3> QED BY <2>5, <3>1, <3>2
  <2>8. ASSUME NEW n \in 1..(Len(fr) + 1), n >= c + 1
        PROVE  t[n] = a[n]
    <3>1. CASE n = c + 1
      BY <2>4, <2>5, <3>1
    <3>2. CASE n # c + 1
      <4>1. n \in (c + 1)..(Len(fr) + 1) /\ ~(n <= c + 1)
        BY <1>1, <2>1, <2>8, <3>2
      <4> QED BY <2>4, <2>6, <4>1
    <3> QED BY <3>1, <3>2
  <2>9. ASSUME NEW n \in 1..(Len(fr) + 1) PROVE t[n] \in Nat /\ t[n] <= a[n]
    <3>1. n <= c + 1 \/ n >= c + 1
      BY <2>1
    <3>2. a[n] \in Nat
      BY <1>4
    <3> QED BY <2>7, <2>8, <3>1, <3>2
  <2>10. t \in [1..(Len(fr) + 1) -> Nat]
    BY <2>4, <2>9
  <2>11. ASSUME NEW n \in 1..Len(fr)
         PROVE  /\ t[n + 1] <= fr[n].rout
                /\ Fair(fr[n], t[n], t[n + 1])
    <3>1. n \in 1..(Len(fr) + 1) /\ n + 1 \in 1..(Len(fr) + 1)
      BY <1>1
    <3>2. t[n + 1] \in Nat /\ t[n + 1] <= a[n + 1] /\ a[n + 1] <= fr[n].rout
          /\ a[n + 1] \in Nat /\ fr[n].rout \in Nat
      BY <1>1, <1>4, <2>9, <3>1, HopCoefficients
    <3>3. CASE n <= c
      <4>1. n \in 1..c /\ n <= c + 1 /\ n + 1 <= c + 1
        BY <2>1, <3>3
      <4>2. t[n] = u[n] /\ t[n + 1] = u[n + 1]
        BY <2>7, <3>1, <4>1
      <4> QED BY <2>5, <3>2, <4>1, <4>2
    <3>4. CASE ~(n <= c)
      <4>1. n >= c + 1 /\ n + 1 >= c + 1
        BY <2>1, <3>4
      <4>2. t[n] = a[n] /\ t[n + 1] = a[n + 1]
        BY <2>8, <3>1, <4>1
      <4> QED BY <1>4, <3>2, <4>2
    <3> QED BY <3>3, <3>4
  <2>12. ~TraceFails(fr, t, c)
    <3>1. ASSUME NEW n \in 1..Len(fr) PROVE ~(t[n + 1] > fr[n].rout)
      <4>1. t[n + 1] \in Nat /\ fr[n].rout \in Nat /\ t[n + 1] <= fr[n].rout
        BY <1>1, <2>9, <2>11, HopCoefficients
      <4> QED BY <4>1
    <3>2. ASSUME NEW n \in 1..Len(fr), n > c PROVE ~(Unfilled(fr[n], t[n]) > 0)
      <4>1. n >= c + 1 /\ n \in 1..(Len(fr) + 1)
        BY <1>1, <2>1, <3>2
      <4>2. t[n] = a[n]
        BY <2>8, <4>1
      <4> QED BY <1>5, <3>2, <4>2
    <3> QED BY <3>1, <3>2 DEF TraceFails
  <2>13. t[1] <= x
    <3>1. 1 \in 1..(Len(fr) + 1)
      BY <1>1
    <3> QED BY <1>3, <2>9, <3>1
  <2>14. Sound(fr, t)
    BY <2>10, <2>11 DEF Sound
  <2> QED BY <2>12, <2>13, <2>14
<1> QED BY <1>6, <1>7

-----------------------------------------------------------------------------
(* Loading the frontier                                                     *)

LoadStep(b, route, g, n) == IF n = 0 THEN <<>> ELSE LoadHop(b, g[n - 1], Hop(route, n), n)

\* The recursive function of Load exists.
LEMMA LoadExists ==
  ASSUME NEW b, NEW route
  PROVE  \A k \in Nat : \E g : g = [n \in 0..k |-> LoadStep(b, route, g, n)]
<1> DEFINE R(k) == \E g : g = [n \in 0..k |-> LoadStep(b, route, g, n)]
           S == {k \in Nat : R(k)}
<1>1. 0 \in S
  <2>1. PICK g : g = [n \in 0..0 |-> <<>>]
    OBVIOUS
  <2>2. g = [n \in 0..0 |-> LoadStep(b, route, g, n)]
    BY <2>1 DEF LoadStep
  <2> QED BY <2>2
<1>2. ASSUME NEW k \in Nat, k \in S PROVE k + 1 \in S
  <2>1. PICK g : g = [n \in 0..k |-> LoadStep(b, route, g, n)]
    BY <1>2
  <2>2. PICK h : h = [n \in 0..(k + 1) |-> LoadStep(b, route, g, n)]
    OBVIOUS
  <2>3. ASSUME NEW n \in 0..(k + 1)
        PROVE  LoadStep(b, route, g, n) = LoadStep(b, route, h, n)
    <3>1. CASE n = 0
      BY <3>1 DEF LoadStep
    <3>2. CASE n # 0
      <4>1. n - 1 \in 0..k /\ n - 1 \in 0..(k + 1)
        BY <3>2
      <4>2. /\ g[n - 1] = LoadStep(b, route, g, n - 1)
            /\ h[n - 1] = LoadStep(b, route, g, n - 1)
        BY <2>1, <2>2, <4>1
      <4> QED BY <4>2 DEF LoadStep
    <3> QED BY <3>1, <3>2
  <2>4. h = [n \in 0..(k + 1) |-> LoadStep(b, route, h, n)]
    BY <2>2, <2>3
  <2> QED BY <2>4
<1> HIDE DEF S
<1>3. \A k \in Nat : k \in S
  BY <1>1, <1>2, NatSetInduction
<1> QED BY <1>3 DEF S

Distinct(fr) == \A m, n \in 1..Len(fr) : fr[m].id = fr[n].id => m = n

\* A frontier as it is loaded from a book, along the first hops of a route.
LoadedOK(b, route, fr) ==
  /\ Frontier(fr) /\ Distinct(fr)
  /\ \A n \in 1..Len(fr) : Fresh(b.pos, fr[n]) /\ fr[n].dir = Hop(route, n)

\* Loading one more hop.
LEMMA LoadHopExact ==
  ASSUME NEW b, BookOK(b), NEW route, NEW n \in Nat, n > 0,
         NEW fr, LoadedOK(b, route, fr), Len(fr) <= n - 1
  PROVE  LET g == LoadHop(b, fr, Hop(route, n), n) IN LoadedOK(b, route, g) /\ Len(g) <= n
<1>0. fr \in Seq(HopSet) /\ Len(fr) \in Nat
  BY DEF LoadedOK, Frontier
<1>1. CASE Len(fr) < n - 1 \/ Available(b, Hop(route, n), Used(fr)) = {}
  <2>1. LoadHop(b, fr, Hop(route, n), n) = fr
    BY <1>1 DEF LoadHop
  <2> QED BY <1>0, <2>1
<1>2. CASE ~(Len(fr) < n - 1) /\ Available(b, Hop(route, n), Used(fr)) # {}
  <2>1. PICK f, g : f = Best(b, Hop(route, n), Used(fr)) /\ g = Append(fr, f)
    OBVIOUS
  <2>2. Fresh(b.pos, f) /\ f.dir = Hop(route, n) /\ f.id \notin Used(fr)
    BY <1>2, <2>1, BestExact
  <2>3. LoadHop(b, fr, Hop(route, n), n) = g
    BY <1>2, <2>1 DEF LoadHop
  <2>4. HopOK(f) /\ f \in HopSet /\ Len(fr) = n - 1
    BY <1>0, <1>2, <2>2 DEF Fresh, HopOK
  <2>5. g \in Seq(HopSet) /\ Len(g) = n /\ g[n] = f /\ \A m \in 1..(n - 1) : g[m] = fr[m]
    BY <1>0, <2>1, <2>4
  <2>6. ASSUME NEW m \in 1..Len(g)
        PROVE  HopOK(g[m]) /\ Fresh(b.pos, g[m]) /\ g[m].dir = Hop(route, m)
    <3>1. CASE m = n
      BY <2>2, <2>4, <2>5, <3>1
    <3>2. CASE m # n
      <4>1. m \in 1..Len(fr) /\ m \in 1..(n - 1)
        BY <2>4, <2>5, <3>2
      <4> QED BY <2>5, <4>1 DEF LoadedOK, Frontier
    <3> QED BY <3>1, <3>2
  <2>7. ASSUME NEW m \in 1..Len(g), NEW k \in 1..Len(g), g[m].id = g[k].id PROVE m = k
    <3>1. \A j \in 1..(n - 1) : g[j].id # f.id
      <4>1. \A j \in 1..Len(fr) : fr[j].id # f.id
        BY <2>2 DEF Used
      <4> QED BY <2>4, <2>5, <4>1
    <3>2. CASE m = n \/ k = n
      <4>1. (m \in 1..(n - 1) \/ m = n) /\ (k \in 1..(n - 1) \/ k = n)
        BY <2>5
      <4> QED BY <2>5, <2>7, <3>1, <3>2, <4>1
    <3>3. CASE m # n /\ k # n
      <4>1. m \in 1..Len(fr) /\ k \in 1..Len(fr) /\ m \in 1..(n - 1) /\ k \in 1..(n - 1)
        BY <2>4, <2>5, <3>3
      <4>2. fr[m].id = fr[k].id
        BY <2>5, <2>7, <4>1
      <4> QED BY <4>1, <4>2 DEF LoadedOK, Distinct
    <3> QED BY <3>2, <3>3
  <2>8. LoadedOK(b, route, g)
    BY <2>5, <2>6, <2>7 DEF LoadedOK, Frontier, Distinct
  <2> QED BY <2>3, <2>5, <2>8
<1> QED BY <1>1, <1>2

\* Frontier::load
LEMMA LoadExact ==
  ASSUME NEW b, BookOK(b), NEW route, Len(route) \in Nat, Len(route) > 0
  PROVE  LoadedOK(b, route, Load(b, route)) /\ Len(Load(b, route)) <= Len(route) - 1
<1>1. PICK N \in Nat : N = Len(route) - 1
  OBVIOUS
<1>2. PICK u : u = CHOOSE g : g = [n \in 0..N |-> LoadStep(b, route, g, n)]
  OBVIOUS
<1>3. u = [n \in 0..N |-> LoadStep(b, route, u, n)]
  BY <1>2, LoadExists
<1>4. Load(b, route) = u[N]
  BY <1>1, <1>2 DEF Load, LoadStep
<1> DEFINE S == {n \in Nat : n <= N => LoadedOK(b, route, u[n]) /\ Len(u[n]) <= n}
<1>5. 0 \in S
  <2>1. u[0] = <<>>
    BY <1>3 DEF LoadStep
  <2>2. <<>> \in Seq(HopSet) /\ Len(<<>>) = 0
    OBVIOUS
  <2>3. LoadedOK(b, route, <<>>)
    BY <2>2 DEF LoadedOK, Frontier, Distinct
  <2> QED BY <2>1, <2>2, <2>3
<1>6. ASSUME NEW n \in Nat, n \in S PROVE n + 1 \in S
  <2>1. SUFFICES ASSUME n + 1 <= N PROVE LoadedOK(b, route, u[n + 1]) /\ Len(u[n + 1]) <= n + 1
    OBVIOUS
  <2>2. n + 1 \in 0..N /\ n + 1 # 0 /\ n + 1 - 1 = n /\ n <= N
    BY <2>1
  <2>3. u[n + 1] = LoadHop(b, u[n], Hop(route, n + 1), n + 1)
    BY <1>3, <2>2 DEF LoadStep
  <2>4. PICK fr : fr = u[n]
    OBVIOUS
  <2>5. LoadedOK(b, route, fr) /\ Len(fr) <= n
    BY <1>6, <2>2, <2>4
  <2>6. PICK m \in Nat : m = n + 1 /\ m > 0 /\ Len(fr) <= m - 1
    BY <2>2, <2>5
  <2>7. LoadedOK(b, route, LoadHop(b, fr, Hop(route, m), m)) /\ Len(LoadHop(b, fr, Hop(route, m), m)) <= m
    BY <2>5, <2>6, LoadHopExact
  <2> QED BY <2>3, <2>4, <2>6, <2>7
<1>7. \A n \in Nat : n \in S
  <2> HIDE DEF S
  <2> QED BY <1>5, <1>6, NatSetInduction
<1>8. N \in S
  BY <1>7
<1> QED BY <1>1, <1>4, <1>8

-----------------------------------------------------------------------------
(* What the positions hold, those of the frontier with what it has of them   *)

HopOf(fr, i) == CHOOSE n \in 1..Len(fr) : fr[n].id = i

Held(pos, fr) ==
  [i \in Ids |-> IF i \in Used(fr) THEN HopReserves(fr[HopOf(fr, i)]) ELSE pos[i].r]

\* The reserves of asset a, of one position and of all.
ValueAt(i, r, a) == IF a \in {Phi[i].a1, Phi[i].a2} THEN r[Slot(i, a)] ELSE 0
Value(h, a) == SumFunctionOnSet([i \in Ids |-> ValueAt(i, h[i], a)], Ids)

\* The reserves of a hop are those of its position.
LEMMA HopReservesExact ==
  ASSUME NEW f, HopOK(f)
  PROVE  /\ HopReserves(f) \in Nat \X Nat
         /\ \A a : ValueAt(f.id, HopReserves(f), a) =
                     IF a = f.dir[1] THEN f.rin ELSE IF a = f.dir[2] THEN f.rout ELSE 0
<1>1. PICK i, d, x, y : i = f.id /\ d = f.dir /\ x = f.rin /\ y = f.rout
  OBVIOUS
<1>2. i \in Ids /\ x \in Nat /\ y \in Nat /\ d \in Directions(i)
  BY <1>1 DEF HopOK, HopSet
<1>3. Phi[i].a1 \in Nat /\ Phi[i].a2 \in Nat /\ Phi[i].a1 # Phi[i].a2
  BY <1>2, PositionAssumption
<1>4. CASE d[1] = Phi[i].a1 /\ d[2] = Phi[i].a2
  BY <1>1, <1>2, <1>3, <1>4 DEF HopReserves, ValueAt, Slot
<1>5. CASE d[1] = Phi[i].a2 /\ d[2] = Phi[i].a1
  BY <1>1, <1>2, <1>3, <1>5 DEF HopReserves, ValueAt, Slot
<1>6. (d[1] = Phi[i].a1 /\ d[2] = Phi[i].a2) \/ (d[1] = Phi[i].a2 /\ d[2] = Phi[i].a1)
  BY <1>2 DEF Directions, PairOf, Flip
<1> QED BY <1>4, <1>5, <1>6

\* What the positions hold while a route is filled: the frontier's reserves, and the others' own.
LEMMA HeldExact ==
  ASSUME NEW pos \in [Ids -> Position], NEW fr, Frontier(fr), Distinct(fr)
  PROVE  /\ Held(pos, fr) \in [Ids -> Nat \X Nat]
         /\ \A n \in 1..Len(fr) : Held(pos, fr)[fr[n].id] = HopReserves(fr[n])
         /\ \A i \in Ids : i \notin Used(fr) => Held(pos, fr)[i] = pos[i].r
<1>1. Len(fr) \in Nat /\ \A n \in 1..Len(fr) : HopOK(fr[n])
  BY DEF Frontier
<1>2. ASSUME NEW n \in 1..Len(fr)
      PROVE  fr[n].id \in Ids /\ fr[n].id \in Used(fr) /\ HopOf(fr, fr[n].id) = n
  <2>1. HopOf(fr, fr[n].id) \in 1..Len(fr) /\ fr[HopOf(fr, fr[n].id)].id = fr[n].id
    BY DEF HopOf
  <2>2. HopOf(fr, fr[n].id) = n
    BY <2>1 DEF Distinct
  <2>3. fr[n].id \in Ids
    BY <1>1, HopCoefficients
  <2> QED BY <2>2, <2>3 DEF Used
<1>3. ASSUME NEW n \in 1..Len(fr) PROVE Held(pos, fr)[fr[n].id] = HopReserves(fr[n])
  BY <1>2 DEF Held
<1>4. ASSUME NEW i \in Ids PROVE Held(pos, fr)[i] \in Nat \X Nat
  <2>1. CASE i \in Used(fr)
    <3>1. PICK n \in 1..Len(fr) : i = fr[n].id
      BY <2>1 DEF Used
    <3>2. HopReserves(fr[n]) \in Nat \X Nat
      BY <1>1, HopReservesExact
    <3> QED BY <1>3, <3>1, <3>2
  <2>2. CASE i \notin Used(fr)
    BY <2>2 DEF Held, Position
  <2> QED BY <2>1, <2>2
<1>5. Held(pos, fr) \in [Ids -> Nat \X Nat]
  BY <1>4 DEF Held
<1> QED BY <1>3, <1>5 DEF Held

\* A trade at one hop.
LEMMA HopApplied ==
  ASSUME NEW f, HopOK(f), NEW s \in Nat, NEW o \in Nat, o <= f.rout,
         NEW g, g = TradeHop(f, s, o)
  PROVE  /\ HopOK(g) /\ g.id = f.id /\ g.dir = f.dir
         /\ g.rin = f.rin + s /\ g.rout = f.rout - o
<1>1. f \in HopSet /\ f.dir \in Directions(f.id)
  BY DEF HopOK
<1>2. f.rin \in Nat /\ f.rout \in Nat /\ f.id \in Ids /\ f.dir \in Nat \X Nat
  BY <1>1 DEF HopSet
<1>3. g = [id |-> f.id, dir |-> f.dir, rin |-> f.rin + s, rout |-> f.rout - o]
  BY <1>1 DEF HopSet, TradeHop
<1>4. f.rin + s \in Nat /\ f.rout - o \in Nat
  BY <1>2
<1>5. g \in HopSet
  BY <1>2, <1>3, <1>4 DEF HopSet
<1> QED BY <1>1, <1>3, <1>5 DEF HopOK

\* What a fair trade leaves of the trading function's value.
LEMMA FairTrade ==
  ASSUME NEW one \in Nat, NEW p \in Nat, NEW q \in Nat, NEW x \in Nat, NEW y \in Nat,
         NEW s \in Nat, NEW o \in Nat, one * (q * o) <= one * (p * s) + p * o
  PROVE  one * (p * x + q * y) <= one * (p * (x + s) + q * (y - o)) + p * (y - (y - o))
<1>1. /\ one * (p * x + q * y) = one * (p * x) + one * (q * y)
      /\ one * (p * (x + s) + q * (y - o))
           = one * (p * x) + one * (p * s) + one * (q * y) - one * (q * o)
      /\ y - (y - o) = o
  OBVIOUS
<1>2. /\ one * (p * x) \in Nat /\ one * (q * y) \in Nat /\ one * (p * s) \in Nat
      /\ one * (q * o) \in Nat /\ p * o \in Nat
  OBVIOUS
<1> QED BY <1>1, <1>2

\* The reserves of position i went from old to new by trades in one direction.
OneWay(i, old, new) == \E n \in 1..2 : Sold(i, old, new, n)

\* The position of a hop had the reserves r and has sold since what the hop sells.
HopSold(f, r) == Sold(f.id, r, HopReserves(f), Slot(f.id, f.dir[2]))

\* What a trading function makes of reserves.
LEMMA WorthType ==
  ASSUME NEW i \in Ids, NEW r \in Nat \X Nat
  PROVE  Worth(i, r) \in Nat /\ Phi[i].p \in Nat /\ Phi[i].q \in Nat
BY PositionAssumption DEF Worth

\* A position that did not trade.
LEMMA SoldNothing ==
  ASSUME NEW i \in Ids, NEW r \in Nat \X Nat, NEW n \in 1..2
  PROVE  Sold(i, r, r, n)
<1>1. PICK one, m, k, u : /\ one = One /\ m = 3 - n /\ u = Worth(i, r)
                          /\ k = IF m = 1 THEN Phi[i].p ELSE Phi[i].q
  OBVIOUS
<1>2. one \in Nat /\ k \in Nat /\ u \in Nat /\ r[n] \in Nat /\ r[m] \in Nat
  BY <1>1, WorthType, FixpointAssumption
<1>3. one * u \in Nat /\ r[n] - r[n] = 0 /\ k * 0 = 0
  BY <1>2
<1>4. one * u <= one * u + k * (r[n] - r[n])
  BY <1>2, <1>3
<1> QED BY <1>1, <1>2, <1>4 DEF Sold

\* Two trades in the same direction.
LEMMA SoldTwice ==
  ASSUME NEW i \in Ids, NEW n \in 1..2,
         NEW r \in Nat \X Nat, NEW s \in Nat \X Nat, NEW t \in Nat \X Nat,
         Sold(i, r, s, n), Sold(i, s, t, n)
  PROVE  Sold(i, r, t, n)
<1>1. PICK one, m, k, u, v, w : /\ one = One /\ m = 3 - n
                                /\ u = Worth(i, r) /\ v = Worth(i, s) /\ w = Worth(i, t)
                                /\ k = IF m = 1 THEN Phi[i].p ELSE Phi[i].q
  OBVIOUS
<1>2. one \in Nat /\ k \in Nat /\ u \in Nat /\ v \in Nat /\ w \in Nat
  BY <1>1, WorthType, FixpointAssumption
<1>3. PICK a, b, c, d, e, f : /\ a = r[n] /\ b = s[n] /\ c = t[n]
                              /\ d = r[m] /\ e = s[m] /\ f = t[m]
  OBVIOUS
<1>4. a \in Nat /\ b \in Nat /\ c \in Nat /\ d \in Nat /\ e \in Nat /\ f \in Nat
  BY <1>1, <1>3
<1>5. /\ b <= a /\ e >= d /\ one * u <= one * v + k * (a - b)
      /\ c <= b /\ f >= e /\ one * v <= one * w + k * (b - c)
  BY <1>1, <1>3 DEF Sold
<1>6. c <= a /\ f >= d
  BY <1>4, <1>5
<1>7. one * u <= one * w + k * (a - c)
  <2>1. k * (a - b) + k * (b - c) = k * (a - c)
    BY <1>2, <1>4
  <2>2. /\ one * u \in Int /\ one * v \in Int /\ one * w \in Int
        /\ k * (a - b) \in Int /\ k * (b - c) \in Int /\ k * (a - c) \in Int
    BY <1>2, <1>4
  <2> QED BY <1>5, <2>1, <2>2
<1> QED BY <1>1, <1>3, <1>6, <1>7 DEF Sold

\* A fair trade sells one asset, at the price of the position.
LEMMA HopWorth ==
  ASSUME NEW f, HopOK(f), NEW s \in Nat, NEW o \in Nat, o <= f.rout, Fair(f, s, o),
         NEW g, HopOK(g), g.id = f.id, g.dir = f.dir,
         g.rin = f.rin + s, g.rout = f.rout - o
  PROVE  Sold(f.id, HopReserves(f), HopReserves(g), Slot(f.id, f.dir[2]))
<1>1. PICK one, i, d, x, y : one = One /\ i = f.id /\ d = f.dir /\ x = f.rin /\ y = f.rout
  OBVIOUS
<1>2. one \in Nat /\ i \in Ids /\ x \in Nat /\ y \in Nat /\ d \in Directions(i)
  BY <1>1, FixpointAssumption DEF HopOK, HopSet
<1>3. PICK p, q : p = Phi[i].p /\ q = Phi[i].q
  OBVIOUS
<1>4. p \in Nat /\ q \in Nat
  BY <1>2, <1>3, PositionAssumption
<1>5. y - o <= y /\ x + s >= x /\ y - o \in Nat /\ x + s \in Nat
  BY <1>1, <1>2
<1>6. Phi[i].a1 # Phi[i].a2
  BY <1>2, PositionAssumption
<1>7. CASE d[1] = Phi[i].a1 /\ d[2] = Phi[i].a2
  <2>1. one * (q * o) <= one * (p * s) + p * o
    BY <1>1, <1>3, <1>7 DEF P, Q, Fair
  <2>2. one * (p * x + q * y) <= one * (p * (x + s) + q * (y - o)) + p * (y - (y - o))
    BY <1>2, <1>4, <2>1, FairTrade
  <2>3. HopReserves(f) = <<x, y>> /\ HopReserves(g) = <<x + s, y - o>> /\ Slot(i, d[2]) = 2
    BY <1>1, <1>6, <1>7 DEF HopReserves, Slot
  <2>4. PICK old, new : old = <<x, y>> /\ new = <<x + s, y - o>>
    OBVIOUS
  <2>5. old[1] = x /\ old[2] = y /\ new[1] = x + s /\ new[2] = y - o
    BY <2>4
  <2>6. one * Worth(i, old) <= one * Worth(i, new) + p * (old[2] - new[2])
    BY <1>3, <2>2, <2>5 DEF Worth
  <2>7. Sold(i, old, new, 2)
    BY <1>1, <1>3, <1>5, <2>5, <2>6 DEF Sold
  <2> QED BY <1>1, <2>3, <2>4, <2>7
<1>8. CASE d[1] = Phi[i].a2 /\ d[2] = Phi[i].a1
  <2>1. one * (p * o) <= one * (q * s) + q * o
    BY <1>1, <1>3, <1>6, <1>8 DEF P, Q, Fair
  <2>2. one * (q * x + p * y) <= one * (q * (x + s) + p * (y - o)) + q * (y - (y - o))
    BY <1>2, <1>4, <2>1, FairTrade
  <2>3. HopReserves(f) = <<y, x>> /\ HopReserves(g) = <<y - o, x + s>> /\ Slot(i, d[2]) = 1
    BY <1>1, <1>6, <1>8 DEF HopReserves, Slot
  <2>4. PICK old, new : old = <<y, x>> /\ new = <<y - o, x + s>>
    OBVIOUS
  <2>5. old[1] = y /\ old[2] = x /\ new[1] = y - o /\ new[2] = x + s
    BY <2>4
  <2>6. /\ q * x + p * y = p * y + q * x
        /\ q * (x + s) + p * (y - o) = p * (y - o) + q * (x + s)
    BY <1>2, <1>4, <1>5
  <2>7. one * Worth(i, old) <= one * Worth(i, new) + q * (old[1] - new[1])
    BY <1>3, <2>2, <2>5, <2>6 DEF Worth
  <2>8. Sold(i, old, new, 1)
    BY <1>1, <1>3, <1>5, <2>5, <2>7 DEF Sold
  <2> QED BY <1>1, <2>3, <2>4, <2>8
<1>9. (d[1] = Phi[i].a1 /\ d[2] = Phi[i].a2) \/ (d[1] = Phi[i].a2 /\ d[2] = Phi[i].a1)
  BY <1>2 DEF Directions, PairOf, Flip
<1> QED BY <1>7, <1>8, <1>9

HeldWith(h, i, r) == [h EXCEPT ![i] = r]

\* What changes if one position does.
LEMMA ValueChange ==
  ASSUME NEW h \in [Ids -> Nat \X Nat], NEW i \in Ids, NEW r \in Nat \X Nat, NEW a
  PROVE  /\ Value(h, a) \in Nat
         /\ Value(HeldWith(h, i, r), a) = Value(h, a) + ValueAt(i, r, a) - ValueAt(i, h[i], a)
<1>0. PICK g : g = HeldWith(h, i, r)
  OBVIOUS
<1>8. g = [h EXCEPT ![i] = r]
  BY <1>0 DEF HeldWith
<1>1. PICK u, v : /\ u = [j \in Ids |-> ValueAt(j, h[j], a)]
                  /\ v = [j \in Ids |-> ValueAt(j, g[j], a)]
  OBVIOUS
<1>2. \A j \in Ids : u[j] \in Nat
  BY <1>1 DEF ValueAt, Slot
<1>3. \A j \in Ids : j # i => v[j] = u[j]
  BY <1>1, <1>8
<1>4. v[i] = ValueAt(i, r, a) /\ u[i] = ValueAt(i, h[i], a) /\ v[i] \in Nat
  BY <1>1, <1>8 DEF ValueAt, Slot
<1>5. IsFiniteSet(Ids)
  BY PositionAssumption
<1>6. SumFunctionOnSet(v, Ids) = SumFunctionOnSet(u, Ids) + v[i] - u[i]
  BY <1>2, <1>3, <1>4, <1>5, SumChange
<1>7. SumFunctionOnSet(u, Ids) \in Nat
  BY <1>2, <1>5, SumNat
<1> QED BY <1>0, <1>1, <1>4, <1>6, <1>7 DEF Value

\* It moves what is bought and sold.
LEMMA HopValue ==
  ASSUME NEW h \in [Ids -> Nat \X Nat], NEW e, HopOK(e), NEW f, HopOK(f), f.id = e.id, f.dir = e.dir,
         NEW x \in Nat, NEW y \in Nat, f.rin = e.rin + x, f.rout = e.rout - y,
         h[e.id] = HopReserves(e), NEW a
  PROVE  Value(HeldWith(h, e.id, HopReserves(f)), a)
           = Value(h, a) + (IF a = e.dir[1] THEN x ELSE 0) - (IF a = e.dir[2] THEN y ELSE 0)
<1>1. PICK i, r : i = e.id /\ r = HopReserves(f)
  OBVIOUS
<1>2. i \in Ids /\ r \in Nat \X Nat
  BY <1>1, HopReservesExact, HopCoefficients
<1>3. /\ Value(h, a) \in Nat
      /\ Value(HeldWith(h, i, r), a) = Value(h, a) + ValueAt(i, r, a) - ValueAt(i, h[i], a)
  BY <1>1, <1>2, ValueChange
<1>4. ValueAt(i, h[i], a) = IF a = e.dir[1] THEN e.rin ELSE IF a = e.dir[2] THEN e.rout ELSE 0
  BY <1>1, HopReservesExact
<1>5. ValueAt(i, r, a) = IF a = f.dir[1] THEN f.rin ELSE IF a = f.dir[2] THEN f.rout ELSE 0
  <2>1. i = f.id
    BY <1>1
  <2> QED BY <1>1, <2>1, HopReservesExact
<1>6. e.dir[1] # e.dir[2]
  <2>1. i \in Ids /\ e.dir \in Directions(i)
    BY <1>1, <1>2 DEF HopOK
  <2>2. Phi[i].a1 # Phi[i].a2
    BY <2>1, PositionAssumption
  <2> QED BY <2>1, <2>2 DEF Directions, PairOf, Flip
<1>7. e.rin \in Nat /\ e.rout \in Nat
  BY HopCoefficients
<1> QED BY <1>1, <1>3, <1>4, <1>5, <1>6, <1>7

\* The trade of the first k hops.
Partial(fr, t, k) == [n \in 1..Len(fr) |-> IF n <= k THEN Applied(fr, t)[n] ELSE fr[n]]

\* A frontier of which the first hops have traded is a frontier.
LEMMA PartialExact ==
  ASSUME NEW fr, Frontier(fr), Distinct(fr), NEW t, Sound(fr, t), NEW k \in 0..Len(fr)
  PROVE  LET g == Partial(fr, t, k) IN
         /\ Frontier(g) /\ Distinct(g) /\ Len(g) = Len(fr) /\ Used(g) = Used(fr)
         /\ \A n \in 1..Len(fr) : /\ g[n].id = fr[n].id /\ g[n].dir = fr[n].dir
                                  /\ n > k => g[n] = fr[n]
                                  /\ n <= k => /\ g[n].rin = fr[n].rin + t[n]
                                               /\ g[n].rout = fr[n].rout - t[n + 1]
<1>1. fr \in Seq(HopSet) /\ Len(fr) \in Nat /\ \A n \in 1..Len(fr) : HopOK(fr[n])
  BY DEF Frontier
<1>2. PICK g : g = Partial(fr, t, k)
  OBVIOUS
<1>3. ASSUME NEW n \in 1..Len(fr)
      PROVE  /\ HopOK(g[n]) /\ g[n].id = fr[n].id /\ g[n].dir = fr[n].dir
             /\ n > k => g[n] = fr[n]
             /\ n <= k => g[n].rin = fr[n].rin + t[n] /\ g[n].rout = fr[n].rout - t[n + 1]
  <2>1. PICK f, x, y : f = fr[n] /\ x = t[n] /\ y = t[n + 1]
    OBVIOUS
  <2>2. n \in 1..(Len(fr) + 1) /\ n + 1 \in 1..(Len(fr) + 1)
    BY <1>1
  <2>3. HopOK(f) /\ x \in Nat /\ y \in Nat /\ y <= f.rout
    BY <1>1, <2>1, <2>2 DEF Sound
  <2>4. PICK e : e = TradeHop(f, x, y)
    OBVIOUS
  <2>5. HopOK(e) /\ e.id = f.id /\ e.dir = f.dir /\ e.rin = f.rin + x /\ e.rout = f.rout - y
    BY <2>3, <2>4, HopApplied
  <2>6. CASE n <= k
    <3>1. g[n] = e
      BY <1>2, <2>1, <2>4, <2>6 DEF Partial, Applied
    <3> QED BY <2>1, <2>5, <2>6, <3>1
  <2>7. CASE ~(n <= k)
    <3>1. g[n] = f
      BY <1>2, <2>1, <2>7 DEF Partial
    <3> QED BY <2>1, <2>3, <2>7, <3>1
  <2> QED BY <2>6, <2>7
<1>4. g \in Seq(HopSet) /\ Len(g) = Len(fr)
  <2>1. \A n \in 1..Len(fr) : g[n] \in HopSet
    BY <1>3 DEF HopOK
  <2>2. g = [n \in 1..Len(fr) |-> g[n]]
    BY <1>2 DEF Partial
  <2> QED BY <1>1, <2>1, <2>2, SeqDef, LenProperties
<1>5. Frontier(g)
  BY <1>3, <1>4 DEF Frontier
<1>6. Distinct(g)
  BY <1>3, <1>4 DEF Distinct
<1>7. Used(g) = Used(fr)
  BY <1>3, <1>4 DEF Used
<1> QED BY <1>2, <1>3, <1>4, <1>5, <1>6, <1>7

\* One more hop.
LEMMA PartialStep ==
  ASSUME NEW pos \in [Ids -> Position], NEW fr, Frontier(fr), Distinct(fr),
         NEW t, Sound(fr, t), NEW k \in 0..Len(fr), NEW l \in 1..Len(fr), l = k + 1
  PROVE  LET h == Held(pos, Partial(fr, t, k))
             g == Held(pos, Partial(fr, t, l))
         IN \A a : Value(g, a) = Value(h, a) + (IF a = fr[l].dir[1] THEN t[l] ELSE 0)
                                             - (IF a = fr[l].dir[2] THEN t[l + 1] ELSE 0)
<1>1. Len(fr) \in Nat /\ HopOK(fr[l]) /\ l \in 0..Len(fr)
  BY DEF Frontier
<1>2. PICK pk, pl, h, g, i : /\ pk = Partial(fr, t, k) /\ pl = Partial(fr, t, l)
                             /\ h = Held(pos, pk) /\ g = Held(pos, pl) /\ i = fr[l].id
  OBVIOUS
<1>3. /\ Frontier(pk) /\ Distinct(pk) /\ Len(pk) = Len(fr) /\ Used(pk) = Used(fr)
      /\ \A n \in 1..Len(fr) : /\ pk[n].id = fr[n].id /\ pk[n].dir = fr[n].dir
                               /\ n > k => pk[n] = fr[n]
                               /\ n <= k => /\ pk[n].rin = fr[n].rin + t[n]
                                            /\ pk[n].rout = fr[n].rout - t[n + 1]
  BY <1>2, PartialExact
<1>4. /\ Frontier(pl) /\ Distinct(pl) /\ Len(pl) = Len(fr) /\ Used(pl) = Used(fr)
      /\ \A n \in 1..Len(fr) : /\ pl[n].id = fr[n].id /\ pl[n].dir = fr[n].dir
                               /\ n > l => pl[n] = fr[n]
                               /\ n <= l => /\ pl[n].rin = fr[n].rin + t[n]
                                            /\ pl[n].rout = fr[n].rout - t[n + 1]
  BY <1>1, <1>2, PartialExact
<1>5. /\ h \in [Ids -> Nat \X Nat]
      /\ \A n \in 1..Len(fr) : h[fr[n].id] = HopReserves(pk[n])
      /\ \A j \in Ids : j \notin Used(fr) => h[j] = pos[j].r
  <2>1. /\ h \in [Ids -> Nat \X Nat]
        /\ \A n \in 1..Len(pk) : h[pk[n].id] = HopReserves(pk[n])
        /\ \A j \in Ids : j \notin Used(pk) => h[j] = pos[j].r
    <3>1. Frontier(pk) /\ Distinct(pk)
      BY <1>3
    <3> QED BY <1>2, <3>1, HeldExact
  <2> QED BY <1>3, <2>1
<1>6. /\ g \in [Ids -> Nat \X Nat]
      /\ \A n \in 1..Len(fr) : g[fr[n].id] = HopReserves(pl[n])
      /\ \A j \in Ids : j \notin Used(fr) => g[j] = pos[j].r
  <2>1. /\ g \in [Ids -> Nat \X Nat]
        /\ \A n \in 1..Len(pl) : g[pl[n].id] = HopReserves(pl[n])
        /\ \A j \in Ids : j \notin Used(pl) => g[j] = pos[j].r
    <3>1. Frontier(pl) /\ Distinct(pl)
      BY <1>4
    <3> QED BY <1>2, <3>1, HeldExact
  <2> QED BY <1>4, <2>1
<1>7. ASSUME NEW n \in 1..Len(fr), n # l PROVE pl[n] = pk[n]
  <2>1. pl[n] = Partial(fr, t, l)[n] /\ pk[n] = Partial(fr, t, k)[n]
    BY <1>2
  <2>2. n <= k <=> n <= l
    BY <1>7
  <2> QED BY <2>1, <2>2 DEF Partial
<1>8. ASSUME NEW j \in Ids, j # i PROVE g[j] = h[j]
  <2>1. CASE j \in Used(fr)
    <3>1. PICK n \in 1..Len(fr) : j = fr[n].id
      BY <2>1 DEF Used
    <3>2. n # l
      BY <1>2, <1>8, <3>1
    <3> QED BY <1>5, <1>6, <1>7, <3>1, <3>2
  <2>2. CASE j \notin Used(fr)
    BY <1>5, <1>6, <2>2
  <2> QED BY <2>1, <2>2
<1>9. PICK e, f, x, y : e = fr[l] /\ f = pl[l] /\ x = t[l] /\ y = t[l + 1]
  OBVIOUS
<1>10. /\ HopOK(e) /\ HopOK(f) /\ f.id = e.id /\ f.dir = e.dir /\ i = e.id
       /\ f.rin = e.rin + x /\ f.rout = e.rout - y
  <2>1. l <= l /\ l \in 1..Len(pl)
    BY <1>4
  <2> QED BY <1>1, <1>2, <1>4, <1>9, <2>1 DEF Frontier
<1>11. x \in Nat /\ y \in Nat
  <2>1. l \in 1..(Len(fr) + 1) /\ l + 1 \in 1..(Len(fr) + 1)
    BY <1>1
  <2> QED BY <1>9, <2>1 DEF Sound
<1>12. i \in Ids /\ h[i] = HopReserves(e) /\ g[i] = HopReserves(f)
  <2>1. pk[l] = fr[l]
    <3>1. l > k
      OBVIOUS
    <3> QED BY <1>3, <3>1
  <2>2. i \in Ids
    BY <1>10, HopCoefficients
  <2> QED BY <1>2, <1>5, <1>6, <1>9, <2>1, <2>2
<1>14. g = HeldWith(h, e.id, HopReserves(f))
  <2>1. g = [h EXCEPT ![i] = g[i]]
    BY <1>5, <1>6, <1>8
  <2> QED BY <1>10, <1>12, <2>1 DEF HeldWith
<1>15. h[e.id] = HopReserves(e)
  BY <1>10, <1>12
<1>16. \A a : Value(g, a) = Value(h, a) + (IF a = e.dir[1] THEN x ELSE 0)
                                       - (IF a = e.dir[2] THEN y ELSE 0)
  <2>1. /\ h \in [Ids -> Nat \X Nat] /\ HopOK(e) /\ HopOK(f) /\ f.id = e.id /\ f.dir = e.dir
        /\ x \in Nat /\ y \in Nat /\ f.rin = e.rin + x /\ f.rout = e.rout - y
    BY <1>5, <1>10, <1>11
  <2> QED BY <1>14, <1>15, <2>1, HopValue
<1> QED BY <1>2, <1>9, <1>16

\* The frontier follows a route.
Along(fr, route) == \A n \in 1..Len(fr) : fr[n].dir = Hop(route, n)

\* The trade of a whole frontier takes the input in the first asset of the
\* route and gives the output in the last; what it moves in between cancels.
LEMMA AppliedExact ==
  ASSUME NEW pos \in [Ids -> Position], NEW fr, Frontier(fr), Distinct(fr), Len(fr) > 0,
         NEW t, Sound(fr, t), NEW route, Along(fr, route)
  PROVE  LET g == Applied(fr, t)
             h == Held(pos, fr)
             e == Held(pos, g)
         IN /\ Frontier(g) /\ Distinct(g) /\ Len(g) = Len(fr) /\ Used(g) = Used(fr)
            /\ \A n \in 1..Len(fr) : g[n].id = fr[n].id /\ g[n].dir = fr[n].dir
            /\ \A a : Value(e, a) = Value(h, a)
                        + (IF a = route[1] THEN t[1] ELSE 0)
                        - (IF a = route[Len(fr) + 1] THEN t[Len(fr) + 1] ELSE 0)
<1>1. Len(fr) \in Nat /\ fr \in Seq(HopSet)
  BY DEF Frontier
<1>2. PICK N \in Nat : N = Len(fr) /\ N > 0
  BY <1>1
<1>3. Partial(fr, t, N) = Applied(fr, t)
  <2>1. \A n \in 1..N : n <= N
    OBVIOUS
  <2>2. Applied(fr, t) = [n \in 1..N |-> Applied(fr, t)[n]]
    BY <1>2 DEF Applied
  <2> QED BY <1>2, <2>1, <2>2 DEF Partial
<1>4. Partial(fr, t, 0) = fr
  <2>1. \A n \in 1..N : ~(n <= 0)
    OBVIOUS
  <2>2. fr = [n \in 1..N |-> fr[n]]
    BY <1>1, <1>2
  <2> QED BY <1>2, <2>1, <2>2 DEF Partial
<1> DEFINE h == Held(pos, fr)
           H(k) == Held(pos, Partial(fr, t, k))
           Same(k) == \A a : Value(H(k), a) = Value(h, a)
                               + (IF a = route[1] THEN t[1] ELSE 0)
                               - (IF a = route[k + 1] THEN t[k + 1] ELSE 0)
           S == {k \in Nat : Same(k)}
<1>5. \A k \in 0..N : H(k) \in [Ids -> Nat \X Nat]
  <2> SUFFICES ASSUME NEW k \in 0..N PROVE H(k) \in [Ids -> Nat \X Nat]
    OBVIOUS
  <2>1. Frontier(Partial(fr, t, k)) /\ Distinct(Partial(fr, t, k))
    BY <1>2, PartialExact
  <2> QED BY <2>1, HeldExact
<1>6. \A g \in [Ids -> Nat \X Nat] : \A a : Value(g, a) \in Int
  <2> SUFFICES ASSUME NEW g \in [Ids -> Nat \X Nat], NEW a PROVE Value(g, a) \in Int
    OBVIOUS
  <2>1. PICK u : u = [j \in Ids |-> ValueAt(j, g[j], a)]
    OBVIOUS
  <2>2. \A j \in Ids : u[j] \in Int
    BY <2>1 DEF ValueAt, Slot
  <2> QED BY <2>1, <2>2, PositionAssumption, SumType DEF Value
<1>7. t[1] \in Nat /\ \A n \in 1..N : t[n + 1] \in Nat /\ t[n] \in Nat
  <2>1. t \in [1..(N + 1) -> Nat]
    BY <1>2 DEF Sound
  <2>2. \A n \in 1..N : n \in 1..(N + 1) /\ n + 1 \in 1..(N + 1)
    OBVIOUS
  <2>3. 1 \in 1..(N + 1)
    OBVIOUS
  <2> QED BY <2>1, <2>2, <2>3
<1>8. h \in [Ids -> Nat \X Nat]
  BY HeldExact
<1>9. 1 \in S
  <2>1. \A a : Value(H(1), a) = Value(H(0), a) + (IF a = fr[1].dir[1] THEN t[1] ELSE 0)
                                               - (IF a = fr[1].dir[2] THEN t[1 + 1] ELSE 0)
    <3>1. PICK j \in 0..Len(fr), l \in 1..Len(fr) : j = 0 /\ l = 1 /\ l = j + 1
      BY <1>2
    <3>2. PICK u, v : u = H(j) /\ v = H(l)
      OBVIOUS
    <3>3. \A a : Value(v, a) = Value(u, a) + (IF a = fr[l].dir[1] THEN t[l] ELSE 0)
                                           - (IF a = fr[l].dir[2] THEN t[l + 1] ELSE 0)
      BY <3>1, <3>2, PartialStep
    <3> QED BY <3>1, <3>2, <3>3
  <2>2. H(0) = h
    BY <1>4
  <2>3. fr[1].dir[1] = route[1] /\ fr[1].dir[2] = route[1 + 1]
    BY <1>2 DEF Along, Hop
  <2> QED BY <2>1, <2>2, <2>3
<1>10. ASSUME NEW k \in 1..(N - 1), k \in S PROVE k + 1 \in S
  <2>1. k \in 0..Len(fr) /\ k + 1 \in 1..Len(fr) /\ k + 1 \in Nat /\ k \in 0..N /\ k + 1 \in 0..N
    BY <1>2
  <2>2. PICK l \in 1..Len(fr) : l = k + 1
    BY <2>1
  <2>3. PICK u, v : u = H(k) /\ v = H(l)
    OBVIOUS
  <2>4. \A a : Value(v, a) = Value(u, a) + (IF a = fr[l].dir[1] THEN t[l] ELSE 0)
                                         - (IF a = fr[l].dir[2] THEN t[l + 1] ELSE 0)
    BY <2>1, <2>2, <2>3, PartialStep
  <2>5. fr[l].dir[1] = route[l] /\ fr[l].dir[2] = route[l + 1]
    BY DEF Along, Hop
  <2>6. \A a : Value(u, a) = Value(h, a) + (IF a = route[1] THEN t[1] ELSE 0)
                                         - (IF a = route[l] THEN t[l] ELSE 0)
    BY <1>10, <2>2, <2>3
  <2>7. u \in [Ids -> Nat \X Nat] /\ v \in [Ids -> Nat \X Nat]
    BY <1>5, <2>1, <2>2, <2>3
  <2>8. t[l] \in Nat /\ t[l + 1] \in Nat
    BY <1>2, <1>7
  <2>10. ASSUME NEW a
         PROVE  Value(v, a) = Value(h, a) + (IF a = route[1] THEN t[1] ELSE 0)
                                          - (IF a = route[l + 1] THEN t[l + 1] ELSE 0)
    <3>1. Value(h, a) \in Int /\ Value(u, a) \in Int /\ Value(v, a) \in Int
      BY <1>6, <1>8, <2>7
    <3>2. /\ Value(u, a) = Value(h, a) + (IF a = route[1] THEN t[1] ELSE 0)
                                       - (IF a = route[l] THEN t[l] ELSE 0)
          /\ Value(v, a) = Value(u, a) + (IF a = route[l] THEN t[l] ELSE 0)
                                       - (IF a = route[l + 1] THEN t[l + 1] ELSE 0)
      BY <2>4, <2>5, <2>6
    <3>3. PICK x, y, z : /\ x = IF a = route[1] THEN t[1] ELSE 0
                         /\ y = IF a = route[l] THEN t[l] ELSE 0
                         /\ z = IF a = route[l + 1] THEN t[l + 1] ELSE 0
      OBVIOUS
    <3>4. x \in Int /\ y \in Int /\ z \in Int
      BY <1>7, <2>8, <3>3
    <3>5. Value(u, a) = Value(h, a) + x - y /\ Value(v, a) = Value(u, a) + y - z
      BY <3>2, <3>3
    <3>6. Value(v, a) = Value(h, a) + x - z
      BY <3>1, <3>4, <3>5
    <3> QED BY <3>3, <3>6
  <2>11. Same(l)
    BY <2>3, <2>10
  <2> QED BY <2>1, <2>2, <2>11
<1>11. Same(N)
  <2>1. \A k \in 1..(N - 1 + 1) : k \in S
    <3> HIDE DEF S
    <3>1. N - 1 \in Nat
      BY <1>2
    <3> QED BY <1>9, <1>10, <3>1, RouteInduction
  <2>2. N \in 1..(N - 1 + 1)
    BY <1>2
  <2> QED BY <2>1, <2>2
<1>12. /\ Frontier(Applied(fr, t)) /\ Distinct(Applied(fr, t)) /\ Len(Applied(fr, t)) = Len(fr)
       /\ Used(Applied(fr, t)) = Used(fr)
       /\ \A n \in 1..Len(fr) : /\ Applied(fr, t)[n].id = fr[n].id
                                /\ Applied(fr, t)[n].dir = fr[n].dir
  <2>1. N \in 0..Len(fr)
    BY <1>2
  <2> QED BY <1>3, <2>1, PartialExact
<1>13. H(N) = Held(pos, Applied(fr, t))
  BY <1>3
<1> QED BY <1>2, <1>11, <1>12, <1>13

-----------------------------------------------------------------------------
(* The filling loop                                                         *)

\* The fields of the loop's state.
IsFill(w) ==
  w = [book |-> w.book, loaded |-> w.loaded, fr |-> w.fr, used |-> w.used, input |-> w.input,
       output |-> w.output, filled |-> w.filled, out_of_positions |-> w.out_of_positions,
       fails |-> w.fails]

\* A hop whose position is open, or written out already.
HopSaved(w, f) ==
  \/ w.book.pos[f.id].state = "Opened"
  \/ w.out_of_positions /\ HopReserves(f) = w.book.pos[f.id].r

\* The loop's state when it started with the book b along the route.
FillOK(b, route, w) ==
  /\ IsFill(w) /\ BookOK(w.book) /\ w.loaded = b
  /\ Frontier(w.fr) /\ Distinct(w.fr) /\ Along(w.fr, route) /\ Used(w.fr) \subseteq w.used
  /\ \A i \in Ids : i \notin w.used => w.book.pos[i] = b.pos[i]
  /\ \A n \in 1..Len(w.fr) : HopSaved(w, w.fr[n])
  /\ \A n \in 1..Len(w.fr) : HopSold(w.fr[n], b.pos[w.fr[n].id].r)
  /\ \A i \in Ids : i \notin Used(w.fr) => OneWay(i, b.pos[i].r, w.book.pos[i].r)
  /\ w.input \in Nat /\ w.output \in Nat /\ ~w.fails
  /\ \A i \in Ids : Evolves(b.pos[i], w.book.pos[i])

\* Writing a hop out moves what the frontier holds of its position to the book.
LEMMA SaveHopExact ==
  ASSUME NEW b, NEW k, BookOK(k), \A j \in Ids : Evolves(b.pos[j], k.pos[j]), NEW f, HopOK(f),
         k.pos[f.id].state = "Opened" \/ HopReserves(f) = k.pos[f.id].r
  PROVE  LET c == SaveHop(k, f) IN
         /\ BookOK(c) /\ c.pos[f.id].r = HopReserves(f)
         /\ \A j \in Ids : j # f.id => c.pos[j] = k.pos[j]
         /\ \A j \in Ids : Evolves(b.pos[j], c.pos[j])
<1>1. PICK c, i, r : c = SaveHop(k, f) /\ i = f.id /\ r = HopReserves(f)
  OBVIOUS
<1>2. i \in Ids /\ r \in Nat \X Nat /\ (k.pos[i].state = "Opened" \/ r = k.pos[i].r)
  BY <1>1, HopCoefficients, HopReservesExact
<1>3. c = PositionExecution(k, i, r)
  BY <1>1 DEF SaveHop
<1>4. /\ BookOK(c) /\ c.pos[i].r = r /\ Evolves(k.pos[i], c.pos[i])
      /\ \A j \in Ids : j # i => c.pos[j] = k.pos[j]
  BY <1>2, <1>3, ExecutionExact
<1>5. ASSUME NEW j \in Ids PROVE Evolves(b.pos[j], c.pos[j])
  <2>1. Evolves(b.pos[j], k.pos[j])
    OBVIOUS
  <2>2. CASE j = i
    BY <1>4, <2>1, <2>2 DEF Evolves
  <2>3. CASE j # i
    BY <1>4, <2>1, <2>3
  <2> QED BY <2>2, <2>3
<1> QED BY <1>1, <1>4, <1>5

\* One hop of replace_empty_positions: the positions hold what they held.
LEMMA ReplaceHopExact ==
  ASSUME NEW b, BookOK(b), NEW route, NEW v, FillOK(b, route, v), NEW n \in 1..Len(v.fr)
  PROVE  LET w == ReplaceHop(v, n) IN
         /\ FillOK(b, route, w) /\ Len(w.fr) = Len(v.fr)
         /\ w.input = v.input /\ w.output = v.output
         /\ Held(w.book.pos, w.fr) = Held(v.book.pos, v.fr)
<1>1. PICK f, w, fr : f = v.fr[n] /\ w = ReplaceHop(v, n) /\ fr = v.fr
  OBVIOUS
<1>2. HopOK(f) /\ HopSaved(v, f) /\ Frontier(fr) /\ Distinct(fr) /\ f = fr[n] /\ f.id \in Used(fr)
  BY <1>1 DEF FillOK, Frontier, Used
<1>3. f.rout \in Nat /\ f.id \in Ids
  BY <1>2, HopCoefficients
<1>4. CASE v.out_of_positions \/ f.rout > 0
  <2>1. w = v
    BY <1>1, <1>4 DEF ReplaceHop
  <2> QED BY <1>1, <2>1
<1>5. CASE ~(v.out_of_positions \/ f.rout > 0)
  <2>1. v.book.pos[f.id].state = "Opened"
    BY <1>2, <1>5 DEF HopSaved
  <2>2. PICK c : c = SaveHop(v.book, f)
    OBVIOUS
  <2>3. /\ BookOK(c) /\ c.pos[f.id].r = HopReserves(f)
        /\ \A j \in Ids : j # f.id => c.pos[j] = v.book.pos[j]
        /\ \A j \in Ids : Evolves(b.pos[j], c.pos[j])
    <3>1. PICK k : k = v.book
      OBVIOUS
    <3>2. BookOK(k) /\ \A j \in Ids : Evolves(b.pos[j], k.pos[j])
      BY <3>1 DEF FillOK
    <3>3. HopOK(f) /\ k.pos[f.id].state = "Opened" /\ c = SaveHop(k, f)
      BY <1>2, <2>1, <2>2, <3>1
    <3>4. /\ BookOK(c) /\ c.pos[f.id].r = HopReserves(f)
          /\ \A j \in Ids : j # f.id => c.pos[j] = k.pos[j]
          /\ \A j \in Ids : Evolves(b.pos[j], c.pos[j])
      BY <3>2, <3>3, SaveHopExact
    <3> QED BY <3>1, <3>4
  <2>4. PICK h : h = Held(v.book.pos, fr)
    OBVIOUS
  <2>5. /\ \A m \in 1..Len(fr) : h[fr[m].id] = HopReserves(fr[m])
        /\ \A i \in Ids : i \notin Used(fr) => h[i] = v.book.pos[i].r
        /\ h = [i \in Ids |-> h[i]]
    <3>1. v.book.pos \in [Ids -> Position]
      BY DEF FillOK, BookOK
    <3>2. h = [i \in Ids |-> h[i]]
      BY <2>4 DEF Held
    <3>3. PICK pos : pos = v.book.pos
      OBVIOUS
    <3>4. /\ \A m \in 1..Len(fr) : h[fr[m].id] = HopReserves(fr[m])
          /\ \A i \in Ids : i \notin Used(fr) => h[i] = pos[i].r
      <4>1. pos \in [Ids -> Position] /\ h = Held(pos, fr)
        BY <2>4, <3>1, <3>3
      <4>2. Frontier(fr) /\ Distinct(fr)
        BY <1>2
      <4>3. /\ \A m \in 1..Len(fr) : Held(pos, fr)[fr[m].id] = HopReserves(fr[m])
            /\ \A i \in Ids : i \notin Used(fr) => Held(pos, fr)[i] = pos[i].r
        BY <4>1, <4>2, HeldExact
      <4> QED BY <4>1, <4>3
    <3> QED BY <3>2, <3>3, <3>4
  <2>6. CASE Available(v.loaded, f.dir, v.used) = {}
    <3>1. /\ w.book = c /\ w.loaded = v.loaded /\ w.fr = v.fr /\ w.used = v.used
          /\ w.input = v.input /\ w.output = v.output
          /\ w.out_of_positions /\ ~w.fails /\ IsFill(w)
      BY <1>1, <1>5, <2>1, <2>2, <2>6 DEF ReplaceHop, FillOK, IsFill
    <3>2. ASSUME NEW m \in 1..Len(fr) PROVE HopSaved(w, fr[m])
      <4>1. CASE m = n
        BY <1>2, <2>3, <3>1, <4>1 DEF HopSaved
      <4>2. CASE m # n
        <5>0. n \in 1..Len(fr)
          BY <1>1
        <5>1. fr[m].id # f.id /\ fr[m].id \in Ids
          BY <1>2, <4>2, <5>0, HopCoefficients DEF Distinct, Frontier
        <5>2. c.pos[fr[m].id] = v.book.pos[fr[m].id]
          BY <2>3, <5>1
        <5>3. HopSaved(v, fr[m])
          BY <1>1 DEF FillOK
        <5> QED BY <3>1, <5>2, <5>3 DEF HopSaved
      <4> QED BY <4>1, <4>2
    <3>3. ASSUME NEW i \in Ids, i \notin w.used PROVE w.book.pos[i] = b.pos[i]
      <4>1. i # f.id /\ v.book.pos[i] = b.pos[i]
        BY <1>1, <1>2, <3>1, <3>3 DEF FillOK
      <4> QED BY <2>3, <3>1, <4>1
    <3>6. ASSUME NEW i \in Ids, i \notin Used(fr) PROVE OneWay(i, b.pos[i].r, w.book.pos[i].r)
      <4>1. i # f.id /\ OneWay(i, b.pos[i].r, v.book.pos[i].r)
        BY <1>1, <1>2, <3>6 DEF FillOK
      <4> QED BY <2>3, <3>1, <4>1
    <3>4. FillOK(b, route, w)
      BY <1>1, <2>3, <3>1, <3>2, <3>3, <3>6 DEF FillOK
    <3>5. Held(w.book.pos, w.fr) = h
      <4>1. c.pos \in [Ids -> Position]
        BY <2>3 DEF BookOK
      <4>2. PICK g : g = Held(c.pos, fr)
        OBVIOUS
      <4>3. /\ \A m \in 1..Len(fr) : g[fr[m].id] = HopReserves(fr[m])
            /\ \A i \in Ids : i \notin Used(fr) => g[i] = c.pos[i].r
            /\ g = [i \in Ids |-> g[i]]
        <5>1. g = [i \in Ids |-> g[i]]
          BY <4>2 DEF Held
        <5>2. Frontier(fr) /\ Distinct(fr)
          BY <1>2
        <5>3. /\ \A m \in 1..Len(fr) : Held(c.pos, fr)[fr[m].id] = HopReserves(fr[m])
              /\ \A i \in Ids : i \notin Used(fr) => Held(c.pos, fr)[i] = c.pos[i].r
          BY <4>1, <5>2, HeldExact
        <5> QED BY <4>2, <5>1, <5>3
      <4>4. ASSUME NEW i \in Ids PROVE g[i] = h[i]
        <5>1. CASE i \in Used(fr)
          <6>1. PICK m \in 1..Len(fr) : i = fr[m].id
            BY <5>1 DEF Used
          <6> QED BY <2>5, <4>3, <6>1
        <5>2. CASE i \notin Used(fr)
          BY <1>2, <2>3, <2>5, <4>3, <5>2
        <5> QED BY <5>1, <5>2
      <4> QED BY <1>1, <2>5, <3>1, <4>2, <4>3, <4>4
    <3> QED BY <1>1, <2>4, <3>1, <3>4, <3>5
  <2>7. CASE Available(v.loaded, f.dir, v.used) # {}
    <3>1. PICK e, gr : e = Best(v.loaded, f.dir, v.used) /\ gr = [fr EXCEPT ![n] = e]
      OBVIOUS
    <3>2. Fresh(b.pos, e) /\ e.dir = f.dir /\ e.id \notin v.used
      <4>1. v.loaded = b
        BY DEF FillOK
      <4> QED BY <2>7, <3>1, <4>1, BestExact
    <3>3. /\ w.book = c /\ w.loaded = v.loaded /\ w.fr = gr /\ w.used = v.used \cup {e.id}
          /\ w.input = v.input /\ w.output = v.output
          /\ (w.out_of_positions <=> v.out_of_positions) /\ ~w.fails /\ IsFill(w)
      BY <1>1, <1>5, <2>1, <2>2, <2>7, <3>1 DEF ReplaceHop, FillOK, IsFill
    <3>4. HopOK(e) /\ e.id \in Ids /\ e \in HopSet
      BY <3>2, HopCoefficients DEF Fresh, HopOK
    <3>5. /\ gr \in Seq(HopSet) /\ Len(gr) = Len(fr) /\ gr[n] = e
          /\ \A m \in 1..Len(fr) : m # n => gr[m] = fr[m]
      <4>1. fr \in Seq(HopSet) /\ n \in 1..Len(fr)
        BY <1>1, <1>2 DEF Frontier
      <4> QED BY <3>1, <3>4, <4>1
    <3>6. Used(fr) \subseteq v.used /\ e.id \notin Used(fr) /\ e.id # f.id
      BY <1>1, <1>2, <3>2 DEF FillOK
    <3>7. Frontier(gr) /\ Along(gr, route)
      <4>1. \A m \in 1..Len(fr) : HopOK(gr[m]) /\ gr[m].dir = fr[m].dir
        BY <1>2, <3>2, <3>4, <3>5 DEF Frontier
      <4> QED BY <1>1, <3>5, <4>1 DEF Frontier, Along, FillOK
    <3>8. Distinct(gr)
      <4>1. \A m \in 1..Len(fr) : fr[m].id # e.id
        BY <3>6 DEF Used
      <4> QED BY <1>2, <3>5, <4>1 DEF Distinct
    <3>9. Used(gr) \subseteq w.used
      <4>1. \A m \in 1..Len(fr) : fr[m].id \in v.used
        BY <3>6 DEF Used
      <4> QED BY <3>3, <3>5, <4>1 DEF Used
    <3>10. v.book.pos[e.id] = b.pos[e.id] /\ c.pos[e.id] = b.pos[e.id]
      BY <2>3, <3>2, <3>4, <3>6 DEF FillOK
    <3>11. ASSUME NEW m \in 1..Len(gr) PROVE HopSaved(w, gr[m])
      <4>1. CASE m = n
        <5>1. c.pos[e.id].state = "Opened"
          BY <3>2, <3>10 DEF Fresh
        <5> QED BY <3>3, <3>5, <4>1, <5>1 DEF HopSaved
      <4>2. CASE m # n
        <5>1. m \in 1..Len(fr) /\ n \in 1..Len(fr) /\ gr[m] = fr[m]
          BY <1>1, <3>5, <4>2
        <5>2. fr[m].id # f.id /\ fr[m].id \in Ids
          BY <1>2, <4>2, <5>1, HopCoefficients DEF Distinct, Frontier
        <5>3. c.pos[fr[m].id] = v.book.pos[fr[m].id]
          BY <2>3, <5>2
        <5>4. HopSaved(v, fr[m])
          BY <1>1, <5>1 DEF FillOK
        <5> QED BY <3>3, <5>1, <5>3, <5>4 DEF HopSaved
      <4> QED BY <4>1, <4>2
    <3>12. ASSUME NEW i \in Ids, i \notin w.used PROVE w.book.pos[i] = b.pos[i]
      <4>1. i \notin v.used
        BY <3>3, <3>12
      <4>2. i # f.id /\ v.book.pos[i] = b.pos[i]
        BY <1>2, <3>6, <4>1 DEF FillOK
      <4> QED BY <2>3, <3>3, <4>2
    <3>15. ASSUME NEW m \in 1..Len(gr) PROVE HopSold(gr[m], b.pos[gr[m].id].r)
      <4>1. CASE m = n
        <5>1. HopReserves(e) = b.pos[e.id].r /\ b.pos[e.id].r \in Nat \X Nat
          BY <3>2, <3>4 DEF Fresh, BookOK, Position
        <5>2. Slot(e.id, e.dir[2]) \in 1..2
          BY DEF Slot
        <5>3. HopSold(e, b.pos[e.id].r)
          BY <3>4, <5>1, <5>2, SoldNothing DEF HopSold
        <5> QED BY <3>5, <4>1, <5>3
      <4>2. CASE m # n
        BY <1>1, <3>5, <4>2 DEF FillOK
      <4> QED BY <4>1, <4>2
    <3>16. ASSUME NEW i \in Ids, i \notin Used(gr) PROVE OneWay(i, b.pos[i].r, w.book.pos[i].r)
      <4>1. CASE i = f.id
        <5>1. HopSold(f, b.pos[f.id].r)
          BY <1>1 DEF FillOK
        <5>2. Slot(f.id, f.dir[2]) \in 1..2
          BY DEF Slot
        <5> QED BY <2>3, <3>3, <4>1, <5>1, <5>2 DEF HopSold, OneWay
      <4>2. CASE i # f.id
        <5>1. ASSUME NEW m \in 1..Len(fr) PROVE fr[m].id # i
          <6>1. CASE m = n
            BY <1>2, <4>2, <6>1
          <6>2. CASE m # n
            <7>1. gr[m] = fr[m] /\ m \in 1..Len(gr)
              BY <3>5, <6>2
            <7> QED BY <3>16, <7>1 DEF Used
          <6> QED BY <6>1, <6>2
        <5>2. i \notin Used(fr)
          BY <5>1 DEF Used
        <5>3. OneWay(i, b.pos[i].r, v.book.pos[i].r)
          BY <1>1, <5>2 DEF FillOK
        <5> QED BY <2>3, <3>3, <4>2, <5>3
      <4> QED BY <4>1, <4>2
    <3>13. FillOK(b, route, w)
      <4>1. v.loaded = b /\ v.input \in Nat /\ v.output \in Nat
        BY DEF FillOK
      <4> QED BY <2>3, <3>3, <3>7, <3>8, <3>9, <3>11, <3>12, <3>15, <3>16, <4>1 DEF FillOK
    <3>14. Held(w.book.pos, w.fr) = h
      <4>1. c.pos \in [Ids -> Position]
        BY <2>3 DEF BookOK
      <4>2. PICK g : g = Held(c.pos, gr)
        OBVIOUS
      <4>3. /\ \A m \in 1..Len(gr) : g[gr[m].id] = HopReserves(gr[m])
            /\ \A i \in Ids : i \notin Used(gr) => g[i] = c.pos[i].r
            /\ g = [i \in Ids |-> g[i]]
        <5>1. g = [i \in Ids |-> g[i]]
          BY <4>2 DEF Held
        <5>2. PICK pos : pos = c.pos
          OBVIOUS
        <5>3. pos \in [Ids -> Position] /\ g = Held(pos, gr)
          BY <4>1, <4>2, <5>2
        <5>4. /\ \A m \in 1..Len(gr) : g[gr[m].id] = HopReserves(gr[m])
              /\ \A i \in Ids : i \notin Used(gr) => g[i] = pos[i].r
          BY <3>7, <3>8, <5>3, HeldExact
        <5> QED BY <5>1, <5>2, <5>4
      <4>4. ASSUME NEW i \in Ids PROVE g[i] = h[i]
        <5>1. CASE i = e.id
          <6>1. g[i] = HopReserves(e)
            BY <1>1, <3>5, <4>3, <5>1
          <6>2. h[i] = v.book.pos[i].r
            BY <2>5, <3>6, <5>1
          <6> QED BY <3>2, <3>10, <5>1, <6>1, <6>2 DEF Fresh
        <5>2. CASE i = f.id
          <6>1. i \notin Used(gr)
            <7>1. ASSUME NEW m \in 1..Len(gr) PROVE gr[m].id # i
              <8>1. CASE m = n
                BY <3>5, <3>6, <5>2, <8>1
              <8>2. CASE m # n
                <9>1. m \in 1..Len(fr) /\ n \in 1..Len(fr) /\ gr[m] = fr[m]
                  BY <1>1, <3>5, <8>2
                <9> QED BY <1>2, <5>2, <8>2, <9>1 DEF Distinct
              <8> QED BY <8>1, <8>2
            <7> QED BY <7>1 DEF Used
          <6>2. g[i] = HopReserves(f)
            BY <2>3, <4>3, <5>2, <6>1
          <6>3. h[i] = HopReserves(f)
            BY <1>1, <1>2, <2>5, <5>2
          <6> QED BY <6>2, <6>3
        <5>3. CASE i # e.id /\ i # f.id /\ i \in Used(fr)
          <6>1. PICK m \in 1..Len(fr) : i = fr[m].id
            BY <5>3 DEF Used
          <6>2. m # n /\ gr[m] = fr[m] /\ m \in 1..Len(gr)
            BY <1>2, <3>5, <5>3, <6>1
          <6> QED BY <2>5, <4>3, <6>1, <6>2
        <5>4. CASE i # e.id /\ i # f.id /\ i \notin Used(fr)
          <6>1. i \notin Used(gr)
            <7>1. ASSUME NEW m \in 1..Len(gr) PROVE gr[m].id # i
              <8>1. CASE m = n
                BY <3>5, <5>4, <8>1
              <8>2. CASE m # n
                BY <3>5, <5>4, <8>2 DEF Used
              <8> QED BY <8>1, <8>2
            <7> QED BY <7>1 DEF Used
          <6>2. c.pos[i] = v.book.pos[i]
            BY <2>3, <5>4
          <6> QED BY <2>5, <4>3, <5>4, <6>1, <6>2
        <5> QED BY <5>1, <5>2, <5>3, <5>4
      <4> QED BY <2>5, <3>3, <4>2, <4>3, <4>4
    <3> QED BY <1>1, <2>4, <3>3, <3>5, <3>13, <3>14
  <2> QED BY <2>6, <2>7
<1> QED BY <1>4, <1>5

ReplaceStep(w, g, n) == IF n = 0 THEN w ELSE ReplaceHop(g[n - 1], n)

\* The recursive function of ReplaceEmpty exists.
LEMMA ReplaceExists ==
  ASSUME NEW w
  PROVE  \A k \in Nat : \E g : g = [n \in 0..k |-> ReplaceStep(w, g, n)]
<1> DEFINE R(k) == \E g : g = [n \in 0..k |-> ReplaceStep(w, g, n)]
           S == {k \in Nat : R(k)}
<1>1. 0 \in S
  <2>1. PICK g : g = [n \in 0..0 |-> w]
    OBVIOUS
  <2>2. g = [n \in 0..0 |-> ReplaceStep(w, g, n)]
    BY <2>1 DEF ReplaceStep
  <2> QED BY <2>2
<1>2. ASSUME NEW k \in Nat, k \in S PROVE k + 1 \in S
  <2>1. PICK g : g = [n \in 0..k |-> ReplaceStep(w, g, n)]
    BY <1>2
  <2>2. PICK h : h = [n \in 0..(k + 1) |-> ReplaceStep(w, g, n)]
    OBVIOUS
  <2>3. ASSUME NEW n \in 0..(k + 1)
        PROVE  ReplaceStep(w, g, n) = ReplaceStep(w, h, n)
    <3>1. CASE n = 0
      BY <3>1 DEF ReplaceStep
    <3>2. CASE n # 0
      <4>1. n - 1 \in 0..k /\ n - 1 \in 0..(k + 1)
        BY <3>2
      <4>2. /\ g[n - 1] = ReplaceStep(w, g, n - 1)
            /\ h[n - 1] = ReplaceStep(w, g, n - 1)
        BY <2>1, <2>2, <4>1
      <4> QED BY <4>2 DEF ReplaceStep
    <3> QED BY <3>1, <3>2
  <2>4. h = [n \in 0..(k + 1) |-> ReplaceStep(w, h, n)]
    BY <2>2, <2>3
  <2> QED BY <2>4
<1> HIDE DEF S
<1>3. \A k \in Nat : k \in S
  BY <1>1, <1>2, NatSetInduction
<1> QED BY <1>3 DEF S

\* The positions hold what they held.
LEMMA ReplaceEmptyExact ==
  ASSUME NEW b, BookOK(b), NEW route, NEW v, FillOK(b, route, v)
  PROVE  LET w == ReplaceEmpty(v) IN
         /\ FillOK(b, route, w) /\ Len(w.fr) = Len(v.fr)
         /\ w.input = v.input /\ w.output = v.output
         /\ Held(w.book.pos, w.fr) = Held(v.book.pos, v.fr)
<1>1. PICK N \in Nat : N = Len(v.fr)
  BY DEF FillOK, Frontier
<1>2. PICK u : u = CHOOSE g : g = [n \in 0..N |-> ReplaceStep(v, g, n)]
  OBVIOUS
<1>3. u = [n \in 0..N |-> ReplaceStep(v, u, n)]
  BY <1>2, ReplaceExists
<1>4. ReplaceEmpty(v) = u[N]
  BY <1>1, <1>2 DEF ReplaceEmpty, ReplaceStep
<1> DEFINE Good(w) == /\ FillOK(b, route, w) /\ Len(w.fr) = N
                      /\ w.input = v.input /\ w.output = v.output
                      /\ Held(w.book.pos, w.fr) = Held(v.book.pos, v.fr)
           S == {n \in Nat : n <= N => Good(u[n])}
<1>5. 0 \in S
  <2>1. u[0] = v
    BY <1>3 DEF ReplaceStep
  <2> QED BY <1>1, <2>1
<1>6. ASSUME NEW n \in Nat, n \in S PROVE n + 1 \in S
  <2>1. SUFFICES ASSUME n + 1 <= N PROVE Good(u[n + 1])
    OBVIOUS
  <2>2. n + 1 \in 0..N /\ n + 1 # 0 /\ n + 1 - 1 = n /\ n <= N
    BY <2>1
  <2>3. u[n + 1] = ReplaceHop(u[n], n + 1)
    BY <1>3, <2>2 DEF ReplaceStep
  <2>4. PICK w, z : w = u[n] /\ z = u[n + 1]
    OBVIOUS
  <2>5. Good(w)
    BY <1>6, <2>2, <2>4
  <2>6. PICK m \in 1..Len(w.fr) : m = n + 1
    BY <2>2, <2>5
  <2>7. z = ReplaceHop(w, m)
    BY <2>3, <2>4, <2>6
  <2>8. Good(z)
    BY <2>5, <2>7, ReplaceHopExact
  <2> QED BY <2>4, <2>8
<1>7. \A n \in Nat : n \in S
  <2> HIDE DEF S
  <2> QED BY <1>5, <1>6, NatSetInduction
<1>8. N \in S
  BY <1>7
<1> QED BY <1>1, <1>4, <1>8

\* What the positions hold of an asset, with the input that is left at the
\* start of the route and the output at its end.
Account(h, route, input, output, a) ==
  Value(h, a) + (IF a = route[1] THEN input ELSE 0)
              + (IF a = route[Len(route)] THEN output ELSE 0)

\* One iteration's trade.
LEMMA TradedExact ==
  ASSUME NEW b, BookOK(b), NEW route, NEW w, FillOK(b, route, w), ~w.out_of_positions,
         Len(w.fr) > 0, Len(route) = Len(w.fr) + 1,
         NEW c, c = Constraint(w.fr, Forward(w.fr, w.input)),
         NEW t, t = Trace(w.fr, w.input, c)
  PROVE  LET v == Traded(w, t, c)
             h == Held(w.book.pos, w.fr)
             g == Held(v.book.pos, v.fr)
         IN /\ FillOK(b, route, v) /\ Len(v.fr) = Len(w.fr)
            /\ \A a : Account(g, route, v.input, v.output, a) = Account(h, route, w.input, w.output, a)
<1>1. PICK fr, x, v, pos, N : /\ fr = w.fr /\ x = w.input /\ v = Traded(w, t, c)
                              /\ pos = w.book.pos /\ N = Len(fr)
  OBVIOUS
<1>2. /\ Frontier(fr) /\ Distinct(fr) /\ Along(fr, route) /\ x \in Nat /\ N \in Nat /\ N > 0
      /\ pos \in [Ids -> Position]
  BY <1>1 DEF FillOK, Frontier, BookOK
<1>3. Sound(fr, t) /\ t[1] <= x /\ ~TraceFails(fr, t, c)
  <2>1. c = Constraint(fr, Forward(fr, x)) /\ t = Trace(fr, x, c)
    BY <1>1
  <2> QED BY <1>2, <2>1, TraceSound
<1>4. t \in [1..(N + 1) -> Nat] /\ Len(t) = N + 1 /\ t[1] \in Nat /\ t[N + 1] \in Nat
  <2>1. t \in [1..(N + 1) -> Nat]
    BY <1>1, <1>3 DEF Sound
  <2>2. t \in Seq(Nat) /\ Len(t) = N + 1
    <3>1. N + 1 \in Nat
      BY <1>2
    <3> QED BY <2>1, <3>1
  <2>3. 1 \in 1..(N + 1) /\ N + 1 \in 1..(N + 1)
    BY <1>2
  <2> QED BY <2>1, <2>2, <2>3
<1>5. PICK gr : gr = Applied(fr, t)
  OBVIOUS
<1>6. PICK h, g : h = Held(pos, fr) /\ g = Held(pos, gr)
  OBVIOUS
<1>7. /\ Frontier(gr) /\ Distinct(gr) /\ Len(gr) = Len(fr) /\ Used(gr) = Used(fr)
      /\ \A n \in 1..Len(fr) : gr[n].id = fr[n].id /\ gr[n].dir = fr[n].dir
      /\ \A a : Value(g, a) = Value(h, a)
                  + (IF a = route[1] THEN t[1] ELSE 0)
                  - (IF a = route[Len(fr) + 1] THEN t[Len(fr) + 1] ELSE 0)
  <2>1. Len(fr) > 0
    BY <1>1, <1>2
  <2> QED BY <1>2, <1>3, <1>5, <1>6, <2>1, AppliedExact
<1>8. /\ v.book = w.book /\ v.loaded = w.loaded /\ v.fr = gr /\ v.used = w.used
      /\ v.input = x - t[1] /\ v.output = w.output + t[N + 1]
      /\ v.out_of_positions = w.out_of_positions /\ ~v.fails /\ IsFill(v)
  <2>1. ~TraceFails(w.fr, t, c) /\ Len(t) = N + 1 /\ gr = Applied(w.fr, t)
    BY <1>1, <1>3, <1>4, <1>5
  <2> QED BY <1>1, <2>1 DEF Traded, FillOK, IsFill
<1>9. v.input \in Nat /\ v.output \in Nat
  <2>1. w.output \in Nat
    BY DEF FillOK
  <2> QED BY <1>2, <1>3, <1>4, <1>8, <2>1
<1>10. \A n \in 1..Len(gr) : HopSaved(v, gr[n])
  <2> SUFFICES ASSUME NEW n \in 1..Len(gr) PROVE HopSaved(v, gr[n])
    OBVIOUS
  <2>1. n \in 1..Len(w.fr) /\ gr[n].id = w.fr[n].id
    BY <1>1, <1>7
  <2>2. w.book.pos[w.fr[n].id].state = "Opened"
    BY <2>1 DEF FillOK, HopSaved
  <2> QED BY <1>8, <2>1, <2>2 DEF HopSaved
<1>14. ASSUME NEW n \in 1..Len(gr) PROVE HopSold(gr[n], b.pos[gr[n].id].r)
  <2>1. PICK f, e, y, z, r : /\ f = fr[n] /\ e = gr[n] /\ y = t[n] /\ z = t[n + 1]
                              /\ r = b.pos[f.id].r
    OBVIOUS
  <2>2. n \in 1..Len(fr) /\ n \in 1..(Len(fr) + 1) /\ n + 1 \in 1..(Len(fr) + 1)
    BY <1>1, <1>2, <1>7
  <2>3. HopOK(f) /\ y \in Nat /\ z \in Nat /\ z <= f.rout /\ Fair(f, y, z)
    BY <1>2, <1>3, <2>1, <2>2 DEF Sound, Frontier
  <2>4. e = TradeHop(f, y, z)
    BY <1>5, <2>1, <2>2 DEF Applied
  <2>5. HopOK(e) /\ e.id = f.id /\ e.dir = f.dir /\ e.rin = f.rin + y /\ e.rout = f.rout - z
    BY <2>3, <2>4, HopApplied
  <2>6. PICK k : k = Slot(f.id, f.dir[2])
    OBVIOUS
  <2>7. Sold(f.id, HopReserves(f), HopReserves(e), k)
    BY <2>3, <2>5, <2>6, HopWorth
  <2>8. Sold(f.id, r, HopReserves(f), k)
    BY <1>1, <2>1, <2>2, <2>6 DEF FillOK, HopSold
  <2>9. /\ f.id \in Ids /\ k \in 1..2 /\ r \in Nat \X Nat
        /\ HopReserves(f) \in Nat \X Nat /\ HopReserves(e) \in Nat \X Nat
    <3>1. f.id \in Ids /\ HopReserves(f) \in Nat \X Nat /\ HopReserves(e) \in Nat \X Nat
      BY <2>3, <2>5, HopCoefficients, HopReservesExact
    <3>2. r \in Nat \X Nat
      BY <2>1, <3>1 DEF BookOK, Position
    <3>3. k \in 1..2
      BY <2>6 DEF Slot
    <3> QED BY <3>1, <3>2, <3>3
  <2>10. Sold(f.id, r, HopReserves(e), k)
    BY <2>7, <2>8, <2>9, SoldTwice
  <2> QED BY <2>1, <2>5, <2>6, <2>10 DEF HopSold
<1>11. FillOK(b, route, v)
  <2>1. Along(gr, route)
    BY <1>2, <1>7 DEF Along
  <2>2. Used(gr) \subseteq v.used
    BY <1>1, <1>7, <1>8 DEF FillOK
  <2>3. /\ BookOK(v.book) /\ v.loaded = b
        /\ \A i \in Ids : i \notin v.used => v.book.pos[i] = b.pos[i]
        /\ \A i \in Ids : Evolves(b.pos[i], v.book.pos[i])
        /\ \A i \in Ids : i \notin Used(gr) => OneWay(i, b.pos[i].r, v.book.pos[i].r)
    BY <1>1, <1>7, <1>8 DEF FillOK
  <2> QED BY <1>7, <1>8, <1>9, <1>10, <1>14, <2>1, <2>2, <2>3 DEF FillOK
<1>12. ASSUME NEW a
       PROVE  Account(g, route, v.input, v.output, a) = Account(h, route, w.input, w.output, a)
  <2>1. PICK p, q, y, z : p = Value(g, a) /\ q = Value(h, a) /\ y = w.output /\ z = t[N + 1]
    OBVIOUS
  <2>2. q \in Int /\ y \in Int /\ z \in Int /\ x \in Int /\ t[1] \in Int
    <3>1. h \in [Ids -> Nat \X Nat]
      BY <1>2, <1>6, HeldExact
    <3>2. PICK u : u = [j \in Ids |-> ValueAt(j, h[j], a)]
      OBVIOUS
    <3>3. \A j \in Ids : u[j] \in Int
      BY <3>1, <3>2 DEF ValueAt, Slot
    <3>4. q \in Int
      BY <2>1, <3>2, <3>3, PositionAssumption, SumType DEF Value
    <3> QED BY <1>2, <1>4, <2>1, <3>4 DEF FillOK
  <2>3. Len(route) = N + 1 /\ Len(fr) + 1 = N + 1
    BY <1>1
  <2>4. p = q + (IF a = route[1] THEN t[1] ELSE 0) - (IF a = route[N + 1] THEN z ELSE 0)
    BY <1>7, <2>1, <2>3
  <2>5. v.input = x - t[1] /\ v.output = y + z /\ w.input = x /\ w.output = y
    BY <1>1, <1>8, <2>1
  <2>6. p + (IF a = route[1] THEN x - t[1] ELSE 0) + (IF a = route[N + 1] THEN y + z ELSE 0)
          = q + (IF a = route[1] THEN x ELSE 0) + (IF a = route[N + 1] THEN y ELSE 0)
    BY <2>2, <2>4, SMTT(60)
  <2> QED BY <2>1, <2>3, <2>5, <2>6 DEF Account
<1>13. h = Held(w.book.pos, w.fr) /\ g = Held(v.book.pos, v.fr)
  BY <1>1, <1>6, <1>8
<1> QED BY <1>1, <1>7, <1>8, <1>11, <1>12, <1>13

\* What an iteration of the loop keeps.
Filled(b, route, x, w) ==
  LET h == Held(w.book.pos, w.fr)
      g == [i \in Ids |-> b.pos[i].r]
  IN /\ FillOK(b, route, w) /\ Len(w.fr) > 0 /\ Len(route) = Len(w.fr) + 1
     /\ \A a : Account(h, route, w.input, w.output, a) = Account(g, route, x, 0, a)

\* One step of filling a route keeps what a fill owes its positions.
LEMMA FillStepExact ==
  ASSUME NEW b, BookOK(b), NEW route, NEW x, NEW w, Filled(b, route, x, w)
  PROVE  Filled(b, route, x, FillStep(w))
<1>1. CASE w.filled \/ w.out_of_positions
  BY <1>1 DEF FillStep
<1>2. CASE ~(w.filled \/ w.out_of_positions)
  <2>1. PICK c : c = Constraint(w.fr, Forward(w.fr, w.input))
    OBVIOUS
  <2>2. PICK t : t = Trace(w.fr, w.input, c)
    OBVIOUS
  <2>3. PICK v : v = Traded(w, t, c)
    OBVIOUS
  <2>4. PICK z : z = ReplaceEmpty(v)
    OBVIOUS
  <2>5. FillStep(w) = z
    BY <1>2, <2>1, <2>2, <2>3, <2>4 DEF FillStep
  <2>6. FillOK(b, route, w) /\ Len(w.fr) > 0 /\ Len(route) = Len(w.fr) + 1 /\ ~w.out_of_positions
    BY <1>2 DEF Filled
  <2>7. PICK g, h, k, l : /\ g = [i \in Ids |-> b.pos[i].r] /\ h = Held(w.book.pos, w.fr)
                          /\ k = Held(v.book.pos, v.fr) /\ l = Held(z.book.pos, z.fr)
    OBVIOUS
  <2>8. /\ FillOK(b, route, v) /\ Len(v.fr) = Len(w.fr)
        /\ \A a : Account(k, route, v.input, v.output, a) = Account(h, route, w.input, w.output, a)
    BY <2>1, <2>2, <2>3, <2>6, <2>7, TradedExact, SMTT(60)
  <2>9. /\ FillOK(b, route, z) /\ Len(z.fr) = Len(v.fr)
        /\ z.input = v.input /\ z.output = v.output /\ l = k
    BY <2>4, <2>7, <2>8, ReplaceEmptyExact
  <2>10. \A a : Account(h, route, w.input, w.output, a) = Account(g, route, x, 0, a)
    BY <2>7 DEF Filled
  <2>12. \A a : Account(l, route, z.input, z.output, a) = Account(g, route, x, 0, a)
    BY <2>8, <2>9, <2>10
  <2>13. Filled(b, route, x, z)
    BY <2>6, <2>7, <2>8, <2>9, <2>12 DEF Filled
  <2> QED BY <2>5, <2>13
<1> QED BY <1>1, <1>2

SaveStep(w, g, n) == IF n = 0 THEN w.book ELSE SaveHop(g[n - 1], w.fr[n])

\* The recursive function of Save exists.
LEMMA SaveExists ==
  ASSUME NEW w
  PROVE  \A k \in Nat : \E g : g = [n \in 0..k |-> SaveStep(w, g, n)]
<1> DEFINE R(k) == \E g : g = [n \in 0..k |-> SaveStep(w, g, n)]
           S == {k \in Nat : R(k)}
<1>1. 0 \in S
  <2>1. PICK g : g = [n \in 0..0 |-> w.book]
    OBVIOUS
  <2>2. g = [n \in 0..0 |-> SaveStep(w, g, n)]
    BY <2>1 DEF SaveStep
  <2> QED BY <2>2
<1>2. ASSUME NEW k \in Nat, k \in S PROVE k + 1 \in S
  <2>1. PICK g : g = [n \in 0..k |-> SaveStep(w, g, n)]
    BY <1>2
  <2>2. PICK h : h = [n \in 0..(k + 1) |-> SaveStep(w, g, n)]
    OBVIOUS
  <2>3. ASSUME NEW n \in 0..(k + 1)
        PROVE  SaveStep(w, g, n) = SaveStep(w, h, n)
    <3>1. CASE n = 0
      BY <3>1 DEF SaveStep
    <3>2. CASE n # 0
      <4>1. n - 1 \in 0..k /\ n - 1 \in 0..(k + 1)
        BY <3>2
      <4>2. /\ g[n - 1] = SaveStep(w, g, n - 1)
            /\ h[n - 1] = SaveStep(w, g, n - 1)
        BY <2>1, <2>2, <4>1
      <4> QED BY <4>2 DEF SaveStep
    <3> QED BY <3>1, <3>2
  <2>4. h = [n \in 0..(k + 1) |-> SaveStep(w, h, n)]
    BY <2>2, <2>3
  <2> QED BY <2>4
<1> HIDE DEF S
<1>3. \A k \in Nat : k \in S
  BY <1>1, <1>2, NatSetInduction
<1> QED BY <1>3 DEF S

Reserved(pos) == [i \in Ids |-> pos[i].r]

\* Frontier::save leaves in the book what the frontier holds.
LEMMA SaveExact ==
  ASSUME NEW b, NEW route, NEW w, FillOK(b, route, w)
  PROVE  LET z == Save(w) IN
         /\ BookOK(z.book) /\ z.input = w.input /\ z.output = w.output /\ ~z.fails
         /\ \A i \in Ids : Evolves(b.pos[i], z.book.pos[i])
         /\ Reserved(z.book.pos) = Held(w.book.pos, w.fr)
<1>1. PICK N, fr, pos, h : /\ N = Len(w.fr) /\ fr = w.fr /\ pos = w.book.pos
                           /\ h = Held(pos, fr)
  OBVIOUS
<1>2. N \in Nat /\ Frontier(fr) /\ Distinct(fr) /\ pos \in [Ids -> Position]
  BY <1>1 DEF FillOK, Frontier, BookOK
<1>3. PICK u : u = CHOOSE g : g = [n \in 0..N |-> SaveStep(w, g, n)]
  OBVIOUS
<1>4. u = [n \in 0..N |-> SaveStep(w, u, n)]
  BY <1>2, <1>3, SaveExists
<1>5. PICK z : z = Save(w)
  OBVIOUS
<1>6. z.book = u[N] /\ z.input = w.input /\ z.output = w.output /\ ~z.fails
  BY <1>1, <1>3, <1>5 DEF Save, SaveStep, FillOK, IsFill
<1> DEFINE Good(n, k) ==
             /\ BookOK(k) /\ \A i \in Ids : Evolves(b.pos[i], k.pos[i])
             /\ \A i \in Ids : i \notin Used(fr) => k.pos[i] = pos[i]
             /\ \A m \in 1..N : /\ m <= n => k.pos[fr[m].id].r = HopReserves(fr[m])
                                /\ m > n => k.pos[fr[m].id] = pos[fr[m].id]
           S == {n \in Nat : n <= N => Good(n, u[n])}
<1>7. 0 \in S
  <2>1. u[0] = w.book
    BY <1>2, <1>4 DEF SaveStep
  <2>2. BookOK(w.book) /\ \A i \in Ids : Evolves(b.pos[i], w.book.pos[i])
    BY DEF FillOK
  <2>3. \A m \in 1..N : ~(m <= 0)
    OBVIOUS
  <2> QED BY <1>1, <2>1, <2>2, <2>3
<1>8. ASSUME NEW n \in Nat, n \in S PROVE n + 1 \in S
  <2>1. SUFFICES ASSUME n + 1 <= N PROVE Good(n + 1, u[n + 1])
    OBVIOUS
  <2>2. n + 1 \in 0..N /\ n + 1 # 0 /\ n + 1 - 1 = n /\ n <= N
    BY <1>2, <2>1
  <2>3. PICK k, l, m, f : k = u[n] /\ l = u[n + 1] /\ m = n + 1 /\ f = fr[m]
    OBVIOUS
  <2>4. l = SaveHop(k, f)
    BY <1>1, <1>4, <2>2, <2>3 DEF SaveStep
  <2>5. Good(n, k)
    BY <1>8, <2>2, <2>3
  <2>6. m \in 1..N /\ m > n /\ HopOK(f) /\ f.id \in Ids /\ f.id \in Used(fr)
    <3>1. m \in 1..N /\ m > n
      BY <2>2, <2>3
    <3>2. m \in 1..Len(fr)
      BY <1>1, <3>1
    <3>3. HopOK(f)
      BY <1>2, <2>3, <3>2 DEF Frontier
    <3> QED BY <2>3, <3>1, <3>2, <3>3, HopCoefficients DEF Used
  <2>7. k.pos[f.id] = pos[f.id]
    BY <2>3, <2>5, <2>6
  <2>8. k.pos[f.id].state = "Opened" \/ HopReserves(f) = k.pos[f.id].r
    <3>1. HopSaved(w, f)
      BY <1>1, <2>3, <2>6 DEF FillOK
    <3> QED BY <1>1, <2>7, <3>1 DEF HopSaved
  <2>9. /\ BookOK(l) /\ l.pos[f.id].r = HopReserves(f)
        /\ \A j \in Ids : j # f.id => l.pos[j] = k.pos[j]
        /\ \A j \in Ids : Evolves(b.pos[j], l.pos[j])
    <3>1. BookOK(k) /\ \A i \in Ids : Evolves(b.pos[i], k.pos[i])
      BY <2>5
    <3> QED BY <2>4, <2>6, <2>8, <3>1, SaveHopExact
  <2>10. \A i \in Ids : i \notin Used(fr) => l.pos[i] = pos[i]
    BY <2>5, <2>6, <2>9
  <2>11. ASSUME NEW j \in 1..N
         PROVE  /\ j <= m => l.pos[fr[j].id].r = HopReserves(fr[j])
                /\ j > m => l.pos[fr[j].id] = pos[fr[j].id]
    <3>1. CASE j = m
      BY <2>3, <2>6, <2>9, <3>1
    <3>2. CASE j # m
      <4>1. fr[j].id # f.id /\ fr[j].id \in Ids
        <5>1. j \in 1..Len(fr) /\ m \in 1..Len(fr)
          BY <1>1, <2>6
        <5> QED BY <1>2, <2>3, <3>2, <5>1, HopCoefficients DEF Distinct, Frontier
      <4>2. l.pos[fr[j].id] = k.pos[fr[j].id]
        BY <2>9, <4>1
      <4>3. (j <= m => j <= n) /\ (j > m => j > n)
        BY <2>3, <3>2
      <4>4. /\ j <= n => k.pos[fr[j].id].r = HopReserves(fr[j])
            /\ j > n => k.pos[fr[j].id] = pos[fr[j].id]
        BY <2>5
      <4> QED BY <4>2, <4>3, <4>4
    <3> QED BY <3>1, <3>2
  <2>12. Good(m, l)
    BY <2>9, <2>10, <2>11
  <2> QED BY <2>3, <2>12
<1>9. \A n \in Nat : n \in S
  <2> HIDE DEF S
  <2> QED BY <1>7, <1>8, NatSetInduction
<1>10. Good(N, z.book)
  <2>1. N \in S
    BY <1>2, <1>9
  <2> QED BY <1>2, <1>6, <2>1
<1>11. /\ \A m \in 1..Len(fr) : h[fr[m].id] = HopReserves(fr[m])
       /\ \A i \in Ids : i \notin Used(fr) => h[i] = pos[i].r
  <2>1. h = Held(pos, fr)
    BY <1>1
  <2> QED BY <1>2, <2>1, HeldExact
<1>12. ASSUME NEW i \in Ids PROVE z.book.pos[i].r = h[i]
  <2>1. CASE i \in Used(fr)
    <3>1. PICK m \in 1..Len(fr) : i = fr[m].id
      BY <2>1 DEF Used
    <3>2. m \in 1..N /\ m <= N
      BY <1>1, <1>2
    <3> QED BY <1>10, <1>11, <3>1, <3>2
  <2>2. CASE i \notin Used(fr)
    BY <1>10, <1>11, <2>2
  <2> QED BY <2>1, <2>2
<1>13. Reserved(z.book.pos) = h
  <2>1. h = [i \in Ids |-> h[i]]
    BY <1>1 DEF Held
  <2> QED BY <1>12, <2>1 DEF Reserved
<1> QED BY <1>1, <1>5, <1>6, <1>10, <1>13

LoopStep(w, g, n) == IF n = 0 THEN w ELSE FillStep(g[n - 1])

\* The recursive function of FillRoute exists.
LEMMA FillExists ==
  ASSUME NEW w
  PROVE  \A k \in Nat : \E g : g = [n \in 0..k |-> LoopStep(w, g, n)]
<1> DEFINE R(k) == \E g : g = [n \in 0..k |-> LoopStep(w, g, n)]
           S == {k \in Nat : R(k)}
<1>1. 0 \in S
  <2>1. PICK g : g = [n \in 0..0 |-> w]
    OBVIOUS
  <2>2. g = [n \in 0..0 |-> LoopStep(w, g, n)]
    BY <2>1 DEF LoopStep
  <2> QED BY <2>2
<1>2. ASSUME NEW k \in Nat, k \in S PROVE k + 1 \in S
  <2>1. PICK g : g = [n \in 0..k |-> LoopStep(w, g, n)]
    BY <1>2
  <2>2. PICK h : h = [n \in 0..(k + 1) |-> LoopStep(w, g, n)]
    OBVIOUS
  <2>3. ASSUME NEW n \in 0..(k + 1)
        PROVE  LoopStep(w, g, n) = LoopStep(w, h, n)
    <3>1. CASE n = 0
      BY <3>1 DEF LoopStep
    <3>2. CASE n # 0
      <4>1. n - 1 \in 0..k /\ n - 1 \in 0..(k + 1)
        BY <3>2
      <4>2. /\ g[n - 1] = LoopStep(w, g, n - 1)
            /\ h[n - 1] = LoopStep(w, g, n - 1)
        BY <2>1, <2>2, <4>1
      <4> QED BY <4>2 DEF LoopStep
    <3> QED BY <3>1, <3>2
  <2>4. h = [n \in 0..(k + 1) |-> LoopStep(w, h, n)]
    BY <2>2, <2>3
  <2> QED BY <2>4
<1> HIDE DEF S
<1>3. \A k \in Nat : k \in S
  BY <1>1, <1>2, NatSetInduction
<1> QED BY <1>3 DEF S

\* What the positions hold during a fill, they hold by trades in one direction.
LEMMA HeldOneWay ==
  ASSUME NEW b, NEW route, NEW w, FillOK(b, route, w), NEW i \in Ids
  PROVE  OneWay(i, b.pos[i].r, Held(w.book.pos, w.fr)[i])
<1>1. PICK fr, pos, h : fr = w.fr /\ pos = w.book.pos /\ h = Held(pos, fr)
  OBVIOUS
<1>2. Frontier(fr) /\ Distinct(fr) /\ pos \in [Ids -> Position]
  BY <1>1 DEF FillOK, BookOK
<1>3. /\ \A n \in 1..Len(fr) : h[fr[n].id] = HopReserves(fr[n])
      /\ \A j \in Ids : j \notin Used(fr) => h[j] = pos[j].r
  BY <1>1, <1>2, HeldExact
<1>4. CASE i \in Used(fr)
  <2>1. PICK n \in 1..Len(fr) : i = fr[n].id
    BY <1>4 DEF Used
  <2>2. Sold(i, b.pos[i].r, h[i], Slot(i, fr[n].dir[2]))
    BY <1>1, <1>3, <2>1 DEF FillOK, HopSold
  <2>3. Slot(i, fr[n].dir[2]) \in 1..2
    BY DEF Slot
  <2> QED BY <1>1, <2>2, <2>3 DEF OneWay
<1>5. CASE i \notin Used(fr)
  BY <1>1, <1>3, <1>5 DEF FillOK
<1> QED BY <1>4, <1>5

\* A fill along a route that has a position for every hop: nothing panics, the
\* indexes follow, every position trades in one direction and at its price, and
\* what the positions give is what is taken out of them.
LEMMA FillRouteExact ==
  ASSUME NEW b, BookOK(b), NEW route, Len(route) \in Nat, Len(route) > 1,
         Len(Load(b, route)) = Len(route) - 1, NEW x \in Nat, NEW k \in Nat
  PROVE  LET w == FillRoute(b, route, x, k) IN
         /\ BookOK(w.book) /\ w.input \in Nat /\ w.output \in Nat /\ ~w.fails
         /\ \A i \in Ids : /\ Evolves(b.pos[i], w.book.pos[i])
                           /\ OneWay(i, b.pos[i].r, w.book.pos[i].r)
         /\ \A a : Account(Reserved(w.book.pos), route, w.input, w.output, a)
                     = Account(Reserved(b.pos), route, x, 0, a)
<1>1. PICK fr : fr = Load(b, route)
  OBVIOUS
<1>2. LoadedOK(b, route, fr)
  BY <1>1, LoadExact
<1>3. PICK w : w = [book |-> b, loaded |-> b, fr |-> fr, used |-> Used(fr), input |-> x,
                    output |-> 0, filled |-> FALSE, out_of_positions |-> FALSE, fails |-> FALSE]
  OBVIOUS
<1>4. /\ w.book = b /\ w.loaded = b /\ w.fr = fr /\ w.used = Used(fr) /\ w.input = x
      /\ w.output = 0 /\ ~w.fails /\ IsFill(w)
  BY <1>3 DEF IsFill
<1>5. FillOK(b, route, w)
  <2>1. Frontier(fr) /\ Distinct(fr) /\ Along(fr, route)
    BY <1>2 DEF LoadedOK, Along
  <2>2. \A n \in 1..Len(fr) : HopSaved(w, fr[n])
    BY <1>2, <1>4 DEF LoadedOK, Fresh, HopSaved
  <2>3. \A i \in Ids : Evolves(b.pos[i], b.pos[i])
    BY DEF Evolves
  <2>4. \A i \in Ids : b.pos[i].r \in Nat \X Nat
    BY DEF BookOK, Position
  <2>5. ASSUME NEW n \in 1..Len(fr) PROVE HopSold(fr[n], b.pos[fr[n].id].r)
    <3>1. HopReserves(fr[n]) = b.pos[fr[n].id].r /\ fr[n].id \in Ids
      BY <1>2, HopCoefficients DEF LoadedOK, Fresh
    <3>2. Slot(fr[n].id, fr[n].dir[2]) \in 1..2
      BY DEF Slot
    <3> QED BY <2>4, <3>1, <3>2, SoldNothing DEF HopSold
  <2>6. \A i \in Ids : OneWay(i, b.pos[i].r, b.pos[i].r)
    <3>1. 1 \in 1..2
      OBVIOUS
    <3> QED BY <2>4, <3>1, SoldNothing DEF OneWay
  <2> QED BY <1>4, <2>1, <2>2, <2>3, <2>5, <2>6 DEF FillOK
<1>6. PICK g, h, pos : g = Reserved(b.pos) /\ h = Held(pos, fr) /\ pos = b.pos
  OBVIOUS
<1>7. g = h /\ g \in [Ids -> Nat \X Nat]
  <2>1. pos \in [Ids -> Position] /\ Frontier(fr) /\ Distinct(fr)
    BY <1>2, <1>6 DEF BookOK, LoadedOK
  <2>2. /\ h \in [Ids -> Nat \X Nat]
        /\ \A m \in 1..Len(fr) : h[fr[m].id] = HopReserves(fr[m])
        /\ \A i \in Ids : i \notin Used(fr) => h[i] = pos[i].r
    BY <1>6, <2>1, HeldExact
  <2>3. ASSUME NEW i \in Ids PROVE h[i] = pos[i].r
    <3>1. CASE i \in Used(fr)
      <4>1. PICK m \in 1..Len(fr) : i = fr[m].id
        BY <3>1 DEF Used
      <4>2. HopReserves(fr[m]) = pos[i].r
        BY <1>2, <1>6, <4>1 DEF LoadedOK, Fresh
      <4> QED BY <2>2, <4>1, <4>2
    <3>2. CASE i \notin Used(fr)
      BY <2>2, <3>2
    <3> QED BY <3>1, <3>2
  <2>4. g = h
    BY <1>6, <2>2, <2>3 DEF Reserved
  <2> QED BY <2>2, <2>4
<1>8. Filled(b, route, x, w)
  <2>1. Len(w.fr) > 0 /\ Len(route) = Len(w.fr) + 1
    BY <1>1, <1>4
  <2>2. h = Held(w.book.pos, w.fr) /\ g = [i \in Ids |-> b.pos[i].r]
    BY <1>4, <1>6 DEF Reserved
  <2>4. \A a : Account(h, route, w.input, w.output, a) = Account(g, route, x, 0, a)
    BY <1>4, <1>7
  <2> QED BY <1>5, <2>1, <2>2, <2>4 DEF Filled
<1>9. PICK u : u = CHOOSE s : s = [n \in 0..k |-> LoopStep(w, s, n)]
  OBVIOUS
<1>10. u = [n \in 0..k |-> LoopStep(w, u, n)]
  BY <1>9, FillExists
<1>11. FillRoute(b, route, x, k) = Save(u[k])
  BY <1>1, <1>3, <1>9 DEF FillRoute, LoopStep
<1> DEFINE S == {n \in Nat : n <= k => Filled(b, route, x, u[n])}
<1>12. 0 \in S
  <2>1. u[0] = w
    BY <1>10 DEF LoopStep
  <2> QED BY <1>8, <2>1
<1>13. ASSUME NEW n \in Nat, n \in S PROVE n + 1 \in S
  <2>1. SUFFICES ASSUME n + 1 <= k PROVE Filled(b, route, x, u[n + 1])
    OBVIOUS
  <2>2. n + 1 \in 0..k /\ n + 1 # 0 /\ n + 1 - 1 = n /\ n <= k
    BY <2>1
  <2>3. u[n + 1] = FillStep(u[n])
    BY <1>10, <2>2 DEF LoopStep
  <2>4. PICK y : y = u[n]
    OBVIOUS
  <2>5. Filled(b, route, x, y)
    BY <1>13, <2>2, <2>4
  <2>6. Filled(b, route, x, FillStep(y))
    BY <2>5, FillStepExact
  <2> QED BY <2>3, <2>4, <2>6
<1>14. \A n \in Nat : n \in S
  <2> HIDE DEF S
  <2> QED BY <1>12, <1>13, NatSetInduction
<1>15. PICK y, z : y = u[k] /\ z = Save(y)
  OBVIOUS
<1>16. Filled(b, route, x, y)
  <2>1. k \in S
    BY <1>14
  <2> QED BY <1>15, <2>1
<1>17. FillOK(b, route, y) /\ y.input \in Nat /\ y.output \in Nat
  BY <1>16 DEF Filled, FillOK
<1>18. /\ BookOK(z.book) /\ z.input = y.input /\ z.output = y.output /\ ~z.fails
       /\ \A i \in Ids : Evolves(b.pos[i], z.book.pos[i])
       /\ Reserved(z.book.pos) = Held(y.book.pos, y.fr)
  BY <1>15, <1>17, SaveExact
<1>19. \A a : Account(Reserved(z.book.pos), route, z.input, z.output, a)
                 = Account(g, route, x, 0, a)
  <2>1. g = [i \in Ids |-> b.pos[i].r]
    BY <1>6 DEF Reserved
  <2> QED BY <1>16, <1>18, <2>1 DEF Filled
<1>20. \A i \in Ids : OneWay(i, b.pos[i].r, z.book.pos[i].r)
  BY <1>17, <1>18, HeldOneWay DEF Reserved
<1> QED BY <1>6, <1>11, <1>15, <1>17, <1>18, <1>19, <1>20

-----------------------------------------------------------------------------
(* The invariant                                                            *)

Phases == {"txs", "batch12", "batch21", "arb", "finish", "epoch", "rewarded"}

\* The swap flows of a block.
FlowsOK(fl) ==
  /\ IsFiniteSet(DOMAIN fl) /\ DOMAIN fl \subseteq Pairs
  /\ fl = [p \in DOMAIN fl |-> fl[p]] /\ \A p \in DOMAIN fl : fl[p] \in Nat \X Nat

FeeAssets == {f[1] : f \in FeeInputs} \cup {StakingToken}

FeesOK ==
  /\ IsFiniteSet(DOMAIN fees) /\ DOMAIN fees \subseteq FeeAssets
  /\ fees = [a \in DOMAIN fees |-> fees[a]] /\ \A a \in DOMAIN fees : fees[a] \in Nat \X Nat

IsJob(j) ==
  /\ j = [todo |-> j.todo, from |-> j.from, to |-> j.to, left |-> j.left, out |-> j.out,
          first |-> j.first]
  /\ j.left \in Nat /\ j.out \in Nat /\ j.first \in Nat \X Nat

Types ==
  /\ BookOK(book) /\ BookOK(fork)
  /\ vcb \in [Assets -> Int] /\ nft \in [Ids -> Int]
  /\ FlowsOK(flows) /\ (phase = "txs" => FeesOK) /\ IsJob(job)
  /\ queue \subseteq Ids /\ hot \subseteq Pairs
  /\ phase \in Phases

\* The owner's NFT and the state of the position in the book b, with the
\* positions that are to be closed.
OwnedIn(b) ==
  /\ \A i \in Ids :
       \/ nft[i] = NoNft /\ b.pos[i] = Nowhere
       \/ nft[i] = OpenedNft /\ b.pos[i].state \in {"Opened", "Closed"}
       \/ nft[i] = ClosedNft /\ (b.pos[i].state = "Closed" \/ (b.pos[i].state = "Opened" /\ i \in queue))
       \/ nft[i] >= 0 /\ b.pos[i].state = "Withdrawn" /\ b.pos[i].seq = nft[i]
  /\ \A i \in queue : b.pos[i].state \in {"Opened", "Closed"}

Owned ==
  /\ OwnedIn(book)
  /\ phase = "arb" => OwnedIn(fork)
  /\ phase = "txs" => \A i \in queue : book.pos[i].state = "Opened"
  /\ phase \in {"epoch", "rewarded"} => queue = {}

\* The flow of a pair that is in asset a, and that of a set of pairs.
FlowAt(p, flow, a) == IF p[1] = a THEN flow[1] ELSE IF p[2] = a THEN flow[2] ELSE 0
FlowSum(fl, T, a) == SumFunctionOnSet([p \in DOMAIN fl |-> FlowAt(p, fl[p], a)], T)

\* What is to be paid out for the batch in progress: its flow, less the input
\* that was taken and with the output that was given.
InFlight(p) ==
  IF phase = "batch12"
  THEN <<flows[p][1] - (Clamped(flows[p][1]) - job.left), flows[p][2] + job.out>>
  ELSE <<job.first[1] + job.out, flows[p][2] - (Clamped(flows[p][2]) - job.left) + job.first[2]>>

\* The batch that is filled.
Batch ==
  phase \in {"batch12", "batch21"} =>
    LET p == NextPair(job.todo)
    IN /\ job.todo \subseteq DOMAIN flows /\ job.todo # {}
       /\ job.from = p[IF phase = "batch12" THEN 1 ELSE 2]
       /\ job.to = p[IF phase = "batch12" THEN 2 ELSE 1]

\* What the circuit breaker counts, in each stage of a block.
Solvent ==
  LET V(b, a) == Value(Reserved(b.pos), a)
  IN /\ phase = "txs" => \A a \in Assets : vcb[a] = V(book, a) + FlowSum(flows, DOMAIN flows, a)
     /\ phase \in {"batch12", "batch21"} =>
          LET p == NextPair(job.todo)
          IN \A a \in Assets : vcb[a] = V(book, a) + FlowSum(flows, job.todo \ {p}, a)
                                          + FlowAt(p, InFlight(p), a)
     /\ phase = "arb" =>
          /\ \A a \in Assets : vcb[a] = V(fork, a)
          /\ job.from = StakingToken /\ job.to = StakingToken
          /\ \A a \in Assets \cup {StakingToken} :
               V(book, a) + (IF a = StakingToken THEN job.left + job.out ELSE 0)
                 = V(fork, a) + (IF a = StakingToken THEN FlashLoan ELSE 0)
     /\ phase \in {"finish", "epoch", "rewarded"} => \A a \in Assets : vcb[a] = V(book, a)

\* A pair without a new position in the block is as it was left.
Crowded(b) == \A p \in Pairs : p \notin hot => b.count[p] <= 2 * MaxPositionsPerPair
Bounded ==
  /\ Crowded(book) /\ (phase = "arb" => Crowded(fork))
  /\ phase \in {"epoch", "rewarded"} => \A p \in Pairs : book.count[p] <= 2 * MaxPositionsPerPair

IInv == Types /\ Owned /\ Batch /\ Solvent /\ Bounded

-----------------------------------------------------------------------------
(* Pairs and assets                                                         *)

\* The two assets of a pair are in order.
LEMMA PairsOrdered ==
  ASSUME NEW p \in Pairs
  PROVE  /\ p = <<p[1], p[2]>> /\ p[1] \in Nat /\ p[2] \in Nat /\ p[1] < p[2]
         /\ p[1] \in Assets /\ p[2] \in Assets
<1>1. p[1] \in Assets /\ p[2] \in Assets
  BY DEF Assets
<1>2. p = <<p[1], p[2]>> /\ p[1] \in Nat /\ p[2] \in Nat /\ p[1] < p[2]
  <2>1. CASE p \in {PairOf(i) : i \in Ids}
    BY <2>1, PositionAssumption DEF PairOf
  <2>2. CASE p \in {s[1] : s \in SwapInputs}
    BY <2>2, InputAssumption
  <2>3. CASE p \in {NewPair(f[1], StakingToken) : f \in {f \in FeeInputs : f[1] # StakingToken}}
    <3>1. PICK f \in FeeInputs : f[1] # StakingToken /\ p = NewPair(f[1], StakingToken)
      BY <2>3
    <3>2. f[1] \in Nat /\ StakingToken \in Nat
      BY InputAssumption
    <3> QED BY <3>1, <3>2 DEF NewPair
  <2> QED BY <2>1, <2>2, <2>3 DEF Pairs
<1> QED BY <1>1, <1>2

\* The pair of a position, and that of a fee.
LEMMA PairOfPosition ==
  ASSUME NEW i \in Ids
  PROVE  /\ PairOf(i) \in Pairs /\ Phi[i].a1 \in Assets /\ Phi[i].a2 \in Assets
         /\ Phi[i].a1 \in Nat /\ Phi[i].a2 \in Nat /\ Phi[i].a1 < Phi[i].a2
<1>1. PairOf(i) \in Pairs
  BY DEF Pairs
<1>2. PairOf(i)[1] \in Assets /\ PairOf(i)[2] \in Assets
  BY <1>1, PairsOrdered
<1>3. PairOf(i)[1] = Phi[i].a1 /\ PairOf(i)[2] = Phi[i].a2
  BY DEF PairOf
<1> QED BY <1>1, <1>2, <1>3, PositionAssumption

\* The pair that a fee is swapped in.
LEMMA PairOfFee ==
  ASSUME NEW a \in FeeAssets, a # StakingToken
  PROVE  /\ FeePair(a) \in Pairs /\ a \in Assets
         /\ a \in Nat /\ StakingToken \in Nat
         /\ FeePair(a) = <<a, StakingToken>> \/ FeePair(a) = <<StakingToken, a>>
<1>1. PICK f \in FeeInputs : a = f[1]
  BY DEF FeeAssets
<1>2. FeePair(a) \in Pairs
  BY <1>1 DEF FeePair, Pairs
<1>3. FeePair(a) = <<a, StakingToken>> \/ FeePair(a) = <<StakingToken, a>>
  BY DEF FeePair, NewPair
<1>4. a \in Assets
  BY <1>2, <1>3, PairsOrdered
<1> QED BY <1>1, <1>2, <1>3, <1>4, InputAssumption

\* handle_batch_swaps goes through the pairs one by one, whatever is left.
LEMMA NextPairExact ==
  ASSUME NEW T, IsFiniteSet(T), T \subseteq Pairs, T # {}
  PROVE  NextPair(T) \in T
<1> DEFINE R == {e \in T \X T : Before(e[1], e[2])}
<1>1. \A p \in T : p = <<p[1], p[2]>> /\ p[1] \in Nat /\ p[2] \in Nat
  BY PairsOrdered
<1>2. \A p, q \in T : <<p, q>> \in R <=> Before(p, q)
  OBVIOUS
<1>3. \A p, q \in T : p = q \/ Before(p, q) \/ Before(q, p)
  BY <1>1 DEF Before
<1>4. \A p, q, u \in T : Before(p, q) /\ Before(q, u) => Before(p, u)
  BY <1>1 DEF Before
<1>5. \E p \in T : \A q \in T : q = p \/ Before(p, q)
  <2> HIDE DEF R
  <2>1. \A x, y \in T : x = y \/ <<x, y>> \in R \/ <<y, x>> \in R
    BY <1>2, <1>3
  <2>2. \A x, y, z \in T : <<x, y>> \in R /\ <<y, z>> \in R => <<x, z>> \in R
    BY <1>2, <1>4
  <2>3. \E x \in T : \A y \in T : y = x \/ <<x, y>> \in R
    BY <2>1, <2>2, FirstExists
  <2> QED BY <1>2, <2>3
<1> QED BY <1>5 DEF NextPair

\* A batch takes no more than there is.
LEMMA ClampedExact ==
  ASSUME NEW n \in Nat
  PROVE  Clamped(n) \in Nat /\ Clamped(n) <= n
<1>1. \E x \in {n, MaxReserve} : \A y \in {n, MaxReserve} : x <= y
  BY BoundAssumption
<1>2. Clamped(n) \in {n, MaxReserve} /\ \A y \in {n, MaxReserve} : Clamped(n) <= y
  BY <1>1 DEF Clamped, Min
<1> QED BY <1>2, BoundAssumption

-----------------------------------------------------------------------------
(* What positions are worth                                                 *)

\* What a position holds of an asset.
LEMMA ValueAtType ==
  ASSUME NEW i \in Ids, NEW r \in Nat \X Nat, NEW a
  PROVE  /\ ValueAt(i, r, a) \in Nat
         /\ ValueAt(i, r, a) = (IF a = Phi[i].a1 THEN r[1] ELSE 0) + (IF a = Phi[i].a2 THEN r[2] ELSE 0)
<1>1. Phi[i].a1 # Phi[i].a2 /\ r[1] \in Nat /\ r[2] \in Nat
  BY PairOfPosition
<1> QED BY <1>1 DEF ValueAt, Slot

\* What the positions hold of an asset is a natural number, zero of what none trades.
LEMMA ValueType ==
  ASSUME NEW h \in [Ids -> Nat \X Nat], NEW a
  PROVE  Value(h, a) \in Nat /\ (a \notin Assets => Value(h, a) = 0)
<1> DEFINE f == [i \in Ids |-> ValueAt(i, h[i], a)]
<1>1. IsFiniteSet(Ids)
  BY PositionAssumption
<1>2. \A i \in Ids : f[i] \in Nat
  BY ValueAtType
<1>3. ASSUME a \notin Assets PROVE \A i \in Ids : f[i] = 0
  BY <1>3, PairOfPosition DEF ValueAt
<1>4. Value(h, a) = SumFunctionOnSet(f, Ids)
  BY DEF Value
<1> HIDE DEF f
<1>5. SumFunctionOnSet(f, Ids) \in Nat
  BY <1>1, <1>2, SumNat
<1>6. a \notin Assets => SumFunctionOnSet(f, Ids) = 0
  BY <1>1, <1>3, SumZero
<1> QED BY <1>4, <1>5, <1>6

\* The value depends on the reserves alone.
LEMMA ValueSame ==
  ASSUME NEW h, NEW g, \A i \in Ids : h[i] = g[i], NEW a
  PROVE  Value(h, a) = Value(g, a)
<1>1. [i \in Ids |-> ValueAt(i, h[i], a)] = [i \in Ids |-> ValueAt(i, g[i], a)]
  OBVIOUS
<1> QED BY <1>1 DEF Value

\* The reserves of positions are reserves.
LEMMA ReservedType ==
  ASSUME NEW pos \in [Ids -> Position]
  PROVE  Reserved(pos) \in [Ids -> Nat \X Nat]
BY DEF Reserved, Position

\* What a position that is written anew changes.
LEMMA WriteValue ==
  ASSUME NEW pos \in [Ids -> Position], NEW i \in Ids, NEW new \in Position,
         NEW q, q = [pos EXCEPT ![i] = new], NEW a
  PROVE  Value(Reserved(q), a)
           = Value(Reserved(pos), a) + ValueAt(i, new.r, a) - ValueAt(i, pos[i].r, a)
<1>1. PICK h, r : h = Reserved(pos) /\ r = new.r
  OBVIOUS
<1>2. h \in [Ids -> Nat \X Nat] /\ r \in Nat \X Nat
  BY <1>1, ReservedType DEF Position
<1>3. Value(HeldWith(h, i, r), a) = Value(h, a) + ValueAt(i, r, a) - ValueAt(i, h[i], a)
  BY <1>2, ValueChange, ZenonT(60)
<1>4. Reserved(q) = HeldWith(h, i, r)
  BY <1>1 DEF Reserved, HeldWith
<1>5. h[i] = pos[i].r
  BY <1>1 DEF Reserved
<1> QED BY <1>1, <1>3, <1>4, <1>5


-----------------------------------------------------------------------------
(* Swap flows                                                               *)

\* The part of a flow that is in an asset.
LEMMA FlowAtType ==
  ASSUME NEW p \in Pairs, NEW flow \in Int \X Int, NEW a
  PROVE  /\ FlowAt(p, flow, a) \in Int
         /\ FlowAt(p, flow, a) = (IF a = p[1] THEN flow[1] ELSE 0) + (IF a = p[2] THEN flow[2] ELSE 0)
         /\ flow \in Nat \X Nat => FlowAt(p, flow, a) \in Nat
<1>1. p[1] # p[2] /\ flow[1] \in Int /\ flow[2] \in Int
  BY PairsOrdered
<1>2. flow \in Nat \X Nat => flow[1] \in Nat /\ flow[2] \in Nat
  OBVIOUS
<1> QED BY <1>1, <1>2 DEF FlowAt

\* The flow of a set of pairs, and without one of them.
LEMMA FlowSumExact ==
  ASSUME NEW fl, FlowsOK(fl), NEW T \in SUBSET DOMAIN fl, NEW a
  PROVE  /\ IsFiniteSet(T) /\ FlowSum(fl, T, a) \in Nat
         /\ \A p \in T : FlowSum(fl, T, a) = FlowAt(p, fl[p], a) + FlowSum(fl, T \ {p}, a)
<1> DEFINE f == [p \in DOMAIN fl |-> FlowAt(p, fl[p], a)]
<1>1. IsFiniteSet(T)
  BY FS_Subset DEF FlowsOK
<1>2. \A p \in T : f[p] \in Nat
  <2>1. ASSUME NEW p \in T PROVE f[p] \in Nat
    <3>1. p \in Pairs /\ fl[p] \in Nat \X Nat
      BY DEF FlowsOK
    <3>2. fl[p] \in Int \X Int
      BY <3>1
    <3> QED BY <3>1, <3>2, FlowAtType
  <2> QED BY <2>1
<1>3. \A p \in T : f[p] = FlowAt(p, fl[p], a)
  OBVIOUS
<1>4. \A U : FlowSum(fl, U, a) = SumFunctionOnSet(f, U)
  BY DEF FlowSum
<1> HIDE DEF f
<1>5. SumFunctionOnSet(f, T) \in Nat
  BY <1>1, <1>2, SumNat
<1>6. \A p \in T : f[p] \in Int
  BY <1>2
<1>7. \A p \in T : SumFunctionOnSet(f, T) = f[p] + SumFunctionOnSet(f, T \ {p})
  BY <1>1, <1>6, SumRemove
<1> QED BY <1>1, <1>3, <1>4, <1>5, <1>7

\* Two ways to write the flows of a set of pairs.
LEMMA FlowSumSame ==
  ASSUME NEW fl, FlowsOK(fl), NEW gl, FlowsOK(gl), NEW T, T \subseteq DOMAIN fl, T \subseteq DOMAIN gl,
         \A p \in T : gl[p] = fl[p], NEW a
  PROVE  FlowSum(fl, T, a) = FlowSum(gl, T, a)
<1>1. PICK f : f = [p \in DOMAIN fl |-> FlowAt(p, fl[p], a)]
  OBVIOUS
<1>2. PICK g : g = [p \in DOMAIN gl |-> FlowAt(p, gl[p], a)]
  OBVIOUS
<1>3. IsFiniteSet(T) /\ \A p \in T : f[p] = g[p]
  BY <1>1, <1>2, FS_Subset DEF FlowsOK
<1>4. SumFunctionOnSet(f, T) = SumFunctionOnSet(g, T)
  BY <1>3, SumSame
<1> QED BY <1>1, <1>2, <1>4 DEF FlowSum

\* The circuit breaker and the flows, taken together.
FlowState(w) ==
  /\ w = [flows |-> w.flows, vcb |-> w.vcb] /\ FlowsOK(w.flows) /\ w.vcb \in [Assets -> Int]
Beyond(w, a) == w.vcb[a] - FlowSum(w.flows, DOMAIN w.flows, a)

\* accumulate_swap_flow credits what it adds to the flows.
LEMMA AccumulateExact ==
  ASSUME NEW w, FlowState(w), NEW p \in Pairs, NEW flow \in Nat \X Nat
  PROVE  LET z == AccumulateFlow(w, p, flow) IN
         /\ FlowState(z) /\ DOMAIN z.flows = DOMAIN w.flows \cup {p}
         /\ \A a \in Assets : Beyond(z, a) = Beyond(w, a)
<1>0. PICK z : z = AccumulateFlow(w, p, flow)
  OBVIOUS
<1>p. p[1] \in Assets /\ p[2] \in Assets /\ p[1] # p[2]
  BY PairsOrdered
<1>1. PICK old : old = IF p \in DOMAIN w.flows THEN w.flows[p] ELSE <<0, 0>>
  OBVIOUS
<1>2. old \in Nat \X Nat
  BY <1>1 DEF FlowState, FlowsOK
<1>3. PICK new : new = <<old[1] + flow[1], old[2] + flow[2]>>
  OBVIOUS
<1>4. new \in Nat \X Nat /\ new[1] = old[1] + flow[1] /\ new[2] = old[2] + flow[2]
  BY <1>2, <1>3
<1>5. z.flows = Put(w.flows, p, new)
  <2>1. p \notin DOMAIN w.flows => new = flow
    BY <1>1, <1>3
  <2> QED BY <1>0, <1>1, <1>3, <2>1 DEF AccumulateFlow
<1>6. /\ DOMAIN z.flows = DOMAIN w.flows \cup {p} /\ z.flows[p] = new
      /\ \A q \in DOMAIN w.flows : q # p => z.flows[q] = w.flows[q]
  BY <1>5 DEF Put
<1>7. FlowsOK(z.flows)
  <2>1. IsFiniteSet(DOMAIN z.flows)
    BY <1>6, FS_AddElement DEF FlowState, FlowsOK
  <2>2. DOMAIN z.flows \subseteq Pairs
    BY <1>6 DEF FlowState, FlowsOK
  <2>3. z.flows = [q \in DOMAIN z.flows |-> z.flows[q]]
    BY <1>5 DEF Put
  <2>4. \A q \in DOMAIN z.flows : z.flows[q] \in Nat \X Nat
    BY <1>4, <1>6 DEF FlowState, FlowsOK
  <2> QED BY <2>1, <2>2, <2>3, <2>4 DEF FlowsOK
<1>8. z.vcb = [[w.vcb EXCEPT ![p[1]] = @ + flow[1]] EXCEPT ![p[2]] = @ + flow[2]]
  BY <1>0 DEF AccumulateFlow, Credit
<1>9. /\ z.vcb \in [Assets -> Int]
      /\ \A a \in Assets : z.vcb[a] = w.vcb[a] + (IF a = p[1] THEN flow[1] ELSE 0)
                                               + (IF a = p[2] THEN flow[2] ELSE 0)
  BY <1>8, <1>p DEF FlowState
<1>10. FlowState(z)
  BY <1>0, <1>7, <1>9 DEF FlowState, AccumulateFlow
<1>11. ASSUME NEW a \in Assets PROVE Beyond(z, a) = Beyond(w, a)
  <2>1. PICK D : D = DOMAIN w.flows
    OBVIOUS
  <2>2. DOMAIN z.flows \ {p} = D \ {p} /\ p \in DOMAIN z.flows
    BY <1>6, <2>1
  <2>3. FlowSum(z.flows, DOMAIN z.flows, a) = FlowAt(p, new, a) + FlowSum(z.flows, D \ {p}, a)
    BY <1>6, <1>7, <2>2, FlowSumExact
  <2>4. FlowSum(z.flows, D \ {p}, a) = FlowSum(w.flows, D \ {p}, a)
    <3>1. FlowsOK(w.flows)
      BY DEF FlowState
    <3>2. D \ {p} \subseteq DOMAIN w.flows /\ D \ {p} \subseteq DOMAIN z.flows
      BY <1>6, <2>1
    <3>3. \A q \in D \ {p} : w.flows[q] = z.flows[q]
      BY <1>6, <2>1
    <3> QED BY <1>7, <3>1, <3>2, <3>3, FlowSumSame
  <2>5. FlowSum(w.flows, D, a) = FlowAt(p, old, a) + FlowSum(w.flows, D \ {p}, a)
    <3>0. FlowsOK(w.flows)
      BY DEF FlowState
    <3>1. CASE p \in D
      <4>1. old = w.flows[p]
        BY <1>1, <2>1, <3>1
      <4> QED BY <2>1, <3>0, <3>1, <4>1, FlowSumExact
    <3>2. CASE p \notin D
      <4>1. D \ {p} = D /\ FlowAt(p, old, a) = 0
        BY <1>1, <2>1, <3>2 DEF FlowAt
      <4>2. FlowSum(w.flows, D, a) \in Nat
        BY <2>1, <3>0, FlowSumExact
      <4> QED BY <4>1, <4>2
    <3> QED BY <3>1, <3>2
  <2>6. /\ FlowAt(p, new, a) = FlowAt(p, old, a) + (IF a = p[1] THEN flow[1] ELSE 0)
                                                + (IF a = p[2] THEN flow[2] ELSE 0)
        /\ FlowAt(p, old, a) \in Int
    <3>1. old \in Int \X Int /\ new \in Int \X Int /\ flow[1] \in Int /\ flow[2] \in Int /\ old[1] \in Int /\ old[2] \in Int
      BY <1>2, <1>4
    <3>2. /\ FlowAt(p, old, a) = (IF a = p[1] THEN old[1] ELSE 0) + (IF a = p[2] THEN old[2] ELSE 0)
          /\ FlowAt(p, new, a) = (IF a = p[1] THEN new[1] ELSE 0) + (IF a = p[2] THEN new[2] ELSE 0)
          /\ FlowAt(p, old, a) \in Int
      BY <3>1, FlowAtType
    <3> QED BY <1>4, <1>p, <3>1, <3>2
  <2>7. FlowSum(w.flows, D \ {p}, a) \in Int /\ w.vcb[a] \in Int
    <3>1. FlowsOK(w.flows) /\ w.vcb[a] \in Int
      BY DEF FlowState
    <3>2. FlowSum(w.flows, D \ {p}, a) \in Nat
      BY <2>1, <3>1, FlowSumExact
    <3> QED BY <3>1, <3>2
  <2>8. PICK x, y, u, v : /\ x = FlowSum(w.flows, D \ {p}, a) /\ y = FlowAt(p, old, a)
                          /\ u = (IF a = p[1] THEN flow[1] ELSE 0)
                          /\ v = (IF a = p[2] THEN flow[2] ELSE 0)
    OBVIOUS
  <2>9. x \in Int /\ y \in Int /\ u \in Int /\ v \in Int /\ w.vcb[a] \in Int
    BY <2>6, <2>7, <2>8
  <2>10. /\ FlowSum(z.flows, DOMAIN z.flows, a) = (y + u + v) + x
         /\ FlowSum(w.flows, DOMAIN w.flows, a) = y + x
         /\ z.vcb[a] = w.vcb[a] + u + v
    BY <1>9, <2>1, <2>3, <2>4, <2>5, <2>6, <2>8
  <2> QED BY <2>9, <2>10 DEF Beyond
<1> QED BY <1>0, <1>6, <1>10, <1>11

-----------------------------------------------------------------------------
(* The fees of a block, as flows                                            *)

\* The flow of the fees of an asset.
FeesOf(a) == FeeFlow(a, fees[a][1] + fees[a][2])
FeeStep(w, g, T) ==
  IF T = {} THEN w ELSE AccumulateFlow(g[T \ {Chosen(T)}], FeePair(Chosen(T)), FeesOf(Chosen(T)))
FeeIter(w, S) == CHOOSE g : g = [T \in SUBSET S |-> FeeStep(w, g, T)]

\* The fees are added to the flows one asset at a time.
LEMMA FeesAreIter ==
  ASSUME NEW w, NEW S
  PROVE  FoldSet(LAMBDA a, acc : AccumulateFlow(acc, FeePair(a),
                                              FeeFlow(a, fees[a][1] + fees[a][2])), w, S)
            = FeeIter(w, S)[S]
BY DEF FoldSet, MapThenFoldSet, FeeIter, FeeStep, FeesOf, Chosen

\* The fold exists.
LEMMA FeeIterDef ==
  ASSUME NEW w, NEW S, IsFiniteSet(S), NEW T \in SUBSET S
  PROVE  FeeIter(w, S)[T] = FeeStep(w, FeeIter(w, S), T)
<1> DEFINE Built(n) == \E g : /\ g = [U \in SUBSET S |-> g[U]]
                              /\ \A U \in SUBSET S :
                                   Cardinality(U) <= n => g[U] = FeeStep(w, g, U)
           N == {n \in Nat : Built(n)}
<1>1. 0 \in N
  <2>1. PICK g : g = [U \in SUBSET S |-> w]
    OBVIOUS
  <2>2. ASSUME NEW U \in SUBSET S, Cardinality(U) <= 0 PROVE g[U] = FeeStep(w, g, U)
    <3>1. Cardinality(U) = 0
      BY <2>2, SubsetFinite
    <3>2. U = {}
      BY <3>1, SubsetEmpty
    <3> QED BY <2>1, <3>2 DEF FeeStep
  <2>3. g = [U \in SUBSET S |-> g[U]]
    BY <2>1
  <2> QED BY <2>2, <2>3
<1>2. ASSUME NEW n \in Nat, n \in N PROVE n + 1 \in N
  <2>1. PICK g : /\ g = [U \in SUBSET S |-> g[U]]
                 /\ \A U \in SUBSET S : Cardinality(U) <= n => g[U] = FeeStep(w, g, U)
    BY <1>2
  <2>2. PICK h : h = [U \in SUBSET S |-> IF Cardinality(U) = n + 1 THEN FeeStep(w, g, U) ELSE g[U]]
    OBVIOUS
  <2>3. ASSUME NEW U \in SUBSET S, Cardinality(U) <= n + 1 PROVE h[U] = FeeStep(w, h, U)
    <3>1. h[U] = FeeStep(w, g, U)
      <4>1. Cardinality(U) \in Nat
        BY SubsetFinite
      <4>2. CASE Cardinality(U) = n + 1
        BY <2>2, <4>2
      <4>3. CASE Cardinality(U) # n + 1
        <5>1. Cardinality(U) <= n
          BY <2>3, <4>1, <4>3
        <5> QED BY <2>1, <2>2, <4>3, <5>1
      <4> QED BY <4>2, <4>3
    <3>2. U # {} => h[U \ {Chosen(U)}] = g[U \ {Chosen(U)}]
      <4>1. SUFFICES ASSUME U # {} PROVE h[U \ {Chosen(U)}] = g[U \ {Chosen(U)}]
        OBVIOUS
      <4>2. Chosen(U) \in U
        BY <4>1 DEF Chosen
      <4>4. /\ U \ {Chosen(U)} \in SUBSET S
            /\ Cardinality(U \ {Chosen(U)}) = Cardinality(U) - 1
            /\ Cardinality(U) \in Nat
        BY <4>2, SubsetLess
      <4>3. Cardinality(U \ {Chosen(U)}) # n + 1
        BY <2>3, <4>4
      <4> QED BY <2>2, <4>4, <4>3
    <3> QED BY <3>1, <3>2 DEF FeeStep
  <2>4. h = [U \in SUBSET S |-> h[U]]
    BY <2>2
  <2>5. Built(n + 1)
    BY <2>3, <2>4
  <2> HIDE DEF Built
  <2> QED BY <2>5
<1>3. \A n \in Nat : n \in N
  <2> HIDE DEF N
  <2> QED BY <1>1, <1>2, NatSetInduction
<1>4. Cardinality(S) \in Nat
  BY FS_CardinalityType
<1>5. PICK g : /\ g = [U \in SUBSET S |-> g[U]]
               /\ \A U \in SUBSET S :
                    Cardinality(U) <= Cardinality(S) => g[U] = FeeStep(w, g, U)
  BY <1>3, <1>4
<1>6. \A U \in SUBSET S : g[U] = FeeStep(w, g, U)
  BY <1>5, FS_Subset
<1>7. g = [U \in SUBSET S |-> FeeStep(w, g, U)]
  BY <1>5, <1>6
<1>8. FeeIter(w, S) = [U \in SUBSET S |-> FeeStep(w, FeeIter(w, S), U)]
  BY <1>7 DEF FeeIter
<1> HIDE DEF FeeIter
<1> QED BY <1>8


\* What the fees add to the flows they add to the circuit breaker.
LEMMA FeesExact ==
  ASSUME FeesOK, NEW w, FlowState(w), NEW S \in SUBSET AltFees
  PROVE  /\ FlowState(FeeIter(w, S)[S])
         /\ \A a \in Assets : Beyond(FeeIter(w, S)[S], a) = Beyond(w, a)
<1> DEFINE I == FeeIter(w, S)
           Holds(T) == FlowState(I[T]) /\ \A a \in Assets : Beyond(I[T], a) = Beyond(w, a)
           N == {n \in Nat : \A T \in SUBSET S : Cardinality(T) = n => Holds(T)}
<1>0. IsFiniteSet(S)
  <2>1. S \subseteq DOMAIN fees
    BY DEF AltFees
  <2> QED BY <2>1, FS_Subset DEF FeesOK
<1>1. \A T \in SUBSET S : I[T] = FeeStep(w, I, T)
  BY <1>0, FeeIterDef
<1>2. 0 \in N
  <2>1. ASSUME NEW T \in SUBSET S, Cardinality(T) = 0 PROVE Holds(T)
    <3>1. T = {}
      BY <1>0, <2>1, SubsetEmpty
    <3>2. I[T] = w
      BY <1>1, <3>1 DEF FeeStep
    <3> QED BY <3>1, <3>2
  <2> QED BY <2>1
<1>3. ASSUME NEW n \in Nat, n \in N PROVE n + 1 \in N
  <2>1. ASSUME NEW T \in SUBSET S, Cardinality(T) = n + 1 PROVE Holds(T)
    <3>1. PICK x, R : x = Chosen(T) /\ R = T \ {x}
      OBVIOUS
    <3>2. T # {} /\ x \in T /\ R \in SUBSET S /\ Cardinality(R) = n
      BY <1>0, <2>1, <3>1, SubsetChosen
    <3>3. Holds(R)
      BY <1>3, <3>2
    <3>4. PICK c, d, p, flow : c = I[R] /\ d = I[T] /\ p = FeePair(x) /\ flow = FeesOf(x)
      OBVIOUS
    <3>5. d = AccumulateFlow(c, p, flow)
      BY <1>1, <3>1, <3>2, <3>4 DEF FeeStep
    <3>6. p \in Pairs /\ flow \in Nat \X Nat
      <4>1. x \in FeeAssets /\ x # StakingToken /\ fees[x] \in Nat \X Nat
        BY <3>2 DEF AltFees, FeesOK
      <4>2. p \in Pairs
        BY <3>4, <4>1, PairOfFee
      <4>3. fees[x][1] + fees[x][2] \in Nat
        BY <4>1
      <4> QED BY <3>4, <4>2, <4>3 DEF FeesOf, FeeFlow
    <3>7. FlowState(c)
      BY <3>3, <3>4
    <3>8. FlowState(d) /\ \A a \in Assets : Beyond(d, a) = Beyond(c, a)
      BY <3>5, <3>6, <3>7, AccumulateExact
    <3> QED BY <3>3, <3>4, <3>8
  <2> QED BY <2>1
<1>4. \A n \in Nat : n \in N
  <2> HIDE DEF N
  <2> QED BY <1>2, <1>3, NatSetInduction
<1>5. Cardinality(S) \in Nat
  BY <1>0, FS_CardinalityType
<1> QED BY <1>4, <1>5

-----------------------------------------------------------------------------
(* Transactions                                                             *)

\* What has to be shown of a transaction.
LEMMA TransactionStep ==
  ASSUME IInv, phase = "txs", phase' = "txs", fork' = fork, job' = job,
         BookOK(book'), OwnedIn(book)', vcb' \in [Assets -> Int], nft' \in [Ids -> Int],
         FlowsOK(flows'), FeesOK', queue' \subseteq Ids, hot' \subseteq Pairs,
         \A i \in queue' : book'.pos[i].state = "Opened",
         \A a \in Assets : vcb'[a] = Value(Reserved(book'.pos), a)
                                       + FlowSum(flows', DOMAIN flows', a),
         Crowded(book)'
  PROVE  IInv'
<1>1. Types'
  <2>1. BookOK(fork)' /\ IsJob(job)'
    BY DEF IInv, Types, BookOK, IsJob
  <2> QED BY <2>1 DEF Types, BookOK, Phases
<1>2. Owned' /\ Batch' /\ Bounded'
  BY DEF Owned, Batch, Bounded
<1>3. Solvent'
  BY DEF Solvent
<1> QED BY <1>1, <1>2, <1>3 DEF IInv

\* What the invariant says while transactions are executed.
LEMMA TransactionState ==
  ASSUME IInv, phase = "txs"
  PROVE  /\ BookOK(book) /\ book.pos \in [Ids -> Position] /\ OwnedIn(book)
         /\ vcb \in [Assets -> Int] /\ nft \in [Ids -> Int] /\ FlowsOK(flows) /\ FeesOK
         /\ queue \subseteq Ids /\ hot \subseteq Pairs
         /\ \A i \in queue : book.pos[i].state = "Opened"
         /\ \A a \in Assets : vcb[a] = Value(Reserved(book.pos), a) + FlowSum(flows, DOMAIN flows, a)
         /\ Crowded(book)
BY DEF IInv, Types, Owned, Solvent, Bounded, BookOK

\* The number of open positions of a pair.
LEMMA CountType ==
  ASSUME NEW b, BookOK(b)
  PROVE  b.count = [p \in Pairs |-> b.count[p]] /\ \A p \in Pairs : b.count[p] \in Nat
<1>1. b.count = CountOf(b.pos)
  BY DEF BookOK, IndexesMatch
<1>2. \A p : IsFiniteSet({j \in OpenIn(b.pos) : PairOf(j) = p})
  BY PositionAssumption, FS_Subset DEF OpenIn
<1>3. \A p : Cardinality({j \in OpenIn(b.pos) : PairOf(j) = p}) \in Nat
  BY <1>2, FS_CardinalityType
<1> QED BY <1>1, <1>3 DEF CountOf

\* A position that is written, with what the circuit breaker counts of it.
LEMMA WriteExact ==
  ASSUME NEW b, BookOK(b), NEW i \in Ids, NEW new \in Position, Moves(b.pos[i], new)
  PROVE  LET c == UpdatePosition(b, i, new) IN
         /\ BookOK(c) /\ c.pos = [b.pos EXCEPT ![i] = new]
         /\ \A j \in Ids : c.pos[j] = IF j = i THEN new ELSE b.pos[j]
         /\ \A a : Value(Reserved(c.pos), a)
                     = Value(Reserved(b.pos), a) + ValueAt(i, new.r, a) - ValueAt(i, b.pos[i].r, a)
         /\ \A p \in Pairs : c.count[p] = b.count[p] + IF p = PairOf(i) THEN CountChange(b.pos[i], new) ELSE 0
<1>1. PICK c : c = UpdatePosition(b, i, new)
  OBVIOUS
<1>2. BookOK(c) /\ c.pos = [b.pos EXCEPT ![i] = new]
  BY <1>1, UpdateExact
<1>3. b.pos \in [Ids -> Position]
  BY DEF BookOK
<1>4. \A j \in Ids : c.pos[j] = IF j = i THEN new ELSE b.pos[j]
  BY <1>2, <1>3
<1>5. \A a : Value(Reserved(c.pos), a)
               = Value(Reserved(b.pos), a) + ValueAt(i, new.r, a) - ValueAt(i, b.pos[i].r, a)
  BY <1>2, <1>3, WriteValue
<1>6. \A p \in Pairs : c.count[p] = b.count[p] + IF p = PairOf(i) THEN CountChange(b.pos[i], new) ELSE 0
  <2>1. c.count = [b.count EXCEPT ![PairOf(i)] = @ + CountChange(b.pos[i], new)]
    BY <1>1 DEF UpdatePosition
  <2>2. b.count = [p \in Pairs |-> b.count[p]] /\ \A p \in Pairs : b.count[p] \in Int
    BY CountType
  <2> QED BY <2>1, <2>2
<1> QED BY <1>1, <1>2, <1>4, <1>5, <1>6

\* PositionOpen credits the reserves, and marks the pair as active.
LEMMA OpenKeeps ==
  ASSUME IInv, NEW i \in Ids, NEW r \in InitReserves[i], PositionOpen(i, r)
  PROVE  IInv'
<1>n. PICK new : new = [state |-> "Opened", seq |-> 0, r |-> r]
  OBVIOUS
<1>0. phase = "txs" /\ phase' = "txs" /\ fork' = fork /\ job' = job
  BY DEF PositionOpen, Transaction
<1>1. /\ BookOK(book) /\ book.pos \in [Ids -> Position] /\ OwnedIn(book)
      /\ vcb \in [Assets -> Int] /\ nft \in [Ids -> Int] /\ FlowsOK(flows) /\ FeesOK
      /\ queue \subseteq Ids /\ hot \subseteq Pairs
      /\ \A j \in queue : book.pos[j].state = "Opened"
      /\ \A a \in Assets : vcb[a] = Value(Reserved(book.pos), a) + FlowSum(flows, DOMAIN flows, a)
      /\ Crowded(book)
  BY <1>0, TransactionState
<1>2. book.pos[i].state = "Absent" /\ book.pos[i] = Nowhere /\ nft[i] = NoNft
  <2>1. book.pos[i].state = "Absent"
    BY DEF PositionOpen
  <2>2. OwnedIn(book)
    BY <1>1
  <2> QED BY <2>1, <2>2 DEF OwnedIn
<1>3. r \in Nat \X Nat /\ new \in Position /\ new.r = r /\ new.state = "Opened"
  BY <1>n, PositionAssumption DEF Position, PosStates
<1>4. PICK c : c = UpdatePosition(book, i, new)
  OBVIOUS
<1>5. book' = c
  BY <1>n, <1>4 DEF PositionOpen
<1>6. Moves(book.pos[i], new)
  BY <1>2, <1>3 DEF Moves
<1>7. /\ BookOK(c) /\ c.pos = [book.pos EXCEPT ![i] = new]
      /\ \A j \in Ids : c.pos[j] = IF j = i THEN new ELSE book.pos[j]
      /\ \A a : Value(Reserved(c.pos), a) = Value(Reserved(book.pos), a)
                    + ValueAt(i, new.r, a) - ValueAt(i, book.pos[i].r, a)
      /\ \A p \in Pairs : c.count[p]
            = book.count[p] + IF p = PairOf(i) THEN CountChange(book.pos[i], new) ELSE 0
  <2>1. BookOK(book) /\ new \in Position
    BY <1>1, <1>3
  <2> QED BY <2>1, <1>4, <1>6, WriteExact
<1>8. OwnedIn(book)'
  <2>1. \A j \in Ids : nft'[j] = IF j = i THEN OpenedNft ELSE nft[j]
    BY <1>1 DEF PositionOpen
  <2>2. queue' = queue
    BY DEF PositionOpen
  <2>3. \A j \in Ids : book'.pos[j] = IF j = i THEN new ELSE book.pos[j]
    BY <1>5, <1>7
  <2>4. OwnedIn(book) /\ i \notin queue
    BY <1>1, <1>2
  <2>5. ASSUME NEW j \in Ids
        PROVE  \/ nft'[j] = NoNft /\ book'.pos[j] = Nowhere
               \/ nft'[j] = OpenedNft /\ book'.pos[j].state \in {"Opened", "Closed"}
               \/ nft'[j] = ClosedNft /\ (book'.pos[j].state = "Closed" \/ (book'.pos[j].state = "Opened" /\ j \in queue'))
               \/ nft'[j] >= 0 /\ book'.pos[j].state = "Withdrawn" /\ book'.pos[j].seq = nft'[j]
    BY <1>3, <2>1, <2>2, <2>3, <2>4 DEF OwnedIn
  <2>6. \A j \in queue' : book'.pos[j].state \in {"Opened", "Closed"}
    BY <1>1, <1>3, <2>2, <2>3, <2>4 DEF OwnedIn
  <2> QED BY <2>5, <2>6 DEF OwnedIn
<1>9. /\ vcb' \in [Assets -> Int]
      /\ \A a \in Assets : vcb'[a] = vcb[a] + (IF a = Phi[i].a1 THEN r[1] ELSE 0)
                                            + (IF a = Phi[i].a2 THEN r[2] ELSE 0)
  BY <1>1, <1>3, PairOfPosition DEF PositionOpen, Credit
<1>10. \A a \in Assets : vcb'[a] = Value(Reserved(c.pos), a) + FlowSum(flows, DOMAIN flows, a)
  <2>1. ASSUME NEW a \in Assets PROVE vcb'[a] = Value(Reserved(c.pos), a) + FlowSum(flows, DOMAIN flows, a)
    <3>1. PICK x, y, n, v : /\ x = Value(Reserved(book.pos), a) /\ y = FlowSum(flows, DOMAIN flows, a)
                            /\ n = ValueAt(i, r, a) /\ v = ValueAt(i, <<0, 0>>, a)
      OBVIOUS
    <3>2. x \in Nat
      BY <1>1, <3>1, ReservedType, ValueType
    <3>3. y \in Nat
      BY <1>1, <3>1, FlowSumExact
    <3>4. n \in Nat /\ n = (IF a = Phi[i].a1 THEN r[1] ELSE 0) + (IF a = Phi[i].a2 THEN r[2] ELSE 0)
      BY <1>3, <3>1, ValueAtType
    <3>5. v = 0
      BY <3>1 DEF ValueAt, Slot
    <3>6. Value(Reserved(c.pos), a) = x + n - v
      BY <1>2, <1>3, <1>7, <3>1 DEF Nowhere
    <3>7. vcb[a] = x + y
      BY <1>1, <3>1
    <3>8. vcb'[a] = x + y + n
      <4>1. r[1] \in Int /\ r[2] \in Int
        BY <1>3
      <4> QED BY <1>9, <3>2, <3>3, <3>4, <3>7, <4>1
    <3> QED BY <3>1, <3>2, <3>3, <3>4, <3>5, <3>6, <3>8
  <2> QED BY <2>1
<1>11. Crowded(book)'
  <2>1. hot' = hot \cup {PairOf(i)}
    BY DEF PositionOpen
  <2>2. \A p \in Pairs : p \notin hot' => c.count[p] = book.count[p] + 0
    BY <1>7, <2>1
  <2>3. \A p \in Pairs : book.count[p] \in Int
    <3>1. \A p \in Pairs : book.count[p] \in Nat
      BY <1>1, CountType
    <3> QED BY <3>1
  <2> QED BY <1>1, <1>5, <2>1, <2>2, <2>3 DEF Crowded
<1>12. hot' \subseteq Pairs /\ queue' = queue /\ flows' = flows /\ fees' = fees
  BY <1>1, PairOfPosition DEF PositionOpen
<1>13. \A j \in queue' : book'.pos[j].state = "Opened"
  BY <1>1, <1>2, <1>3, <1>5, <1>7, <1>12
<1>14. nft' \in [Ids -> Int] /\ FeesOK'
  BY <1>1, <1>12 DEF PositionOpen, OpenedNft, FeesOK
<1> QED BY <1>0, <1>1, <1>5, <1>7, <1>8, <1>9, <1>10, <1>11, <1>12, <1>13, <1>14, TransactionStep

\* What the invariant is about.
holds == <<book, fork, vcb, nft, flows, fees, job, queue, hot, phase>>

\* A step that changes none of the variables the invariant is about.
LEMMA SameKeeps ==
  ASSUME IInv, UNCHANGED holds
  PROVE  IInv'
<1>1. /\ book' = book /\ fork' = fork /\ vcb' = vcb /\ nft' = nft /\ flows' = flows /\ fees' = fees
      /\ job' = job /\ queue' = queue /\ hot' = hot /\ phase' = phase
  BY DEF holds
<1>2. Types'
  BY <1>1 DEF IInv, Types, FeesOK
<1>3. Owned'
  BY <1>1 DEF IInv, Owned, OwnedIn
<1>4. Batch'
  BY <1>1 DEF IInv, Batch
<1>5. Solvent'
  BY <1>1 DEF IInv, Solvent, InFlight
<1>6. Bounded'
  BY <1>1 DEF IInv, Bounded, Crowded
<1> QED BY <1>2, <1>3, <1>4, <1>5, <1>6 DEF IInv

\* SwapClaim marks the swap and pays out.
LEMMA ClaimKeeps ==
  ASSUME IInv, NEW s \in Swaps, SwapClaim(s)
  PROVE  IInv'
<1>1. UNCHANGED holds
  BY DEF SwapClaim, Transaction, holds
<1> QED BY <1>1, SameKeeps

\* PositionClose only queues a position that is open.
LEMMA CloseKeeps ==
  ASSUME IInv, NEW i \in Ids, PositionClose(i)
  PROVE  IInv'
<1>0. phase = "txs" /\ phase' = "txs" /\ fork' = fork /\ job' = job
  BY DEF PositionClose, Transaction
<1>1. /\ BookOK(book) /\ book.pos \in [Ids -> Position] /\ OwnedIn(book)
      /\ vcb \in [Assets -> Int] /\ nft \in [Ids -> Int] /\ FlowsOK(flows) /\ FeesOK
      /\ queue \subseteq Ids /\ hot \subseteq Pairs
      /\ \A j \in queue : book.pos[j].state = "Opened"
      /\ \A a \in Assets : vcb[a] = Value(Reserved(book.pos), a) + FlowSum(flows, DOMAIN flows, a)
      /\ Crowded(book)
  BY <1>0, TransactionState
<1>2. /\ book' = book /\ vcb' = vcb /\ flows' = flows /\ fees' = fees /\ hot' = hot
      /\ nft[i] = OpenedNft /\ nft' = [nft EXCEPT ![i] = ClosedNft]
      /\ queue' = IF book.pos[i].state = "Opened" THEN queue \cup {i} ELSE queue
  BY DEF PositionClose, QueueClose
<1>3. book.pos[i].state \in {"Opened", "Closed"}
  BY <1>1, <1>2 DEF OwnedIn, NoNft, OpenedNft, ClosedNft
<1>4. OwnedIn(book)'
  <2>1. \A j \in Ids : nft'[j] = IF j = i THEN ClosedNft ELSE nft[j]
    BY <1>1, <1>2
  <2>2. OwnedIn(book)
    BY <1>1
  <2>3. ASSUME NEW j \in Ids
        PROVE  \/ nft'[j] = NoNft /\ book.pos[j] = Nowhere
               \/ nft'[j] = OpenedNft /\ book.pos[j].state \in {"Opened", "Closed"}
               \/ nft'[j] = ClosedNft /\ (book.pos[j].state = "Closed" \/ (book.pos[j].state = "Opened" /\ j \in queue'))
               \/ nft'[j] >= 0 /\ book.pos[j].state = "Withdrawn" /\ book.pos[j].seq = nft'[j]
    BY <1>2, <1>3, <2>1, <2>2 DEF OwnedIn
  <2>4. \A j \in queue' : book.pos[j].state \in {"Opened", "Closed"}
    BY <1>2, <1>3, <2>2 DEF OwnedIn
  <2> QED BY <1>2, <2>3, <2>4 DEF OwnedIn
<1>5. nft' \in [Ids -> Int] /\ FeesOK' /\ Crowded(book)' /\ queue' \subseteq Ids
  BY <1>1, <1>2 DEF ClosedNft, FeesOK, Crowded
<1>6. \A j \in queue' : book'.pos[j].state = "Opened"
  BY <1>1, <1>2
<1> QED BY <1>0, <1>1, <1>2, <1>4, <1>5, <1>6, TransactionStep

\* Swap credits what it adds to the flows.
LEMMA SwapKeeps ==
  ASSUME IInv, NEW s \in Swaps, NEW input \in SwapInputs, Swap(s, input)
  PROVE  IInv'
<1>0. phase = "txs" /\ phase' = "txs" /\ fork' = fork /\ job' = job
  BY DEF Swap, Transaction
<1>1. /\ BookOK(book) /\ book.pos \in [Ids -> Position] /\ OwnedIn(book)
      /\ vcb \in [Assets -> Int] /\ nft \in [Ids -> Int] /\ FlowsOK(flows) /\ FeesOK
      /\ queue \subseteq Ids /\ hot \subseteq Pairs
      /\ \A j \in queue : book.pos[j].state = "Opened"
      /\ \A a \in Assets : vcb[a] = Value(Reserved(book.pos), a) + FlowSum(flows, DOMAIN flows, a)
      /\ Crowded(book)
  BY <1>0, TransactionState
<1>2. PICK w, p, flow, z : /\ w = [flows |-> flows, vcb |-> vcb] /\ p = input[1]
                           /\ flow = <<input[2], input[3]>> /\ z = AccumulateFlow(w, p, flow)
  OBVIOUS
<1>3. p \in Pairs /\ flow \in Nat \X Nat
  BY <1>2, InputAssumption DEF Pairs
<1>4. FlowState(w) /\ w.flows = flows /\ w.vcb = vcb
  BY <1>1, <1>2 DEF FlowState
<1>5. FlowState(z) /\ \A a \in Assets : Beyond(z, a) = Beyond(w, a)
  BY <1>2, <1>3, <1>4, AccumulateExact
<1>6. /\ flows' = z.flows /\ vcb' = z.vcb /\ book' = book /\ fees' = fees /\ hot' = hot
      /\ nft' = nft /\ queue' = queue
  BY <1>2 DEF Swap
<1>7. ASSUME NEW a \in Assets
      PROVE  vcb'[a] = Value(Reserved(book'.pos), a) + FlowSum(flows', DOMAIN flows', a)
  <2>1. PICK x, y, n : /\ x = Value(Reserved(book.pos), a) /\ y = FlowSum(flows, DOMAIN flows, a)
                       /\ n = FlowSum(z.flows, DOMAIN z.flows, a)
    OBVIOUS
  <2>2. x \in Nat
    BY <1>1, <2>1, ReservedType, ValueType
  <2>3. y \in Nat
    BY <1>1, <2>1, FlowSumExact
  <2>4. n \in Nat
    BY <1>5, <2>1, FlowSumExact DEF FlowState
  <2>5. z.vcb[a] - n = vcb[a] - y /\ z.vcb[a] \in Int /\ vcb[a] = x + y
    BY <1>1, <1>4, <1>5, <2>1 DEF Beyond, FlowState
  <2>6. z.vcb[a] = x + n
    BY <2>2, <2>3, <2>4, <2>5
  <2> QED BY <1>6, <2>1, <2>6
<1>8. FlowsOK(flows') /\ vcb' \in [Assets -> Int]
  BY <1>5, <1>6 DEF FlowState
<1>9. FeesOK' /\ Crowded(book)' /\ OwnedIn(book)'
  BY <1>1, <1>6 DEF FeesOK, Crowded, OwnedIn
<1> QED BY <1>0, <1>1, <1>6, <1>7, <1>8, <1>9, TransactionStep

\* pay_fee only adds to the fees.
LEMMA PayFeeKeeps ==
  ASSUME IInv, NEW f \in FeeInputs, PayFee(f)
  PROVE  IInv'
<1>0. phase = "txs" /\ phase' = "txs" /\ fork' = fork /\ job' = job
  BY DEF PayFee, Transaction
<1>1. /\ BookOK(book) /\ book.pos \in [Ids -> Position] /\ OwnedIn(book)
      /\ vcb \in [Assets -> Int] /\ nft \in [Ids -> Int] /\ FlowsOK(flows) /\ FeesOK
      /\ queue \subseteq Ids /\ hot \subseteq Pairs
      /\ \A j \in queue : book.pos[j].state = "Opened"
      /\ \A a \in Assets : vcb[a] = Value(Reserved(book.pos), a) + FlowSum(flows, DOMAIN flows, a)
      /\ Crowded(book)
  BY <1>0, TransactionState
<1>2. /\ flows' = flows /\ vcb' = vcb /\ book' = book /\ hot' = hot /\ nft' = nft /\ queue' = queue
  BY DEF PayFee
<1>3. FeesOK'
  <2>1. PICK old, new : /\ old = (IF f[1] \in DOMAIN fees THEN fees[f[1]] ELSE <<0, 0>>)
                        /\ new = <<old[1] + f[2], old[2] + f[3]>>
    OBVIOUS
  <2>2. f[1] \in FeeAssets /\ f[2] \in Nat /\ f[3] \in Nat
    BY InputAssumption DEF FeeAssets
  <2>3. old \in Nat \X Nat
    BY <1>1, <2>1 DEF FeesOK
  <2>4. new \in Nat \X Nat
    BY <2>1, <2>2, <2>3
  <2>5. fees' = Put(fees, f[1], new)
    BY <2>1 DEF PayFee
  <2>6. /\ DOMAIN fees' = DOMAIN fees \cup {f[1]}
        /\ \A a \in DOMAIN fees' : fees'[a] = IF a = f[1] THEN new ELSE fees[a]
        /\ fees' = [a \in DOMAIN fees' |-> fees'[a]]
    BY <2>5 DEF Put
  <2>7. IsFiniteSet(DOMAIN fees') /\ DOMAIN fees' \subseteq FeeAssets
    BY <1>1, <2>2, <2>6, FS_AddElement DEF FeesOK
  <2>8. \A a \in DOMAIN fees' : fees'[a] \in Nat \X Nat
    BY <1>1, <2>4, <2>6 DEF FeesOK
  <2> QED BY <2>6, <2>7, <2>8 DEF FeesOK
<1>4. Crowded(book)' /\ OwnedIn(book)'
  BY <1>1, <1>2 DEF Crowded, OwnedIn
<1>5. \A a \in Assets : vcb'[a] = Value(Reserved(book'.pos), a) + FlowSum(flows', DOMAIN flows', a)
  BY <1>1, <1>2
<1> QED BY <1>0, <1>1, <1>2, <1>3, <1>4, <1>5, TransactionStep

\* PositionWithdraw takes out what the position has.
LEMMA WithdrawKeeps ==
  ASSUME IInv, NEW i \in Ids, PositionWithdraw(i)
  PROVE  IInv'
<1>0. phase = "txs" /\ phase' = "txs" /\ fork' = fork /\ job' = job
  BY DEF PositionWithdraw, Transaction
<1>1. /\ BookOK(book) /\ book.pos \in [Ids -> Position] /\ OwnedIn(book)
      /\ vcb \in [Assets -> Int] /\ nft \in [Ids -> Int] /\ FlowsOK(flows) /\ FeesOK
      /\ queue \subseteq Ids /\ hot \subseteq Pairs
      /\ \A j \in queue : book.pos[j].state = "Opened"
      /\ \A a \in Assets : vcb[a] = Value(Reserved(book.pos), a) + FlowSum(flows, DOMAIN flows, a)
      /\ Crowded(book)
  BY <1>0, TransactionState
<1>n. PICK x, seq, new : /\ x = book.pos[i] /\ seq = nft[i] + 1
                         /\ new = [state |-> "Withdrawn", seq |-> seq, r |-> <<0, 0>>]
  OBVIOUS
<1>2. x \in Position /\ seq \in Int /\ seq >= 0 /\ x.r \in Nat \X Nat /\ x.state \in {"Closed", "Withdrawn"}
  <2>1. nft[i] \in Int /\ nft[i] >= ClosedNft
    BY <1>1 DEF PositionWithdraw
  <2>2. x.state \in {"Closed", "Withdrawn"}
    BY <1>n DEF PositionWithdraw, WithdrawChecks
  <2> QED BY <1>1, <1>n, <2>1, <2>2 DEF ClosedNft, Position
<1>3. new \in Position /\ new.r = <<0, 0>> /\ new.state = "Withdrawn" /\ new.seq = seq
  BY <1>n, <1>2 DEF Position, PosStates
<1>4. PICK c : c = UpdatePosition(book, i, new)
  OBVIOUS
<1>5. /\ book' = c /\ flows' = flows /\ fees' = fees /\ hot' = hot /\ queue' = queue
      /\ nft' = [nft EXCEPT ![i] = seq]
      /\ vcb' = [[vcb EXCEPT ![Phi[i].a1] = @ - x.r[1]] EXCEPT ![Phi[i].a2] = @ - x.r[2]]
  BY <1>n, <1>4 DEF PositionWithdraw, Debit
<1>6. Moves(book.pos[i], new)
  BY <1>n, <1>2, <1>3 DEF Moves
<1>7. /\ BookOK(c) /\ c.pos = [book.pos EXCEPT ![i] = new]
      /\ \A j \in Ids : c.pos[j] = IF j = i THEN new ELSE book.pos[j]
      /\ \A a : Value(Reserved(c.pos), a) = Value(Reserved(book.pos), a)
                    + ValueAt(i, new.r, a) - ValueAt(i, book.pos[i].r, a)
      /\ \A p \in Pairs : c.count[p]
            = book.count[p] + IF p = PairOf(i) THEN CountChange(book.pos[i], new) ELSE 0
  <2>1. BookOK(book) /\ new \in Position
    BY <1>1, <1>3
  <2> QED BY <2>1, <1>4, <1>6, WriteExact
<1>8. OwnedIn(book)'
  <2>1. \A j \in Ids : nft'[j] = IF j = i THEN seq ELSE nft[j]
    BY <1>1, <1>5
  <2>2. queue' = queue
    BY <1>5
  <2>3. \A j \in Ids : book'.pos[j] = IF j = i THEN new ELSE book.pos[j]
    BY <1>5, <1>7
  <2>4. OwnedIn(book) /\ i \notin queue
    BY <1>1, <1>2, <1>n
  <2>5. ASSUME NEW j \in Ids
        PROVE  \/ nft'[j] = NoNft /\ book'.pos[j] = Nowhere
               \/ nft'[j] = OpenedNft /\ book'.pos[j].state \in {"Opened", "Closed"}
               \/ nft'[j] = ClosedNft /\ (book'.pos[j].state = "Closed" \/ (book'.pos[j].state = "Opened" /\ j \in queue'))
               \/ nft'[j] >= 0 /\ book'.pos[j].state = "Withdrawn" /\ book'.pos[j].seq = nft'[j]
    BY <1>2, <1>3, <2>1, <2>2, <2>3, <2>4 DEF OwnedIn
  <2>6. \A j \in queue' : book'.pos[j].state \in {"Opened", "Closed"}
    BY <1>1, <1>3, <2>2, <2>3, <2>4 DEF OwnedIn
  <2> QED BY <2>5, <2>6 DEF OwnedIn
<1>9. /\ vcb' \in [Assets -> Int]
      /\ \A a \in Assets : vcb'[a] = vcb[a] - (IF a = Phi[i].a1 THEN x.r[1] ELSE 0)
                                            - (IF a = Phi[i].a2 THEN x.r[2] ELSE 0)
  BY <1>1, <1>2, <1>5, PairOfPosition
<1>10. ASSUME NEW a \in Assets
       PROVE  vcb'[a] = Value(Reserved(c.pos), a) + FlowSum(flows, DOMAIN flows, a)
  <2>1. PICK u, y, n, v : /\ u = Value(Reserved(book.pos), a) /\ y = FlowSum(flows, DOMAIN flows, a)
                          /\ n = ValueAt(i, x.r, a) /\ v = ValueAt(i, <<0, 0>>, a)
    OBVIOUS
  <2>2. u \in Nat
    BY <1>1, <2>1, ReservedType, ValueType
  <2>3. y \in Nat
    BY <1>1, <2>1, FlowSumExact
  <2>4. n \in Nat /\ n = (IF a = Phi[i].a1 THEN x.r[1] ELSE 0) + (IF a = Phi[i].a2 THEN x.r[2] ELSE 0)
    BY <1>2, <2>1, ValueAtType
  <2>5. v = 0
    BY <2>1 DEF ValueAt, Slot
  <2>6. Value(Reserved(c.pos), a) = u + v - n
    BY <1>n, <1>3, <1>7, <2>1
  <2>7. vcb[a] = u + y
    BY <1>1, <2>1
  <2>8. vcb'[a] = u + y - n
    <3>1. x.r[1] \in Int /\ x.r[2] \in Int
      BY <1>2
    <3> QED BY <1>9, <2>2, <2>3, <2>4, <2>7, <3>1
  <2> QED BY <2>1, <2>2, <2>3, <2>4, <2>5, <2>6, <2>8
<1>11. Crowded(book)'
  <2>1. CountChange(book.pos[i], new) = 0
    BY <1>n, <1>2, <1>3 DEF CountChange
  <2>2. \A p \in Pairs : c.count[p] = book.count[p] + 0
    BY <1>7, <2>1
  <2>3. \A p \in Pairs : book.count[p] \in Int
    <3>1. \A p \in Pairs : book.count[p] \in Nat
      BY <1>1, CountType
    <3> QED BY <3>1
  <2> QED BY <1>1, <1>5, <2>2, <2>3 DEF Crowded
<1>12. \A j \in queue' : book'.pos[j].state = "Opened"
  BY <1>n, <1>1, <1>2, <1>5, <1>7
<1>13. nft' \in [Ids -> Int] /\ FeesOK'
  BY <1>1, <1>2, <1>5 DEF FeesOK
<1> QED BY <1>0, <1>1, <1>5, <1>7, <1>8, <1>9, <1>10, <1>11, <1>12, <1>13, TransactionStep

-----------------------------------------------------------------------------
(* Books whose positions only trade or close                                *)

Evolved(b, c) == \A i \in Ids : Evolves(b.pos[i], c.pos[i])

\* Closing is a way for a position to evolve.
LEMMA ClosedEvolves ==
  ASSUME NEW x \in Position
  PROVE  Evolves(x, Closed(x))
<1>1. x = [x EXCEPT !.state = x.state]
  BY DEF Position
<1> QED BY ClosedType DEF Evolves, Closed

\* They are not more than they were.
LEMMA EvolvedCount ==
  ASSUME NEW b, BookOK(b), NEW c, BookOK(c), Evolved(b, c), NEW p \in Pairs
  PROVE  c.count[p] <= b.count[p]
<1>1. PICK S, T : /\ S = {i \in OpenIn(b.pos) : PairOf(i) = p}
                  /\ T = {i \in OpenIn(c.pos) : PairOf(i) = p}
  OBVIOUS
<1>2. b.count[p] = Cardinality(S) /\ c.count[p] = Cardinality(T)
  BY <1>1 DEF BookOK, IndexesMatch, CountOf
<1>3. T \subseteq S
  BY <1>1 DEF Evolved, Evolves, OpenIn
<1>4. IsFiniteSet(S)
  BY <1>1, PositionAssumption, FS_Subset DEF OpenIn
<1> QED BY <1>2, <1>3, <1>4, FS_Subset

\* No pair becomes crowded when positions only close or fill.
LEMMA EvolvedCrowded ==
  ASSUME NEW b, BookOK(b), NEW c, BookOK(c), Evolved(b, c), Crowded(b)
  PROVE  Crowded(c)
<1>1. ASSUME NEW p \in Pairs, p \notin hot PROVE c.count[p] <= 2 * MaxPositionsPerPair
  <2>1. PICK x, y, z : x = c.count[p] /\ y = b.count[p] /\ z = 2 * MaxPositionsPerPair
    OBVIOUS
  <2>2. x \in Nat
    BY <2>1, CountType
  <2>3. y \in Nat
    BY <2>1, CountType
  <2>4. z \in Nat
    BY <2>1, BoundAssumption
  <2>5. x <= y
    BY <2>1, EvolvedCount
  <2>6. y <= z
    BY <1>1, <2>1 DEF Crowded
  <2> QED BY <2>1, <2>2, <2>3, <2>4, <2>5, <2>6
<1> QED BY <1>1 DEF Crowded

\* Their owners have what they had.
LEMMA EvolvedOwned ==
  ASSUME NEW b, NEW c, Evolved(b, c), OwnedIn(b), queue \subseteq Ids
  PROVE  OwnedIn(c)
<1>1. \A i \in Ids : /\ c.pos[i].seq = b.pos[i].seq
                     /\ \/ c.pos[i].state = b.pos[i].state
                        \/ b.pos[i].state = "Opened" /\ c.pos[i].state = "Closed"
                     /\ b.pos[i].state # "Opened" => c.pos[i] = b.pos[i]
  BY DEF Evolved, Evolves
<1>2. \A i \in queue : c.pos[i].state \in {"Opened", "Closed"}
  BY <1>1 DEF OwnedIn
<1>3. ASSUME NEW i \in Ids
      PROVE  \/ nft[i] = NoNft /\ c.pos[i] = Nowhere
             \/ nft[i] = OpenedNft /\ c.pos[i].state \in {"Opened", "Closed"}
             \/ nft[i] = ClosedNft /\ (c.pos[i].state = "Closed" \/ (c.pos[i].state = "Opened" /\ i \in queue))
             \/ nft[i] >= 0 /\ c.pos[i].state = "Withdrawn" /\ c.pos[i].seq = nft[i]
  <2>1. Nowhere.state = "Absent"
    BY DEF Nowhere
  <2> QED BY <1>1, <2>1 DEF OwnedIn
<1> QED BY <1>2, <1>3 DEF OwnedIn

\* Closing a set of positions leaves a book, with the same reserves.
LEMMA EvolvedType ==
  ASSUME NEW b, BookOK(b), NEW S \in SUBSET Ids
  PROVE  LET c == CloseAll(b, S) IN
         /\ BookOK(c) /\ Evolved(b, c) /\ \A a : Value(Reserved(c.pos), a) = Value(Reserved(b.pos), a)
         /\ \A i \in S : c.pos[i].state # "Opened"
<1>1. PICK c : c = CloseAll(b, S)
  OBVIOUS
<1>2. BookOK(c) /\ \A j \in Ids : c.pos[j] = IF j \in S THEN Closed(b.pos[j]) ELSE b.pos[j]
  BY <1>1, CloseAllExact
<1>3. \A j \in Ids : b.pos[j] \in Position
  BY DEF BookOK
<1>4. \A j \in Ids : /\ Closed(b.pos[j]).r = b.pos[j].r /\ Evolves(b.pos[j], Closed(b.pos[j]))
                     /\ Closed(b.pos[j]).state # "Opened"
  BY <1>3, ClosedType, ClosedEvolves
<1>5. \A j \in Ids : Evolves(b.pos[j], b.pos[j])
  BY DEF Evolves
<1>6. Evolved(b, c)
  BY <1>2, <1>4, <1>5 DEF Evolved
<1>7. \A j \in Ids : Reserved(c.pos)[j] = Reserved(b.pos)[j]
  BY <1>2, <1>4 DEF Reserved
<1>8. \A a : Value(Reserved(c.pos), a) = Value(Reserved(b.pos), a)
  BY <1>7, ValueSame
<1>9. \A i \in S : c.pos[i].state # "Opened"
  BY <1>2, <1>4
<1> QED BY <1>1, <1>2, <1>6, <1>8, <1>9

\* Closing one position leaves a book, with the same reserves.
LEMMA CloseOne ==
  ASSUME NEW b, BookOK(b), NEW i \in Ids
  PROVE  LET c == ClosePosition(b, i) IN
         /\ \A j \in Ids : c.pos[j].r = b.pos[j].r
         /\ BookOK(c) /\ Evolved(b, c) /\ \A a : Value(Reserved(c.pos), a) = Value(Reserved(b.pos), a)
<1>1. PICK c : c = ClosePosition(b, i)
  OBVIOUS
<1>2. BookOK(c) /\ c.pos = [b.pos EXCEPT ![i] = Closed(@)] /\ b.pos \in [Ids -> Position]
  BY <1>1, CloseExact DEF BookOK
<1>3. \A j \in Ids : b.pos[j] \in Position
  BY <1>2
<1>4. Closed(b.pos[i]).r = b.pos[i].r /\ Evolves(b.pos[i], Closed(b.pos[i]))
  BY <1>3, ClosedType, ClosedEvolves
<1>5. \A j \in Ids : Evolves(b.pos[j], b.pos[j])
  BY DEF Evolves
<1>6. \A j \in Ids : c.pos[j] = IF j = i THEN Closed(b.pos[i]) ELSE b.pos[j]
  BY <1>2
<1>7. Evolved(b, c)
  BY <1>4, <1>5, <1>6 DEF Evolved
<1>8. \A j \in Ids : Reserved(c.pos)[j] = Reserved(b.pos)[j]
  BY <1>4, <1>6 DEF Reserved
<1>9. \A a : Value(Reserved(c.pos), a) = Value(Reserved(b.pos), a)
  BY <1>8, ValueSame
<1>10. \A j \in Ids : c.pos[j].r = b.pos[j].r
  BY <1>4, <1>6
<1> QED BY <1>1, <1>2, <1>7, <1>9, <1>10

-----------------------------------------------------------------------------
(* The stages of Dex::end_block                                             *)

\* The route_and_fill of the first direction of the next batch.
LEMMA EnterBatch ==
  ASSUME BookOK(book'), FlowsOK(flows'), NEW T, T \subseteq DOMAIN flows', T # {},
         phase' = "batch12", job' = FirstDirection(T, flows'),
         \A a \in Assets : vcb'[a] = Value(Reserved(book'.pos), a) + FlowSum(flows', T, a)
  PROVE  Batch' /\ Solvent' /\ IsJob(job')
<1>1. IsFiniteSet(T) /\ T \subseteq Pairs
  BY FS_Subset DEF FlowsOK
<1>2. PICK p, fl : p = NextPair(T) /\ fl = flows'
  OBVIOUS
<1>3. p \in T /\ p \in Pairs /\ fl[p] \in Nat \X Nat
  BY <1>1, <1>2, NextPairExact DEF FlowsOK
<1>4. PICK n : n = Clamped(fl[p][1])
  OBVIOUS
<1>5. n \in Nat
  BY <1>3, <1>4, ClampedExact
<1>6. job' = [todo |-> T, from |-> p[1], to |-> p[2], left |-> n, out |-> 0, first |-> <<0, 0>>]
  BY <1>2, <1>4 DEF FirstDirection, Direction, NoJob
<1>7. IsJob(job')
  BY <1>5, <1>6 DEF IsJob
<1>8. Batch'
  BY <1>2, <1>6 DEF Batch
<1>9. InFlight(p)' = fl[p]
  <2>1. InFlight(p)' = <<fl[p][1] - (Clamped(fl[p][1]) - job'.left), fl[p][2] + job'.out>>
    BY <1>2 DEF InFlight
  <2>2. /\ Clamped(fl[p][1]) = n /\ job'.left = n /\ job'.out = 0
        /\ fl[p][1] \in Nat /\ fl[p][2] \in Nat /\ fl[p] = <<fl[p][1], fl[p][2]>>
    BY <1>3, <1>4, <1>6
  <2>3. fl[p][1] - (n - n) = fl[p][1] /\ fl[p][2] + 0 = fl[p][2]
    BY <1>5, <2>2
  <2> QED BY <2>1, <2>2, <2>3
<1>10. ASSUME NEW a \in Assets
       PROVE  vcb'[a] = Value(Reserved(book'.pos), a) + FlowSum(fl, T \ {p}, a) + FlowAt(p, InFlight(p)', a)
  <2>1. PICK x, y, z : /\ x = Value(Reserved(book'.pos), a) /\ y = FlowSum(fl, T \ {p}, a)
                       /\ z = FlowAt(p, fl[p], a)
    OBVIOUS
  <2>2. x \in Nat
    BY <2>1, ReservedType, ValueType DEF BookOK
  <2>3. T \ {p} \in SUBSET DOMAIN fl /\ T \in SUBSET DOMAIN fl
    BY <1>2
  <2>4. y \in Nat
    BY <1>2, <2>1, <2>3, FlowSumExact
  <2>5. z \in Nat
    <3>1. fl[p] \in Int \X Int
      BY <1>3
    <3> QED BY <1>3, <2>1, <3>1, FlowAtType
  <2>6. FlowSum(fl, T, a) = z + y
    BY <1>2, <1>3, <2>1, <2>3, FlowSumExact
  <2>7. vcb'[a] = x + (z + y)
    BY <1>2, <2>1, <2>6
  <2> QED BY <1>9, <2>1, <2>2, <2>4, <2>5, <2>7
<1>11. Solvent'
  BY <1>2, <1>6, <1>10 DEF Solvent
<1> QED BY <1>7, <1>8, <1>11

\* The flash loan of the arbitrage.
LEMMA EnterArbitrage ==
  ASSUME BookOK(book'), phase' = "arb", job' = ArbJob, fork' = book',
         \A a \in Assets : vcb'[a] = Value(Reserved(book'.pos), a)
  PROVE  Batch' /\ Solvent' /\ IsJob(job')
<1>1. job' = [todo |-> {}, from |-> StakingToken, to |-> StakingToken, left |-> FlashLoan,
              out |-> 0, first |-> <<0, 0>>]
  BY DEF ArbJob, Direction, NoJob
<1>2. FlashLoan \in Nat
  BY BoundAssumption
<1>3. IsJob(job')
  BY <1>1, <1>2 DEF IsJob
<1>4. Batch'
  BY DEF Batch
<1>5. \A a : Value(Reserved(book'.pos), a) \in Nat
  BY ReservedType, ValueType DEF BookOK
<1>6. FlashLoan + 0 = FlashLoan
  BY <1>2
<1>7. Solvent'
  BY <1>1, <1>5, <1>6 DEF Solvent
<1> QED BY <1>3, <1>4, <1>7

\* The flows of the block, with those of the fees.
LEMMA StartKeeps ==
  ASSUME IInv, StartEndBlock
  PROVE  IInv'
<1>0. phase = "txs"
  BY DEF StartEndBlock
<1>1. /\ BookOK(book) /\ book.pos \in [Ids -> Position] /\ OwnedIn(book)
      /\ vcb \in [Assets -> Int] /\ nft \in [Ids -> Int] /\ FlowsOK(flows) /\ FeesOK
      /\ queue \subseteq Ids /\ hot \subseteq Pairs
      /\ \A j \in queue : book.pos[j].state = "Opened"
      /\ \A a \in Assets : vcb[a] = Value(Reserved(book.pos), a) + FlowSum(flows, DOMAIN flows, a)
      /\ Crowded(book)
  BY <1>0, TransactionState
<1>2. PICK w, z : w = [flows |-> flows, vcb |-> vcb] /\ z = FeeIter(w, AltFees)[AltFees]
  OBVIOUS
<1>3. FoldSet(LAMBDA a, acc : AccumulateFlow(acc, FeePair(a), FeeFlow(a, fees[a][1] + fees[a][2])),
              w, AltFees) = z
  BY <1>2, FeesAreIter
<1>4. FlowState(w) /\ w.flows = flows /\ w.vcb = vcb
  BY <1>1, <1>2 DEF FlowState
<1>5. FlowState(z) /\ \A a \in Assets : Beyond(z, a) = Beyond(w, a)
  BY <1>1, <1>2, <1>4, FeesExact
<1>6. /\ flows' = z.flows /\ vcb' = z.vcb /\ book' = book /\ fees' = fees
      /\ nft' = nft /\ queue' = queue /\ hot' = hot
      /\ IF DOMAIN z.flows = {}
         THEN phase' = "arb" /\ job' = ArbJob /\ fork' = book
         ELSE phase' = "batch12" /\ job' = FirstDirection(DOMAIN z.flows, z.flows) /\ fork' = fork
  BY <1>2, <1>3 DEF StartEndBlock, txVars
<1>7. ASSUME NEW a \in Assets
      PROVE  vcb'[a] = Value(Reserved(book'.pos), a) + FlowSum(flows', DOMAIN flows', a)
  <2>1. PICK x, y, n : /\ x = Value(Reserved(book.pos), a) /\ y = FlowSum(flows, DOMAIN flows, a)
                       /\ n = FlowSum(z.flows, DOMAIN z.flows, a)
    OBVIOUS
  <2>2. x \in Nat
    BY <1>1, <2>1, ReservedType, ValueType
  <2>3. y \in Nat
    BY <1>1, <2>1, FlowSumExact
  <2>4. n \in Nat
    BY <1>5, <2>1, FlowSumExact DEF FlowState
  <2>5. z.vcb[a] - n = vcb[a] - y /\ z.vcb[a] \in Int /\ vcb[a] = x + y
    BY <1>1, <1>4, <1>5, <2>1 DEF Beyond, FlowState
  <2>6. z.vcb[a] = x + n
    BY <2>2, <2>3, <2>4, <2>5
  <2> QED BY <1>6, <2>1, <2>6
<1>8. FlowsOK(flows') /\ vcb' \in [Assets -> Int] /\ BookOK(book')
  BY <1>1, <1>5, <1>6 DEF FlowState
<1>9. /\ IF DOMAIN z.flows = {} THEN phase' = "arb" /\ fork' = book' ELSE phase' = "batch12" /\ fork' = fork
      /\ Batch' /\ Solvent' /\ IsJob(job')
  <2>1. CASE DOMAIN z.flows = {}
    <3>1. \A a \in Assets : vcb'[a] = Value(Reserved(book'.pos), a)
      <4>1. ASSUME NEW a \in Assets PROVE vcb'[a] = Value(Reserved(book'.pos), a)
        <5>1. FlowSum(flows', DOMAIN flows', a) = 0
          BY <1>6, <2>1, SumEmpty DEF FlowSum
        <5>2. Value(Reserved(book'.pos), a) \in Nat
          BY <1>8, ReservedType, ValueType DEF BookOK
        <5> QED BY <1>7, <5>1, <5>2
      <4> QED BY <4>1
    <3>2. phase' = "arb" /\ job' = ArbJob /\ fork' = book'
      BY <1>6, <2>1
    <3> QED BY <1>8, <2>1, <3>1, <3>2, EnterArbitrage
  <2>2. CASE DOMAIN z.flows # {}
    <3>1. PICK T : T = DOMAIN z.flows
      OBVIOUS
    <3>2. phase' = "batch12" /\ job' = FirstDirection(T, flows') /\ fork' = fork /\ T # {} /\ T = DOMAIN flows'
      BY <1>6, <2>2, <3>1
    <3>3. \A a \in Assets : vcb'[a] = Value(Reserved(book'.pos), a) + FlowSum(flows', T, a)
      BY <1>7, <3>2
    <3> QED BY <1>8, <2>2, <3>2, <3>3, EnterBatch
  <2> QED BY <2>1, <2>2
<1>10. Types'
  <2>1. BookOK(fork)'
    BY <1>8, <1>9 DEF IInv, Types, BookOK
  <2> QED BY <1>1, <1>6, <1>8, <1>9, <2>1 DEF Types, Phases
<1>11. Owned'
  <2>1. OwnedIn(book)'
    BY <1>1, <1>6 DEF OwnedIn
  <2>2. phase' = "arb" => fork' = book'
    BY <1>9
  <2>3. phase' = "arb" => OwnedIn(fork)'
    BY <2>1, <2>2 DEF OwnedIn
  <2> QED BY <1>9, <2>1, <2>3 DEF Owned
<1>12. Bounded'
  <2>1. Crowded(book)'
    BY <1>1, <1>6 DEF Crowded
  <2>2. phase' = "arb" => Crowded(fork)'
    BY <1>9, <2>1 DEF Crowded
  <2> QED BY <1>9, <2>1, <2>2 DEF Bounded
<1> QED BY <1>9, <1>10, <1>11, <1>12 DEF IInv

\* What the invariant says of the batch that is filled.
LEMMA BatchState ==
  ASSUME IInv, phase \in {"batch12", "batch21"},
         NEW p, p = NextPair(job.todo)
  PROVE  /\ BookOK(book) /\ FlowsOK(flows) /\ IsJob(job) /\ vcb \in [Assets -> Int]
         /\ job.todo \subseteq DOMAIN flows /\ p \in job.todo /\ p \in Pairs
         /\ flows[p] \in Nat \X Nat /\ flows[p][1] \in Nat /\ flows[p][2] \in Nat
         /\ job.from = p[IF phase = "batch12" THEN 1 ELSE 2]
         /\ job.to = p[IF phase = "batch12" THEN 2 ELSE 1]
         /\ job.left \in Nat /\ job.out \in Nat /\ job.first[1] \in Nat /\ job.first[2] \in Nat
         /\ \A a \in Assets : vcb[a] = Value(Reserved(book.pos), a) + FlowSum(flows, job.todo \ {p}, a)
                                         + FlowAt(p, InFlight(p), a)
         /\ OwnedIn(book) /\ Crowded(book)
<1>1. /\ BookOK(book) /\ FlowsOK(flows) /\ IsJob(job) /\ vcb \in [Assets -> Int]
      /\ OwnedIn(book) /\ Crowded(book)
  BY DEF IInv, Types, Owned, Bounded
<1>2. /\ job.todo \subseteq DOMAIN flows /\ job.todo # {}
      /\ job.from = p[IF phase = "batch12" THEN 1 ELSE 2]
      /\ job.to = p[IF phase = "batch12" THEN 2 ELSE 1]
  BY DEF IInv, Batch
<1>3. IsFiniteSet(job.todo) /\ job.todo \subseteq Pairs
  BY <1>1, <1>2, FS_Subset DEF FlowsOK
<1>4. p \in job.todo
  BY <1>2, <1>3, NextPairExact
<1>5. p \in Pairs /\ flows[p] \in Nat \X Nat
  BY <1>1, <1>2, <1>3, <1>4 DEF FlowsOK
<1>6. job.left \in Nat /\ job.out \in Nat /\ job.first[1] \in Nat /\ job.first[2] \in Nat
  BY <1>1 DEF IsJob
<1>7. \A a \in Assets : vcb[a] = Value(Reserved(book.pos), a) + FlowSum(flows, job.todo \ {p}, a)
                                         + FlowAt(p, InFlight(p), a)
  BY DEF IInv, Solvent
<1>8. flows[p][1] \in Nat /\ flows[p][2] \in Nat
  BY <1>5
<1> QED BY <1>1, <1>2, <1>4, <1>5, <1>6, <1>7, <1>8

\* The other direction of the batch.
LEMMA FirstDirectionKeeps ==
  ASSUME IInv, EndFirstDirection
  PROVE  IInv'
<1>0. phase = "batch12" /\ phase' = "batch21"
  BY DEF EndFirstDirection
<1>1. PICK p, x, y, m, n, l, o : /\ p = NextPair(job.todo) /\ x = flows[p][1] /\ y = flows[p][2]
                                 /\ m = Clamped(x) /\ n = Clamped(y) /\ l = job.left /\ o = job.out
  OBVIOUS
<1>2. /\ BookOK(book) /\ FlowsOK(flows) /\ IsJob(job) /\ vcb \in [Assets -> Int]
      /\ job.todo \subseteq DOMAIN flows /\ p \in job.todo /\ p \in Pairs
      /\ x \in Nat /\ y \in Nat /\ l \in Nat /\ o \in Nat
      /\ \A a \in Assets : vcb[a] = Value(Reserved(book.pos), a) + FlowSum(flows, job.todo \ {p}, a)
                                      + FlowAt(p, InFlight(p), a)
      /\ OwnedIn(book) /\ Crowded(book)
  BY <1>0, <1>1, BatchState
<1>3. m \in Nat /\ n \in Nat /\ m <= x /\ n <= y
  BY <1>1, <1>2, ClampedExact
<1>4. /\ book' = book /\ vcb' = vcb /\ fees' = fees /\ flows' = flows /\ fork' = fork
      /\ nft' = nft /\ queue' = queue /\ hot' = hot
      /\ job' = [job EXCEPT !.first = <<x - (m - l), o>>, !.from = p[2], !.to = p[1], !.left = n, !.out = 0]
  BY <1>1 DEF EndFirstDirection, Direction, txVars
<1>5. x - (m - l) \in Nat
  BY <1>2, <1>3
<1>6. job' = [todo |-> job.todo, from |-> p[2], to |-> p[1], left |-> n, out |-> 0,
              first |-> <<x - (m - l), o>>]
  BY <1>2, <1>4 DEF IsJob
<1>7. IsJob(job')
  BY <1>2, <1>3, <1>5, <1>6 DEF IsJob
<1>8. Batch'
  BY <1>0, <1>1, <1>2, <1>4, <1>6 DEF Batch
<1>9. InFlight(p)' = InFlight(p)
  <2>1. InFlight(p) = <<x - (m - l), y + o>>
    BY <1>0, <1>1 DEF InFlight
  <2>2. InFlight(p)' = <<job'.first[1] + job'.out, flows'[p][2] - (Clamped(flows'[p][2]) - job'.left) + job'.first[2]>>
    BY <1>0 DEF InFlight
  <2>3. /\ job'.first[1] = x - (m - l) /\ job'.first[2] = o /\ job'.out = 0 /\ job'.left = n
        /\ flows'[p][2] = y /\ Clamped(y) = n
    BY <1>1, <1>4, <1>6
  <2>4. InFlight(p)' = <<(x - (m - l)) + 0, y - (n - n) + o>>
    BY <2>2, <2>3
  <2>5. (x - (m - l)) + 0 = x - (m - l) /\ y - (n - n) + o = y + o
    BY <1>2, <1>3
  <2> QED BY <2>1, <2>4, <2>5
<1>10. Solvent'
  <2>1. job'.todo = job.todo
    BY <1>6
  <2> QED BY <1>0, <1>1, <1>2, <1>4, <1>9, <2>1 DEF Solvent
<1>11. Types'
  BY <1>0, <1>2, <1>4, <1>7 DEF IInv, Types, Phases
<1>12. Owned'
  BY <1>0, <1>2, <1>4 DEF Owned, OwnedIn
<1>13. Bounded'
  BY <1>0, <1>2, <1>4 DEF Bounded, Crowded
<1> QED BY <1>8, <1>10, <1>11, <1>12, <1>13 DEF IInv

\* set_output_data never debits more than the circuit breaker has.
LEMMA BatchKeeps ==
  ASSUME IInv, EndBatch
  PROVE  IInv'
<1>0. phase = "batch21"
  BY DEF EndBatch
<1>1. PICK p, x, y, n, l, o, f, e : /\ p = NextPair(job.todo) /\ x = flows[p][1] /\ y = flows[p][2]
                                    /\ n = Clamped(y) /\ l = job.left /\ o = job.out
                                    /\ f = job.first[1] /\ e = job.first[2]
  OBVIOUS
<1>2. /\ BookOK(book) /\ FlowsOK(flows) /\ IsJob(job) /\ vcb \in [Assets -> Int]
      /\ job.todo \subseteq DOMAIN flows /\ p \in job.todo /\ p \in Pairs
      /\ x \in Nat /\ y \in Nat /\ l \in Nat /\ o \in Nat /\ f \in Nat /\ e \in Nat
      /\ \A a \in Assets : vcb[a] = Value(Reserved(book.pos), a) + FlowSum(flows, job.todo \ {p}, a)
                                      + FlowAt(p, InFlight(p), a)
      /\ OwnedIn(book) /\ Crowded(book)
  BY <1>0, <1>1, BatchState
<1>3. n \in Nat /\ n <= y
  BY <1>1, <1>2, ClampedExact
<1>4. PICK u, v : u = f + o /\ v = (y - (n - l)) + e
  OBVIOUS
<1>5. u \in Nat /\ v \in Nat
  BY <1>2, <1>3, <1>4
<1>6. InFlight(p) = <<u, v>>
  BY <1>0, <1>1, <1>4 DEF InFlight
<1>7. Outflow(BatchOutput, 1) = u /\ Outflow(BatchOutput, 2) = v
  BY <1>1, <1>4 DEF Outflow, BatchOutput
<1>p. p[1] \in Assets /\ p[2] \in Assets /\ p[1] # p[2]
  BY <1>2, PairsOrdered
<1>8. PICK rest : rest = job.todo \ {p}
  OBVIOUS
<1>9. /\ \A a \in Assets : vcb[a] = (Value(Reserved(book.pos), a) + FlowSum(flows, rest, a))
                                    + (IF a = p[1] THEN u ELSE 0) + (IF a = p[2] THEN v ELSE 0)
      /\ \A a \in Assets : Value(Reserved(book.pos), a) + FlowSum(flows, rest, a) \in Nat
  <2>1. ASSUME NEW a \in Assets
        PROVE  /\ vcb[a] = (Value(Reserved(book.pos), a) + FlowSum(flows, rest, a))
                           + (IF a = p[1] THEN u ELSE 0) + (IF a = p[2] THEN v ELSE 0)
               /\ Value(Reserved(book.pos), a) + FlowSum(flows, rest, a) \in Nat
    <3>1. PICK g, h, z : /\ g = Value(Reserved(book.pos), a) /\ h = FlowSum(flows, rest, a)
                         /\ z = FlowAt(p, <<u, v>>, a)
      OBVIOUS
    <3>2. g \in Nat
      BY <1>2, <3>1, ReservedType, ValueType DEF BookOK
    <3>3. rest \in SUBSET DOMAIN flows
      BY <1>2, <1>8
    <3>4. h \in Nat
      BY <1>2, <3>1, <3>3, FlowSumExact
    <3>5. z = (IF a = p[1] THEN u ELSE 0) + (IF a = p[2] THEN v ELSE 0)
      BY <1>p, <1>5, <3>1 DEF FlowAt
    <3>6. vcb[a] = g + h + z
      BY <1>2, <1>6, <1>8, <3>1
    <3>7. vcb[a] = (g + h) + (IF a = p[1] THEN u ELSE 0) + (IF a = p[2] THEN v ELSE 0) /\ g + h \in Nat
      BY <1>5, <1>p, <3>2, <3>4, <3>5, <3>6
    <3> QED BY <3>1, <3>7
  <2> QED BY <2>1
<1>10. u <= vcb[p[1]] /\ v <= vcb[p[2]]
  <2>1. PICK g, h : /\ g = Value(Reserved(book.pos), p[1]) + FlowSum(flows, rest, p[1])
                    /\ h = Value(Reserved(book.pos), p[2]) + FlowSum(flows, rest, p[2])
    OBVIOUS
  <2>2. vcb[p[1]] = g + u /\ vcb[p[2]] = h + v /\ g \in Nat /\ h \in Nat
    <3>1. g \in Nat /\ h \in Nat
      BY <1>p, <1>9, <2>1
    <3>2. vcb[p[1]] = g + u + 0 /\ vcb[p[2]] = h + 0 + v
      BY <1>p, <1>9, <2>1
    <3> QED BY <1>5, <3>1, <3>2
  <2> QED BY <1>5, <2>2
<1>11. ~ \E k \in 1..2 : Outflow(BatchOutput, k) > vcb[p[k]]
  <2>1. vcb[p[1]] \in Int /\ vcb[p[2]] \in Int
    BY <1>2, <1>p
  <2>2. ASSUME NEW k \in 1..2 PROVE ~(Outflow(BatchOutput, k) > vcb[p[k]])
    <3>1. k = 1 \/ k = 2
      OBVIOUS
    <3> QED BY <1>5, <1>7, <1>10, <2>1, <3>1
  <2> QED BY <2>2
<1>12. /\ book' = book /\ flows' = flows /\ nft' = nft /\ queue' = queue /\ hot' = hot
       /\ vcb' = [[vcb EXCEPT ![p[1]] = @ - u] EXCEPT ![p[2]] = @ - v]
       /\ IF rest # {} THEN phase' = "batch12" /\ job' = FirstDirection(rest, flows) /\ fork' = fork
                       ELSE phase' = "arb" /\ job' = ArbJob /\ fork' = book
  BY <1>1, <1>7, <1>8, <1>11 DEF EndBatch, Debit, txVars
<1>13. /\ vcb' \in [Assets -> Int]
       /\ \A a \in Assets : vcb'[a] = Value(Reserved(book.pos), a) + FlowSum(flows, rest, a)
  <2>1. /\ vcb' \in [Assets -> Int]
        /\ \A a \in Assets : vcb'[a] = vcb[a] - (IF a = p[1] THEN u ELSE 0) - (IF a = p[2] THEN v ELSE 0)
    BY <1>2, <1>5, <1>p, <1>12
  <2>2. ASSUME NEW a \in Assets PROVE vcb'[a] = Value(Reserved(book.pos), a) + FlowSum(flows, rest, a)
    <3>1. PICK g : g = Value(Reserved(book.pos), a) + FlowSum(flows, rest, a)
      OBVIOUS
    <3>2. /\ g \in Nat
          /\ vcb[a] = g + (IF a = p[1] THEN u ELSE 0) + (IF a = p[2] THEN v ELSE 0)
          /\ vcb'[a] = vcb[a] - (IF a = p[1] THEN u ELSE 0) - (IF a = p[2] THEN v ELSE 0)
      BY <1>9, <2>1, <3>1
    <3>3. vcb'[a] = g
      BY <1>5, <3>2
    <3> QED BY <3>1, <3>3
  <2> QED BY <2>1, <2>2
<1>14. FlowsOK(flows') /\ BookOK(book') /\ rest \subseteq DOMAIN flows'
  BY <1>2, <1>8, <1>12
<1>15. /\ IF rest # {} THEN phase' = "batch12" /\ fork' = fork ELSE phase' = "arb" /\ fork' = book'
       /\ Batch' /\ Solvent' /\ IsJob(job')
  <2>1. CASE rest # {}
    <3>1. phase' = "batch12" /\ job' = FirstDirection(rest, flows') /\ fork' = fork
      BY <1>12, <2>1
    <3>2. \A a \in Assets : vcb'[a] = Value(Reserved(book'.pos), a) + FlowSum(flows', rest, a)
      BY <1>12, <1>13
    <3> QED BY <1>14, <2>1, <3>1, <3>2, EnterBatch
  <2>2. CASE rest = {}
    <3>1. phase' = "arb" /\ job' = ArbJob /\ fork' = book'
      BY <1>12, <2>2
    <3>2. \A a \in Assets : vcb'[a] = Value(Reserved(book'.pos), a)
      <4>1. ASSUME NEW a \in Assets PROVE vcb'[a] = Value(Reserved(book'.pos), a)
        <5>1. FlowSum(flows, rest, a) = 0
          BY <2>2, SumEmpty DEF FlowSum
        <5>2. Value(Reserved(book.pos), a) \in Nat
          BY <1>2, ReservedType, ValueType DEF BookOK
        <5> QED BY <1>12, <1>13, <5>1, <5>2
      <4> QED BY <4>1
    <3> QED BY <1>14, <2>2, <3>1, <3>2, EnterArbitrage
  <2> QED BY <2>1, <2>2
<1>16. Types'
  <2>1. BookOK(fork)'
    BY <1>14, <1>15 DEF IInv, Types, BookOK
  <2> QED BY <1>2, <1>12, <1>13, <1>14, <1>15, <2>1 DEF IInv, Types, Phases
<1>17. Owned'
  <2>1. OwnedIn(book)'
    BY <1>2, <1>12 DEF OwnedIn
  <2>2. phase' = "arb" => OwnedIn(fork)'
    BY <1>15, <2>1 DEF OwnedIn
  <2> QED BY <1>15, <2>1, <2>2 DEF Owned
<1>18. Bounded'
  <2>1. Crowded(book)'
    BY <1>2, <1>12 DEF Crowded
  <2>2. phase' = "arb" => Crowded(fork)'
    BY <1>15, <2>1 DEF Crowded
  <2> QED BY <1>15, <2>1, <2>2 DEF Bounded
<1> QED BY <1>15, <1>16, <1>17, <1>18 DEF IInv

\* The profit of the arbitrage is what its positions lost.
LEMMA ArbitrageKeeps ==
  ASSUME IInv, EndArbitrage
  PROVE  IInv'
<1>0. phase = "arb" /\ phase' = "finish"
  BY DEF EndArbitrage
<1>1. PICK profit : profit = job.out + job.left - FlashLoan
  OBVIOUS
<1>2. /\ BookOK(book) /\ BookOK(fork) /\ IsJob(job) /\ vcb \in [Assets -> Int] /\ FlowsOK(flows)
      /\ OwnedIn(book) /\ OwnedIn(fork) /\ Crowded(book) /\ Crowded(fork)
      /\ nft \in [Ids -> Int] /\ queue \subseteq Ids /\ hot \subseteq Pairs
  BY <1>0 DEF IInv, Types, Owned, Bounded
<1>3. job.left \in Nat /\ job.out \in Nat /\ FlashLoan \in Nat /\ profit \in Int
  BY <1>1, <1>2, BoundAssumption DEF IsJob
<1>4. \A a : Value(Reserved(book.pos), a) \in Nat /\ Value(Reserved(fork.pos), a) \in Nat
  BY <1>2, ReservedType, ValueType DEF BookOK
<1>5. /\ \A a \in Assets : vcb[a] = Value(Reserved(fork.pos), a)
      /\ \A a \in Assets \cup {StakingToken} :
           Value(Reserved(book.pos), a) + (IF a = StakingToken THEN job.left + job.out ELSE 0)
             = Value(Reserved(fork.pos), a) + (IF a = StakingToken THEN FlashLoan ELSE 0)
  BY <1>0 DEF IInv, Solvent
<1>6. Value(Reserved(fork.pos), StakingToken) = Value(Reserved(book.pos), StakingToken) + profit
  <2>1. PICK x, y : x = Value(Reserved(fork.pos), StakingToken) /\ y = Value(Reserved(book.pos), StakingToken)
    OBVIOUS
  <2>2. x \in Nat /\ y \in Nat
    BY <1>4, <2>1
  <2>3. y + (job.left + job.out) = x + FlashLoan
    BY <1>5, <2>1
  <2> QED BY <1>1, <1>3, <2>1, <2>2, <2>3
<1>7. \A a \in Assets : a # StakingToken => Value(Reserved(fork.pos), a) = Value(Reserved(book.pos), a)
  <2>1. ASSUME NEW a \in Assets, a # StakingToken
        PROVE  Value(Reserved(fork.pos), a) = Value(Reserved(book.pos), a)
    <3>1. Value(Reserved(book.pos), a) + 0 = Value(Reserved(fork.pos), a) + 0
      BY <1>5, <2>1
    <3>2. Value(Reserved(book.pos), a) \in Int /\ Value(Reserved(fork.pos), a) \in Int
      BY <1>4
    <3> QED BY <3>1, <3>2
  <2> QED BY <2>1
<1>8. profit > 0 => StakingToken \in Assets /\ profit <= vcb[StakingToken]
  <2>1. ASSUME profit > 0 PROVE StakingToken \in Assets /\ profit <= vcb[StakingToken]
    <3>1. PICK x, y : x = Value(Reserved(fork.pos), StakingToken) /\ y = Value(Reserved(book.pos), StakingToken)
      OBVIOUS
    <3>2. x \in Nat /\ y \in Nat /\ x = y + profit
      BY <1>4, <1>6, <3>1
    <3>3. x # 0 /\ profit <= x
      BY <1>3, <2>1, <3>2
    <3>4. StakingToken \in Assets
      BY <1>2, <3>1, <3>3, ReservedType, ValueType DEF BookOK
    <3> QED BY <1>5, <3>1, <3>3, <3>4
  <2> QED BY <2>1
<1>9. /\ book' = (IF profit > 0 THEN book ELSE fork) /\ fork' = book'
      /\ vcb' = (IF profit > 0 /\ profit <= vcb[StakingToken]
                 THEN [vcb EXCEPT ![StakingToken] = @ - profit] ELSE vcb)
      /\ job' = NoJob /\ flows' = flows /\ nft' = nft /\ queue' = queue /\ hot' = hot
  BY <1>1 DEF EndArbitrage, Debit, txVars
<1>10. /\ vcb' \in [Assets -> Int]
       /\ \A a \in Assets : vcb'[a] = Value(Reserved(book'.pos), a)
  <2>1. CASE profit > 0
    <3>1. vcb' = [vcb EXCEPT ![StakingToken] = @ - profit] /\ book' = book /\ StakingToken \in Assets
      BY <1>8, <1>9, <2>1
    <3>2. /\ vcb' \in [Assets -> Int]
          /\ \A a \in Assets : vcb'[a] = IF a = StakingToken THEN vcb[a] - profit ELSE vcb[a]
      BY <1>2, <1>3, <3>1
    <3>3. ASSUME NEW a \in Assets PROVE vcb'[a] = Value(Reserved(book.pos), a)
      <4>1. PICK x, y : x = Value(Reserved(fork.pos), a) /\ y = Value(Reserved(book.pos), a)
        OBVIOUS
      <4>2. x \in Nat /\ y \in Nat /\ vcb[a] = x
        BY <1>4, <1>5, <4>1
      <4>3. CASE a = StakingToken
        <5>1. x = y + profit /\ vcb'[a] = x - profit
          BY <1>6, <3>2, <4>1, <4>2, <4>3
        <5> QED BY <1>3, <4>1, <4>2, <5>1
      <4>4. CASE a # StakingToken
        BY <1>7, <3>2, <4>1, <4>2, <4>4
      <4> QED BY <4>3, <4>4
    <3> QED BY <3>1, <3>2, <3>3
  <2>2. CASE ~(profit > 0)
    BY <1>2, <1>5, <1>9, <2>2
  <2> QED BY <2>1, <2>2
<1>11. BookOK(book') /\ OwnedIn(book)' /\ Crowded(book)'
  <2>1. CASE book' = book
    BY <1>2, <1>9, <2>1 DEF OwnedIn, Crowded
  <2>2. CASE book' = fork
    BY <1>2, <1>9, <2>2 DEF OwnedIn, Crowded
  <2> QED BY <1>9, <2>1, <2>2
<1>12. Types'
  <2>1. IsJob(job')
    BY <1>9 DEF NoJob, IsJob
  <2>2. BookOK(book)' /\ BookOK(fork)'
    BY <1>9, <1>11 DEF BookOK
  <2> QED BY <1>0, <1>2, <1>9, <1>10, <2>1, <2>2 DEF Types, Phases
<1>13. Owned' /\ Batch'
  BY <1>0, <1>11 DEF Owned, Batch
<1>14. Solvent'
  BY <1>0, <1>10 DEF Solvent
<1>15. Bounded'
  BY <1>0, <1>11 DEF Bounded
<1> QED BY <1>12, <1>13, <1>14, <1>15 DEF IInv

\* RewardPosition credits what it adds.
LEMMA RewardKeeps ==
  ASSUME IInv, NEW i \in Ids, NEW amount \in Rewards, RewardPosition(i, amount)
  PROVE  IInv'
<1>0. phase = "epoch" /\ phase' = "rewarded"
  BY DEF RewardPosition
<1>1. /\ BookOK(book) /\ BookOK(fork) /\ IsJob(job) /\ vcb \in [Assets -> Int] /\ FlowsOK(flows)
      /\ OwnedIn(book) /\ book.pos \in [Ids -> Position]
      /\ nft \in [Ids -> Int] /\ queue = {} /\ hot \subseteq Pairs
      /\ \A a \in Assets : vcb[a] = Value(Reserved(book.pos), a)
      /\ \A p \in Pairs : book.count[p] <= 2 * MaxPositionsPerPair
  BY <1>0 DEF IInv, Types, Owned, Bounded, Solvent, BookOK
<1>2. PICK x, s, r, new : /\ x = book.pos[i] /\ s = Slot(i, StakingToken)
                          /\ r = [x.r EXCEPT ![s] = @ + amount] /\ new = [x EXCEPT !.r = r]
  OBVIOUS
<1>3. x \in Position /\ x.r \in Nat \X Nat /\ amount \in Nat /\ x.state # "Absent"
  BY <1>1, <1>2, InputAssumption DEF Position, RewardPosition
<1>4. PICK m, n : m = x.r[1] /\ n = x.r[2]
  OBVIOUS
<1>5. m \in Nat /\ n \in Nat /\ x.r = <<m, n>>
  BY <1>3, <1>4
<1>6. \/ s = 1 /\ Phi[i].a1 = StakingToken
      \/ s = 2 /\ Phi[i].a2 = StakingToken /\ Phi[i].a1 # StakingToken
  BY <1>2 DEF Slot, RewardPosition
<1>7. r = IF s = 1 THEN <<m + amount, n>> ELSE <<m, n + amount>>
  <2>1. r = [<<m, n>> EXCEPT ![s] = @ + amount]
    BY <1>2, <1>5
  <2>2. CASE s = 1
    BY <2>1, <2>2
  <2>3. CASE s = 2
    BY <2>1, <2>3
  <2> QED BY <1>6, <2>2, <2>3
<1>8. /\ new \in Position /\ new.r = r /\ new.state = x.state /\ new.seq = x.seq
      /\ r \in Nat \X Nat
  <2>1. r \in Nat \X Nat
    BY <1>3, <1>5, <1>7
  <2> QED BY <1>2, <1>3, <2>1 DEF Position
<1>9. PICK c : c = UpdatePosition(book, i, new)
  OBVIOUS
<1>10. /\ book' = c /\ flows' = flows /\ job' = job /\ fork' = fork /\ nft' = nft /\ queue' = queue
       /\ hot' = hot /\ vcb' = [vcb EXCEPT ![StakingToken] = @ + amount]
  BY <1>2, <1>9 DEF RewardPosition, Credit, txVars
<1>11. Moves(book.pos[i], new)
  BY <1>2, <1>8 DEF Moves
<1>12. /\ BookOK(c) /\ c.pos = [book.pos EXCEPT ![i] = new]
       /\ \A j \in Ids : c.pos[j] = IF j = i THEN new ELSE book.pos[j]
       /\ \A a : Value(Reserved(c.pos), a) = Value(Reserved(book.pos), a)
                     + ValueAt(i, new.r, a) - ValueAt(i, book.pos[i].r, a)
       /\ \A p \in Pairs : c.count[p]
             = book.count[p] + IF p = PairOf(i) THEN CountChange(book.pos[i], new) ELSE 0
  <2>1. BookOK(book) /\ new \in Position
    BY <1>1, <1>8
  <2> QED BY <2>1, <1>9, <1>11, WriteExact
<1>13. OwnedIn(book)'
  <2>1. \A j \in Ids : j # i => book'.pos[j] = book.pos[j]
    BY <1>10, <1>12
  <2>2. book'.pos[i].state = book.pos[i].state /\ book'.pos[i].seq = book.pos[i].seq
    BY <1>2, <1>8, <1>10, <1>12
  <2>3. book.pos[i] # Nowhere
    BY <1>2, <1>3 DEF Nowhere
  <2>4. ASSUME NEW j \in Ids
        PROVE  \/ nft[j] = NoNft /\ book'.pos[j] = Nowhere
               \/ nft[j] = OpenedNft /\ book'.pos[j].state \in {"Opened", "Closed"}
               \/ nft[j] = ClosedNft /\ (book'.pos[j].state = "Closed" \/ (book'.pos[j].state = "Opened" /\ j \in queue))
               \/ nft[j] >= 0 /\ book'.pos[j].state = "Withdrawn" /\ book'.pos[j].seq = nft[j]
    BY <1>1, <2>1, <2>2, <2>3 DEF OwnedIn
  <2> QED BY <1>1, <1>10, <2>4 DEF OwnedIn
<1>14. StakingToken \in Assets
  BY <1>6, PairOfPosition
<1>15. /\ vcb' \in [Assets -> Int]
       /\ \A a \in Assets : vcb'[a] = IF a = StakingToken THEN vcb[a] + amount ELSE vcb[a]
  BY <1>1, <1>3, <1>10, <1>14
<1>16. ASSUME NEW a \in Assets PROVE vcb'[a] = Value(Reserved(c.pos), a)
  <2>1. PICK u, k, v : u = Value(Reserved(book.pos), a) /\ k = ValueAt(i, r, a) /\ v = ValueAt(i, x.r, a)
    OBVIOUS
  <2>2. u \in Nat /\ vcb[a] = u
    BY <1>1, <2>1, ReservedType, ValueType
  <2>3. k \in Nat /\ k = (IF a = Phi[i].a1 THEN r[1] ELSE 0) + (IF a = Phi[i].a2 THEN r[2] ELSE 0)
    BY <1>8, <2>1, ValueAtType
  <2>4. v \in Nat /\ v = (IF a = Phi[i].a1 THEN m ELSE 0) + (IF a = Phi[i].a2 THEN n ELSE 0)
    BY <1>3, <1>4, <2>1, ValueAtType
  <2>5. k = v + (IF a = StakingToken THEN amount ELSE 0)
    <3>1. Phi[i].a1 # Phi[i].a2
      BY PairOfPosition
    <3>2. r[1] = (IF s = 1 THEN m + amount ELSE m) /\ r[2] = (IF s = 1 THEN n ELSE n + amount)
      BY <1>7
    <3> QED BY <1>3, <1>5, <1>6, <2>3, <2>4, <3>1, <3>2
  <2>6. Value(Reserved(c.pos), a) = u + k - v
    BY <1>2, <1>8, <1>12, <2>1
  <2>7. vcb'[a] = u + (IF a = StakingToken THEN amount ELSE 0)
    BY <1>3, <1>15, <2>2
  <2> QED BY <1>3, <2>2, <2>3, <2>4, <2>5, <2>6, <2>7
<1>17. \A p \in Pairs : c.count[p] <= 2 * MaxPositionsPerPair
  <2>1. CountChange(book.pos[i], new) = 0
    BY <1>2, <1>3, <1>8 DEF CountChange
  <2>2. \A p \in Pairs : c.count[p] = book.count[p] + 0
    BY <1>12, <2>1
  <2>3. \A p \in Pairs : book.count[p] \in Nat
    BY <1>1, CountType
  <2> QED BY <1>1, <2>2, <2>3
<1>18. Types'
  <2>1. BookOK(book)' /\ BookOK(fork)'
    BY <1>1, <1>10, <1>12 DEF BookOK
  <2> QED BY <1>0, <1>1, <1>10, <1>15, <2>1 DEF Types, Phases
<1>19. Owned' /\ Batch'
  BY <1>0, <1>1, <1>10, <1>13 DEF Owned, Batch
<1>20. Solvent'
  BY <1>0, <1>10, <1>16 DEF Solvent
<1>21. Bounded'
  <2>1. Crowded(book)'
    BY <1>10, <1>17 DEF Crowded
  <2> QED BY <1>0, <1>10, <1>17, <2>1 DEF Bounded
<1> QED BY <1>18, <1>19, <1>20, <1>21 DEF IInv

\* The empty flows and fees of a new block.
LEMMA EmptyBlock ==
  /\ FlowsOK(<<>>) /\ DOMAIN <<>> = {} /\ \A a : FlowSum(<<>>, DOMAIN <<>>, a) = 0
<1>1. DOMAIN <<>> = {}
  OBVIOUS
<1>2. <<>> = [p \in DOMAIN <<>> |-> <<>>[p]]
  OBVIOUS
<1>3. FlowsOK(<<>>)
  BY <1>1, <1>2, FS_EmptySet DEF FlowsOK
<1>4. \A a : FlowSum(<<>>, DOMAIN <<>>, a) = 0
  BY <1>1, SumEmpty DEF FlowSum
<1> QED BY <1>1, <1>3, <1>4

\* BeginBlock.
LEMMA BeginKeeps ==
  ASSUME IInv, BeginBlock
  PROVE  IInv'
<1>0. phase \in {"epoch", "rewarded"} /\ phase' = "txs"
  BY DEF BeginBlock
<1>1. /\ BookOK(book) /\ IsJob(job) /\ vcb \in [Assets -> Int]
      /\ OwnedIn(book) /\ book.pos \in [Ids -> Position]
      /\ nft \in [Ids -> Int] /\ queue = {}
      /\ \A a \in Assets : vcb[a] = Value(Reserved(book.pos), a)
      /\ \A p \in Pairs : book.count[p] <= 2 * MaxPositionsPerPair
  BY <1>0 DEF IInv, Types, Owned, Bounded, Solvent, BookOK
<1>2. /\ book' = book /\ fork' = book /\ vcb' = vcb /\ nft' = nft /\ queue' = queue /\ job' = job
      /\ fees' = <<>> /\ flows' = <<>> /\ hot' = {}
  BY DEF BeginBlock
<1>3. FlowsOK(flows') /\ FeesOK'
  <2>1. FlowsOK(flows') /\ DOMAIN fees' = {} /\ fees' = [a \in DOMAIN fees' |-> fees'[a]]
    BY <1>2, EmptyBlock DEF FlowsOK
  <2> QED BY <2>1, FS_EmptySet DEF FeesOK
<1>4. Types'
  BY <1>0, <1>1, <1>2, <1>3 DEF Types, Phases
<1>5. Owned' /\ Batch'
  BY <1>0, <1>1, <1>2 DEF Owned, OwnedIn, Batch
<1>6. Solvent'
  <2>1. \A a \in Assets : Value(Reserved(book.pos), a) = Value(Reserved(book.pos), a) + 0
    BY <1>1, ReservedType, ValueType
  <2>2. \A a : FlowSum(flows', DOMAIN flows', a) = 0
    BY <1>2, EmptyBlock
  <2> QED BY <1>0, <1>1, <1>2, <2>1, <2>2 DEF Solvent
<1>7. Bounded'
  BY <1>0, <1>1, <1>2 DEF Bounded, Crowded
<1> QED BY <1>4, <1>5, <1>6, <1>7 DEF IInv

-----------------------------------------------------------------------------
(* Eviction                                                                 *)

\* The elements of a finite set with fewer than n before them.
Below(K, R, k) == {l \in K : <<l, k>> \in R}
Lowest(K, R, n) == {k \in K : Cardinality(Below(K, R, k)) < n}
TotalOrder(K, R) ==
  /\ \A k \in K : <<k, k>> \notin R
  /\ \A k, l \in K : k = l \/ <<k, l>> \in R \/ <<l, k>> \in R
  /\ \A k, l, m \in K : <<k, l>> \in R /\ <<l, m>> \in R => <<k, m>> \in R

\* They are n.
LEMMA LowestCount ==
  ASSUME NEW K, IsFiniteSet(K), NEW R, TotalOrder(K, R)
  PROVE  \A n \in Nat : n <= Cardinality(K) => Cardinality(Lowest(K, R, n)) = n
<1> DEFINE Holds(n) == n <= Cardinality(K) => Cardinality(Lowest(K, R, n)) = n
           N == {n \in Nat : Holds(n)}
<1>0. /\ Cardinality(K) \in Nat
      /\ \A T : T \subseteq K => IsFiniteSet(T) /\ Cardinality(T) \in Nat
  BY SubsetFinite, FS_CardinalityType
<1>1. 0 \in N
  <2>1. \A k \in K : Cardinality(Below(K, R, k)) \in Nat
    BY <1>0 DEF Below
  <2>2. Lowest(K, R, 0) = {}
    BY <2>1 DEF Lowest
  <2> QED BY <2>2, FS_EmptySet
<1>2. ASSUME NEW n \in Nat, n \in N PROVE n + 1 \in N
  <2>1. SUFFICES ASSUME n + 1 <= Cardinality(K) PROVE Cardinality(Lowest(K, R, n + 1)) = n + 1
    BY <1>2
  <2>2. PICK L, M : L = Lowest(K, R, n) /\ M = K \ L
    OBVIOUS
  <2>3. L \subseteq K /\ M \subseteq K /\ IsFiniteSet(L) /\ IsFiniteSet(M) /\ Cardinality(L) = n
    <3>1. L \subseteq K /\ M \subseteq K
      BY <2>2 DEF Lowest
    <3>2. Cardinality(L) = n
      BY <1>0, <1>2, <2>1, <2>2
    <3> QED BY <1>0, <3>1, <3>2
  <2>4. M # {}
    <3>1. ASSUME M = {} PROVE FALSE
      <4>1. L = K
        BY <2>2, <2>3, <3>1
      <4> QED BY <1>0, <2>1, <2>3, <4>1
    <3> QED BY <3>1
  <2>5. PICK x \in M : \A y \in M : y = x \/ <<x, y>> \in R
    <3>1. \A y, z \in M : y = z \/ <<y, z>> \in R \/ <<z, y>> \in R
      BY <2>3 DEF TotalOrder
    <3>2. \A y, z, u \in M : <<y, z>> \in R /\ <<z, u>> \in R => <<y, u>> \in R
      BY <2>3 DEF TotalOrder
    <3> QED BY <2>3, <2>4, <3>1, <3>2, FirstExists
  <2>6. x \in K /\ x \notin L
    BY <2>2
  <2>7. ASSUME NEW y \in L PROVE <<y, x>> \in R
    <3>1. y \in K /\ Cardinality(Below(K, R, y)) < n
      BY <2>2, <2>7 DEF Lowest
    <3>2. ~(Cardinality(Below(K, R, x)) < n)
      BY <2>2, <2>6 DEF Lowest
    <3>3. ASSUME <<x, y>> \in R PROVE FALSE
      <4>1. Below(K, R, x) \subseteq Below(K, R, y) /\ Below(K, R, y) \subseteq K
        BY <2>6, <3>1, <3>3 DEF Below, TotalOrder
      <4>2. IsFiniteSet(Below(K, R, y)) /\ Cardinality(Below(K, R, x)) \in Nat /\ Cardinality(Below(K, R, y)) \in Nat
        BY <1>0, <4>1
      <4>3. Cardinality(Below(K, R, x)) <= Cardinality(Below(K, R, y))
        BY <4>1, <4>2, FS_Subset
      <4> QED BY <3>1, <3>2, <4>2, <4>3
    <3> QED BY <2>6, <2>7, <3>1, <3>3 DEF TotalOrder
  <2>8. Below(K, R, x) = L
    <3>1. ASSUME NEW y \in K, <<y, x>> \in R PROVE y \in L
      <4>1. y # x /\ <<x, y>> \notin R
        BY <2>6, <3>1 DEF TotalOrder
      <4> QED BY <2>2, <2>5, <3>1, <4>1
    <3> QED BY <2>3, <2>7, <3>1 DEF Below
  <2>9. ASSUME NEW y \in M, y # x PROVE y \notin Lowest(K, R, n + 1)
    <3>1. PICK B : B = Below(K, R, y)
      OBVIOUS
    <3>2. <<x, y>> \in R /\ y \in K
      BY <2>3, <2>5, <2>9
    <3>3. \A z \in L : <<z, y>> \in R
      BY <2>3, <2>6, <2>7, <3>2 DEF TotalOrder
    <3>4. L \cup {x} \subseteq B /\ B \subseteq K
      BY <2>3, <2>6, <3>1, <3>2, <3>3 DEF Below
    <3>5. Cardinality(L \cup {x}) = n + 1
      BY <2>3, <2>6, FS_AddElement
    <3>6. IsFiniteSet(B) /\ Cardinality(B) \in Nat
      BY <1>0, <3>4
    <3>7. n + 1 <= Cardinality(B)
      BY <3>4, <3>5, <3>6, FS_Subset
    <3> QED BY <3>1, <3>6, <3>7 DEF Lowest
  <2>10. \A y \in L : y \in Lowest(K, R, n + 1)
    <3>1. \A y \in K : Cardinality(Below(K, R, y)) \in Nat
      BY <1>0 DEF Below
    <3>2. ASSUME NEW y \in L PROVE y \in Lowest(K, R, n + 1)
      <4>1. y \in K /\ Cardinality(Below(K, R, y)) < n
        BY <2>2, <3>2 DEF Lowest
      <4> QED BY <3>1, <4>1 DEF Lowest
    <3> QED BY <3>2
  <2>11. x \in Lowest(K, R, n + 1)
    BY <2>3, <2>6, <2>8 DEF Lowest
  <2>12. Lowest(K, R, n + 1) = L \cup {x}
    <3>1. Lowest(K, R, n + 1) \subseteq K
      BY DEF Lowest
    <3> QED BY <2>2, <2>9, <2>10, <2>11, <3>1
  <2> QED BY <2>3, <2>6, <2>12, FS_AddElement
<1> HIDE DEF N
<1>3. \A n \in Nat : n \in N
  BY <1>1, <1>2, NatSetInduction
<1> QED BY <1>3 DEF N

\* The open positions of a pair, and their keys in one direction.
OpenOf(p) == {i \in OpenIn(book.pos) : PairOf(i) = p}
KeyOf(i, dir) == [dir |-> dir, inventory |-> book.pos[i].r[Slot(i, dir[1])], id |-> i]
KeysIn(dir) == {k \in book.inventory : k.dir = dir}

\* The inventory index of a direction has one key for each open position of the pair.
LEMMA KeysInExact ==
  ASSUME BookOK(book), NEW p \in Pairs, NEW dir \in {p, Flip(p)}
  PROVE  /\ KeysIn(dir) = {KeyOf(i, dir) : i \in OpenOf(p)}
         /\ \A i \in OpenOf(p) : KeyOf(i, dir).inventory \in Nat /\ i \in Nat
<1>1. /\ book.inventory = KeysOf(book.pos) /\ book.pos \in [Ids -> Position]
  BY DEF BookOK, IndexesMatch
<1>2. p = <<p[1], p[2]>> /\ p[1] \in Nat /\ p[2] \in Nat /\ p[1] < p[2]
  BY PairsOrdered
<1>3. ASSUME NEW i \in Ids PROVE dir \in Directions(i) <=> PairOf(i) = p
  <2>1. PairOf(i) = <<Phi[i].a1, Phi[i].a2>> /\ Phi[i].a1 \in Nat /\ Phi[i].a2 \in Nat /\ Phi[i].a1 < Phi[i].a2
    BY PairOfPosition DEF PairOf
  <2>2. Flip(PairOf(i)) = <<Phi[i].a2, Phi[i].a1>> /\ Flip(p) = <<p[2], p[1]>>
    BY <2>1 DEF Flip
  <2>3. CASE dir = p
    BY <1>2, <2>1, <2>2, <2>3 DEF Directions
  <2>4. CASE dir = Flip(p)
    BY <1>2, <2>1, <2>2, <2>4 DEF Directions
  <2> QED BY <2>3, <2>4
<1>4. ASSUME NEW k PROVE k \in KeysIn(dir) <=> \E i \in OpenOf(p) : k = KeyOf(i, dir)
  <2>1. k \in book.inventory <=> \E i \in OpenIn(book.pos) : k \in InventoryKeys(i, book.pos[i])
    BY <1>1 DEF KeysOf
  <2>2. \A i \in OpenIn(book.pos) : i \in Ids
    BY DEF OpenIn
  <2>3. ASSUME NEW i \in OpenIn(book.pos)
        PROVE  k \in InventoryKeys(i, book.pos[i]) /\ k.dir = dir <=> PairOf(i) = p /\ k = KeyOf(i, dir)
    BY <1>3, <2>2 DEF InventoryKeys, KeyOf
  <2> QED BY <2>1, <2>3 DEF KeysIn, OpenOf
<1>5. ASSUME NEW i \in OpenOf(p) PROVE KeyOf(i, dir).inventory \in Nat /\ i \in Nat
  <2>1. i \in Ids /\ book.pos[i] \in Position
    BY <1>1 DEF OpenOf, OpenIn
  <2>2. book.pos[i].r[1] \in Nat /\ book.pos[i].r[2] \in Nat /\ i \in Nat
    BY <2>1, PositionAssumption DEF Position
  <2> QED BY <2>2 DEF KeyOf, Slot
<1> QED BY <1>4, <1>5

\* As many positions as there are too many are the worst in a direction.
LEMMA WorstCount ==
  ASSUME BookOK(book), NEW p \in Pairs, NEW dir \in {p, Flip(p)},
         NEW n \in Nat, n <= Cardinality(OpenOf(p))
  PROVE  Worst(dir, n) \subseteq OpenOf(p) /\ Cardinality(Worst(dir, n)) = n
<1>1. PICK S, K : S = OpenOf(p) /\ K = KeysIn(dir)
  OBVIOUS
<1>2. IsFiniteSet(S)
  BY <1>1, PositionAssumption, FS_Subset DEF OpenOf, OpenIn
<1>3. /\ K = {KeyOf(i, dir) : i \in S}
      /\ \A i \in S : KeyOf(i, dir).inventory \in Nat /\ i \in Nat /\ KeyOf(i, dir).id = i
  BY <1>1, KeysInExact DEF KeyOf
<1>4. \A k, l \in K : /\ k.inventory \in Nat /\ k.id \in Nat /\ k.id \in S
                      /\ k.id = l.id => k = l
  BY <1>3
<1>5. PICK f : f = [i \in S |-> KeyOf(i, dir)]
  OBVIOUS
<1>6. f \in Surjection(S, K) /\ f \in Injection(S, K)
  <2>1. f \in [S -> K]
    BY <1>3, <1>5
  <2>2. \A k \in K : \E i \in S : f[i] = k
    BY <1>3, <1>5
  <2>3. \A i \in S : f[i].id = i
    BY <1>3, <1>5
  <2>4. \A i, j \in S : f[i] = f[j] => i = j
    <3>1. ASSUME NEW i \in S, NEW j \in S, f[i] = f[j] PROVE i = j
      <4>1. f[i].id = f[j].id
        BY <3>1
      <4> QED BY <2>3, <4>1
    <3> QED BY <3>1
  <2> QED BY <2>1, <2>2, <2>4 DEF Surjection, Injection, IsInjective
<1>7. IsFiniteSet(K) /\ Cardinality(K) = Cardinality(S)
  BY <1>2, <1>6, FS_Surjection
<1>8. PICK R : R = {e \in K \X K : \/ e[1].inventory < e[2].inventory
                                   \/ e[1].inventory = e[2].inventory /\ e[1].id < e[2].id}
  OBVIOUS
<1>9. \A k, l \in K : <<k, l>> \in R <=> \/ k.inventory < l.inventory
                                         \/ k.inventory = l.inventory /\ k.id < l.id
  BY <1>8
<1>10. TotalOrder(K, R)
  <2>1. \A k \in K : <<k, k>> \notin R
    BY <1>4, <1>9
  <2>2. \A k, l \in K : k = l \/ <<k, l>> \in R \/ <<l, k>> \in R
    <3>1. ASSUME NEW k \in K, NEW l \in K, k # l PROVE <<k, l>> \in R \/ <<l, k>> \in R
      <4>1. k.inventory \in Nat /\ k.id \in Nat /\ l.inventory \in Nat /\ l.id \in Nat /\ k.id # l.id
        BY <1>4, <3>1
      <4>2. \/ k.inventory < l.inventory \/ (k.inventory = l.inventory /\ k.id < l.id)
            \/ l.inventory < k.inventory \/ (l.inventory = k.inventory /\ l.id < k.id)
        BY <4>1
      <4> QED BY <1>9, <4>2
    <3> QED BY <3>1
  <2>3. \A k, l, m \in K : <<k, l>> \in R /\ <<l, m>> \in R => <<k, m>> \in R
    <3>1. ASSUME NEW k \in K, NEW l \in K, NEW m \in K, <<k, l>> \in R, <<l, m>> \in R
          PROVE  <<k, m>> \in R
      <4>1. /\ k.inventory \in Nat /\ k.id \in Nat /\ l.inventory \in Nat /\ l.id \in Nat
            /\ m.inventory \in Nat /\ m.id \in Nat
        BY <1>4
      <4>2. /\ k.inventory < l.inventory \/ (k.inventory = l.inventory /\ k.id < l.id)
            /\ l.inventory < m.inventory \/ (l.inventory = m.inventory /\ l.id < m.id)
        BY <1>9, <3>1
      <4>3. k.inventory < m.inventory \/ (k.inventory = m.inventory /\ k.id < m.id)
        BY <4>1, <4>2
      <4> QED BY <1>9, <4>3
    <3> QED BY <3>1
  <2> QED BY <2>1, <2>2, <2>3 DEF TotalOrder
<1>11. PICK L : L = Lowest(K, R, n)
  OBVIOUS
<1>12. Cardinality(L) = n /\ L \subseteq K
  BY <1>1, <1>7, <1>10, <1>11, LowestCount DEF Lowest
<1>13. Worst(dir, n) = {k.id : k \in L}
  <2>1. ASSUME NEW k \in K
        PROVE  {l \in K : \/ l.inventory < k.inventory
                          \/ l.inventory = k.inventory /\ l.id < k.id} = Below(K, R, k)
    BY <1>9 DEF Below
  <2> QED BY <1>1, <1>11, <2>1 DEF Worst, KeysIn, Lowest
<1>14. PICK W, g : W = {k.id : k \in L} /\ g = [k \in L |-> k.id]
  OBVIOUS
<1>15. g \in Surjection(L, W) /\ g \in Injection(L, W)
  <2>1. g \in [L -> W] /\ \A w \in W : \E k \in L : g[k] = w
    BY <1>14
  <2>2. \A k, l \in L : g[k] = g[l] => k = l
    BY <1>4, <1>12, <1>14
  <2> QED BY <2>1, <2>2 DEF Surjection, Injection, IsInjective
<1>16. IsFiniteSet(L)
  BY <1>7, <1>12, FS_Subset
<1>17. Cardinality(W) = n
  BY <1>12, <1>15, <1>16, FS_Surjection
<1>18. W \subseteq S
  BY <1>4, <1>12, <1>14
<1> QED BY <1>1, <1>13, <1>14, <1>17, <1>18

\* evict_positions leaves a pair with 2 * N_max positions at most.
LEMMA EvictionExact ==
  ASSUME BookOK(book), NEW p \in Pairs, p \in hot,
         NEW c, BookOK(c), Evolved(book, c), \A i \in Evicted : c.pos[i].state # "Opened"
  PROVE  c.count[p] <= 2 * MaxPositionsPerPair
<1>1. PICK S, T, N, m, o : /\ S = OpenOf(p) /\ T = {i \in OpenIn(c.pos) : PairOf(i) = p}
                           /\ N = Cardinality(S) /\ m = MaxPositionsPerPair /\ o = Overhead(p)
  OBVIOUS
<1>2. IsFiniteSet(S) /\ N \in Nat /\ m \in Nat
  <2>1. IsFiniteSet(S)
    BY <1>1, PositionAssumption, FS_Subset DEF OpenOf, OpenIn
  <2> QED BY <1>1, <2>1, FS_CardinalityType, BoundAssumption
<1>3. book.count[p] = N /\ c.count[p] = Cardinality(T)
  BY <1>1 DEF BookOK, IndexesMatch, CountOf, OpenOf
<1>4. o \in Nat /\ o = IF N > m THEN N - m ELSE 0
  <2>1. \E x \in {0, N - m} : \A y \in {0, N - m} : x >= y
    BY <1>2
  <2>2. o \in {0, N - m} /\ \A y \in {0, N - m} : o >= y
    BY <1>1, <1>3, <2>1 DEF Overhead, Max
  <2> QED BY <1>2, <2>2
<1>5. PICK V, W : V = Worst(p, o) /\ W = Worst(Flip(p), o)
  OBVIOUS
<1>6. V \subseteq S /\ W \subseteq S /\ Cardinality(V) = o /\ Cardinality(W) = o
  <2>1. o <= Cardinality(S)
    BY <1>1, <1>2, <1>4
  <2> QED BY <1>1, <1>4, <1>5, <2>1, WorstCount
<1>7. V \cap W \subseteq Evicted
  BY <1>1, <1>5 DEF Evicted
<1>8. T \subseteq (S \ V) \cup (S \ W)
  <2>1. T \subseteq S
    BY <1>1 DEF Evolved, Evolves, OpenIn, OpenOf
  <2>2. \A i \in T : i \notin Evicted
    BY <1>1 DEF OpenIn
  <2> QED BY <1>7, <2>1, <2>2
<1>9. PICK x, y, z : x = S \ V /\ y = S \ W /\ z = x \cup y
  OBVIOUS
<1>10. IsFiniteSet(x) /\ Cardinality(x) = N - o
  <2>1. S \cap V = V
    BY <1>6
  <2>2. IsFiniteSet(S \ V) /\ Cardinality(S \ V) = Cardinality(S) - Cardinality(S \cap V)
    BY <1>2, FS_Difference
  <2> QED BY <1>1, <1>6, <1>9, <2>1, <2>2
<1>11. IsFiniteSet(y) /\ Cardinality(y) = N - o
  <2>1. S \cap W = W
    BY <1>6
  <2>2. IsFiniteSet(S \ W) /\ Cardinality(S \ W) = Cardinality(S) - Cardinality(S \cap W)
    BY <1>2, FS_Difference
  <2> QED BY <1>1, <1>6, <1>9, <2>1, <2>2
<1>12. IsFiniteSet(z) /\ Cardinality(z) \in Nat /\ Cardinality(z) <= (N - o) + (N - o)
  <2>1. IsFiniteSet(z) /\ Cardinality(z) = (N - o) + (N - o) - Cardinality(x \cap y)
    BY <1>9, <1>10, <1>11, FS_Union
  <2>2. Cardinality(x \cap y) \in Nat
    BY <1>10, FS_Intersection, FS_CardinalityType
  <2>3. Cardinality(z) \in Nat
    BY <2>1, FS_CardinalityType
  <2> QED BY <1>2, <1>4, <2>1, <2>2, <2>3
<1>13. Cardinality(T) \in Nat /\ Cardinality(T) <= Cardinality(z)
  BY <1>8, <1>9, <1>12, FS_Subset, FS_CardinalityType
<1>14. (N - o) + (N - o) <= 2 * m
  BY <1>2, <1>4
<1> QED BY <1>1, <1>2, <1>3, <1>4, <1>12, <1>13, <1>14

\* What is evicted is positions.
LEMMA EvictedType ==
  ASSUME BookOK(book)
  PROVE  Evicted \subseteq Ids
<1>1. \A dir, n : Worst(dir, n) \subseteq Ids
  <2>1. ASSUME NEW k \in book.inventory PROVE k.id \in Ids
    <3>1. PICK i \in OpenIn(book.pos) : k \in InventoryKeys(i, book.pos[i])
      BY DEF BookOK, IndexesMatch, KeysOf
    <3> QED BY <3>1 DEF InventoryKeys, OpenIn
  <2> QED BY <2>1 DEF Worst
<1> QED BY <1>1 DEF Evicted

\* The end of the block closes what is evicted and what is queued.
LEMMA FinishKeeps ==
  ASSUME IInv, FinishBlock
  PROVE  IInv'
<1>0. phase = "finish"
  BY DEF FinishBlock
<1>1. /\ BookOK(book) /\ IsJob(job) /\ vcb \in [Assets -> Int] /\ FlowsOK(flows)
      /\ OwnedIn(book) /\ Crowded(book)
      /\ nft \in [Ids -> Int] /\ queue \subseteq Ids /\ hot \subseteq Pairs
      /\ \A a \in Assets : vcb[a] = Value(Reserved(book.pos), a)
  BY <1>0 DEF IInv, Types, Owned, Bounded, Solvent
<1>2. PICK b, c : b = CloseAll(book, Evicted) /\ c = CloseAll(b, queue)
  OBVIOUS
<1>3. /\ BookOK(b) /\ Evolved(book, b) /\ \A a : Value(Reserved(b.pos), a) = Value(Reserved(book.pos), a)
      /\ \A i \in Evicted : b.pos[i].state # "Opened"
  BY <1>1, <1>2, EvictedType, EvolvedType
<1>4. /\ BookOK(c) /\ Evolved(b, c) /\ \A a : Value(Reserved(c.pos), a) = Value(Reserved(b.pos), a)
      /\ \A i \in queue : c.pos[i].state # "Opened"
  BY <1>1, <1>2, <1>3, EvolvedType
<1>5. OwnedIn(b) /\ OwnedIn(c)
  BY <1>1, <1>3, <1>4, EvolvedOwned
<1>6. \A i \in queue : Closable(b, i)
  BY <1>5 DEF OwnedIn, Closable
<1>7. /\ book' = c /\ fork' = c /\ phase' = "epoch" /\ queue' = {} /\ vcb' = vcb /\ nft' = nft
      /\ flows' = flows /\ job' = job /\ hot' = hot
  BY <1>2, <1>6 DEF FinishBlock
<1>8. OwnedIn(book)'
  BY <1>4, <1>5, <1>7 DEF OwnedIn
<1>9. ASSUME NEW p \in Pairs PROVE c.count[p] <= 2 * MaxPositionsPerPair
  <2>1. PICK x, y, z, n : /\ x = c.count[p] /\ y = b.count[p] /\ z = book.count[p]
                          /\ n = 2 * MaxPositionsPerPair
    OBVIOUS
  <2>2. x \in Nat
    BY <1>4, <2>1, CountType
  <2>3. y \in Nat
    BY <1>3, <2>1, CountType
  <2>4. z \in Nat
    BY <1>1, <2>1, CountType
  <2>5. n \in Nat
    BY <2>1, BoundAssumption
  <2>6. x <= y
    BY <1>3, <1>4, <2>1, EvolvedCount
  <2>7. y <= z
    BY <1>1, <1>3, <2>1, EvolvedCount
  <2>8. y <= n
    <3>1. CASE p \in hot
      BY <1>1, <1>3, <2>1, <3>1, EvictionExact
    <3>2. CASE p \notin hot
      <4>1. z <= n
        BY <1>1, <2>1, <3>2 DEF Crowded
      <4> QED BY <2>3, <2>4, <2>5, <2>7, <4>1
    <3> QED BY <3>1, <3>2
  <2> QED BY <2>1, <2>2, <2>3, <2>5, <2>6, <2>8
<1>10. Types'
  <2>1. BookOK(book)' /\ BookOK(fork)'
    BY <1>4, <1>7 DEF BookOK
  <2> QED BY <1>1, <1>7, <2>1 DEF Types, Phases
<1>11. Owned' /\ Batch'
  BY <1>7, <1>8 DEF Owned, Batch
<1>12. Solvent'
  BY <1>1, <1>3, <1>4, <1>7 DEF Solvent
<1>13. Bounded'
  <2>1. Crowded(book)'
    BY <1>7, <1>9 DEF Crowded
  <2> QED BY <1>7, <1>9, <2>1 DEF Bounded
<1> QED BY <1>10, <1>11, <1>12, <1>13 DEF IInv

-----------------------------------------------------------------------------
(* The rounds of route_and_fill                                             *)

\* What path_search returns.
LEMMA RouteExact ==
  ASSUME NEW route \in Routes
  PROVE  /\ Filling /\ Len(route) \in Nat /\ Len(route) > 1
         /\ route[1] = job.from /\ route[Len(route)] = job.to
         /\ Len(Load(book, route)) = Len(route) - 1
<1>1. Filling /\ job.from \in Assets /\ job.to \in Assets
  BY DEF Routes
<1>2. route \in RoutesBetween[<<job.from, job.to>>] /\ Len(Load(book, route)) = Len(route) - 1
  BY <1>1 DEF Routes
<1>3. route \in AllRoutes /\ route[1] = job.from /\ route[Len(route)] = job.to
  <2>1. PICK e : e = <<job.from, job.to>>
    OBVIOUS
  <2>2. e \in Assets \X Assets /\ e[1] = job.from /\ e[2] = job.to
    BY <1>1, <2>1
  <2>3. RoutesBetween[e] = {r \in AllRoutes : r[1] = e[1] /\ r[Len(r)] = e[2]}
    BY <2>2 DEF RoutesBetween
  <2> QED BY <1>2, <2>1, <2>2, <2>3
<1>4. PICK n \in 2..(MaxHops + 3) : route \in [1..n -> Assets]
  BY <1>3 DEF AllRoutes
<1>5. n \in Nat /\ n > 1
  BY <1>4, BoundAssumption
<1>6. route \in Seq(Assets) /\ Len(route) = n
  <2>1. route \in Seq(Assets)
    BY <1>4, <1>5, SeqDef
  <2>2. Len(route) \in Nat /\ DOMAIN route = 1..Len(route)
    BY <2>1, LenProperties
  <2>3. DOMAIN route = 1..n
    BY <1>4
  <2>4. n \in 1..Len(route) /\ 1 \in 1..Len(route)
    BY <1>5, <2>2, <2>3
  <2>5. Len(route) \in 1..n
    BY <2>2, <2>3, <2>4
  <2>6. PICK m : m = Len(route)
    OBVIOUS
  <2>7. m \in Nat /\ n <= m /\ m <= n
    BY <1>5, <2>2, <2>4, <2>5, <2>6
  <2> QED BY <1>5, <2>1, <2>6, <2>7
<1> QED BY <1>1, <1>2, <1>3, <1>5, <1>6

\* What has to be shown of a round: the positions trade or close, and what the
\* pair to fill has got covers what they have got.
LEMMA RoundStep ==
  ASSUME IInv, phase \in {"batch12", "batch21", "arb"}, phase' = phase,
         BookOK(book'), NEW c, c = book', Evolved(book, c),
         NEW l \in Nat, NEW o \in Nat, job' = [job EXCEPT !.left = l, !.out = @ + o],
         UNCHANGED <<vcb, fork, nft, flows, queue, hot>>,
         \A a : Value(Reserved(c.pos), a) + (IF a = job.from THEN l ELSE 0) + (IF a = job.to THEN o ELSE 0)
                  = Value(Reserved(book.pos), a) + (IF a = job.from THEN job.left ELSE 0)
  PROVE  IInv'
<1>1. /\ BookOK(book) /\ BookOK(fork) /\ IsJob(job) /\ vcb \in [Assets -> Int] /\ FlowsOK(flows)
      /\ OwnedIn(book) /\ Crowded(book) /\ nft \in [Ids -> Int] /\ queue \subseteq Ids /\ hot \subseteq Pairs
      /\ phase = "arb" => OwnedIn(fork) /\ Crowded(fork)
  BY DEF IInv, Types, Owned, Bounded
<1>2. job.left \in Nat /\ job.out \in Nat /\ job.first[1] \in Nat /\ job.first[2] \in Nat
  BY <1>1 DEF IsJob
<1>3. /\ job' = [todo |-> job.todo, from |-> job.from, to |-> job.to, left |-> l, out |-> job.out + o,
                 first |-> job.first]
      /\ job.out + o \in Nat
  <2>1. job.out + o \in Nat
    BY <1>2
  <2>2. PICK n : n = job.out + o
    OBVIOUS
  <2>3. job' = [job EXCEPT !.left = l, !.out = n]
    BY <2>2
  <2>4. job = [todo |-> job.todo, from |-> job.from, to |-> job.to, left |-> job.left, out |-> job.out,
               first |-> job.first]
    BY <1>1 DEF IsJob
  <2>5. job' = [todo |-> job.todo, from |-> job.from, to |-> job.to, left |-> l, out |-> n,
                first |-> job.first]
    BY <2>3, <2>4
  <2> QED BY <2>1, <2>2, <2>5
<1>4. IsJob(job')
  BY <1>1, <1>3 DEF IsJob
<1>5. /\ vcb' = vcb /\ fork' = fork /\ nft' = nft /\ flows' = flows /\ queue' = queue /\ hot' = hot
  OBVIOUS
<1>6. \A a : Value(Reserved(c.pos), a) \in Nat /\ Value(Reserved(book.pos), a) \in Nat
  BY <1>1, ReservedType, ValueType DEF BookOK
<1>7. OwnedIn(c) /\ Crowded(c)
  BY <1>1, EvolvedOwned, EvolvedCrowded
<1>8. Types'
  <2>1. BookOK(book)' /\ BookOK(fork)'
    BY <1>1, <1>5 DEF BookOK
  <2>2. phase \in Phases /\ phase # "txs"
    BY DEF Phases
  <2> QED BY <1>1, <1>4, <1>5, <2>1, <2>2 DEF Types
<1>9. Owned'
  <2>1. OwnedIn(book)' /\ (phase = "arb" => OwnedIn(fork)')
    BY <1>1, <1>5, <1>7 DEF OwnedIn
  <2> QED BY <2>1 DEF Owned
<1>10. Bounded'
  <2>1. Crowded(book)' /\ (phase = "arb" => Crowded(fork)')
    BY <1>1, <1>5, <1>7 DEF Crowded
  <2> QED BY <2>1 DEF Bounded
<1>11. Batch'
  BY <1>3, <1>5 DEF IInv, Batch
<1>12. Solvent'
  <2>1. CASE phase = "arb"
    <3>1. /\ \A a \in Assets : vcb[a] = Value(Reserved(fork.pos), a)
          /\ job.from = StakingToken /\ job.to = StakingToken
          /\ \A a \in Assets \cup {StakingToken} :
               Value(Reserved(book.pos), a) + (IF a = StakingToken THEN job.left + job.out ELSE 0)
                 = Value(Reserved(fork.pos), a) + (IF a = StakingToken THEN FlashLoan ELSE 0)
      BY <2>1 DEF IInv, Solvent
    <3>2. ASSUME NEW a \in Assets \cup {StakingToken}
          PROVE  Value(Reserved(c.pos), a) + (IF a = StakingToken THEN l + (job.out + o) ELSE 0)
                   = Value(Reserved(fork.pos), a) + (IF a = StakingToken THEN FlashLoan ELSE 0)
      <4>1. PICK x, y, z : /\ x = Value(Reserved(c.pos), a) /\ y = Value(Reserved(book.pos), a)
                           /\ z = Value(Reserved(fork.pos), a)
        OBVIOUS
      <4>2. x \in Nat /\ y \in Nat /\ z \in Nat
        BY <1>1, <1>6, <4>1, ReservedType, ValueType DEF BookOK
      <4>3. /\ x + (IF a = StakingToken THEN l ELSE 0) + (IF a = StakingToken THEN o ELSE 0)
                 = y + (IF a = StakingToken THEN job.left ELSE 0)
            /\ y + (IF a = StakingToken THEN job.left + job.out ELSE 0)
                 = z + (IF a = StakingToken THEN FlashLoan ELSE 0)
        BY <3>1, <4>1
      <4>4. CASE a = StakingToken
        <5>1. x + l + o = y + job.left /\ y + (job.left + job.out) = z + FlashLoan
          BY <4>3, <4>4
        <5>2. x + (l + (job.out + o)) = z + FlashLoan
          BY <1>2, <4>2, <5>1, BoundAssumption
        <5> QED BY <4>1, <4>4, <5>2
      <4>5. CASE a # StakingToken
        <5>1. x + 0 + 0 = y + 0 /\ y + 0 = z + 0
          BY <4>3, <4>5
        <5>2. x + 0 = z + 0
          BY <4>2, <5>1
        <5> QED BY <4>1, <4>5, <5>2
      <4> QED BY <4>4, <4>5
    <3> QED BY <1>3, <1>5, <2>1, <3>1, <3>2 DEF Solvent
  <2>2. CASE phase \in {"batch12", "batch21"}
    <3>1. PICK p : p = NextPair(job.todo)
      OBVIOUS
    <3>2. /\ p \in Pairs /\ flows[p][1] \in Nat /\ flows[p][2] \in Nat
          /\ job.from = p[IF phase = "batch12" THEN 1 ELSE 2]
          /\ job.to = p[IF phase = "batch12" THEN 2 ELSE 1]
          /\ job.todo \subseteq DOMAIN flows
          /\ \A a \in Assets : vcb[a] = Value(Reserved(book.pos), a) + FlowSum(flows, job.todo \ {p}, a)
                                          + FlowAt(p, InFlight(p), a)
      BY <2>2, <3>1, BatchState
    <3>3. p[1] # p[2]
      BY <3>2, PairsOrdered
    <3>4. PICK n : n = Clamped(flows[p][IF phase = "batch12" THEN 1 ELSE 2])
      OBVIOUS
    <3>5. n \in Nat
      BY <3>2, <3>4, ClampedExact
    <3>6. PICK u, v, s, t : InFlight(p) = <<u, v>> /\ InFlight(p)' = <<s, t>>
      BY DEF InFlight
    <3>7. /\ u \in Int /\ v \in Int /\ s \in Int /\ t \in Int
          /\ phase = "batch12" => s = u - job.left + l /\ t = v + o
          /\ phase # "batch12" => s = u + o /\ t = v - job.left + l
      <4>1. CASE phase = "batch12"
        <5>1. /\ u = flows[p][1] - (n - job.left) /\ v = flows[p][2] + job.out
              /\ s = flows[p][1] - (n - l) /\ t = flows[p][2] + (job.out + o)
          BY <1>3, <1>5, <3>4, <3>6, <4>1 DEF InFlight
        <5> QED BY <1>2, <3>2, <3>5, <4>1, <5>1
      <4>2. CASE phase # "batch12"
        <5>1. /\ u = job.first[1] + job.out /\ v = flows[p][2] - (n - job.left) + job.first[2]
              /\ s = job.first[1] + (job.out + o) /\ t = flows[p][2] - (n - l) + job.first[2]
          BY <1>3, <1>5, <3>4, <3>6, <4>2 DEF InFlight
        <5> QED BY <1>2, <3>2, <3>5, <4>2, <5>1
      <4> QED BY <4>1, <4>2
    <3>8. ASSUME NEW a \in Assets
          PROVE  vcb[a] = Value(Reserved(c.pos), a) + FlowSum(flows, job.todo \ {p}, a)
                            + FlowAt(p, InFlight(p)', a)
      <4>1. PICK x, y, z, g, h : /\ x = Value(Reserved(c.pos), a) /\ y = Value(Reserved(book.pos), a)
                                 /\ z = FlowSum(flows, job.todo \ {p}, a)
                                 /\ g = FlowAt(p, <<u, v>>, a) /\ h = FlowAt(p, <<s, t>>, a)
        OBVIOUS
      <4>2. x \in Nat /\ y \in Nat
        BY <1>6, <4>1
      <4>3. z \in Nat
        <5>1. job.todo \ {p} \in SUBSET DOMAIN flows
          BY <3>2
        <5> QED BY <1>1, <4>1, <5>1, FlowSumExact
      <4>4. /\ g = (IF a = p[1] THEN u ELSE 0) + (IF a = p[2] THEN v ELSE 0)
            /\ h = (IF a = p[1] THEN s ELSE 0) + (IF a = p[2] THEN t ELSE 0)
        BY <3>3, <3>7, <4>1 DEF FlowAt
      <4>5. x + (IF a = job.from THEN l ELSE 0) + (IF a = job.to THEN o ELSE 0)
              = y + (IF a = job.from THEN job.left ELSE 0)
        BY <4>1
      <4>6. vcb[a] = y + z + g
        BY <3>2, <3>6, <4>1
      <4>7. CASE phase = "batch12"
        <5>1. job.from = p[1] /\ job.to = p[2]
          BY <3>2, <4>7
        <5>2. vcb[a] = x + z + h
          BY <1>2, <3>3, <3>7, <4>2, <4>3, <4>4, <4>5, <4>6, <4>7, <5>1
        <5> QED BY <3>6, <4>1, <5>2
      <4>8. CASE phase # "batch12"
        <5>1. job.from = p[2] /\ job.to = p[1]
          BY <3>2, <4>8
        <5>2. vcb[a] = x + z + h
          BY <1>2, <3>3, <3>7, <4>2, <4>3, <4>4, <4>5, <4>6, <4>8, <5>1
        <5> QED BY <3>6, <4>1, <5>2
      <4> QED BY <4>7, <4>8
    <3>9. job'.todo = job.todo
      BY <1>3
    <3> QED BY <1>5, <2>2, <3>1, <3>8, <3>9 DEF Solvent
  <2> QED BY <2>1, <2>2
<1> QED BY <1>8, <1>9, <1>10, <1>11, <1>12 DEF IInv

\* A round that overflows closes a position of the route.
LEMMA OverflowKeeps ==
  ASSUME IInv, NEW route, NEW i \in Ids, OverflowRound(route, i)
  PROVE  IInv'
<1>1. /\ phase \in {"batch12", "batch21", "arb"} /\ phase' = phase /\ job' = job
      /\ UNCHANGED <<vcb, fork, nft, flows, queue, hot>>
  BY DEF OverflowRound, Filling, txVars
<1>2. BookOK(book) /\ IsJob(job)
  BY DEF IInv, Types
<1>3. PICK c : c = ClosePosition(book, i)
  OBVIOUS
<1>4. BookOK(c) /\ Evolved(book, c) /\ \A a : Value(Reserved(c.pos), a) = Value(Reserved(book.pos), a)
  BY <1>2, <1>3, CloseOne
<1>5. c = book'
  BY <1>3 DEF OverflowRound
<1>6. PICK l, o : l = job.left /\ o = 0
  OBVIOUS
<1>7. l \in Nat /\ o \in Nat /\ job.out + o = job.out
  BY <1>2, <1>6 DEF IsJob
<1>8. job' = [job EXCEPT !.left = l, !.out = @ + o]
  BY <1>1, <1>2, <1>6, <1>7 DEF IsJob
<1>9. \A a : Value(Reserved(c.pos), a) + (IF a = job.from THEN l ELSE 0) + (IF a = job.to THEN o ELSE 0)
                  = Value(Reserved(book.pos), a) + (IF a = job.from THEN job.left ELSE 0)
  <2>1. \A a : Value(Reserved(book.pos), a) \in Nat
    BY <1>2, ReservedType, ValueType DEF BookOK
  <2> QED BY <1>4, <1>6, <1>7, <2>1
<1>10. BookOK(book')
  BY <1>4, <1>5
<1>11. phase \in {"batch12", "batch21", "arb"} /\ phase' = phase
  BY <1>1
<1>12. BookOK(book') /\ c = book' /\ Evolved(book, c) /\ l \in Nat /\ o \in Nat
  BY <1>4, <1>5, <1>7, <1>10
<1>13. UNCHANGED <<vcb, fork, nft, flows, queue, hot>>
  BY <1>1
<1> QED BY <1>8, <1>9, <1>11, <1>12, <1>13, RoundStep, ZenonT(60)

\* A round along a route of path_search.
LEMMA FillExact ==
  ASSUME IInv, NEW route \in Routes, NEW k \in Nat, FillRound(route, k)
  PROVE  /\ IInv' /\ phase' = phase
         /\ \A i \in Ids : OneWay(i, book.pos[i].r, book'.pos[i].r)
<1>1. phase \in {"batch12", "batch21", "arb"} /\ UNCHANGED <<vcb, fork, nft, flows, queue, hot>>
  BY DEF FillRound, Filling, txVars
<1>2. BookOK(book) /\ IsJob(job)
  BY DEF IInv, Types
<1>3. PICK w, x : x = job.left /\ w = FillRoute(book, route, x, k)
  OBVIOUS
<1>4. x \in Nat
  BY <1>2, <1>3 DEF IsJob
<1>5. /\ Len(route) \in Nat /\ Len(route) > 1 /\ Len(Load(book, route)) = Len(route) - 1
      /\ route[1] = job.from /\ route[Len(route)] = job.to
  BY RouteExact
<1>6. /\ BookOK(w.book) /\ w.input \in Nat /\ w.output \in Nat /\ ~w.fails
      /\ \A i \in Ids : /\ Evolves(book.pos[i], w.book.pos[i])
                        /\ OneWay(i, book.pos[i].r, w.book.pos[i].r)
      /\ \A a : Account(Reserved(w.book.pos), route, w.input, w.output, a)
                  = Account(Reserved(book.pos), route, x, 0, a)
  <2>1. /\ BookOK(book) /\ Len(route) \in Nat /\ Len(route) > 1
        /\ Len(Load(book, route)) = Len(route) - 1
    BY <1>2, <1>5
  <2>2. LET z == FillRoute(book, route, x, k) IN
        /\ BookOK(z.book) /\ z.input \in Nat /\ z.output \in Nat /\ ~z.fails
        /\ \A i \in Ids : /\ Evolves(book.pos[i], z.book.pos[i])
                          /\ OneWay(i, book.pos[i].r, z.book.pos[i].r)
        /\ \A a : Account(Reserved(z.book.pos), route, z.input, z.output, a)
                    = Account(Reserved(book.pos), route, x, 0, a)
    BY <1>4, <2>1, FillRouteExact, Zenon
  <2> QED BY <1>3, <2>2
<1>7. /\ book' = w.book /\ phase' = phase
      /\ job' = [job EXCEPT !.left = w.input, !.out = @ + w.output]
  BY <1>3, <1>6 DEF FillRound
<1>8. PICK c, l, o : c = book' /\ l = w.input /\ o = w.output
  OBVIOUS
<1>9. \A a : Value(Reserved(c.pos), a) + (IF a = job.from THEN l ELSE 0) + (IF a = job.to THEN o ELSE 0)
                  = Value(Reserved(book.pos), a) + (IF a = job.from THEN job.left ELSE 0)
  <2>1. ASSUME NEW a
        PROVE  Value(Reserved(c.pos), a) + (IF a = job.from THEN l ELSE 0) + (IF a = job.to THEN o ELSE 0)
                  = Value(Reserved(book.pos), a) + (IF a = job.from THEN job.left ELSE 0)
    <3>1. Value(Reserved(book.pos), a) \in Nat
      BY <1>2, ReservedType, ValueType DEF BookOK
    <3>2. Value(Reserved(c.pos), a) + (IF a = job.from THEN l ELSE 0) + (IF a = job.to THEN o ELSE 0)
            = Value(Reserved(book.pos), a) + (IF a = job.from THEN x ELSE 0) + (IF a = job.to THEN 0 ELSE 0)
      BY <1>5, <1>6, <1>7, <1>8 DEF Account
    <3> QED BY <1>3, <1>4, <3>1, <3>2
  <2> QED BY <2>1
<1>10. Evolved(book, c) /\ BookOK(book') /\ l \in Nat /\ o \in Nat
  BY <1>6, <1>7, <1>8 DEF Evolved
<1>11. job' = [job EXCEPT !.left = l, !.out = @ + o]
  BY <1>7, <1>8
<1>12. IInv'
  <2>1. phase \in {"batch12", "batch21", "arb"} /\ phase' = phase
    BY <1>1, <1>7
  <2>2. BookOK(book') /\ c = book' /\ Evolved(book, c) /\ l \in Nat /\ o \in Nat
    BY <1>8, <1>10
  <2>3. UNCHANGED <<vcb, fork, nft, flows, queue, hot>>
    BY <1>1
  <2> QED BY <1>9, <1>11, <2>1, <2>2, <2>3, RoundStep, ZenonT(60)
<1> QED BY <1>6, <1>7, <1>12

-----------------------------------------------------------------------------
(* The theorems                                                             *)

\* The chain starts with no position and no flow.
LEMMA InitHolds ==
  ASSUME Init
  PROVE  IInv
<1>1. /\ book = [pos |-> [i \in Ids |-> Nowhere], inventory |-> {}, price |-> {},
                 count |-> [p \in Pairs |-> 0]]
      /\ fork = book /\ vcb = [a \in Assets |-> 0] /\ nft = [i \in Ids |-> NoNft]
      /\ fees = <<>> /\ flows = <<>> /\ queue = {} /\ hot = {} /\ job = NoJob /\ phase = "txs"
  BY DEF Init
<1>2. book.pos \in [Ids -> Position] /\ \A i \in Ids : book.pos[i] = Nowhere
  BY <1>1 DEF Nowhere, Position, PosStates
<1>3. OpenIn(book.pos) = {}
  BY <1>2 DEF OpenIn, Nowhere
<1>4. BookOK(book)
  <2>1. KeysOf(book.pos) = {} /\ EntriesOf(book.pos) = {}
    BY <1>3 DEF KeysOf, EntriesOf
  <2>2. \A p : {i \in OpenIn(book.pos) : PairOf(i) = p} = {}
    BY <1>3
  <2>3. CountOf(book.pos) = [p \in Pairs |-> 0]
    BY <2>2, FS_EmptySet DEF CountOf
  <2> QED BY <1>1, <1>2, <2>1, <2>3 DEF BookOK, IndexesMatch
<1>5. \A a : Value(Reserved(book.pos), a) = 0
  <2>1. ASSUME NEW a PROVE Value(Reserved(book.pos), a) = 0
    <3>1. PICK f : f = [i \in Ids |-> ValueAt(i, Reserved(book.pos)[i], a)]
      OBVIOUS
    <3>2. \A i \in Ids : f[i] = 0
      BY <1>2, <3>1 DEF Reserved, Nowhere, ValueAt, Slot
    <3>3. SumFunctionOnSet(f, Ids) = 0
      BY <3>2, SumZero, PositionAssumption
    <3> QED BY <3>1, <3>3 DEF Value
  <2> QED BY <2>1
<1>6. FlowsOK(flows) /\ FeesOK /\ \A a : FlowSum(flows, DOMAIN flows, a) = 0
  <2>1. FlowsOK(flows) /\ \A a : FlowSum(flows, DOMAIN flows, a) = 0
    BY <1>1, EmptyBlock
  <2>2. DOMAIN fees = {} /\ fees = [a \in DOMAIN fees |-> fees[a]]
    BY <1>1, EmptyBlock DEF FlowsOK
  <2> QED BY <2>1, <2>2, FS_EmptySet DEF FeesOK
<1>7. IsJob(job)
  BY <1>1 DEF NoJob, IsJob
<1>8. Types
  BY <1>1, <1>4, <1>6, <1>7 DEF Types, Phases, NoNft
<1>9. Owned /\ Batch
  BY <1>1, <1>2 DEF Owned, OwnedIn, Batch
<1>10. Solvent
  BY <1>1, <1>5, <1>6 DEF Solvent
<1>11. Bounded
  <2>1. 0 <= 2 * MaxPositionsPerPair
    BY BoundAssumption
  <2> QED BY <1>1, <2>1 DEF Bounded, Crowded
<1> QED BY <1>8, <1>9, <1>10, <1>11 DEF IInv

\* Every operation keeps the invariant.
LEMMA NextKeeps ==
  ASSUME IInv, [Next]_vars
  PROVE  IInv'
<1>1. CASE UNCHANGED vars
  <2>1. UNCHANGED holds
    BY <1>1 DEF vars, txVars, holds
  <2> QED BY <2>1, SameKeeps
<1>2. ASSUME NEW i \in Ids, NEW r \in InitReserves[i], PositionOpen(i, r) PROVE IInv'
  BY <1>2, OpenKeeps
<1>3. ASSUME NEW i \in Ids, PositionClose(i) \/ PositionWithdraw(i) PROVE IInv'
  BY <1>3, CloseKeeps, WithdrawKeeps
<1>4. ASSUME NEW i \in Ids, NEW amount \in Rewards, RewardPosition(i, amount) PROVE IInv'
  BY <1>4, RewardKeeps
<1>5. ASSUME NEW s \in Swaps, SwapClaim(s) PROVE IInv'
  BY <1>5, ClaimKeeps
<1>6. ASSUME NEW s \in Swaps, NEW input \in SwapInputs, Swap(s, input) PROVE IInv'
  BY <1>6, SwapKeeps
<1>7. ASSUME NEW f \in FeeInputs, PayFee(f) PROVE IInv'
  BY <1>7, PayFeeKeeps
<1>8. CASE StartEndBlock
  BY <1>8, StartKeeps
<1>9. CASE EndFirstDirection
  BY <1>9, FirstDirectionKeeps
<1>10. CASE EndBatch
  BY <1>10, BatchKeeps
<1>11. CASE EndArbitrage
  BY <1>11, ArbitrageKeeps
<1>12. CASE FinishBlock
  BY <1>12, FinishKeeps
<1>13. ASSUME NEW route \in Routes, NEW k \in 1..(Cardinality(Ids) + 1), FillRound(route, k) PROVE IInv'
  <2>1. k \in Nat
    BY PositionAssumption, FS_CardinalityType
  <2> QED BY <1>13, <2>1, FillExact
<1>14. ASSUME NEW route \in Routes, NEW i \in Ids, OverflowRound(route, i) PROVE IInv'
  BY <1>14, OverflowKeeps
<1>15. CASE BeginBlock
  BY <1>15, BeginKeeps
<1> QED BY <1>1, <1>2, <1>3, <1>4, <1>5, <1>6, <1>7, <1>8, <1>9, <1>10, <1>11, <1>12, <1>13, <1>14,
           <1>15 DEF Next

\* The inductive invariant, in every state.
THEOREM Invariant == Spec => []IInv
<1>1. Init => IInv
  BY InitHolds
<1>2. IInv /\ [Next]_vars => IInv'
  BY NextKeeps
<1> QED BY <1>1, <1>2, PTL DEF Spec

\* The circuit breaker holds exactly what the positions and the flows hold.
THEOREM Solvency == Spec => []DexSolvent
<1>1. IInv => DexSolvent
  <2>1. ASSUME NEW a PROVE Value(Reserved(book.pos), a) = Reserves(a)
    <3>1. [i \in Ids |-> ValueAt(i, Reserved(book.pos)[i], a)]
            = [i \in Ids |-> IF a \in {Phi[i].a1, Phi[i].a2} THEN book.pos[i].r[Slot(i, a)] ELSE 0]
      BY DEF ValueAt, Reserved
    <3> QED BY <3>1 DEF Value, Reserves, SumFunction
  <2>2. ASSUME NEW a PROVE FlowSum(flows, DOMAIN flows, a) = PendingFlow(a)
    BY DEF FlowSum, FlowAt, PendingFlow, SumFunction
  <2> QED BY <2>1, <2>2 DEF IInv, Solvent, DexSolvent
<1> QED BY <1>1, Invariant, PTL

\* The invariant gives the indexes of the open positions, as the property reads.
LEMMA IndexesFollow == IInv => IndexesExact
<1>1. SUFFICES ASSUME IInv PROVE IndexesExact
  OBVIOUS
<1>2. /\ book.inventory = KeysOf(book.pos) /\ book.price = EntriesOf(book.pos)
      /\ book.count = CountOf(book.pos)
  BY <1>1 DEF IInv, Types, BookOK, IndexesMatch
<1>3. \A p \in Pairs : book.count[p] = Cardinality({i \in OpenIn(book.pos) : PairOf(i) = p})
  BY <1>2 DEF CountOf
<1>4. KeysOf(book.pos) = UNION {InventoryKeys(i, book.pos[i]) : i \in OpenIn(book.pos)}
  BY DEF KeysOf
<1>5. EntriesOf(book.pos) = UNION {PriceEntries(i, book.pos[i]) : i \in OpenIn(book.pos)}
  BY DEF EntriesOf
<1>6. OpenIn(book.pos) = {i \in Ids : book.pos[i].state = "Opened"}
  BY DEF OpenIn
<1>7. PICK open : open = {i \in Ids : book.pos[i].state = "Opened"}
  OBVIOUS
<1>8. /\ book.inventory = UNION {InventoryKeys(i, book.pos[i]) : i \in open}
      /\ book.price = UNION {PriceEntries(i, book.pos[i]) : i \in open}
      /\ \A p \in Pairs : book.count[p] = Cardinality({i \in open : PairOf(i) = p})
  BY <1>2, <1>3, <1>4, <1>5, <1>6, <1>7
<1> QED BY <1>7, <1>8, Zenon DEF IndexesExact

\* The indexes hold exactly the open positions, whatever path they took.
THEOREM IndexesAgree == Spec => []IndexesExact
BY IndexesFollow, Invariant, PTL

\* No pair has more than twice the maximum of positions after a block.
THEOREM Crowding == Spec => []CrowdingBounded
<1>1. IInv => CrowdingBounded
  BY DEF IInv, Bounded, CrowdingBounded
<1> QED BY <1>1, Invariant, PTL

\* The LPNFTs agree with the positions, and the end of a block never panics.
THEOREM Lpnfts == Spec => []LpnftsMatch
<1>1. IInv => LpnftsMatch
  <2>1. SUFFICES ASSUME IInv PROVE LpnftsMatch
    OBVIOUS
  <2>2. phase # "panicked" /\ OwnedIn(book)
    <3>1. phase \in Phases
      BY <2>1 DEF IInv, Types
    <3>2. OwnedIn(book)
      BY <2>1 DEF IInv, Owned
    <3> QED BY <3>1, <3>2 DEF Phases
  <2>3. Nowhere.state = "Absent"
    BY DEF Nowhere
  <2> QED BY <2>2, <2>3 DEF OwnedIn, LpnftsMatch
<1> QED BY <1>1, Invariant, PTL

\* No fill takes from a position more than its trading function allows, but for
\* what the precision of its price may take off.
THEOREM FillsFavour == Spec => FillsFavourPositions
<1>1. IInv /\ [Next]_vars => [Filling /\ phase' = phase => FillFavoursPositions]_vars
  <2>1. SUFFICES ASSUME IInv, Next, Filling, phase' = phase PROVE FillFavoursPositions
    OBVIOUS
  <2>2. phase \in {"batch12", "batch21", "arb"}
    BY <2>1 DEF Filling
  <2>3. \/ \E route \in Routes : \/ \E k \in 1..(Cardinality(Ids) + 1) : FillRound(route, k)
                                 \/ \E i \in Ids : OverflowRound(route, i)
        \/ EndFirstDirection \/ EndBatch \/ EndArbitrage
    BY <2>1, <2>2 DEF Next, PositionOpen, PositionClose, PositionWithdraw, RewardPosition, SwapClaim, Swap,
       PayFee, Transaction, StartEndBlock, FinishBlock, BeginBlock
  <2>4. ~EndFirstDirection /\ ~EndArbitrage
    BY <2>1 DEF EndFirstDirection, EndArbitrage
  <2>5. ~EndBatch
    BY <2>1 DEF EndBatch
  <2>6. ASSUME NEW route \in Routes, NEW k \in 1..(Cardinality(Ids) + 1), FillRound(route, k)
        PROVE  FillFavoursPositions
    <3>1. k \in Nat
      BY PositionAssumption, FS_CardinalityType
    <3> QED BY <2>1, <2>6, <3>1, FillExact DEF FillFavoursPositions, OneWay
  <2>7. ASSUME NEW route \in Routes, NEW i \in Ids, OverflowRound(route, i)
        PROVE  FillFavoursPositions
    <3>1. PICK c : c = ClosePosition(book, i)
      OBVIOUS
    <3>2. BookOK(book) /\ c = book'
      BY <2>1, <2>7, <3>1 DEF IInv, Types, OverflowRound
    <3>3. \A j \in Ids : c.pos[j].r = book.pos[j].r
      BY <3>1, <3>2, CloseOne, ZenonT(60)
    <3>4. \A j \in Ids : book.pos[j].r \in Nat \X Nat
      BY <3>2 DEF BookOK, Position
    <3>5. 1 \in 1..2
      OBVIOUS
    <3> QED BY <3>2, <3>3, <3>4, <3>5, SoldNothing DEF FillFavoursPositions
  <2> QED BY <2>3, <2>4, <2>5, <2>6, <2>7
<1> QED BY <1>1, Invariant, PTL DEF Spec, FillsFavourPositions

-----------------------------------------------------------------------------
(* What the claims of a batch may take out of it                            *)

Swapped == [input : SwapInputs, height : Nat, nullified : BOOLEAN]
BatchOf(s) == <<swaps[s].height, swaps[s].input[1]>>

OutputData == [delta : Nat \X Nat, lambda : Nat \X Nat, unfilled : Nat \X Nat]

Batching == phase \in {"batch12", "batch21"}

\* What the swaps of a batch brought, and what the fees of the block bring to a pair.
BroughtBy(s, k, n) == IF BatchOf(s) = k THEN swaps[s].input[n + 1] ELSE 0
Brought(k, n) == SumFunctionOnSet([s \in DOMAIN swaps |-> BroughtBy(s, k, n)], DOMAIN swaps)
FeeTo(a, p, n) == IF FeePair(a) = p THEN FeeFlow(a, fees[a][1] + fees[a][2])[n] ELSE 0
FeesTo(p, n) == SumFunctionOnSet([a \in AltFees |-> FeeTo(a, p, n)], AltFees)
FlowIn(fl, p, n) == IF p \in DOMAIN fl THEN fl[p][n] ELSE 0

\* What the swaps of a batch that are not claimed yet may still claim.
OwedTo(s, k, n) ==
  IF BatchOf(s) = k /\ ~swaps[s].nullified
  THEN ProRata(outputs[k], swaps[s].input[2], swaps[s].input[3])[n] ELSE 0
Owed(k, n) == SumFunctionOnSet([s \in DOMAIN swaps |-> OwedTo(s, k, n)], DOMAIN swaps)

SwapsOK ==
  /\ IsFiniteSet(DOMAIN swaps) /\ swaps \in [DOMAIN swaps -> Swapped]
  /\ \A s \in DOMAIN swaps : /\ swaps[s].height <= height
                             /\ swaps[s].nullified => BatchOf(s) \in DOMAIN paid

\* Outputs are final once they are paid from, and those of the block in
\* progress are still to be.
OutputsOK ==
  /\ outputs \in [DOMAIN outputs -> OutputData] /\ paid \in [DOMAIN paid -> Nat \X Nat]
  /\ DOMAIN outputs = DOMAIN paid \cup (IF Batching THEN {height} \X (DOMAIN flows \ job.todo) ELSE {})
  /\ \A k \in DOMAIN paid : k[1] \in Nat /\ (IF Batching \/ phase = "txs" THEN k[1] < height
                                                                         ELSE k[1] <= height)

\* The flows of a block are what its swaps and fees bring.
FlowsExact ==
  /\ phase = "txs" => \A p \in Pairs, n \in 1..2 : FlowIn(flows, p, n) = Brought(<<height, p>>, n)
  /\ Batching =>
       /\ FeesOK
       /\ \A p \in Pairs, n \in 1..2 :
            FlowIn(flows, p, n) = Brought(<<height, p>>, n) + FeesTo(p, n)
       /\ \A p \in DOMAIN flows \ job.todo : outputs[<<height, p>>].delta = flows[p]

Covered ==
  \A k \in DOMAIN paid, n \in 1..2 :
    paid[k][n] + Owed(k, n) <= outputs[k].unfilled[n] + outputs[k].lambda[n]

CInv == height \in Nat /\ SwapsOK /\ OutputsOK /\ FlowsExact /\ Covered

\* An amount out of a batch, against two amounts into it and their weights.
Weighs(a, b, d, c, X, Y) == a \in Nat /\ b \in Nat /\ d \in Nat /\ c * a <= b * X + d * Y

\* The scale on which the shares of a batch are rounded, and the weights of the two inputs in output n.
Whole(x) == IF x = 0 THEN 1 ELSE x
Scale(o) == Whole(o.delta[1]) * Whole(o.delta[2])
FirstOut(o, n) == IF n = 1 THEN o.unfilled[1] ELSE o.lambda[2]
SecondOut(o, n) == IF n = 1 THEN o.lambda[1] ELSE o.unfilled[2]
FirstWeight(o, n) == FirstOut(o, n) * Whole(o.delta[2])
SecondWeight(o, n) == SecondOut(o, n) * Whole(o.delta[1])

\* The parts of a batch's output data.
LEMMA OutputParts ==
  ASSUME NEW o \in OutputData, NEW n \in 1..2
  PROVE  /\ o.delta[1] \in Nat /\ o.delta[2] \in Nat
         /\ Whole(o.delta[1]) \in Nat /\ Whole(o.delta[1]) > 0 /\ o.delta[1] <= Whole(o.delta[1])
         /\ Whole(o.delta[2]) \in Nat /\ Whole(o.delta[2]) > 0 /\ o.delta[2] <= Whole(o.delta[2])
         /\ FirstOut(o, n) \in Nat /\ SecondOut(o, n) \in Nat
         /\ FirstOut(o, n) + SecondOut(o, n) = o.unfilled[n] + o.lambda[n]
<1>1. /\ o.delta[1] \in Nat /\ o.delta[2] \in Nat /\ o.lambda[1] \in Nat /\ o.lambda[2] \in Nat
      /\ o.unfilled[1] \in Nat /\ o.unfilled[2] \in Nat
  BY DEF OutputData
<1>2. n = 1 \/ n = 2
  OBVIOUS
<1> QED BY <1>1, <1>2 DEF Whole, FirstOut, SecondOut

\* The product of a scale and weights.
LEMMA ScaleParts ==
  ASSUME NEW o \in OutputData, NEW n \in 1..2
  PROVE  /\ Scale(o) \in Nat /\ Scale(o) > 0 /\ FirstWeight(o, n) \in Nat /\ SecondWeight(o, n) \in Nat
         /\ Whole(o.delta[1]) * FirstWeight(o, n) = FirstOut(o, n) * Scale(o)
         /\ Whole(o.delta[2]) * SecondWeight(o, n) = SecondOut(o, n) * Scale(o)
<1>1. PICK d, e, x, y : /\ d = Whole(o.delta[1]) /\ e = Whole(o.delta[2])
                        /\ x = FirstOut(o, n) /\ y = SecondOut(o, n)
  OBVIOUS
<1>2. d \in Nat /\ e \in Nat /\ d > 0 /\ e > 0 /\ x \in Nat /\ y \in Nat
  BY <1>1, OutputParts
<1>3. d * e \in Nat /\ d * e > 0 /\ x * e \in Nat /\ y * d \in Nat
  BY <1>2
<1>4. d * (x * e) = x * (d * e) /\ e * (y * d) = y * (d * e)
  BY <1>2
<1> QED BY <1>1, <1>3, <1>4 DEF Scale, FirstWeight, SecondWeight

\* A share is rounded down.
LEMMA ShareBound ==
  ASSUME NEW o \in OutputData, NEW d1 \in Nat, NEW d2 \in Nat, NEW n \in 1..2
  PROVE  /\ ProRata(o, d1, d2)[n] \in Nat
         /\ Scale(o) * ProRata(o, d1, d2)[n] <= d1 * FirstWeight(o, n) + d2 * SecondWeight(o, n)
<1>1. PICK d, e, x, y : /\ d = Whole(o.delta[1]) /\ e = Whole(o.delta[2])
                        /\ x = FirstOut(o, n) /\ y = SecondOut(o, n)
  OBVIOUS
<1>2. d \in Nat /\ e \in Nat /\ d > 0 /\ e > 0 /\ x \in Nat /\ y \in Nat
  BY <1>1, OutputParts
<1>3. PICK u, v : u = (IF o.delta[1] = 0 THEN 0 ELSE d1) /\ v = (IF o.delta[2] = 0 THEN 0 ELSE d2)
  OBVIOUS
<1>4. u \in Nat /\ v \in Nat /\ u <= d1 /\ v <= d2
  BY <1>3
<1>5. ProRata(o, d1, d2)[n] = (u * x * e + v * y * d) \div (d * e)
  <2>1. n = 1 \/ n = 2
    OBVIOUS
  <2> QED BY <1>1, <1>3, <2>1 DEF ProRata, ShareOf, Whole, FirstOut, SecondOut
<1>6. PICK X, Y, a, s : X = x * e /\ Y = y * d /\ a = u * x * e + v * y * d /\ s = d * e
  OBVIOUS
<1>7. X \in Nat /\ Y \in Nat /\ s \in Nat /\ s > 0
  BY <1>2, <1>6
<1>8. a = u * X + v * Y
  BY <1>2, <1>4, <1>6
<1>9. /\ u * X \in Nat /\ v * Y \in Nat /\ d1 * X \in Nat /\ d2 * Y \in Nat
      /\ u * X <= d1 * X /\ v * Y <= d2 * Y
  <2>1. X * u <= X * d1
    BY <1>4, <1>7, CancelLess
  <2>2. Y * v <= Y * d2
    BY <1>4, <1>7, CancelLess
  <2> QED BY <1>4, <1>7, <2>1, <2>2
<1>10. a \in Nat /\ a <= d1 * X + d2 * Y
  BY <1>8, <1>9
<1>11. a \div s \in Nat /\ s * (a \div s) <= a
  BY <1>7, <1>10, DivBounds
<1>12. s * (a \div s) \in Nat
  BY <1>7, <1>11
<1>13. Scale(o) = s /\ FirstWeight(o, n) = X /\ SecondWeight(o, n) = Y /\ ProRata(o, d1, d2)[n] = a \div s
  BY <1>1, <1>5, <1>6 DEF Scale, FirstWeight, SecondWeight
<1> QED BY <1>9, <1>10, <1>11, <1>12, <1>13

\* What is worth no more than the whole input is covered by the whole output.
LEMMA SharesCovered ==
  ASSUME NEW o \in OutputData, NEW n \in 1..2, NEW d1 \in Nat, NEW d2 \in Nat, NEW s \in Nat,
         d1 <= o.delta[1], d2 <= o.delta[2],
         Scale(o) * s <= d1 * FirstWeight(o, n) + d2 * SecondWeight(o, n)
  PROVE  s <= o.unfilled[n] + o.lambda[n]
<1>1. PICK d, e, x, y, X, Y, c : /\ d = Whole(o.delta[1]) /\ e = Whole(o.delta[2])
                                 /\ x = FirstOut(o, n) /\ y = SecondOut(o, n)
                                 /\ X = FirstWeight(o, n) /\ Y = SecondWeight(o, n) /\ c = Scale(o)
  OBVIOUS
<1>2. /\ d \in Nat /\ e \in Nat /\ x \in Nat /\ y \in Nat /\ x + y = o.unfilled[n] + o.lambda[n]
      /\ d1 <= d /\ d2 <= e
  BY <1>1, OutputParts
<1>3. X \in Nat /\ Y \in Nat /\ c \in Nat /\ c > 0 /\ d * X = x * c /\ e * Y = y * c
  BY <1>1, ScaleParts
<1>4. X * d1 <= X * d /\ Y * d2 <= Y * e
  <2>1. CASE X = 0
    BY <1>2, <2>1, <1>3, CancelLess
  <2> QED BY <1>2, <1>3, CancelLess
<1>5. X * d1 \in Nat /\ Y * d2 \in Nat /\ X * d \in Nat /\ Y * e \in Nat /\ x * c \in Nat /\ y * c \in Nat
  BY <1>2, <1>3
<1>6. d1 * X + d2 * Y <= x * c + y * c
  BY <1>2, <1>3, <1>4, <1>5
<1>7. c * s <= c * (x + y)
  <2>1. x * c + y * c = c * (x + y) /\ c * s \in Nat /\ c * (x + y) \in Nat
    BY <1>2, <1>3
  <2>2. c * s <= d1 * X + d2 * Y
    BY <1>1
  <2>3. d1 * X \in Nat /\ d2 * Y \in Nat
    BY <1>3
  <2> QED BY <1>5, <1>6, <2>1, <2>2, <2>3
<1>8. s <= x + y
  BY <1>2, <1>3, <1>7, CancelLess
<1> QED BY <1>2, <1>8

\* Terms that are bounded by weights, summed.
LEMMA SumWeighted ==
  ASSUME NEW S, IsFiniteSet(S), NEW f, NEW g, NEW h, NEW c \in Nat, NEW X \in Nat, NEW Y \in Nat,
         \A x \in S : Weighs(f[x], g[x], h[x], c, X, Y)
  PROVE  Weighs(SumFunctionOnSet(f, S), SumFunctionOnSet(g, S), SumFunctionOnSet(h, S), c, X, Y)
<1> DEFINE A(T) == SumFunctionOnSet(f, T)
           B(T) == SumFunctionOnSet(g, T)
           C(T) == SumFunctionOnSet(h, T)
           Holds(T) == /\ A(T) \in Nat /\ B(T) \in Nat /\ C(T) \in Nat
                       /\ c * A(T) <= B(T) * X + C(T) * Y
           N == {n \in Nat : \A T \in SUBSET S : Cardinality(T) = n => Holds(T)}
<1>1. 0 \in N
  <2>1. ASSUME NEW T \in SUBSET S, Cardinality(T) = 0 PROVE Holds(T)
    <3>1. T = {}
      BY <2>1, SubsetEmpty
    <3>2. A(T) = 0 /\ B(T) = 0 /\ C(T) = 0
      BY <3>1, SumEmpty
    <3> HIDE DEF A, B, C
    <3>3. c * 0 = 0 /\ 0 * X = 0 /\ 0 * Y = 0
      OBVIOUS
    <3> QED BY <3>2, <3>3
  <2> QED BY <2>1
<1>2. ASSUME NEW n \in Nat, n \in N PROVE n + 1 \in N
  <2>1. ASSUME NEW T \in SUBSET S, Cardinality(T) = n + 1 PROVE Holds(T)
    <3>1. PICK z, R : z = Chosen(T) /\ R = T \ {z}
      OBVIOUS
    <3>2. T # {} /\ IsFiniteSet(T) /\ z \in T /\ R \in SUBSET S /\ Cardinality(R) = n
      BY <2>1, <3>1, SubsetChosen
    <3>3. Holds(R)
      BY <1>2, <3>2
    <3>4. A(T) = f[z] + A(R) /\ B(T) = g[z] + B(R) /\ C(T) = h[z] + C(R)
      BY <3>1, <3>2, SumChosen
    <3>5. z \in S
      BY <3>2
    <3>6. PICK a, b, d, r, s, t : /\ a = f[z] /\ b = g[z] /\ d = h[z] /\ r = A(R) /\ s = B(R) /\ t = C(R)
      OBVIOUS
    <3>7. /\ a \in Nat /\ b \in Nat /\ d \in Nat /\ r \in Nat /\ s \in Nat /\ t \in Nat
          /\ c * a <= b * X + d * Y /\ c * r <= s * X + t * Y
      BY <3>3, <3>5, <3>6 DEF Weighs
    <3>8. c * (a + r) <= (b + s) * X + (d + t) * Y
      <4>1. c * (a + r) = c * a + c * r /\ (b + s) * X = b * X + s * X /\ (d + t) * Y = d * Y + t * Y
        BY <3>7
      <4>2. /\ c * a \in Nat /\ c * r \in Nat /\ b * X \in Nat /\ s * X \in Nat /\ d * Y \in Nat /\ t * Y \in Nat
        BY <3>7
      <4> QED BY <3>7, <4>1, <4>2
    <3>9. A(T) = a + r /\ B(T) = b + s /\ C(T) = d + t
      BY <3>4, <3>6
    <3> HIDE DEF A, B, C
    <3>10. a + r \in Nat /\ b + s \in Nat /\ d + t \in Nat
      BY <3>7
    <3> QED BY <3>8, <3>9, <3>10
  <2> QED BY <2>1
<1>3. \A n \in Nat : n \in N
  <2> HIDE DEF N
  <2> QED BY <1>1, <1>2, NatSetInduction
<1>4. Cardinality(S) \in Nat
  BY FS_CardinalityType
<1>5. Holds(S)
  BY <1>3, <1>4
<1> QED BY <1>5 DEF Weighs

\* The inputs of a swap.
LEMMA SwapParts ==
  ASSUME SwapsOK, NEW s \in DOMAIN swaps
  PROVE  /\ swaps[s] \in Swapped /\ swaps[s].input \in SwapInputs
         /\ swaps[s].height \in Nat /\ swaps[s].height <= height /\ swaps[s].nullified \in BOOLEAN
         /\ swaps[s].input[1] \in Pairs /\ swaps[s].input[2] \in Nat /\ swaps[s].input[3] \in Nat
         /\ swaps[s].nullified => BatchOf(s) \in DOMAIN paid
<1>1. swaps[s] \in Swapped /\ swaps[s].height <= height /\ (swaps[s].nullified => BatchOf(s) \in DOMAIN paid)
  BY DEF SwapsOK
<1>2. swaps[s].input \in SwapInputs /\ swaps[s].height \in Nat /\ swaps[s].nullified \in BOOLEAN
  BY <1>1 DEF Swapped
<1>3. swaps[s].input \in (Nat \X Nat) \X Nat \X Nat /\ swaps[s].input[1] \in Pairs
  BY <1>2, InputAssumption DEF Pairs
<1> QED BY <1>1, <1>2, <1>3

\* The terms of the two sums over swaps.
LEMMA SwapTerms ==
  ASSUME SwapsOK, OutputsOK, NEW s \in DOMAIN swaps, NEW k, NEW n \in 1..2
  PROVE  /\ BroughtBy(s, k, n) \in Nat
         /\ k \in DOMAIN outputs => OwedTo(s, k, n) \in Nat
<1>1. swaps[s].input[2] \in Nat /\ swaps[s].input[3] \in Nat
  BY SwapParts
<1>2. BroughtBy(s, k, n) \in Nat
  <2>1. n + 1 = 2 \/ n + 1 = 3
    OBVIOUS
  <2> QED BY <1>1, <2>1 DEF BroughtBy
<1>3. ASSUME k \in DOMAIN outputs PROVE OwedTo(s, k, n) \in Nat
  <2>1. outputs[k] \in OutputData
    BY <1>3 DEF OutputsOK
  <2>2. ProRata(outputs[k], swaps[s].input[2], swaps[s].input[3])[n] \in Nat
    BY <1>1, <2>1, ShareBound
  <2> QED BY <2>2 DEF OwedTo
<1> QED BY <1>2, <1>3

\* The sums are naturals.
LEMMA SwapSums ==
  ASSUME SwapsOK, OutputsOK, NEW k, NEW n \in 1..2
  PROVE  /\ Brought(k, n) \in Nat
         /\ k \in DOMAIN outputs => Owed(k, n) \in Nat
<1>1. IsFiniteSet(DOMAIN swaps)
  BY DEF SwapsOK
<1>2. Brought(k, n) \in Nat
  <2>1. PICK f : f = [s \in DOMAIN swaps |-> BroughtBy(s, k, n)]
    OBVIOUS
  <2>2. \A s \in DOMAIN swaps : f[s] \in Nat
    BY <2>1, SwapTerms
  <2>3. SumFunctionOnSet(f, DOMAIN swaps) \in Nat
    BY <1>1, <2>2, SumNat
  <2> QED BY <2>1, <2>3 DEF Brought
<1>3. ASSUME k \in DOMAIN outputs PROVE Owed(k, n) \in Nat
  <2>1. PICK f : f = [s \in DOMAIN swaps |-> OwedTo(s, k, n)]
    OBVIOUS
  <2>2. \A s \in DOMAIN swaps : f[s] \in Nat
    BY <1>3, <2>1, SwapTerms
  <2>3. SumFunctionOnSet(f, DOMAIN swaps) \in Nat
    BY <1>1, <2>2, SumNat
  <2> QED BY <2>1, <2>3 DEF Owed
<1> QED BY <1>2, <1>3

\* The flow of a pair is a natural.
LEMMA FlowInType ==
  ASSUME NEW fl, FlowsOK(fl), NEW p, NEW n \in 1..2
  PROVE  FlowIn(fl, p, n) \in Nat
<1>1. n = 1 \/ n = 2
  OBVIOUS
<1>2. p \in DOMAIN fl => fl[p] \in Nat \X Nat
  BY DEF FlowsOK
<1> QED BY <1>1, <1>2 DEF FlowIn

\* accumulate_swap_flow adds to the flow of its pair.
LEMMA FlowAdded ==
  ASSUME NEW w, FlowState(w), NEW q, NEW flow \in Nat \X Nat, NEW p, NEW n \in 1..2
  PROVE  FlowIn(AccumulateFlow(w, q, flow).flows, p, n)
            = FlowIn(w.flows, p, n) + (IF p = q THEN flow[n] ELSE 0)
<1>1. n = 1 \/ n = 2
  OBVIOUS
<1>2. flow[1] \in Nat /\ flow[2] \in Nat /\ flow[n] \in Nat
  BY <1>1
<1>3. PICK new : new = IF q \in DOMAIN w.flows THEN <<w.flows[q][1] + flow[1], w.flows[q][2] + flow[2]>> ELSE flow
  OBVIOUS
<1>4. AccumulateFlow(w, q, flow).flows = Put(w.flows, q, new)
  BY <1>3 DEF AccumulateFlow
<1>5. new[n] = FlowIn(w.flows, q, n) + flow[n]
  <2>1. CASE q \in DOMAIN w.flows
    <3>1. new = <<w.flows[q][1] + flow[1], w.flows[q][2] + flow[2]>>
      BY <1>3, <2>1
    <3>2. new[n] = w.flows[q][n] + flow[n]
      BY <1>1, <3>1
    <3> QED BY <2>1, <3>2 DEF FlowIn
  <2>2. CASE q \notin DOMAIN w.flows
    <3>1. new = flow /\ FlowIn(w.flows, q, n) = 0
      BY <1>3, <2>2 DEF FlowIn
    <3> QED BY <1>2, <3>1
  <2> QED BY <2>1, <2>2
<1>6. FlowIn(w.flows, p, n) \in Nat
  BY FlowInType DEF FlowState
<1>7. CASE p = q
  <2>1. FlowIn(Put(w.flows, q, new), p, n) = new[n]
    BY <1>7 DEF Put, FlowIn
  <2> QED BY <1>4, <1>5, <1>7, <2>1
<1>8. CASE p # q
  <2>1. FlowIn(Put(w.flows, q, new), p, n) = FlowIn(w.flows, p, n)
    BY <1>8 DEF Put, FlowIn
  <2> QED BY <1>4, <1>6, <1>8, <2>1
<1> QED BY <1>7, <1>8

\* The fees of one asset, as a flow.
LEMMA FeeParts ==
  ASSUME FeesOK, NEW a \in AltFees
  PROVE  /\ FeePair(a) \in Pairs /\ fees[a][1] \in Nat /\ fees[a][2] \in Nat
         /\ \A x \in Nat : FeeFlow(a, x) \in Nat \X Nat
         /\ FeesOf(a) \in Nat \X Nat
<1>1. a \in FeeAssets /\ a # StakingToken /\ fees[a] \in Nat \X Nat
  BY DEF AltFees, FeesOK
<1>2. fees[a][1] + fees[a][2] \in Nat
  BY <1>1
<1>3. \A x \in Nat : FeeFlow(a, x) \in Nat \X Nat
  BY DEF FeeFlow
<1> QED BY <1>1, <1>2, <1>3, PairOfFee DEF FeesOf

\* What a fee adds to a pair.
LEMMA FeeToType ==
  ASSUME FeesOK, NEW a \in AltFees, NEW p, NEW n \in 1..2
  PROVE  FeeTo(a, p, n) \in Nat /\ FeeTo(a, p, n) = IF p = FeePair(a) THEN FeesOf(a)[n] ELSE 0
<1>1. n = 1 \/ n = 2
  OBVIOUS
<1>2. FeesOf(a) \in Nat \X Nat
  BY FeeParts
<1>3. FeesOf(a)[n] \in Nat
  BY <1>1, <1>2
<1> QED BY <1>3 DEF FeeTo, FeesOf

\* F.0 adds to every pair what the fees bring to it.
LEMMA FeesAdded ==
  ASSUME FeesOK, NEW w, FlowState(w), NEW p, NEW n \in 1..2
  PROVE  /\ FeesTo(p, n) \in Nat
         /\ FlowIn(FeeIter(w, AltFees)[AltFees].flows, p, n) = FlowIn(w.flows, p, n) + FeesTo(p, n)
<1>0. PICK S, f : S = AltFees /\ f = [a \in AltFees |-> FeeTo(a, p, n)]
  OBVIOUS
<1>1. IsFiniteSet(S) /\ \A a \in S : f[a] = FeeTo(a, p, n) /\ f[a] \in Nat
  <2>1. AltFees \subseteq DOMAIN fees
    BY DEF AltFees
  <2>2. IsFiniteSet(AltFees)
    BY <2>1, FS_Subset DEF FeesOK
  <2> QED BY <1>0, <2>2, FeeToType
<1> DEFINE I == FeeIter(w, S)
           Holds(T) == /\ FlowState(I[T])
                       /\ FlowIn(I[T].flows, p, n) = FlowIn(w.flows, p, n) + SumFunctionOnSet(f, T)
           N == {m \in Nat : \A T \in SUBSET S : Cardinality(T) = m => Holds(T)}
<1>2. \A T \in SUBSET S : I[T] = FeeStep(w, I, T)
  BY <1>1, FeeIterDef
<1>3. FlowIn(w.flows, p, n) \in Nat
  BY FlowInType DEF FlowState
<1>4. 0 \in N
  <2>1. ASSUME NEW T \in SUBSET S, Cardinality(T) = 0 PROVE Holds(T)
    <3>1. T = {}
      BY <1>1, <2>1, SubsetEmpty
    <3>2. I[T] = w /\ SumFunctionOnSet(f, T) = 0
      BY <1>2, <3>1, SumEmpty DEF FeeStep
    <3> QED BY <1>3, <3>2
  <2> QED BY <2>1
<1>5. ASSUME NEW m \in Nat, m \in N PROVE m + 1 \in N
  <2>1. ASSUME NEW T \in SUBSET S, Cardinality(T) = m + 1 PROVE Holds(T)
    <3>1. PICK x, R : x = Chosen(T) /\ R = T \ {x}
      OBVIOUS
    <3>2. T # {} /\ IsFiniteSet(T) /\ x \in T /\ R \in SUBSET S /\ Cardinality(R) = m
      BY <1>1, <2>1, <3>1, SubsetChosen
    <3>3. Holds(R)
      BY <1>5, <3>2
    <3>4. PICK c, d, q, flow : c = I[R] /\ d = I[T] /\ q = FeePair(x) /\ flow = FeesOf(x)
      OBVIOUS
    <3>5. d = AccumulateFlow(c, q, flow)
      BY <1>2, <3>1, <3>2, <3>4 DEF FeeStep
    <3>6. x \in AltFees
      BY <1>0, <3>2
    <3>7. q \in Pairs /\ flow \in Nat \X Nat
      BY <3>4, <3>6, FeeParts
    <3>8. FlowState(c)
      BY <3>3, <3>4
    <3>9. FlowState(d)
      BY <3>5, <3>7, <3>8, AccumulateExact
    <3>10. FlowIn(d.flows, p, n) = FlowIn(c.flows, p, n) + (IF p = q THEN flow[n] ELSE 0)
      BY <3>5, <3>7, <3>8, FlowAdded
    <3>11. f[x] = IF p = q THEN flow[n] ELSE 0
      BY <1>1, <3>2, <3>4, <3>6, FeeToType
    <3>12. SumFunctionOnSet(f, T) = f[x] + SumFunctionOnSet(f, R)
      BY <3>1, <3>2, SumChosen
    <3>13. FlowIn(c.flows, p, n) = FlowIn(w.flows, p, n) + SumFunctionOnSet(f, R)
      BY <3>3, <3>4
    <3>14. SumFunctionOnSet(f, R) \in Nat /\ f[x] \in Nat
      <4>1. IsFiniteSet(R) /\ \A a \in R : f[a] \in Nat
        BY <1>1, <3>2, FS_Subset
      <4> QED BY <1>1, <3>2, <4>1, SumNat
    <3>15. FlowIn(d.flows, p, n) = FlowIn(w.flows, p, n) + SumFunctionOnSet(f, T)
      BY <1>3, <3>10, <3>11, <3>12, <3>13, <3>14
    <3> QED BY <3>4, <3>9, <3>15
  <2> QED BY <2>1
<1>6. \A m \in Nat : m \in N
  <2> HIDE DEF N
  <2> QED BY <1>4, <1>5, NatSetInduction
<1>7. Cardinality(S) \in Nat
  BY <1>1, FS_CardinalityType
<1>8. Holds(S)
  BY <1>6, <1>7
<1>9. SumFunctionOnSet(f, S) \in Nat /\ SumFunctionOnSet(f, S) = FeesTo(p, n)
  BY <1>0, <1>1, SumNat DEF FeesTo
<1> QED BY <1>0, <1>8, <1>9

\* A step that leaves swaps, outputs and flows alone and stays in its part of the block.
LEMMA SameClaims ==
  ASSUME CInv, UNCHANGED <<swaps, outputs, paid, flows, height>>,
         (phase' = "txs") <=> (phase = "txs"), Batching' <=> Batching,
         Batching => UNCHANGED <<fees, job.todo>>
  PROVE  CInv'
<1>1. /\ swaps' = swaps /\ outputs' = outputs /\ paid' = paid /\ flows' = flows /\ height' = height
      /\ Batching => fees' = fees /\ job'.todo = job.todo
  OBVIOUS
<1>2. height' \in Nat /\ SwapsOK'
  BY <1>1 DEF CInv, SwapsOK, BatchOf
<1>3. OutputsOK'
  BY <1>1 DEF CInv, OutputsOK
<1>4. \A k, n : Brought(k, n)' = Brought(k, n) /\ Owed(k, n)' = Owed(k, n)
  BY <1>1 DEF Brought, BroughtBy, Owed, OwedTo, BatchOf
<1>5. Batching => FeesOK' /\ \A p, n : FeesTo(p, n)' = FeesTo(p, n)
  BY <1>1 DEF CInv, FlowsExact, FeesOK, FeesTo, FeeTo, AltFees
<1>6. FlowsExact'
  <2>1. phase' = "txs" => \A p \in Pairs, n \in 1..2 : FlowIn(flows', p, n) = Brought(<<height, p>>, n)'
    BY <1>1, <1>4 DEF CInv, FlowsExact
  <2>2. ASSUME Batching'
        PROVE  /\ FeesOK'
               /\ \A p \in Pairs, n \in 1..2 :
                    FlowIn(flows', p, n) = Brought(<<height, p>>, n)' + FeesTo(p, n)'
               /\ \A p \in DOMAIN flows' \ job'.todo : outputs'[<<height', p>>].delta = flows'[p]
    BY <1>1, <1>4, <1>5, <2>2 DEF CInv, FlowsExact
  <2> QED BY <2>1, <2>2 DEF FlowsExact
<1>7. Covered'
  BY <1>1, <1>4 DEF CInv, Covered
<1> QED BY <1>2, <1>3, <1>6, <1>7 DEF CInv

\* Swap adds its input to the batch of its pair, which nothing was paid from.
LEMMA SwapClaimsKeep ==
  ASSUME IInv, CInv, NEW s \in Swaps, NEW input \in SwapInputs, Swap(s, input)
  PROVE  CInv'
<1>1. PICK w, q, flow, z : /\ w = [flows |-> flows, vcb |-> vcb] /\ q = input[1]
                           /\ flow = <<input[2], input[3]>> /\ z = AccumulateFlow(w, q, flow)
  OBVIOUS
<1>2. /\ phase = "txs" /\ phase' = "txs" /\ s \notin DOMAIN swaps /\ flows' = z.flows /\ outputs' = outputs
      /\ paid' = paid /\ height' = height
      /\ swaps' = Put(swaps, s, [input |-> input, height |-> height, nullified |-> FALSE])
  BY <1>1 DEF Swap, Transaction
<1>3. q \in Pairs /\ flow \in Nat \X Nat /\ input[2] \in Nat /\ input[3] \in Nat
  BY <1>1, InputAssumption DEF Pairs
<1>4. FlowState(w) /\ w.flows = flows
  BY <1>1 DEF IInv, Types, FlowState
<1>5. PICK D : D = DOMAIN swaps
  OBVIOUS
<1>6. /\ IsFiniteSet(D) /\ DOMAIN swaps' = D \cup {s} /\ swaps \in [D -> Swapped] /\ s \notin D
      /\ swaps'[s] = [input |-> input, height |-> height, nullified |-> FALSE]
      /\ \A x \in D : swaps'[x] = swaps[x]
      /\ height \in Nat
  BY <1>2, <1>5 DEF CInv, SwapsOK, Put
<1>7. SwapsOK'
  <2>1. IsFiniteSet(D \cup {s})
    BY <1>6, FS_AddElement
  <2>2. swaps'[s] \in Swapped
    BY <1>6 DEF Swapped
  <2>3. swaps' \in [D \cup {s} -> Swapped]
    BY <1>2, <1>5, <1>6, <2>2 DEF Put
  <2>4. ASSUME NEW x \in D \cup {s}
        PROVE  swaps'[x].height <= height' /\ (swaps'[x].nullified => BatchOf(x)' \in DOMAIN paid')
    <3>1. CASE x \in D
      BY <1>2, <1>5, <1>6, <3>1 DEF CInv, SwapsOK, BatchOf
    <3>2. CASE x = s
      BY <1>2, <1>6, <3>2
    <3> QED BY <3>1, <3>2
  <2> QED BY <1>6, <2>1, <2>3, <2>4 DEF SwapsOK
<1>8. OutputsOK'
  BY <1>2 DEF CInv, OutputsOK, Batching
<1>9. BatchOf(s)' = <<height, q>> /\ \A x \in D : BatchOf(x)' = BatchOf(x)
  BY <1>1, <1>6 DEF BatchOf
<1>10. ASSUME NEW k, NEW n \in 1..2
       PROVE  Brought(k, n)' = Brought(k, n) + (IF k = <<height, q>> THEN flow[n] ELSE 0)
  <2>1. PICK f, g : /\ f = [x \in D |-> BroughtBy(x, k, n)]
                    /\ g = [x \in D \cup {s} |-> BroughtBy(x, k, n)']
    OBVIOUS
  <2>2. \A x \in D : f[x] = g[x] /\ f[x] \in Nat
    <3>1. ASSUME NEW x \in D PROVE BroughtBy(x, k, n)' = BroughtBy(x, k, n) /\ BroughtBy(x, k, n) \in Nat
      BY <1>5, <1>6, <1>9, SwapTerms DEF BroughtBy, CInv
    <3> QED BY <2>1, <3>1
  <2>3. g[s] = (IF k = <<height, q>> THEN flow[n] ELSE 0) /\ g[s] \in Nat
    <3>1. n = 1 \/ n = 2
      OBVIOUS
    <3>2. flow[n] = input[n + 1] /\ flow[n] \in Nat
      BY <1>1, <1>3, <3>1
    <3> QED BY <1>6, <1>9, <2>1, <3>2 DEF BroughtBy
  <2>4. \A y \in D \cup {s} : g[y] \in Int
    BY <2>2, <2>3
  <2>5. SumFunctionOnSet(g, D \cup {s}) = SumFunctionOnSet(g, D) + g[s]
    BY <1>6, <2>4, SumAdd
  <2>6. SumFunctionOnSet(f, D) = SumFunctionOnSet(g, D)
    BY <1>6, <2>2, SumSame
  <2>7. Brought(k, n) = SumFunctionOnSet(f, D) /\ Brought(k, n)' = SumFunctionOnSet(g, D \cup {s})
    BY <1>5, <1>6, <2>1 DEF Brought
  <2> QED BY <2>3, <2>5, <2>6, <2>7
<1>11. FlowsExact'
  <2>1. ASSUME NEW p \in Pairs, NEW n \in 1..2 PROVE FlowIn(flows', p, n) = Brought(<<height, p>>, n)'
    <3>1. FlowIn(flows', p, n) = FlowIn(flows, p, n) + (IF p = q THEN flow[n] ELSE 0)
      BY <1>1, <1>2, <1>3, <1>4, FlowAdded
    <3>2. FlowIn(flows, p, n) = Brought(<<height, p>>, n)
      BY <1>2 DEF CInv, FlowsExact
    <3>3. Brought(<<height, p>>, n)' = Brought(<<height, p>>, n) + (IF p = q THEN flow[n] ELSE 0)
      <4>1. <<height, p>> = <<height, q>> <=> p = q
        OBVIOUS
      <4>2. PICK k : k = <<height, p>>
        OBVIOUS
      <4>3. Brought(k, n)' = Brought(k, n) + (IF k = <<height, q>> THEN flow[n] ELSE 0)
        BY <1>10
      <4>4. <<height', p>> = k
        BY <1>2, <4>2
      <4> QED BY <4>1, <4>2, <4>3, <4>4
    <3> QED BY <1>2, <3>1, <3>2, <3>3
  <2>2. ~Batching'
    BY <1>2 DEF Batching
  <2> QED BY <2>1, <2>2 DEF FlowsExact
<1>12. Covered'
  <2>1. ASSUME NEW k \in DOMAIN paid, NEW n \in 1..2 PROVE Owed(k, n)' = Owed(k, n)
    <3>1. k \in DOMAIN outputs /\ k[1] < height
      BY <1>2 DEF CInv, OutputsOK
    <3>2. PICK f, g : /\ f = [x \in D |-> OwedTo(x, k, n)]
                      /\ g = [x \in D \cup {s} |-> OwedTo(x, k, n)']
      OBVIOUS
    <3>3. \A x \in D : f[x] = g[x] /\ f[x] \in Nat
      <4>1. ASSUME NEW x \in D PROVE OwedTo(x, k, n)' = OwedTo(x, k, n) /\ OwedTo(x, k, n) \in Nat
        BY <1>2, <1>5, <1>6, <1>9, <3>1, SwapTerms DEF OwedTo, CInv
      <4> QED BY <3>2, <4>1
    <3>4. g[s] = 0
      <4>1. BatchOf(s)' # k
        BY <1>6, <1>9, <3>1
      <4> QED BY <3>2, <4>1 DEF OwedTo
    <3>5. \A y \in D \cup {s} : g[y] \in Int
      BY <3>3, <3>4
    <3>6. SumFunctionOnSet(g, D \cup {s}) = SumFunctionOnSet(g, D) + g[s]
      BY <1>6, <3>5, SumAdd
    <3>7. SumFunctionOnSet(f, D) = SumFunctionOnSet(g, D)
      BY <1>6, <3>3, SumSame
    <3>8. Owed(k, n) = SumFunctionOnSet(f, D) /\ Owed(k, n)' = SumFunctionOnSet(g, D \cup {s})
      BY <1>5, <1>6, <3>2 DEF Owed
    <3>9. Owed(k, n) \in Nat
      BY <3>1, SwapSums DEF CInv
    <3> QED BY <3>4, <3>6, <3>7, <3>8, <3>9
  <2> QED BY <1>2, <2>1 DEF CInv, Covered
<1> QED BY <1>2, <1>6, <1>7, <1>8, <1>11, <1>12 DEF CInv

\* SwapClaim pays what was owed to the swap.
LEMMA ClaimClaimsKeep ==
  ASSUME IInv, CInv, NEW s \in Swaps, SwapClaim(s)
  PROVE  CInv'
<1>1. PICK D, key, out : /\ D = DOMAIN swaps /\ key = BatchOf(s)
                         /\ out = ProRata(outputs[key], swaps[s].input[2], swaps[s].input[3])
  OBVIOUS
<1>2. /\ phase = "txs" /\ phase' = "txs" /\ s \in D /\ key \in DOMAIN outputs /\ ~swaps[s].nullified
      /\ swaps' = [swaps EXCEPT ![s].nullified = TRUE]
      /\ paid' = [paid EXCEPT ![key] = <<@[1] + out[1], @[2] + out[2]>>]
      /\ outputs' = outputs /\ flows' = flows /\ height' = height
  BY <1>1 DEF SwapClaim, Transaction, BatchOf
<1>3. IsFiniteSet(D) /\ swaps \in [D -> Swapped]
  BY <1>1 DEF CInv, SwapsOK
<1>4. /\ DOMAIN swaps' = D /\ swaps' \in [D -> Swapped]
      /\ \A x \in D : swaps'[x].input = swaps[x].input /\ swaps'[x].height = swaps[x].height
      /\ \A x \in D : x # s => swaps'[x].nullified = swaps[x].nullified
      /\ swaps'[s].nullified
  BY <1>2, <1>3 DEF Swapped
<1>5. \A x \in D : BatchOf(x)' = BatchOf(x)
  BY <1>4 DEF BatchOf
<1>6. DOMAIN outputs = DOMAIN paid /\ key \in DOMAIN paid /\ DOMAIN paid' = DOMAIN paid
  BY <1>2 DEF CInv, OutputsOK, Batching
<1>7. SwapsOK'
  <2>1. ASSUME NEW x \in D
        PROVE  swaps'[x].height <= height' /\ (swaps'[x].nullified => BatchOf(x)' \in DOMAIN paid')
    <3>1. swaps'[x].height <= height'
      BY <1>1, <1>2, <1>4 DEF CInv, SwapsOK
    <3>2. swaps'[x].nullified => BatchOf(x)' \in DOMAIN paid'
      BY <1>1, <1>4, <1>5, <1>6 DEF CInv, SwapsOK
    <3> QED BY <3>1, <3>2
  <2> QED BY <1>3, <1>4, <2>1 DEF SwapsOK
<1>8. out[1] \in Nat /\ out[2] \in Nat
  <2>1. outputs[key] \in OutputData
    BY <1>2 DEF CInv, OutputsOK
  <2>2. swaps[s].input[2] \in Nat /\ swaps[s].input[3] \in Nat
    BY <1>1, <1>2, SwapParts DEF CInv
  <2> QED BY <1>1, <2>1, <2>2, ShareBound
<1>9. /\ paid' \in [DOMAIN paid -> Nat \X Nat]
      /\ \A k \in DOMAIN paid, n \in 1..2 : paid'[k][n] = paid[k][n] + (IF k = key THEN out[n] ELSE 0)
      /\ \A k \in DOMAIN paid, n \in 1..2 : paid[k][n] \in Nat
  <2>1. paid \in [DOMAIN paid -> Nat \X Nat]
    BY DEF CInv, OutputsOK
  <2>2. paid[key] \in Nat \X Nat
    BY <1>6, <2>1
  <2>3. paid'[key] = <<paid[key][1] + out[1], paid[key][2] + out[2]>> /\ paid'[key] \in Nat \X Nat
    BY <1>2, <1>6, <1>8, <2>2
  <2>4. paid' \in [DOMAIN paid -> Nat \X Nat]
    <3>1. PICK x : x = <<paid[key][1] + out[1], paid[key][2] + out[2]>>
      OBVIOUS
    <3>2. paid' = [paid EXCEPT ![key] = x] /\ x \in Nat \X Nat
      BY <1>2, <1>8, <2>2, <3>1
    <3> QED BY <2>1, <3>2
  <2>5. ASSUME NEW k \in DOMAIN paid, NEW n \in 1..2
        PROVE  paid'[k][n] = paid[k][n] + (IF k = key THEN out[n] ELSE 0) /\ paid[k][n] \in Nat
    <3>1. n = 1 \/ n = 2
      OBVIOUS
    <3>2. paid[k] \in Nat \X Nat
      BY <2>1
    <3>3. paid[k][n] \in Nat
      BY <3>1, <3>2
    <3>4. CASE k = key
      BY <2>3, <3>1, <3>3, <3>4
    <3>5. CASE k # key
      BY <1>2, <3>3, <3>5
    <3> QED BY <3>3, <3>4, <3>5
  <2> QED BY <2>4, <2>5
<1>10. OutputsOK'
  BY <1>2, <1>6, <1>9 DEF CInv, OutputsOK, Batching
<1>11. ASSUME NEW k, NEW n \in 1..2 PROVE Brought(k, n)' = Brought(k, n)
  <2>1. \A x \in D : BroughtBy(x, k, n)' = BroughtBy(x, k, n)
    BY <1>4, <1>5 DEF BroughtBy
  <2> QED BY <1>1, <1>4, <2>1 DEF Brought
<1>12. FlowsExact'
  <2>1. ASSUME NEW p \in Pairs, NEW n \in 1..2 PROVE FlowIn(flows', p, n) = Brought(<<height, p>>, n)'
    <3>1. PICK k : k = <<height, p>>
      OBVIOUS
    <3>2. FlowIn(flows, p, n) = Brought(k, n) /\ Brought(k, n)' = Brought(k, n)
      BY <1>2, <1>11, <3>1 DEF CInv, FlowsExact
    <3>3. <<height', p>> = k
      BY <1>2, <3>1
    <3> QED BY <1>2, <3>2, <3>3
  <2>2. ~Batching'
    BY <1>2 DEF Batching
  <2> QED BY <2>1, <2>2 DEF FlowsExact
<1>13. ASSUME NEW k \in DOMAIN paid, NEW n \in 1..2
       PROVE  Owed(k, n)' = Owed(k, n) - (IF k = key THEN out[n] ELSE 0)
  <2>1. PICK f, g : f = [x \in D |-> OwedTo(x, k, n)] /\ g = [x \in D |-> OwedTo(x, k, n)']
    OBVIOUS
  <2>2. \A x \in D : f[x] \in Int
    <3>1. \A x \in D : OwedTo(x, k, n) \in Nat
      BY <1>1, <1>6, SwapTerms DEF CInv
    <3> QED BY <2>1, <3>1
  <2>3. f[s] = (IF k = key THEN out[n] ELSE 0) /\ g[s] = 0
    BY <1>1, <1>2, <1>4, <2>1 DEF OwedTo
  <2>4. \A x \in D : x # s => g[x] = f[x]
    <3>1. ASSUME NEW x \in D, x # s PROVE OwedTo(x, k, n)' = OwedTo(x, k, n)
      BY <1>2, <1>4, <1>5, <3>1 DEF OwedTo
    <3> QED BY <2>1, <3>1
  <2>5. SumFunctionOnSet(g, D) = SumFunctionOnSet(f, D) + g[s] - f[s]
    BY <1>2, <1>3, <2>2, <2>3, <2>4, SumChange
  <2>6. Owed(k, n) = SumFunctionOnSet(f, D) /\ Owed(k, n)' = SumFunctionOnSet(g, D)
    BY <1>1, <1>4, <2>1 DEF Owed
  <2>7. Owed(k, n) \in Nat
    BY <1>6, SwapSums DEF CInv
  <2>8. f[s] \in Int
    BY <1>2, <2>2
  <2> QED BY <2>3, <2>5, <2>6, <2>7, <2>8
<1>14. Covered'
  <2>1. ASSUME NEW k \in DOMAIN paid, NEW n \in 1..2
        PROVE  paid'[k][n] + Owed(k, n)' = paid[k][n] + Owed(k, n)
    <3>1. Owed(k, n) \in Nat /\ (IF k = key THEN out[n] ELSE 0) \in Nat
      <4>1. n = 1 \/ n = 2
        OBVIOUS
      <4> QED BY <1>6, <1>8, <4>1, SwapSums DEF CInv
    <3> QED BY <1>9, <1>13, <3>1
  <2> QED BY <1>2, <1>6, <2>1 DEF CInv, Covered
<1> QED BY <1>2, <1>7, <1>10, <1>12, <1>14 DEF CInv

\* F.0 adds the fees to the flows.
LEMMA StartClaimsKeep ==
  ASSUME IInv, CInv, StartEndBlock
  PROVE  CInv'
<1>1. PICK w, z : w = [flows |-> flows, vcb |-> vcb] /\ z = FeeIter(w, AltFees)[AltFees]
  OBVIOUS
<1>2. FoldSet(LAMBDA a, acc : AccumulateFlow(acc, FeePair(a), FeeFlow(a, fees[a][1] + fees[a][2])),
              w, AltFees) = z
  BY <1>1, FeesAreIter
<1>3. /\ phase = "txs" /\ flows' = z.flows /\ fees' = fees /\ swaps' = swaps /\ outputs' = outputs
      /\ paid' = paid /\ height' = height
      /\ IF DOMAIN z.flows = {} THEN phase' = "arb"
         ELSE phase' = "batch12" /\ job' = FirstDirection(DOMAIN z.flows, z.flows)
  BY <1>1, <1>2 DEF StartEndBlock, txVars
<1>4. FeesOK /\ FlowsOK(flows) /\ FlowState(w) /\ w.flows = flows
  BY <1>1, <1>3 DEF IInv, Types, FlowState
<1>5. phase' = "batch12" => job'.todo = DOMAIN flows'
  BY <1>3 DEF FirstDirection, Direction, NoJob
<1>6. phase' = "arb" \/ phase' = "batch12"
  BY <1>3
<1>7. \A k, n : Brought(k, n)' = Brought(k, n) /\ Owed(k, n)' = Owed(k, n)
  BY <1>3 DEF Brought, BroughtBy, Owed, OwedTo, BatchOf
<1>8. FeesOK' /\ \A p, n : FeesTo(p, n)' = FeesTo(p, n)
  BY <1>3, <1>4 DEF FeesOK, FeesTo, FeeTo, AltFees
<1>9. SwapsOK' /\ height' \in Nat
  BY <1>3 DEF CInv, SwapsOK, BatchOf
<1>10. DOMAIN flows' \ job'.todo = {} \/ ~Batching'
  BY <1>5, <1>6 DEF Batching
<1>11. OutputsOK'
  <2>1. DOMAIN outputs = DOMAIN paid /\ \A k \in DOMAIN paid : k[1] \in Nat /\ k[1] < height
    BY <1>3 DEF CInv, OutputsOK, Batching
  <2>2. height \in Nat
    BY DEF CInv
  <2>3. DOMAIN outputs' = DOMAIN paid' \cup (IF Batching' THEN {height'} \X (DOMAIN flows' \ job'.todo) ELSE {})
    <3>1. Batching' => {height'} \X (DOMAIN flows' \ job'.todo) = {}
      BY <1>10
    <3> QED BY <1>3, <2>1, <3>1
  <2>4. \A k \in DOMAIN paid' : k[1] \in Nat /\ k[1] < height' /\ k[1] <= height'
    BY <1>3, <2>1, <2>2
  <2>5. outputs' \in [DOMAIN outputs' -> OutputData] /\ paid' \in [DOMAIN paid' -> Nat \X Nat]
    BY <1>3 DEF CInv, OutputsOK
  <2> QED BY <2>3, <2>4, <2>5 DEF OutputsOK
<1>12. FlowsExact'
  <2>1. phase' # "txs"
    BY <1>6
  <2>2. ASSUME NEW p \in Pairs, NEW n \in 1..2
        PROVE  FlowIn(flows', p, n) = Brought(<<height, p>>, n)' + FeesTo(p, n)'
    <3>1. PICK k : k = <<height, p>>
      OBVIOUS
    <3>2. FlowIn(z.flows, p, n) = FlowIn(flows, p, n) + FeesTo(p, n)
      BY <1>1, <1>4, FeesAdded
    <3>3. FlowIn(flows, p, n) = Brought(k, n)
      BY <1>3, <3>1 DEF CInv, FlowsExact
    <3>4. Brought(<<height, p>>, n)' = Brought(k, n)'
      BY <1>3, <3>1
    <3> QED BY <1>3, <1>7, <1>8, <3>2, <3>3, <3>4
  <2>3. Batching' => \A p \in DOMAIN flows' \ job'.todo : outputs'[<<height', p>>].delta = flows'[p]
    BY <1>10
  <2> QED BY <1>8, <2>1, <2>2, <2>3 DEF FlowsExact
<1>13. Covered'
  BY <1>3, <1>7 DEF CInv, Covered
<1> QED BY <1>9, <1>11, <1>12, <1>13 DEF CInv

\* The objects of the block are gone, and no swap of the next is there yet.
LEMMA BeginClaimsKeep ==
  ASSUME IInv, CInv, BeginBlock
  PROVE  CInv'
<1>1. /\ phase \in {"epoch", "rewarded"} /\ phase' = "txs" /\ height' = height + 1 /\ flows' = <<>>
      /\ swaps' = swaps /\ outputs' = outputs /\ paid' = paid
  BY DEF BeginBlock
<1>2. height \in Nat /\ height' \in Nat
  BY <1>1 DEF CInv
<1>3. \A k, n : Brought(k, n)' = Brought(k, n) /\ Owed(k, n)' = Owed(k, n)
  BY <1>1 DEF Brought, BroughtBy, Owed, OwedTo, BatchOf
<1>4. SwapsOK'
  <2>1. \A s \in DOMAIN swaps : swaps[s].height \in Nat /\ swaps[s].height <= height
    BY SwapParts DEF CInv
  <2>2. \A s \in DOMAIN swaps : swaps[s].height <= height'
    BY <1>1, <1>2, <2>1
  <2> QED BY <1>1, <2>2 DEF CInv, SwapsOK, BatchOf
<1>5. OutputsOK'
  <2>1. ~Batching /\ ~Batching'
    BY <1>1 DEF Batching
  <2>2. \A k \in DOMAIN paid' : k[1] \in Nat /\ k[1] < height'
    BY <1>1, <1>2, <2>1 DEF CInv, OutputsOK
  <2> QED BY <1>1, <2>1, <2>2 DEF CInv, OutputsOK
<1>6. FlowsExact'
  <2>1. ASSUME NEW p \in Pairs, NEW n \in 1..2 PROVE FlowIn(flows', p, n) = Brought(<<height, p>>, n)'
    <3>1. PICK k : k = <<height', p>>
      OBVIOUS
    <3>2. PICK f : f = [s \in DOMAIN swaps |-> BroughtBy(s, k, n)]
      OBVIOUS
    <3>3. \A s \in DOMAIN swaps : f[s] = 0
      <4>1. ASSUME NEW s \in DOMAIN swaps PROVE BatchOf(s) # k
        <5>1. swaps[s].height \in Nat /\ swaps[s].height <= height
          BY SwapParts DEF CInv
        <5> QED BY <1>1, <1>2, <3>1, <5>1 DEF BatchOf
      <4> QED BY <3>2, <4>1 DEF BroughtBy
    <3>4. SumFunctionOnSet(f, DOMAIN swaps) = 0
      BY <3>3, SumZero DEF CInv, SwapsOK
    <3>5. Brought(k, n) = 0
      BY <3>2, <3>4 DEF Brought
    <3>6. Brought(<<height, p>>, n)' = Brought(k, n)'
      BY <3>1
    <3>7. FlowIn(flows', p, n) = 0
      BY <1>1 DEF FlowIn
    <3> QED BY <1>3, <3>5, <3>6, <3>7
  <2>2. ~Batching'
    BY <1>1 DEF Batching
  <2> QED BY <2>1, <2>2 DEF FlowsExact
<1>7. Covered'
  BY <1>1, <1>3 DEF CInv, Covered
<1> QED BY <1>2, <1>4, <1>5, <1>6, <1>7 DEF CInv

\* What F.1 claims for the fee of an asset from the batch of pair q, in output n.
ClaimedBy(outs, a, q, n) ==
  IF FeePair(a) = q /\ q[n] = StakingToken
  THEN FeeShare(outs[<<height, FeePair(a)>>], a, fees[a][1])
         + FeeShare(outs[<<height, FeePair(a)>>], a, fees[a][2]) ELSE 0
Claimed(outs, q, n) == SumFunctionOnSet([a \in AltFees |-> ClaimedBy(outs, a, q, n)], AltFees)

\* What a fee claims is its share.
LEMMA FeeClaim ==
  ASSUME FeesOK, NEW outs, NEW a \in AltFees, NEW q, NEW n \in 1..2,
         NEW o \in OutputData, o = outs[<<height, q>>]
  PROVE  /\ ClaimedBy(outs, a, q, n) \in Nat
         /\ Scale(o) * ClaimedBy(outs, a, q, n)
              <= FeeTo(a, q, 1) * FirstWeight(o, n) + FeeTo(a, q, 2) * SecondWeight(o, n)
<1>1. PICK c, X, Y : c = Scale(o) /\ X = FirstWeight(o, n) /\ Y = SecondWeight(o, n)
  OBVIOUS
<1>2. c \in Nat /\ X \in Nat /\ Y \in Nat
  BY <1>1, ScaleParts
<1>3. PICK g, h : g = FeeTo(a, q, 1) /\ h = FeeTo(a, q, 2)
  OBVIOUS
<1>4. g \in Nat /\ h \in Nat
  BY <1>3, FeeToType
<1>5. g * X \in Nat /\ h * Y \in Nat
  BY <1>2, <1>4
<1>6. CASE ~(FeePair(a) = q /\ q[n] = StakingToken)
  <2>1. ClaimedBy(outs, a, q, n) = 0 /\ c * 0 = 0
    BY <1>2, <1>6 DEF ClaimedBy
  <2> QED BY <1>1, <1>3, <1>5, <2>1
<1>7. CASE FeePair(a) = q /\ q[n] = StakingToken
  <2>1. PICK x, y, u, v : /\ x = fees[a][1] /\ y = fees[a][2]
                          /\ u = FeeFlow(a, x) /\ v = FeeFlow(a, y)
    OBVIOUS
  <2>2. x \in Nat /\ y \in Nat /\ u \in Nat \X Nat /\ v \in Nat \X Nat
    BY <2>1, FeeParts
  <2>3. u[1] \in Nat /\ u[2] \in Nat /\ v[1] \in Nat /\ v[2] \in Nat
    BY <2>2
  <2>4. (IF FeePair(a)[1] = a THEN 2 ELSE 1) = n
    <3>1. n = 1 \/ n = 2
      OBVIOUS
    <3>2. a \in FeeAssets /\ a # StakingToken
      BY DEF AltFees, FeesOK
    <3>3. q = <<a, StakingToken>> \/ q = <<StakingToken, a>>
      BY <1>7, <3>2, PairOfFee
    <3> QED BY <1>7, <3>1, <3>2, <3>3
  <2>5. PICK r, s : r = ProRata(o, u[1], u[2])[n] /\ s = ProRata(o, v[1], v[2])[n]
    OBVIOUS
  <2>6. ClaimedBy(outs, a, q, n) = r + s
    <3>1. FeeShare(o, a, x) = r /\ FeeShare(o, a, y) = s
      BY <2>1, <2>4, <2>5 DEF FeeShare
    <3> QED BY <1>7, <2>1, <3>1 DEF ClaimedBy
  <2>7. r \in Nat /\ s \in Nat /\ c * r <= u[1] * X + u[2] * Y /\ c * s <= v[1] * X + v[2] * Y
    BY <1>1, <2>3, <2>5, ShareBound
  <2>8. g = u[1] + v[1] /\ h = u[2] + v[2]
    BY <1>3, <1>7, <2>1, <2>2 DEF FeeTo, FeeFlow
  <2>9. c * (r + s) <= g * X + h * Y
    <3>1. PICK u1, u2, v1, v2 : u1 = u[1] /\ u2 = u[2] /\ v1 = v[1] /\ v2 = v[2]
      OBVIOUS
    <3>2. u1 \in Nat /\ u2 \in Nat /\ v1 \in Nat /\ v2 \in Nat
      BY <2>3, <3>1
    <3>3. /\ c * (r + s) = c * r + c * s /\ (u1 + v1) * X = u1 * X + v1 * X
          /\ (u2 + v2) * Y = u2 * Y + v2 * Y
      BY <1>2, <2>7, <3>2
    <3>4. /\ c * r \in Nat /\ c * s \in Nat /\ u1 * X \in Nat /\ v1 * X \in Nat /\ u2 * Y \in Nat
          /\ v2 * Y \in Nat
      BY <1>2, <2>7, <3>2
    <3>5. c * r <= u1 * X + u2 * Y /\ c * s <= v1 * X + v2 * Y
      BY <2>7, <3>1
    <3>6. c * r + c * s <= (u1 * X + v1 * X) + (u2 * Y + v2 * Y)
      BY <3>4, <3>5
    <3> QED BY <2>8, <3>1, <3>3, <3>6
  <2> QED BY <1>1, <1>3, <2>6, <2>7, <2>9
<1> QED BY <1>6, <1>7

\* The swaps and the fees of a batch together claim no more than its output.
LEMMA BatchCovered ==
  ASSUME CInv, Batching, NEW outs, NEW q \in DOMAIN flows, q \in Pairs, NEW n \in 1..2,
         NEW o \in OutputData, o = outs[<<height, q>>], o.delta = flows[q],
         NEW f, f = [s \in DOMAIN swaps |-> IF BatchOf(s) = <<height, q>>
                                            THEN ProRata(o, swaps[s].input[2], swaps[s].input[3])[n] ELSE 0]
  PROVE  /\ Claimed(outs, q, n) \in Nat /\ SumFunctionOnSet(f, DOMAIN swaps) \in Nat
         /\ Claimed(outs, q, n) + SumFunctionOnSet(f, DOMAIN swaps) <= o.unfilled[n] + o.lambda[n]
<1>1. PICK k, c, X, Y : /\ k = <<height, q>> /\ c = Scale(o) /\ X = FirstWeight(o, n)
                        /\ Y = SecondWeight(o, n)
  OBVIOUS
<1>2. c \in Nat /\ X \in Nat /\ Y \in Nat
  BY <1>1, ScaleParts
<1>3. FeesOK /\ SwapsOK /\ OutputsOK /\ IsFiniteSet(DOMAIN swaps)
  BY DEF CInv, FlowsExact, SwapsOK
<1>4. IsFiniteSet(AltFees)
  <2>1. AltFees \subseteq DOMAIN fees
    BY DEF AltFees
  <2> QED BY <1>3, <2>1, FS_Subset DEF FeesOK
<1>5. PICK A, B1, B2, G, H1, H2 :
        /\ A = SumFunctionOnSet(f, DOMAIN swaps) /\ B1 = Brought(k, 1) /\ B2 = Brought(k, 2)
        /\ G = Claimed(outs, q, n) /\ H1 = FeesTo(q, 1) /\ H2 = FeesTo(q, 2)
  OBVIOUS
<1>6. Weighs(A, B1, B2, c, X, Y)
  <2>1. PICK S, g, h : /\ S = DOMAIN swaps /\ g = [s \in DOMAIN swaps |-> BroughtBy(s, k, 1)]
                       /\ h = [s \in DOMAIN swaps |-> BroughtBy(s, k, 2)]
    OBVIOUS
  <2>2. ASSUME NEW s \in S PROVE Weighs(f[s], g[s], h[s], c, X, Y)
    <3>1. PICK d1, d2 : d1 = swaps[s].input[2] /\ d2 = swaps[s].input[3]
      OBVIOUS
    <3>2. d1 \in Nat /\ d2 \in Nat
      BY <1>3, <2>1, <3>1, SwapParts
    <3>3. CASE BatchOf(s) = k
      <4>1. f[s] = ProRata(o, d1, d2)[n]
        BY <1>1, <2>1, <3>1, <3>3
      <4>2. g[s] = d1 /\ h[s] = d2
        BY <2>1, <3>1, <3>3 DEF BroughtBy
      <4> QED BY <1>1, <3>2, <4>1, <4>2, ShareBound DEF Weighs
    <3>4. CASE BatchOf(s) # k
      <4>1. f[s] = 0 /\ g[s] = 0 /\ h[s] = 0
        BY <1>1, <2>1, <3>4 DEF BroughtBy
      <4> QED BY <1>2, <4>1 DEF Weighs
    <3> QED BY <3>3, <3>4
  <2>3. Weighs(SumFunctionOnSet(f, S), SumFunctionOnSet(g, S), SumFunctionOnSet(h, S), c, X, Y)
    BY <1>2, <1>3, <2>1, <2>2, SumWeighted
  <2> QED BY <1>5, <2>1, <2>3 DEF Brought
<1>7. Weighs(G, H1, H2, c, X, Y)
  <2>1. PICK S, e, g, h : /\ S = AltFees /\ e = [a \in AltFees |-> ClaimedBy(outs, a, q, n)]
                          /\ g = [a \in AltFees |-> FeeTo(a, q, 1)]
                          /\ h = [a \in AltFees |-> FeeTo(a, q, 2)]
    OBVIOUS
  <2>2. ASSUME NEW a \in S PROVE Weighs(e[a], g[a], h[a], c, X, Y)
    <3>1. e[a] = ClaimedBy(outs, a, q, n) /\ g[a] = FeeTo(a, q, 1) /\ h[a] = FeeTo(a, q, 2)
      BY <2>1
    <3>2. FeeTo(a, q, 1) \in Nat /\ FeeTo(a, q, 2) \in Nat
      BY <1>3, <2>1, FeeToType
    <3>3. /\ ClaimedBy(outs, a, q, n) \in Nat
          /\ c * ClaimedBy(outs, a, q, n) <= FeeTo(a, q, 1) * X + FeeTo(a, q, 2) * Y
      BY <1>1, <1>3, <2>1, FeeClaim
    <3> QED BY <3>1, <3>2, <3>3 DEF Weighs
  <2>3. Weighs(SumFunctionOnSet(e, S), SumFunctionOnSet(g, S), SumFunctionOnSet(h, S), c, X, Y)
    BY <1>2, <1>4, <2>1, <2>2, SumWeighted
  <2> QED BY <1>5, <2>1, <2>3 DEF Claimed, FeesTo
<1>8. B1 + H1 = o.delta[1] /\ B2 + H2 = o.delta[2]
  <2>1. \A m \in 1..2 : FlowIn(flows, q, m) = Brought(<<height, q>>, m) + FeesTo(q, m)
    BY DEF CInv, FlowsExact
  <2>2. FlowIn(flows, q, 1) = flows[q][1] /\ FlowIn(flows, q, 2) = flows[q][2]
    BY DEF FlowIn
  <2> QED BY <1>1, <1>5, <2>1, <2>2
<1>9. c * (G + A) <= (B1 + H1) * X + (B2 + H2) * Y
  <2>1. /\ c * (G + A) = c * G + c * A /\ (B1 + H1) * X = B1 * X + H1 * X
        /\ (B2 + H2) * Y = B2 * Y + H2 * Y
    BY <1>2, <1>6, <1>7 DEF Weighs
  <2>2. /\ c * G \in Nat /\ c * A \in Nat /\ B1 * X \in Nat /\ H1 * X \in Nat /\ B2 * Y \in Nat
        /\ H2 * Y \in Nat
    BY <1>2, <1>6, <1>7 DEF Weighs
  <2>3. c * G + c * A <= (B1 * X + H1 * X) + (B2 * Y + H2 * Y)
    BY <1>6, <1>7, <2>2 DEF Weighs
  <2> QED BY <2>1, <2>3
<1>10. PICK d1, d2, s : d1 = B1 + H1 /\ d2 = B2 + H2 /\ s = G + A
  OBVIOUS
<1>11. /\ d1 \in Nat /\ d2 \in Nat /\ s \in Nat /\ d1 <= o.delta[1] /\ d2 <= o.delta[2]
       /\ Scale(o) * s <= d1 * FirstWeight(o, n) + d2 * SecondWeight(o, n)
  BY <1>1, <1>2, <1>6, <1>7, <1>8, <1>9, <1>10 DEF Weighs
<1>12. s <= o.unfilled[n] + o.lambda[n]
  BY <1>11, SharesCovered
<1> QED BY <1>5, <1>6, <1>7, <1>10, <1>12 DEF Weighs

\* What EndBatch does to the outputs and to what is paid.
LEMMA BatchEnds ==
  ASSUME IInv, CInv, EndBatch, NEW p, p = NextPair(job.todo), NEW o, o = BatchOutput,
         NEW rest, rest = job.todo \ {p}
  PROVE  /\ phase = "batch21" /\ p \in job.todo /\ p \in Pairs /\ job.todo \subseteq DOMAIN flows
         /\ o \in OutputData /\ o.delta = flows[p] /\ outputs' = Put(outputs, <<height, p>>, o)
         /\ swaps' = swaps /\ flows' = flows /\ height' = height
         /\ IF rest # {} THEN phase' = "batch12" /\ job'.todo = rest /\ paid' = paid /\ fees' = fees
                         ELSE phase' = "arb" /\ ClaimFees(outputs')
<1>1. phase = "batch21"
  BY DEF EndBatch
<1>2. /\ p \in job.todo /\ p \in Pairs /\ job.todo \subseteq DOMAIN flows /\ flows[p] \in Nat \X Nat
      /\ flows[p][2] \in Nat /\ job.left \in Nat /\ job.out \in Nat /\ job.first[1] \in Nat
      /\ job.first[2] \in Nat
  BY <1>1, BatchState
<1>3. o \in OutputData /\ o.delta = flows[p]
  <2>1. PICK y, n : y = flows[p][2] /\ n = Clamped(y)
    OBVIOUS
  <2>2. y \in Nat /\ n \in Nat /\ n <= y
    BY <1>2, <2>1, ClampedExact
  <2>3. o = [delta |-> flows[p], lambda |-> <<job.out, job.first[2]>>,
             unfilled |-> <<job.first[1], y - (n - job.left)>>]
    BY <2>1 DEF BatchOutput
  <2>4. y - (n - job.left) \in Nat
    BY <1>2, <2>2
  <2> QED BY <1>2, <2>3, <2>4 DEF OutputData
<1>4. phase' # "panicked"
  <2>1. phase' \in Phases
    BY BatchKeeps DEF IInv, Types
  <2> QED BY <2>1 DEF Phases
<1>5. /\ outputs' = Put(outputs, <<height, p>>, o) /\ swaps' = swaps /\ flows' = flows /\ height' = height
      /\ IF rest # {} THEN phase' = "batch12" /\ job' = FirstDirection(rest, flows) /\ paid' = paid /\ fees' = fees
                      ELSE phase' = "arb" /\ ClaimFees(outputs')
  BY <1>4 DEF EndBatch, txVars
<1>6. FirstDirection(rest, flows).todo = rest
  BY DEF FirstDirection, Direction, NoJob
<1> QED BY <1>1, <1>2, <1>3, <1>5, <1>6

\* F.1 takes out of each batch what its fees claim.
LEMMA FeesPaid ==
  ASSUME NEW outs, ClaimFees(outs)
  PROVE  /\ DOMAIN paid' = DOMAIN paid \cup ({height} \X DOMAIN flows)
         /\ \A k \in DOMAIN paid : paid'[k] = paid[k]
         /\ \A q \in DOMAIN flows : <<height, q>> \notin DOMAIN paid =>
               paid'[<<height, q>>] = <<Claimed(outs, q, 1), Claimed(outs, q, 2)>>
<1> DEFINE share(a, n) == IF a = StakingToken THEN fees[a][n]
                          ELSE FeeShare(outs[<<height, FeePair(a)>>], a, fees[a][n])
           claimed(p, n) == SumFunction([a \in AltFees |-> IF FeePair(a) = p /\ p[n] = StakingToken
                                                           THEN share(a, 1) + share(a, 2) ELSE 0])
<1>1. paid' = [k \in DOMAIN paid \cup ({height} \X DOMAIN flows) |->
                 IF k \in DOMAIN paid THEN paid[k] ELSE <<claimed(k[2], 1), claimed(k[2], 2)>>]
  BY DEF ClaimFees
<1>2. ASSUME NEW q, NEW n PROVE claimed(q, n) = Claimed(outs, q, n)
  <2>1. \A a \in AltFees : a # StakingToken
    BY DEF AltFees
  <2>2. \A a \in AltFees : (IF FeePair(a) = q /\ q[n] = StakingToken THEN share(a, 1) + share(a, 2) ELSE 0)
                             = ClaimedBy(outs, a, q, n)
    BY <2>1 DEF ClaimedBy
  <2>3. PICK f, g : /\ f = [a \in AltFees |-> IF FeePair(a) = q /\ q[n] = StakingToken
                                              THEN share(a, 1) + share(a, 2) ELSE 0]
                    /\ g = [a \in AltFees |-> ClaimedBy(outs, a, q, n)]
    OBVIOUS
  <2>4. f = g
    BY <2>2, <2>3
  <2>5. claimed(q, n) = SumFunctionOnSet(f, AltFees) /\ Claimed(outs, q, n) = SumFunctionOnSet(g, AltFees)
    BY <2>3 DEF Claimed, SumFunction
  <2> QED BY <2>4, <2>5
<1> HIDE DEF claimed
<1>3. ASSUME NEW q \in DOMAIN flows, <<height, q>> \notin DOMAIN paid
      PROVE  paid'[<<height, q>>] = <<Claimed(outs, q, 1), Claimed(outs, q, 2)>>
  <2>1. <<height, q>> \in DOMAIN paid \cup ({height} \X DOMAIN flows) /\ <<height, q>>[2] = q
    OBVIOUS
  <2>2. paid'[<<height, q>>] = <<claimed(q, 1), claimed(q, 2)>>
    BY <1>1, <1>3, <2>1
  <2> QED BY <1>2, <2>2
<1> QED BY <1>1, <1>3

\* set_output_data and the claims of the fees.
LEMMA BatchClaimsKeep ==
  ASSUME IInv, CInv, EndBatch
  PROVE  CInv'
<1>1. PICK p, o, rest, done : /\ p = NextPair(job.todo) /\ o = BatchOutput /\ rest = job.todo \ {p}
                           /\ done = DOMAIN paid
  OBVIOUS
<1>2. /\ phase = "batch21" /\ p \in job.todo /\ p \in Pairs /\ job.todo \subseteq DOMAIN flows
      /\ o \in OutputData /\ o.delta = flows[p] /\ outputs' = Put(outputs, <<height, p>>, o)
      /\ swaps' = swaps /\ flows' = flows /\ height' = height
      /\ IF rest # {} THEN phase' = "batch12" /\ job'.todo = rest /\ paid' = paid /\ fees' = fees
                      ELSE phase' = "arb" /\ ClaimFees(outputs')
  BY <1>1, BatchEnds
<1>3. Batching /\ height \in Nat /\ SwapsOK /\ OutputsOK /\ DOMAIN flows \subseteq Pairs
  BY <1>2 DEF Batching, CInv, IInv, Types, FlowsOK
<1>4. /\ outputs \in [DOMAIN outputs -> OutputData] /\ paid \in [done -> Nat \X Nat]
      /\ DOMAIN outputs = done \cup {height} \X (DOMAIN flows \ job.todo)
      /\ \A k \in done : k[1] \in Nat /\ k[1] < height
  BY <1>1, <1>3 DEF OutputsOK
<1>5. \A q : <<height, q>> \notin done
  <2>1. \A q : <<height, q>>[1] = height
    OBVIOUS
  <2> QED BY <1>3, <1>4, <2>1
<1>6. /\ DOMAIN outputs' = done \cup {height} \X (DOMAIN flows \ rest)
      /\ outputs' \in [DOMAIN outputs' -> OutputData]
      /\ outputs'[<<height, p>>] = o
      /\ \A k : k # <<height, p>> /\ k \in DOMAIN outputs => outputs'[k] = outputs[k]
  <2>1. DOMAIN outputs' = DOMAIN outputs \cup {<<height, p>>}
    BY <1>2 DEF Put
  <2>2. {height} \X (DOMAIN flows \ rest) = ({height} \X (DOMAIN flows \ job.todo)) \cup {<<height, p>>}
    BY <1>1, <1>2
  <2>3. outputs'[<<height, p>>] = o /\ \A k \in DOMAIN outputs : k # <<height, p>> => outputs'[k] = outputs[k]
    BY <1>2 DEF Put
  <2>4. outputs' \in [DOMAIN outputs' -> OutputData]
    <3>1. outputs' = [k \in DOMAIN outputs' |-> outputs'[k]]
      BY <1>2 DEF Put
    <3>2. \A k \in DOMAIN outputs' : outputs'[k] \in OutputData
      BY <1>2, <1>4, <2>1, <2>3
    <3> QED BY <3>1, <3>2
  <2> QED BY <1>4, <2>1, <2>2, <2>3, <2>4
<1>7. \A k \in done : k \in DOMAIN outputs /\ k \in DOMAIN outputs' /\ outputs'[k] = outputs[k]
  BY <1>4, <1>5, <1>6
<1>8. \A s : BatchOf(s)' = BatchOf(s)
  BY <1>2 DEF BatchOf
<1>9. \A k, n : Brought(k, n)' = Brought(k, n)
  BY <1>2 DEF Brought, BroughtBy, BatchOf
<1>10. \A k \in done, n \in 1..2 : Owed(k, n)' = Owed(k, n)
  <2>1. ASSUME NEW k \in done, NEW n \in 1..2 PROVE Owed(k, n)' = Owed(k, n)
    <3>1. \A s \in DOMAIN swaps : OwedTo(s, k, n)' = OwedTo(s, k, n)
      BY <1>2, <1>7, <1>8 DEF OwedTo
    <3> QED BY <1>2, <3>1 DEF Owed
  <2> QED BY <2>1
<1>11. \A q \in DOMAIN flows \ rest : /\ outputs'[<<height, q>>] \in OutputData
                                      /\ outputs'[<<height, q>>].delta = flows[q]
  <2>1. ASSUME NEW q \in DOMAIN flows \ rest
        PROVE  /\ outputs'[<<height, q>>] \in OutputData
               /\ outputs'[<<height, q>>].delta = flows[q]
    <3>1. CASE q = p
      BY <1>2, <1>6, <3>1
    <3>2. CASE q # p
      <4>1. q \in DOMAIN flows \ job.todo /\ <<height, q>> # <<height, p>>
        BY <1>1, <2>1, <3>2
      <4>2. <<height, q>> \in DOMAIN outputs
        BY <1>4, <4>1
      <4>3. outputs[<<height, q>>].delta = flows[q]
        BY <1>3, <4>1 DEF CInv, FlowsExact
      <4> QED BY <1>4, <1>6, <4>1, <4>2, <4>3
    <3> QED BY <3>1, <3>2
  <2> QED BY <2>1
<1>12. CASE rest # {}
  <2>1. /\ phase' = "batch12" /\ job'.todo = rest /\ paid' = paid /\ fees' = fees /\ Batching'
        /\ phase' # "txs"
    BY <1>2, <1>12 DEF Batching
  <2>2. SwapsOK'
    BY <1>2, <1>3, <1>8, <2>1 DEF SwapsOK
  <2>3. OutputsOK'
    BY <1>1, <1>2, <1>4, <1>6, <2>1 DEF OutputsOK
  <2>4. FeesOK' /\ \A q, n : FeesTo(q, n)' = FeesTo(q, n)
    BY <1>3, <2>1 DEF CInv, FlowsExact, FeesOK, FeesTo, FeeTo, AltFees
  <2>5. FlowsExact'
    <3>1. ASSUME NEW q \in Pairs, NEW n \in 1..2
          PROVE  FlowIn(flows', q, n) = Brought(<<height, q>>, n)' + FeesTo(q, n)'
      <4>1. PICK k : k = <<height, q>>
        OBVIOUS
      <4>2. FlowIn(flows, q, n) = Brought(k, n) + FeesTo(q, n)
        BY <1>3, <4>1 DEF CInv, FlowsExact
      <4>3. Brought(<<height, q>>, n)' = Brought(k, n)'
        BY <1>2, <4>1
      <4> QED BY <1>2, <1>9, <2>4, <4>2, <4>3
    <3>2. \A q \in DOMAIN flows' \ job'.todo : outputs'[<<height', q>>].delta = flows'[q]
      BY <1>2, <1>11, <2>1
    <3> QED BY <2>1, <2>4, <3>1, <3>2 DEF FlowsExact
  <2>6. Covered'
    BY <1>1, <1>7, <1>10, <2>1 DEF CInv, Covered
  <2> QED BY <1>2, <1>3, <2>2, <2>3, <2>5, <2>6 DEF CInv
<1>13. CASE rest = {}
  <2>1. phase' = "arb" /\ ClaimFees(outputs') /\ ~Batching' /\ phase' # "txs"
    BY <1>2, <1>13 DEF Batching
  <2>2. PICK outs : outs = outputs'
    OBVIOUS
  <2>3. /\ DOMAIN paid' = done \cup ({height} \X DOMAIN flows)
        /\ \A k \in done : paid'[k] = paid[k]
        /\ \A q \in DOMAIN flows : paid'[<<height, q>>] = <<Claimed(outs, q, 1), Claimed(outs, q, 2)>>
    BY <1>1, <1>5, <2>1, <2>2, FeesPaid
  <2>4. DOMAIN outputs' = DOMAIN paid'
    BY <1>6, <1>13, <2>3
  <2>5. SwapsOK'
    BY <1>1, <1>2, <1>3, <1>8, <2>3 DEF SwapsOK
  <2>6. ASSUME NEW q \in DOMAIN flows, NEW n \in 1..2, NEW k, k = <<height, q>>
        PROVE  /\ Claimed(outs, q, n) \in Nat
               /\ paid'[k][n] + Owed(k, n)' <= outputs'[k].unfilled[n] + outputs'[k].lambda[n]
    <3>1. PICK r, f : /\ r = outs[k]
                      /\ f = [s \in DOMAIN swaps |-> IF BatchOf(s) = <<height, q>>
                                 THEN ProRata(r, swaps[s].input[2], swaps[s].input[3])[n] ELSE 0]
      OBVIOUS
    <3>2. r \in OutputData /\ r.delta = flows[q] /\ q \in Pairs
      BY <1>3, <1>11, <1>13, <2>2, <2>6, <3>1
    <3>3. /\ Claimed(outs, q, n) \in Nat /\ SumFunctionOnSet(f, DOMAIN swaps) \in Nat
          /\ Claimed(outs, q, n) + SumFunctionOnSet(f, DOMAIN swaps) <= r.unfilled[n] + r.lambda[n]
      BY <1>3, <2>6, <3>1, <3>2, BatchCovered
    <3>4. paid'[k][n] = Claimed(outs, q, n)
      <4>1. n = 1 \/ n = 2
        OBVIOUS
      <4> QED BY <2>3, <2>6, <3>1, <4>1
    <3>5. Owed(k, n)' = SumFunctionOnSet(f, DOMAIN swaps)
      <4>1. ASSUME NEW s \in DOMAIN swaps PROVE OwedTo(s, k, n)' = f[s]
        <5>1. BatchOf(s) = k => ~swaps[s].nullified
          BY <1>1, <1>3, <1>5, <2>6 DEF SwapsOK
        <5>2. swaps[s].nullified \in BOOLEAN
          BY <1>3, SwapParts
        <5> QED BY <1>2, <1>8, <2>2, <2>6, <3>1, <5>1, <5>2 DEF OwedTo
      <4>2. [s \in DOMAIN swaps |-> OwedTo(s, k, n)'] = f
        BY <2>6, <3>1, <4>1
      <4> QED BY <1>2, <4>2 DEF Owed
    <3> QED BY <2>2, <2>6, <3>1, <3>3, <3>4, <3>5
  <2>7. OutputsOK'
    <3>1. paid' \in [DOMAIN paid' -> Nat \X Nat]
      <4>1. paid' = [k \in DOMAIN paid' |-> paid'[k]]
        BY <2>1 DEF ClaimFees
      <4>2. ASSUME NEW k \in DOMAIN paid' PROVE paid'[k] \in Nat \X Nat
        <5>1. CASE k \in done
          BY <1>4, <2>3, <5>1
        <5>2. CASE k \notin done
          <6>1. PICK q \in DOMAIN flows : k = <<height, q>>
            BY <2>3, <5>2
          <6>2. paid'[k] = <<Claimed(outs, q, 1), Claimed(outs, q, 2)>>
            BY <2>3, <6>1
          <6>3. Claimed(outs, q, 1) \in Nat /\ Claimed(outs, q, 2) \in Nat
            BY <2>6, <6>1
          <6> QED BY <6>2, <6>3
        <5> QED BY <5>1, <5>2
      <4> QED BY <4>1, <4>2
    <3>2. \A k \in DOMAIN paid' : k[1] \in Nat /\ k[1] <= height'
      BY <1>2, <1>3, <1>4, <2>3
    <3> QED BY <1>6, <2>1, <2>4, <3>1, <3>2 DEF OutputsOK
  <2>8. FlowsExact'
    BY <2>1 DEF FlowsExact
  <2>9. Covered'
    <3>1. ASSUME NEW k \in DOMAIN paid', NEW n \in 1..2
          PROVE  paid'[k][n] + Owed(k, n)' <= outputs'[k].unfilled[n] + outputs'[k].lambda[n]
      <4>1. CASE k \in done
        BY <1>1, <1>7, <1>10, <2>3, <4>1 DEF CInv, Covered
      <4>2. CASE k \notin done
        <5>1. PICK q \in DOMAIN flows : k = <<height, q>>
          BY <2>3, <4>2
        <5> QED BY <1>2, <2>6, <5>1
      <4> QED BY <4>1, <4>2
    <3> QED BY <3>1 DEF Covered
  <2> QED BY <1>2, <1>3, <2>5, <2>7, <2>8, <2>9 DEF CInv
<1> QED BY <1>12, <1>13

\* The operations that touch no swap and no batch output.
LEMMA OthersKeepClaims ==
  ASSUME IInv, CInv,
         \/ UNCHANGED vars
         \/ \E i \in Ids : \/ \E r \in InitReserves[i] : PositionOpen(i, r)
                           \/ PositionClose(i) \/ PositionWithdraw(i)
                           \/ \E amount \in Rewards : RewardPosition(i, amount)
         \/ \E f \in FeeInputs : PayFee(f)
         \/ EndArbitrage \/ FinishBlock
  PROVE  CInv'
<1> DEFINE Leaves == \/ UNCHANGED <<fees, job, phase>>
                     \/ phase = "txs" /\ phase' = "txs"
                     \/ /\ phase \in {"arb", "finish", "epoch"}
                        /\ phase' \in {"finish", "epoch", "rewarded", "panicked"}
           Same == UNCHANGED <<swaps, outputs, paid, flows, height>>
<1>1. ASSUME UNCHANGED vars PROVE Same /\ Leaves
  BY <1>1 DEF vars, txVars
<1>2. ASSUME NEW i \in Ids, NEW r \in InitReserves[i], PositionOpen(i, r) PROVE Same /\ Leaves
  BY <1>2 DEF PositionOpen, Transaction
<1>3. ASSUME NEW i \in Ids, PositionClose(i) \/ PositionWithdraw(i) PROVE Same /\ Leaves
  BY <1>3 DEF PositionClose, PositionWithdraw, Transaction
<1>4. ASSUME NEW i \in Ids, NEW amount \in Rewards, RewardPosition(i, amount) PROVE Same /\ Leaves
  BY <1>4 DEF RewardPosition, txVars
<1>5. ASSUME NEW f \in FeeInputs, PayFee(f) PROVE Same /\ Leaves
  BY <1>5 DEF PayFee, Transaction
<1>6. ASSUME EndArbitrage \/ FinishBlock PROVE Same /\ Leaves
  BY <1>6 DEF EndArbitrage, FinishBlock, txVars
<1>7. Same /\ Leaves
  BY <1>1, <1>2, <1>3, <1>4, <1>5, <1>6
<1>8. (phase' = "txs") <=> (phase = "txs")
  BY <1>7
<1>9. Batching' <=> Batching
  BY <1>7 DEF Batching
<1>10. Batching => UNCHANGED <<fees, job.todo>>
  BY <1>7 DEF Batching
<1> QED BY <1>7, <1>8, <1>9, <1>10, SameClaims

\* The steps of a batch and the rounds of route_and_fill.
LEMMA RoundsKeepClaims ==
  ASSUME IInv, CInv,
         \/ EndFirstDirection
         \/ \E route \in Routes : \/ \E k \in 1..(Cardinality(Ids) + 1) : FillRound(route, k)
                                  \/ \E i \in Ids : OverflowRound(route, i)
  PROVE  CInv'
<1>1. UNCHANGED <<swaps, outputs, paid, flows, fees, height>>
  BY DEF txVars, EndFirstDirection, FillRound, OverflowRound
<1>2. phase' = phase \/ (phase = "batch12" /\ phase' = "batch21")
  <2>1. CASE EndFirstDirection
    BY <2>1 DEF EndFirstDirection
  <2>2. ASSUME NEW route \in Routes, NEW k \in 1..(Cardinality(Ids) + 1), FillRound(route, k)
        PROVE  phase' = phase
    <3>1. k \in Nat
      BY PositionAssumption, FS_CardinalityType
    <3> QED BY <2>2, <3>1, FillExact
  <2>3. ASSUME NEW route \in Routes, NEW i \in Ids, OverflowRound(route, i) PROVE phase' = phase
    BY <2>3 DEF OverflowRound
  <2> QED BY <2>1, <2>2, <2>3
<1>3. job'.todo = job.todo
  <2>1. IsJob(job)
    BY DEF IInv, Types
  <2>2. CASE EndFirstDirection
    BY <2>1, <2>2 DEF EndFirstDirection, Direction, IsJob
  <2>3. ASSUME NEW route \in Routes, NEW k \in 1..(Cardinality(Ids) + 1), FillRound(route, k)
        PROVE  job'.todo = job.todo
    <3>1. PICK w : IF w.fails THEN job' = job ELSE job' = [job EXCEPT !.left = w.input, !.out = @ + w.output]
      BY <2>3 DEF FillRound
    <3> QED BY <2>1, <3>1 DEF IsJob
  <2>4. ASSUME NEW route \in Routes, NEW i \in Ids, OverflowRound(route, i) PROVE job'.todo = job.todo
    BY <2>4 DEF OverflowRound
  <2> QED BY <2>2, <2>3, <2>4
<1>4. (phase' = "txs") <=> (phase = "txs")
  BY <1>2
<1>5. Batching' <=> Batching
  BY <1>2 DEF Batching
<1> QED BY <1>1, <1>3, <1>4, <1>5, SameClaims

\* No batch has an output at the start.
LEMMA InitClaims ==
  ASSUME Init
  PROVE  CInv
<1>1. /\ swaps = <<>> /\ outputs = <<>> /\ paid = <<>> /\ flows = <<>> /\ height = 1 /\ phase = "txs"
  BY DEF Init
<1>2. DOMAIN swaps = {} /\ DOMAIN outputs = {} /\ DOMAIN paid = {} /\ DOMAIN flows = {}
  BY <1>1
<1>3. SwapsOK
  BY <1>1, <1>2, FS_EmptySet DEF SwapsOK
<1>4. OutputsOK
  BY <1>1, <1>2 DEF OutputsOK, Batching
<1>5. FlowsExact
  <2>1. ASSUME NEW k, NEW n PROVE Brought(k, n) = 0
    BY <1>2, SumEmpty DEF Brought
  <2> QED BY <1>1, <1>2, <2>1 DEF FlowsExact, FlowIn, Batching
<1> QED BY <1>1, <1>2, <1>3, <1>4, <1>5 DEF CInv, Covered

\* Every operation keeps what the claims of a batch rely on.
LEMMA NextClaims ==
  ASSUME IInv, CInv, [Next]_vars
  PROVE  CInv'
<1>1. ASSUME \/ UNCHANGED vars
             \/ \E i \in Ids : \/ \E r \in InitReserves[i] : PositionOpen(i, r)
                               \/ PositionClose(i) \/ PositionWithdraw(i)
                               \/ \E amount \in Rewards : RewardPosition(i, amount)
             \/ \E f \in FeeInputs : PayFee(f)
             \/ EndArbitrage \/ FinishBlock
      PROVE  CInv'
  BY <1>1, OthersKeepClaims
<1>2. ASSUME \/ EndFirstDirection
             \/ \E route \in Routes : \/ \E k \in 1..(Cardinality(Ids) + 1) : FillRound(route, k)
                                      \/ \E i \in Ids : OverflowRound(route, i)
      PROVE  CInv'
  BY <1>2, RoundsKeepClaims
<1>3. ASSUME NEW s \in Swaps, SwapClaim(s) PROVE CInv'
  BY <1>3, ClaimClaimsKeep
<1>4. ASSUME NEW s \in Swaps, NEW input \in SwapInputs, Swap(s, input) PROVE CInv'
  BY <1>4, SwapClaimsKeep
<1>5. CASE StartEndBlock
  BY <1>5, StartClaimsKeep
<1>6. CASE EndBatch
  BY <1>6, BatchClaimsKeep
<1>7. CASE BeginBlock
  BY <1>7, BeginClaimsKeep
<1> QED BY <1>1, <1>2, <1>3, <1>4, <1>5, <1>6, <1>7 DEF Next

\* What the swaps and the fees take out of a batch is covered by what left the
\* circuit breaker for it, for any swaps, fees, batches and fills.
THEOREM Claims == Spec => []ClaimsCovered
<1>1. Init => IInv /\ CInv
  BY InitHolds, InitClaims
<1>2. (IInv /\ CInv) /\ [Next]_vars => (IInv /\ CInv)'
  BY NextKeeps, NextClaims
<1>3. CInv => ClaimsCovered
  <2>1. SUFFICES ASSUME CInv, NEW k \in DOMAIN paid, NEW n \in 1..2
                 PROVE  paid[k][n] <= outputs[k].unfilled[n] + outputs[k].lambda[n]
    BY DEF ClaimsCovered
  <2>2. n = 1 \/ n = 2
    BY <2>1
  <2>3. k \in DOMAIN outputs /\ outputs[k] \in OutputData /\ paid[k] \in Nat \X Nat
    BY <2>1 DEF CInv, OutputsOK
  <2>4. Owed(k, n) \in Nat
    BY <2>1, <2>3, SwapSums DEF CInv
  <2>5. PICK x, y, z, u : /\ x = paid[k][n] /\ y = Owed(k, n) /\ z = outputs[k].unfilled[n]
                          /\ u = outputs[k].lambda[n]
    OBVIOUS
  <2>6. x \in Nat /\ y \in Nat /\ z \in Nat /\ u \in Nat
    BY <2>2, <2>3, <2>4, <2>5 DEF OutputData
  <2>7. x + y <= z + u
    BY <2>1, <2>5 DEF CInv, Covered
  <2> QED BY <2>5, <2>6, <2>7
<1> QED BY <1>1, <1>2, <1>3, PTL DEF Spec
=============================================================================
