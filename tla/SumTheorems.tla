----------------------------- MODULE SumTheorems -----------------------------
(***************************************************************************)
(* Facts about SumFunctionOnSet, the sum of the values of a function over  *)
(* a finite set, that the proofs about balances rest on.  The sum is       *)
(* defined by recursion over the subsets of the set, with an element       *)
(* chosen at every step; the facts say that the recursive function exists, *)
(* that the order does not matter, and what a change of one value does.    *)
(***************************************************************************)
EXTENDS Integers, Functions, FiniteSetTheorems, WellFoundedInduction, TLAPS

\* Induction over the naturals, with the property given as a set.
LEMMA NatSetInduction ==
  ASSUME NEW S, 0 \in S, \A n \in Nat : n \in S => n + 1 \in S
  PROVE  \A n \in Nat : n \in S
<1> DEFINE Bad == {n \in Nat : n \notin S}
           R == OpToRel(<, Nat)
<1>1. SUFFICES ASSUME Bad # {} PROVE FALSE
  OBVIOUS
<1>2. Bad \subseteq Nat
  OBVIOUS
<1>3. PICK m \in Bad : \A k \in Bad : ~(<<k, m>> \in R)
  <2> HIDE DEF Bad
  <2> QED BY <1>1, <1>2, NatLessThanWellFounded, WFMin, Zenon
<1>4. m \in Nat /\ m \notin S /\ m # 0
  OBVIOUS
<1>5. m - 1 \in Nat /\ m - 1 \notin S
  BY <1>4
<1>6. <<m - 1, m>> \in R
  BY <1>4, <1>5 DEF OpToRel
<1> QED BY <1>3, <1>5, <1>6

-----------------------------------------------------------------------------
(* The recursion                                                            *)

Chosen(T) == CHOOSE x \in T : TRUE

\* A value of the recursive function in MapThenFoldSet.
Step(f, g, T) == IF T = {} THEN 0 ELSE f[Chosen(T)] + g[T \ {Chosen(T)}]

Iter(f, S) == CHOOSE g : g = [T \in SUBSET S |-> Step(f, g, T)]

\* The sum is the value of the recursive function at the whole set.
LEMMA SumIsIter ==
  ASSUME NEW f, NEW S
  PROVE  SumFunctionOnSet(f, S) = Iter(f, S)[S]
BY DEF SumFunctionOnSet, FoldFunctionOnSet, MapThenFoldSet, Iter, Step, Chosen

\* Subsets of a finite set have a cardinality.
LEMMA SubsetFinite ==
  ASSUME NEW S, IsFiniteSet(S), NEW T \in SUBSET S
  PROVE  IsFiniteSet(T) /\ Cardinality(T) \in Nat
BY FS_Subset, FS_CardinalityType

\* Only the empty set has none.
LEMMA SubsetEmpty ==
  ASSUME NEW S, IsFiniteSet(S), NEW T \in SUBSET S, Cardinality(T) = 0
  PROVE  T = {}
BY SubsetFinite, FS_EmptySet

\* Taking an element away takes one from the cardinality.
LEMMA SubsetLess ==
  ASSUME NEW S, IsFiniteSet(S), NEW T \in SUBSET S, NEW x \in T
  PROVE  /\ T \ {x} \in SUBSET S
         /\ Cardinality(T) \in Nat /\ Cardinality(T \ {x}) = Cardinality(T) - 1
BY SubsetFinite, FS_RemoveElement

\* The chosen element of a set that is not empty, and the rest.
LEMMA SubsetChosen ==
  ASSUME NEW S, IsFiniteSet(S), NEW T \in SUBSET S, NEW n \in Nat, Cardinality(T) = n + 1
  PROVE  /\ T # {} /\ IsFiniteSet(T) /\ Chosen(T) \in T
         /\ T \ {Chosen(T)} \in SUBSET S /\ Cardinality(T \ {Chosen(T)}) = n
<1>1. IsFiniteSet(T)
  BY SubsetFinite
<1>2. T # {}
  <2>1. SUFFICES ASSUME T = {} PROVE FALSE
    OBVIOUS
  <2>2. Cardinality(T) = 0
    BY <2>1, FS_EmptySet
  <2> QED BY <2>2
<1>3. Chosen(T) \in T
  BY <1>2 DEF Chosen
<1>4. Cardinality(T \ {Chosen(T)}) = Cardinality(T) - 1
  BY <1>3, SubsetLess
<1>5. Cardinality(T \ {Chosen(T)}) = n
  BY <1>4
<1> QED BY <1>1, <1>2, <1>3, <1>5

\* The recursive function exists.
LEMMA IterDef ==
  ASSUME NEW f, NEW S, IsFiniteSet(S), NEW T \in SUBSET S
  PROVE  Iter(f, S)[T] = Step(f, Iter(f, S), T)
<1> DEFINE P(n) == \E g : /\ g = [U \in SUBSET S |-> g[U]]
                          /\ \A U \in SUBSET S :
                               Cardinality(U) <= n => g[U] = Step(f, g, U)
           N == {n \in Nat : P(n)}
<1>1. 0 \in N
  <2>1. PICK g : g = [U \in SUBSET S |-> 0]
    OBVIOUS
  <2>2. ASSUME NEW U \in SUBSET S, Cardinality(U) <= 0 PROVE g[U] = Step(f, g, U)
    <3>1. Cardinality(U) = 0
      BY <2>2, SubsetFinite
    <3>2. U = {}
      BY <3>1, SubsetEmpty
    <3> QED BY <2>1, <3>2 DEF Step
  <2>3. g = [U \in SUBSET S |-> g[U]]
    BY <2>1
  <2> QED BY <2>2, <2>3
<1>2. ASSUME NEW n \in Nat, n \in N PROVE n + 1 \in N
  <2>1. PICK g : /\ g = [U \in SUBSET S |-> g[U]]
                 /\ \A U \in SUBSET S : Cardinality(U) <= n => g[U] = Step(f, g, U)
    BY <1>2
  <2>2. PICK h : h = [U \in SUBSET S |-> IF Cardinality(U) = n + 1 THEN Step(f, g, U) ELSE g[U]]
    OBVIOUS
  <2>3. ASSUME NEW U \in SUBSET S, Cardinality(U) <= n + 1 PROVE h[U] = Step(f, h, U)
    <3>1. h[U] = Step(f, g, U)
      <4>1. Cardinality(U) \in Nat
        BY SubsetFinite
      <4>2. CASE Cardinality(U) = n + 1
        BY <2>2, <4>2
      <4>3. CASE Cardinality(U) # n + 1
        <5>1. Cardinality(U) <= n
          BY <2>3, <4>1, <4>3
        <5> QED BY <2>1, <2>2, <4>3, <5>1
      <4> QED BY <4>2, <4>3
    <3>2. U # {} => h[U \ {Chosen(U)}] = g[U \ {Chosen(U)}]
      <4>1. SUFFICES ASSUME U # {} PROVE h[U \ {Chosen(U)}] = g[U \ {Chosen(U)}]
        OBVIOUS
      <4>2. Chosen(U) \in U
        BY <4>1 DEF Chosen
      <4>4. /\ U \ {Chosen(U)} \in SUBSET S
            /\ Cardinality(U \ {Chosen(U)}) = Cardinality(U) - 1
            /\ Cardinality(U) \in Nat
        BY <4>2, SubsetLess
      <4>3. Cardinality(U \ {Chosen(U)}) # n + 1
        BY <2>3, <4>4
      <4> QED BY <2>2, <4>4, <4>3
    <3> QED BY <3>1, <3>2 DEF Step
  <2>4. h = [U \in SUBSET S |-> h[U]]
    BY <2>2
  <2>5. P(n + 1)
    BY <2>3, <2>4
  <2> HIDE DEF P
  <2> QED BY <2>5
<1>3. \A n \in Nat : n \in N
  <2> HIDE DEF N
  <2> QED BY <1>1, <1>2, NatSetInduction
<1>4. Cardinality(S) \in Nat
  BY FS_CardinalityType
<1>5. PICK g : /\ g = [U \in SUBSET S |-> g[U]]
               /\ \A U \in SUBSET S :
                    Cardinality(U) <= Cardinality(S) => g[U] = Step(f, g, U)
  BY <1>3, <1>4
<1>6. \A U \in SUBSET S : g[U] = Step(f, g, U)
  BY <1>5, FS_Subset
<1>7. g = [U \in SUBSET S |-> Step(f, g, U)]
  BY <1>5, <1>6
<1>8. Iter(f, S) = [U \in SUBSET S |-> Step(f, Iter(f, S), U)]
  BY <1>7 DEF Iter
<1> HIDE DEF Iter
<1> QED BY <1>8

\* The recursion does not depend on the set it ranges over, nor on the function
\* outside of the set that is summed.
LEMMA IterSame ==
  ASSUME NEW f, NEW g, NEW S, IsFiniteSet(S), NEW R, IsFiniteSet(R),
         \A x \in S \cap R : f[x] = g[x]
  PROVE  \A T \in SUBSET (S \cap R) : Iter(f, S)[T] = Iter(g, R)[T]
<1> DEFINE I == Iter(f, S)
           J == Iter(g, R)
           N == {n \in Nat : \A T \in SUBSET (S \cap R) : Cardinality(T) = n => I[T] = J[T]}
<1>0. ASSUME NEW T \in SUBSET (S \cap R)
      PROVE  I[T] = Step(f, I, T) /\ J[T] = Step(g, J, T)
  <2>1. T \in SUBSET S /\ T \in SUBSET R
    OBVIOUS
  <2> QED BY <2>1, IterDef
<1> HIDE DEF I, J
<1>1. 0 \in N
  <2>1. ASSUME NEW T \in SUBSET (S \cap R), Cardinality(T) = 0 PROVE I[T] = J[T]
    <3>1. T \in SUBSET S
      OBVIOUS
    <3>2. T = {}
      BY <2>1, <3>1, SubsetEmpty
    <3> QED BY <1>0, <3>2 DEF Step
  <2> QED BY <2>1
<1>2. ASSUME NEW n \in Nat, n \in N PROVE n + 1 \in N
  <2>1. ASSUME NEW T \in SUBSET (S \cap R), Cardinality(T) = n + 1 PROVE I[T] = J[T]
    <3>1. T \in SUBSET S
      OBVIOUS
    <3>2. T # {} /\ Chosen(T) \in T /\ Cardinality(T \ {Chosen(T)}) = n
      BY <2>1, <3>1, SubsetChosen
    <3>3. T \ {Chosen(T)} \in SUBSET (S \cap R)
      OBVIOUS
    <3>4. I[T \ {Chosen(T)}] = J[T \ {Chosen(T)}]
      BY <1>2, <3>2, <3>3
    <3>5. f[Chosen(T)] = g[Chosen(T)]
      BY <3>2
    <3> QED BY <1>0, <3>2, <3>4, <3>5 DEF Step
  <2> QED BY <2>1
<1>3. \A n \in Nat : n \in N
  <2> HIDE DEF N
  <2> QED BY <1>1, <1>2, NatSetInduction
<1>4. ASSUME NEW T \in SUBSET (S \cap R) PROVE I[T] = J[T]
  <2>1. T \in SUBSET S
    OBVIOUS
  <2>2. Cardinality(T) \in Nat
    BY <2>1, SubsetFinite
  <2> QED BY <1>3, <2>2
<1> QED BY <1>4 DEF I, J

-----------------------------------------------------------------------------
(* Sums                                                                     *)

\* The empty sum.
THEOREM SumEmpty ==
  ASSUME NEW f
  PROVE  SumFunctionOnSet(f, {}) = 0
<1>1. IsFiniteSet({}) /\ {} \in SUBSET {}
  BY FS_EmptySet
<1>2. Iter(f, {})[{}] = Step(f, Iter(f, {}), {})
  BY <1>1, IterDef
<1> QED BY <1>2, SumIsIter DEF Step

\* Only the values on the set matter.
THEOREM SumSame ==
  ASSUME NEW f, NEW g, NEW S, IsFiniteSet(S), \A x \in S : f[x] = g[x]
  PROVE  SumFunctionOnSet(f, S) = SumFunctionOnSet(g, S)
<1>1. S \in SUBSET (S \cap S) /\ \A x \in S \cap S : f[x] = g[x]
  OBVIOUS
<1>2. Iter(f, S)[S] = Iter(g, S)[S]
  BY <1>1, IterSame
<1> QED BY <1>2, SumIsIter

\* The step of the recursion.
LEMMA SumChosen ==
  ASSUME NEW f, NEW S, IsFiniteSet(S), S # {}
  PROVE  SumFunctionOnSet(f, S) = f[Chosen(S)] + SumFunctionOnSet(f, S \ {Chosen(S)})
<1>1. PICK T : T = S \ {Chosen(S)}
  OBVIOUS
<1>2. T \in SUBSET S /\ IsFiniteSet(T) /\ T \in SUBSET (S \cap T)
  BY <1>1, FS_Subset
<1>3. Iter(f, S)[S] = f[Chosen(S)] + Iter(f, S)[T]
  BY <1>1, IterDef DEF Step
<1>4. Iter(f, S)[T] = Iter(f, T)[T]
  BY <1>2, IterSame
<1> QED BY <1>1, <1>3, <1>4, SumIsIter

\* A sum of integers is an integer.
THEOREM SumType ==
  ASSUME NEW f, NEW S, IsFiniteSet(S), \A x \in S : f[x] \in Int
  PROVE  SumFunctionOnSet(f, S) \in Int
<1> DEFINE N == {n \in Nat : \A T \in SUBSET S : Cardinality(T) = n => SumFunctionOnSet(f, T) \in Int}
<1>1. 0 \in N
  <2>1. ASSUME NEW T \in SUBSET S, Cardinality(T) = 0 PROVE SumFunctionOnSet(f, T) \in Int
    <3>1. T = {}
      BY <2>1, SubsetEmpty
    <3> QED BY <3>1, SumEmpty
  <2> QED BY <2>1
<1>2. ASSUME NEW n \in Nat, n \in N PROVE n + 1 \in N
  <2>1. ASSUME NEW T \in SUBSET S, Cardinality(T) = n + 1 PROVE SumFunctionOnSet(f, T) \in Int
    <3>1. T # {} /\ IsFiniteSet(T) /\ Chosen(T) \in T
      BY <2>1, SubsetChosen
    <3>2. T \ {Chosen(T)} \in SUBSET S /\ Cardinality(T \ {Chosen(T)}) = n
      BY <2>1, SubsetChosen
    <3>3. SumFunctionOnSet(f, T \ {Chosen(T)}) \in Int /\ f[Chosen(T)] \in Int
      BY <1>2, <3>1, <3>2
    <3> QED BY <3>1, <3>3, SumChosen
  <2> QED BY <2>1
<1>3. \A n \in Nat : n \in N
  <2> HIDE DEF N
  <2> QED BY <1>1, <1>2, NatSetInduction
<1> QED BY <1>3, FS_CardinalityType

\* A sum of naturals is a natural.
THEOREM SumNat ==
  ASSUME NEW f, NEW S, IsFiniteSet(S), \A x \in S : f[x] \in Nat
  PROVE  SumFunctionOnSet(f, S) \in Nat
<1> DEFINE N == {n \in Nat : \A T \in SUBSET S : Cardinality(T) = n => SumFunctionOnSet(f, T) \in Nat}
<1>1. 0 \in N
  <2>1. ASSUME NEW T \in SUBSET S, Cardinality(T) = 0 PROVE SumFunctionOnSet(f, T) \in Nat
    <3>1. T = {}
      BY <2>1, SubsetEmpty
    <3> QED BY <3>1, SumEmpty
  <2> QED BY <2>1
<1>2. ASSUME NEW n \in Nat, n \in N PROVE n + 1 \in N
  <2>1. ASSUME NEW T \in SUBSET S, Cardinality(T) = n + 1 PROVE SumFunctionOnSet(f, T) \in Nat
    <3>1. T # {} /\ IsFiniteSet(T) /\ Chosen(T) \in T
      BY <2>1, SubsetChosen
    <3>2. T \ {Chosen(T)} \in SUBSET S /\ Cardinality(T \ {Chosen(T)}) = n
      BY <2>1, SubsetChosen
    <3>3. SumFunctionOnSet(f, T \ {Chosen(T)}) \in Nat /\ f[Chosen(T)] \in Nat
      BY <1>2, <3>1, <3>2
    <3> QED BY <3>1, <3>3, SumChosen
  <2> QED BY <2>1
<1>3. \A n \in Nat : n \in N
  <2> HIDE DEF N
  <2> QED BY <1>1, <1>2, NatSetInduction
<1> QED BY <1>3, FS_CardinalityType

\* Any element may be taken out first.
THEOREM SumRemove ==
  ASSUME NEW f, NEW S, IsFiniteSet(S), \A x \in S : f[x] \in Int, NEW x \in S
  PROVE  SumFunctionOnSet(f, S) = f[x] + SumFunctionOnSet(f, S \ {x})
<1> DEFINE Q(T) == \A y \in T : SumFunctionOnSet(f, T) = f[y] + SumFunctionOnSet(f, T \ {y})
           N == {n \in Nat : \A T \in SUBSET S : Cardinality(T) = n => Q(T)}
<1>1. 0 \in N
  <2>1. ASSUME NEW T \in SUBSET S, Cardinality(T) = 0 PROVE Q(T)
    BY <2>1, SubsetEmpty
  <2> QED BY <2>1
<1>2. ASSUME NEW n \in Nat, n \in N PROVE n + 1 \in N
  <2>1. ASSUME NEW T \in SUBSET S, Cardinality(T) = n + 1, NEW y \in T
        PROVE  SumFunctionOnSet(f, T) = f[y] + SumFunctionOnSet(f, T \ {y})
    <3>1. PICK c : c = Chosen(T)
      OBVIOUS
    <3>2. c \in T /\ IsFiniteSet(T)
      BY <2>1, <3>1, SubsetChosen
    <3>3. SumFunctionOnSet(f, T) = f[c] + SumFunctionOnSet(f, T \ {c})
      BY <3>1, <3>2, SumChosen
    <3>4. CASE y = c
      BY <3>3, <3>4
    <3>5. CASE y # c
      <4>1. ASSUME NEW z \in T
            PROVE  T \ {z} \in SUBSET S /\ Cardinality(T \ {z}) = n
        BY <2>1, SubsetLess
      <4>2. Q(T \ {c}) /\ Q(T \ {y})
        BY <1>2, <3>2, <4>1
      <4>3. SumFunctionOnSet(f, T \ {c}) = f[y] + SumFunctionOnSet(f, (T \ {c}) \ {y})
        BY <3>5, <4>2
      <4>4. SumFunctionOnSet(f, T \ {y}) = f[c] + SumFunctionOnSet(f, (T \ {y}) \ {c})
        BY <3>2, <3>5, <4>2
      <4>5. (T \ {y}) \ {c} = (T \ {c}) \ {y}
        OBVIOUS
      <4>6. PICK rest : rest = SumFunctionOnSet(f, (T \ {c}) \ {y})
        OBVIOUS
      <4>7. rest \in Int
        <5>1. IsFiniteSet((T \ {c}) \ {y}) /\ \A z \in (T \ {c}) \ {y} : f[z] \in Int
          BY <3>2, FS_Subset
        <5> QED BY <4>6, <5>1, SumType
      <4>8. f[c] \in Int /\ f[y] \in Int
        BY <3>2
      <4>9. /\ SumFunctionOnSet(f, T) = f[c] + (f[y] + rest)
            /\ SumFunctionOnSet(f, T \ {y}) = f[c] + rest
        BY <3>3, <4>3, <4>4, <4>5, <4>6
      <4> QED BY <4>7, <4>8, <4>9
    <3> QED BY <3>4, <3>5
  <2> QED BY <2>1
<1>3. \A n \in Nat : n \in N
  <2> HIDE DEF N
  <2> QED BY <1>1, <1>2, NatSetInduction
<1>4. Q(S)
  <2>1. Cardinality(S) \in Nat /\ S \in SUBSET S
    BY FS_CardinalityType
  <2> QED BY <1>3, <2>1
<1> QED BY <1>4

\* A change of one value changes the sum by as much.
THEOREM SumChange ==
  ASSUME NEW f, NEW g, NEW S, IsFiniteSet(S), \A y \in S : f[y] \in Int, NEW x \in S,
         g[x] \in Int, \A y \in S : y # x => g[y] = f[y]
  PROVE  SumFunctionOnSet(g, S) = SumFunctionOnSet(f, S) + g[x] - f[x]
<1>1. IsFiniteSet(S \ {x}) /\ \A y \in S \ {x} : f[y] = g[y] /\ f[y] \in Int
  BY FS_Subset
<1>2. PICK rest : rest = SumFunctionOnSet(f, S \ {x})
  OBVIOUS
<1>3. rest = SumFunctionOnSet(g, S \ {x}) /\ rest \in Int
  BY <1>1, <1>2, SumSame, SumType
<1>4. SumFunctionOnSet(f, S) = f[x] + rest
  BY <1>2, SumRemove
<1>5. SumFunctionOnSet(g, S) = g[x] + rest
  <2>1. \A y \in S : g[y] \in Int
    OBVIOUS
  <2> QED BY <1>3, <2>1, SumRemove
<1> QED BY <1>3, <1>4, <1>5

\* A new element adds its value.
THEOREM SumAdd ==
  ASSUME NEW f, NEW S, IsFiniteSet(S), NEW x, x \notin S,
         \A y \in S \cup {x} : f[y] \in Int
  PROVE  SumFunctionOnSet(f, S \cup {x}) = SumFunctionOnSet(f, S) + f[x]
<1>1. IsFiniteSet(S \cup {x}) /\ x \in S \cup {x} /\ (S \cup {x}) \ {x} = S
  BY FS_AddElement
<1>2. SumFunctionOnSet(f, S \cup {x}) = f[x] + SumFunctionOnSet(f, (S \cup {x}) \ {x})
  BY <1>1, SumRemove
<1>3. SumFunctionOnSet(f, S) \in Int /\ f[x] \in Int
  BY SumType
<1>4. SumFunctionOnSet(f, S \cup {x}) = f[x] + SumFunctionOnSet(f, S)
  BY <1>1, <1>2
<1> QED BY <1>3, <1>4

\* A sum of zeros is zero.
THEOREM SumZero ==
  ASSUME NEW f, NEW S, IsFiniteSet(S), \A x \in S : f[x] = 0
  PROVE  SumFunctionOnSet(f, S) = 0
<1> DEFINE N == {n \in Nat : \A T \in SUBSET S : Cardinality(T) = n => SumFunctionOnSet(f, T) = 0}
<1>1. 0 \in N
  <2>1. ASSUME NEW T \in SUBSET S, Cardinality(T) = 0 PROVE SumFunctionOnSet(f, T) = 0
    <3>1. T = {}
      BY <2>1, SubsetEmpty
    <3> QED BY <3>1, SumEmpty
  <2> QED BY <2>1
<1>2. ASSUME NEW n \in Nat, n \in N PROVE n + 1 \in N
  <2>1. ASSUME NEW T \in SUBSET S, Cardinality(T) = n + 1 PROVE SumFunctionOnSet(f, T) = 0
    <3>1. T # {} /\ IsFiniteSet(T) /\ Chosen(T) \in T
      BY <2>1, SubsetChosen
    <3>2. T \ {Chosen(T)} \in SUBSET S /\ Cardinality(T \ {Chosen(T)}) = n
      BY <2>1, SubsetChosen
    <3>3. SumFunctionOnSet(f, T \ {Chosen(T)}) = 0 /\ f[Chosen(T)] = 0
      BY <1>2, <3>1, <3>2
    <3> QED BY <3>1, <3>3, SumChosen
  <2> QED BY <2>1
<1>3. \A n \in Nat : n \in N
  <2> HIDE DEF N
  <2> QED BY <1>1, <1>2, NatSetInduction
<1> QED BY <1>3, FS_CardinalityType

\* The sum of a pointwise sum.
THEOREM SumPlus ==
  ASSUME NEW f, NEW g, NEW h, NEW S, IsFiniteSet(S),
         \A x \in S : f[x] \in Int /\ g[x] \in Int /\ h[x] = f[x] + g[x]
  PROVE  SumFunctionOnSet(h, S) = SumFunctionOnSet(f, S) + SumFunctionOnSet(g, S)
<1> DEFINE Q(T) == SumFunctionOnSet(h, T) = SumFunctionOnSet(f, T) + SumFunctionOnSet(g, T)
           N == {n \in Nat : \A T \in SUBSET S : Cardinality(T) = n => Q(T)}
<1>1. 0 \in N
  <2>1. ASSUME NEW T \in SUBSET S, Cardinality(T) = 0 PROVE Q(T)
    <3>1. T = {}
      BY <2>1, SubsetEmpty
    <3> QED BY <3>1, SumEmpty
  <2> QED BY <2>1
<1>2. ASSUME NEW n \in Nat, n \in N PROVE n + 1 \in N
  <2>1. ASSUME NEW T \in SUBSET S, Cardinality(T) = n + 1 PROVE Q(T)
    <3>1. T # {} /\ IsFiniteSet(T) /\ Chosen(T) \in T
      BY <2>1, SubsetChosen
    <3>2. PICK c, R : c = Chosen(T) /\ R = T \ {Chosen(T)}
      OBVIOUS
    <3>3. R \in SUBSET S /\ Cardinality(R) = n /\ c \in S /\ IsFiniteSet(R)
      BY <2>1, <3>1, <3>2, SubsetChosen, FS_Subset
    <3>4. Q(R)
      BY <1>2, <3>3
    <3>5. /\ SumFunctionOnSet(f, T) = f[c] + SumFunctionOnSet(f, R)
          /\ SumFunctionOnSet(g, T) = g[c] + SumFunctionOnSet(g, R)
          /\ SumFunctionOnSet(h, T) = h[c] + SumFunctionOnSet(h, R)
      BY <3>1, <3>2, SumChosen
    <3>6. SumFunctionOnSet(f, R) \in Int /\ SumFunctionOnSet(g, R) \in Int
      <4>1. \A x \in R : f[x] \in Int /\ g[x] \in Int
        BY <3>3
      <4> QED BY <3>3, <4>1, SumType
    <3>7. f[c] \in Int /\ g[c] \in Int /\ h[c] = f[c] + g[c]
      BY <3>3
    <3> QED BY <3>4, <3>5, <3>6, <3>7
  <2> QED BY <2>1
<1>3. \A n \in Nat : n \in N
  <2> HIDE DEF N
  <2> QED BY <1>1, <1>2, NatSetInduction
<1> QED BY <1>3, FS_CardinalityType

\* A sum of smaller values is smaller.
THEOREM SumAtMost ==
  ASSUME NEW f, NEW g, NEW S, IsFiniteSet(S),
         \A x \in S : f[x] \in Int /\ g[x] \in Int /\ f[x] <= g[x]
  PROVE  SumFunctionOnSet(f, S) <= SumFunctionOnSet(g, S)
<1>1. PICK h : h = [x \in S |-> g[x] - f[x]]
  OBVIOUS
<1>2. \A x \in S : f[x] \in Int /\ h[x] \in Int /\ h[x] \in Nat /\ g[x] = f[x] + h[x]
  BY <1>1
<1>3. SumFunctionOnSet(g, S) = SumFunctionOnSet(f, S) + SumFunctionOnSet(h, S)
  BY <1>2, SumPlus
<1>4. SumFunctionOnSet(f, S) \in Int /\ SumFunctionOnSet(h, S) \in Nat
  BY <1>2, SumType, SumNat
<1> QED BY <1>3, <1>4

=============================================================================
