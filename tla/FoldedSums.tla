------------------------------ MODULE FoldedSums ------------------------------
(***************************************************************************)
(* What SumFunctionOnSet of the module Functions computes over a finite    *)
(* set.  It is a function defined by recursion over the subsets of the     *)
(* set; as no induction theorem can be instantiated, every lemma takes a   *)
(* smallest counterexample instead.                                        *)
(***************************************************************************)
EXTENDS SmallestElement, Functions, FiniteSetTheorems, TLAPS

\* A set of subsets of a finite set has a member with no member below it.
LEMMA SmallestSubset ==
  ASSUME NEW S, IsFiniteSet(S), NEW Bad \in SUBSET SUBSET S, Bad # {}
  PROVE  \E T \in Bad : /\ IsFiniteSet(T)
                        /\ \A U \in SUBSET T : U # T => U \notin Bad
<1> DEFINE Sizes == {Cardinality(T) : T \in Bad}
<1>1. \A T \in SUBSET S : IsFiniteSet(T) /\ Cardinality(T) \in Nat
  BY FS_Subset, FS_CardinalityType
<1>2. Sizes \in SUBSET Nat /\ Sizes # {}
  BY <1>1
<1>3. PICK n \in Sizes : \A m \in Sizes : n <= m
  BY <1>2, Least
<1>4. PICK T \in Bad : Cardinality(T) = n
  OBVIOUS
<1>5. ASSUME NEW U \in SUBSET T, U # T PROVE U \notin Bad
  <2>1. Cardinality(U) < Cardinality(T)
    BY <1>1, <1>5, FS_Subset
  <2>2. Cardinality(U) \in Nat /\ Cardinality(T) \in Nat
    BY <1>1
  <2> QED BY <1>3, <1>4, <2>1, <2>2
<1> QED BY <1>1, <1>4, <1>5

-----------------------------------------------------------------------------
(* The recursion *)

Chosen(s) == CHOOSE x \in s : TRUE

\* The function by which the sum over S is defined.
Iterates(fun, S, h) ==
    h = [s \in SUBSET S |-> IF s = {} THEN 0 ELSE fun[Chosen(s)] + h[s \ {Chosen(s)}]]

LEMMA SumByIteration ==
  ASSUME NEW fun, NEW S
  PROVE  SumFunctionOnSet(fun, S) = (CHOOSE h : Iterates(fun, S, h))[S]
BY DEF SumFunctionOnSet, FoldFunctionOnSet, MapThenFoldSet, Iterates, Chosen

\* Two such functions agree wherever both are defined.
LEMMA IterationIsUnique ==
  ASSUME NEW S, IsFiniteSet(S), NEW fun, NEW T \in SUBSET S, NEW U \in SUBSET S,
         NEW h, Iterates(fun, T, h), NEW k, Iterates(fun, U, k)
  PROVE  \A s \in (SUBSET T) \cap (SUBSET U) : h[s] = k[s]
<1> DEFINE Bad == {s \in (SUBSET T) \cap (SUBSET U) : h[s] # k[s]}
<1> SUFFICES ASSUME Bad # {} PROVE FALSE
  OBVIOUS
<1>1. Bad \in SUBSET SUBSET S
  OBVIOUS
<1> HIDE DEF Bad
<1>2. PICK s \in Bad : \A r \in SUBSET s : r # s => r \notin Bad
  BY <1>1, SmallestSubset
<1>3. s \in SUBSET T /\ s \in SUBSET U /\ h[s] # k[s]
  BY DEF Bad
<1>4. /\ h[s] = IF s = {} THEN 0 ELSE fun[Chosen(s)] + h[s \ {Chosen(s)}]
      /\ k[s] = IF s = {} THEN 0 ELSE fun[Chosen(s)] + k[s \ {Chosen(s)}]
  BY <1>3 DEF Iterates
<1>5. s # {} /\ Chosen(s) \in s
  BY <1>3, <1>4 DEF Chosen
<1>6. h[s \ {Chosen(s)}] = k[s \ {Chosen(s)}]
  BY <1>2, <1>3, <1>5 DEF Bad
<1> QED BY <1>3, <1>4, <1>6

LEMMA IterationExists ==
  ASSUME NEW S, IsFiniteSet(S), NEW fun
  PROVE  \E h : Iterates(fun, S, h)
<1> DEFINE Bad == {T \in SUBSET S : ~ \E h : Iterates(fun, T, h)}
<1> SUFFICES ASSUME Bad # {} PROVE FALSE
  OBVIOUS
<1>1. Bad \in SUBSET SUBSET S
  OBVIOUS
<1> HIDE DEF Bad
<1>2. PICK T \in Bad : \A U \in SUBSET T : U # T => U \notin Bad
  BY <1>1, SmallestSubset
<1>3. T \in SUBSET S /\ ~ \E h : Iterates(fun, T, h)
  BY DEF Bad
<1> DEFINE Iterate(U) == CHOOSE h : Iterates(fun, U, h)
           Value(s) == Iterate(s)[s]
           k == [s \in SUBSET T |-> IF s = {} THEN 0
                                    ELSE fun[Chosen(s)] + Value(s \ {Chosen(s)})]
<1>4. ASSUME NEW U \in SUBSET T, U # T PROVE Iterates(fun, U, Iterate(U))
  <2>1. \E h : Iterates(fun, U, h)
    BY <1>2, <1>3, <1>4 DEF Bad
  <2> QED BY <2>1
<1> HIDE DEF Iterate
<1>5. ASSUME NEW s \in SUBSET T, s # T PROVE k[s] = Value(s)
  <2>1. Iterates(fun, s, Iterate(s))
    BY <1>4, <1>5
  <2>2. Value(s) = IF s = {} THEN 0 ELSE fun[Chosen(s)] + Iterate(s)[s \ {Chosen(s)}]
    BY <2>1 DEF Iterates
  <2>3. ASSUME s # {} PROVE Iterate(s)[s \ {Chosen(s)}] = Value(s \ {Chosen(s)})
    <3>1. Iterates(fun, s \ {Chosen(s)}, Iterate(s \ {Chosen(s)}))
      BY <1>4, <1>5
    <3>2. s \ {Chosen(s)} \in (SUBSET s) \cap (SUBSET (s \ {Chosen(s)}))
      OBVIOUS
    <3>3. s \in SUBSET S /\ s \ {Chosen(s)} \in SUBSET S
      BY <1>3
    <3> QED BY <2>1, <3>1, <3>2, <3>3, IterationIsUnique
  <2> QED BY <2>2, <2>3
<1>6. ASSUME NEW s \in SUBSET T, s # {}
      PROVE  k[s \ {Chosen(s)}] = Value(s \ {Chosen(s)})
  <2>1. Chosen(s) \in s
    BY <1>6 DEF Chosen
  <2> QED BY <1>5, <2>1
<1> HIDE DEF Value
<1>7. k = [s \in SUBSET T |-> IF s = {} THEN 0 ELSE fun[Chosen(s)] + k[s \ {Chosen(s)}]]
  BY <1>6
<1> QED BY <1>3, <1>7 DEF Iterates

-----------------------------------------------------------------------------
(* Sums *)

\* The sum over no elements, and over a set by the element chosen first.
LEMMA SumUnfolds ==
  ASSUME NEW S, IsFiniteSet(S), NEW fun
  PROVE  /\ S = {} => SumFunctionOnSet(fun, S) = 0
         /\ S # {} => /\ Chosen(S) \in S
                      /\ SumFunctionOnSet(fun, S) =
                            fun[Chosen(S)] + SumFunctionOnSet(fun, S \ {Chosen(S)})
<1> DEFINE Iterate(U) == CHOOSE h : Iterates(fun, U, h)
<1>1. ASSUME NEW U \in SUBSET S
      PROVE  Iterates(fun, U, Iterate(U)) /\ SumFunctionOnSet(fun, U) = Iterate(U)[U]
  <2>1. IsFiniteSet(U)
    BY FS_Subset
  <2>2. \E h : Iterates(fun, U, h)
    BY <2>1, IterationExists
  <2>3. SumFunctionOnSet(fun, U) = Iterate(U)[U]
    BY SumByIteration
  <2> QED BY <2>2, <2>3
<1> HIDE DEF Iterate
<1>2. Iterate(S)[S] = IF S = {} THEN 0 ELSE fun[Chosen(S)] + Iterate(S)[S \ {Chosen(S)}]
  BY <1>1 DEF Iterates
<1>3. Iterate(S)[S \ {Chosen(S)}] = Iterate(S \ {Chosen(S)})[S \ {Chosen(S)}]
  <2>1. S \ {Chosen(S)} \in (SUBSET S) \cap (SUBSET (S \ {Chosen(S)}))
    OBVIOUS
  <2> QED BY <1>1, <2>1, IterationIsUnique
<1>4. S # {} => Chosen(S) \in S
  BY DEF Chosen
<1> QED BY <1>1, <1>2, <1>3, <1>4

LEMMA SumIsNat ==
  ASSUME NEW S, IsFiniteSet(S), NEW fun, \A x \in S : fun[x] \in Nat
  PROVE  SumFunctionOnSet(fun, S) \in Nat
<1> DEFINE Bad == {T \in SUBSET S : SumFunctionOnSet(fun, T) \notin Nat}
<1> SUFFICES ASSUME Bad # {} PROVE FALSE
  OBVIOUS
<1>1. Bad \in SUBSET SUBSET S
  OBVIOUS
<1> HIDE DEF Bad
<1>2. PICK T \in Bad : IsFiniteSet(T) /\ \A U \in SUBSET T : U # T => U \notin Bad
  BY <1>1, SmallestSubset
<1>3. T \in SUBSET S /\ SumFunctionOnSet(fun, T) \notin Nat
  BY DEF Bad
<1>4. /\ T # {} /\ Chosen(T) \in T
      /\ SumFunctionOnSet(fun, T) = fun[Chosen(T)] + SumFunctionOnSet(fun, T \ {Chosen(T)})
  <2>1. 0 \in Nat
    OBVIOUS
  <2>2. T # {}
    BY <1>2, <1>3, <2>1, SumUnfolds
  <2> QED BY <1>2, <2>2, SumUnfolds
<1>5. SumFunctionOnSet(fun, T \ {Chosen(T)}) \in Nat
  BY <1>2, <1>3, <1>4 DEF Bad
<1>6. fun[Chosen(T)] \in Nat
  BY <1>3, <1>4
<1> QED BY <1>3, <1>4, <1>5, <1>6

\* Functions that agree on the set have the same sum.
LEMMA SumIsExtensional ==
  ASSUME NEW S, IsFiniteSet(S), NEW fun, NEW gun, \A x \in S : fun[x] = gun[x]
  PROVE  SumFunctionOnSet(fun, S) = SumFunctionOnSet(gun, S)
<1> DEFINE Bad == {T \in SUBSET S : SumFunctionOnSet(fun, T) # SumFunctionOnSet(gun, T)}
<1> SUFFICES ASSUME Bad # {} PROVE FALSE
  OBVIOUS
<1>1. Bad \in SUBSET SUBSET S
  OBVIOUS
<1> HIDE DEF Bad
<1>2. PICK T \in Bad : IsFiniteSet(T) /\ \A U \in SUBSET T : U # T => U \notin Bad
  BY <1>1, SmallestSubset
<1>3. T \in SUBSET S /\ SumFunctionOnSet(fun, T) # SumFunctionOnSet(gun, T)
  BY DEF Bad
<1>4. T # {} /\ Chosen(T) \in T
  BY <1>2, <1>3, SumUnfolds
<1>5. SumFunctionOnSet(fun, T \ {Chosen(T)}) = SumFunctionOnSet(gun, T \ {Chosen(T)})
  BY <1>2, <1>3, <1>4 DEF Bad
<1>6. fun[Chosen(T)] = gun[Chosen(T)]
  BY <1>3, <1>4
<1> QED BY <1>2, <1>3, <1>4, <1>5, <1>6, SumUnfolds

\* Any element may be added last.
LEMMA SumTakesOut ==
  ASSUME NEW S, IsFiniteSet(S), NEW fun, \A x \in S : fun[x] \in Nat, NEW y \in S
  PROVE  SumFunctionOnSet(fun, S) = fun[y] + SumFunctionOnSet(fun, S \ {y})
<1> DEFINE Bad == {T \in SUBSET S : \E x \in T : SumFunctionOnSet(fun, T)
                                                # fun[x] + SumFunctionOnSet(fun, T \ {x})}
<1> SUFFICES ASSUME Bad # {} PROVE FALSE
  OBVIOUS
<1>1. Bad \in SUBSET SUBSET S
  OBVIOUS
<1> HIDE DEF Bad
<1>2. PICK T \in Bad : IsFiniteSet(T) /\ \A U \in SUBSET T : U # T => U \notin Bad
  BY <1>1, SmallestSubset
<1>3. PICK x \in T : /\ T \in SUBSET S
                     /\ SumFunctionOnSet(fun, T) # fun[x] + SumFunctionOnSet(fun, T \ {x})
  BY DEF Bad
<1>4. PICK z \in T : SumFunctionOnSet(fun, T) = fun[z] + SumFunctionOnSet(fun, T \ {z})
  BY <1>2, <1>3, SumUnfolds
<1>5. x # z
  BY <1>3, <1>4
<1>6. ASSUME NEW a \in T, NEW b \in T, a # b
      PROVE  SumFunctionOnSet(fun, T \ {a}) = fun[b] + SumFunctionOnSet(fun, (T \ {a}) \ {b})
  <2>1. T \ {a} \in SUBSET S /\ T \ {a} \notin Bad /\ b \in T \ {a}
    BY <1>2, <1>3, <1>6
  <2> QED BY <2>1 DEF Bad
<1>7. (T \ {x}) \ {z} = (T \ {z}) \ {x}
  OBVIOUS
<1>8. SumFunctionOnSet(fun, (T \ {x}) \ {z}) \in Nat /\ fun[x] \in Nat /\ fun[z] \in Nat
  <2>1. IsFiniteSet((T \ {x}) \ {z})
    BY <1>2, FS_Subset
  <2> QED BY <1>3, <2>1, SumIsNat
<1> QED BY <1>3, <1>4, <1>5, <1>6, <1>7, <1>8

\* A sum of which one term changes.
LEMMA SumChangesAt ==
  ASSUME NEW S, IsFiniteSet(S), NEW y \in S, NEW fun, NEW gun,
         \A x \in S : fun[x] \in Nat /\ gun[x] \in Nat,
         \A x \in S \ {y} : gun[x] = fun[x]
  PROVE  SumFunctionOnSet(gun, S) + fun[y] = SumFunctionOnSet(fun, S) + gun[y]
<1>1. IsFiniteSet(S \ {y})
  BY FS_Subset
<1>2. SumFunctionOnSet(gun, S \ {y}) = SumFunctionOnSet(fun, S \ {y})
  BY <1>1, SumIsExtensional
<1>3. /\ SumFunctionOnSet(fun, S) = fun[y] + SumFunctionOnSet(fun, S \ {y})
      /\ SumFunctionOnSet(gun, S) = gun[y] + SumFunctionOnSet(gun, S \ {y})
  BY SumTakesOut
<1>4. SumFunctionOnSet(fun, S \ {y}) \in Nat /\ fun[y] \in Nat /\ gun[y] \in Nat
  BY <1>1, SumIsNat
<1> QED BY <1>2, <1>3, <1>4

LEMMA SumOfZeros ==
  ASSUME NEW S, IsFiniteSet(S), NEW fun, \A x \in S : fun[x] = 0
  PROVE  SumFunctionOnSet(fun, S) = 0
<1> DEFINE Bad == {T \in SUBSET S : SumFunctionOnSet(fun, T) # 0}
<1> SUFFICES ASSUME Bad # {} PROVE FALSE
  OBVIOUS
<1>1. Bad \in SUBSET SUBSET S
  OBVIOUS
<1> HIDE DEF Bad
<1>2. PICK T \in Bad : IsFiniteSet(T) /\ \A U \in SUBSET T : U # T => U \notin Bad
  BY <1>1, SmallestSubset
<1>3. T \in SUBSET S /\ SumFunctionOnSet(fun, T) # 0
  BY DEF Bad
<1>4. /\ T # {} /\ Chosen(T) \in T
      /\ SumFunctionOnSet(fun, T) = fun[Chosen(T)] + SumFunctionOnSet(fun, T \ {Chosen(T)})
  BY <1>2, <1>3, SumUnfolds
<1>5. SumFunctionOnSet(fun, T \ {Chosen(T)}) = 0
  BY <1>2, <1>3, <1>4 DEF Bad
<1>6. fun[Chosen(T)] = 0
  BY <1>3, <1>4
<1> QED BY <1>3, <1>4, <1>5, <1>6

=============================================================================
