----------------------------- MODULE SumTheorems -----------------------------
(***************************************************************************)
(* Least and greatest elements of sets, and sums over finite sets, as the   *)
(* day totals need them.  SumFunctionOnSet is defined by a recursive        *)
(* function on the subsets of a set, which takes the elements in an order   *)
(* of its own; what is proved here makes that function exist and its order  *)
(* irrelevant.  Each induction is a smallest counterexample among the       *)
(* subsets of a finite set.                                                *)
(***************************************************************************)
EXTENDS FiniteSetsExt, FiniteSetTheorems, WellFoundedInduction, TLAPS

Picked(T) == CHOOSE x \in T : TRUE

\* g is the recursive function that sums f over the subsets of S.
Sums(g, f, S) ==
    g = [T \in SUBSET S |-> IF T = {} THEN 0
                            ELSE f[Picked(T)] + g[T \ {Picked(T)}]]

\* A set of subsets of a finite set has a member none of whose proper subsets is
\* in it.
LEMMA SmallestSet ==
  ASSUME NEW S, IsFiniteSet(S), NEW Bad \in SUBSET (SUBSET S), Bad # {}
  PROVE  \E T \in Bad : \A U \in SUBSET T : U \in Bad => U = T
<1>1. IsWellFoundedOn(StrictSubsetOrdering(S), SUBSET S)
  BY FS_StrictSubsetOrderingWellFounded, FS_FiniteSubsetsOfFinite
<1>2. PICK T \in Bad : \A U \in Bad : ~(<<U, T>> \in StrictSubsetOrdering(S))
  BY <1>1, WFMin
<1>3. ASSUME NEW U \in SUBSET T, U \in Bad PROVE U = T
  BY <1>2, <1>3 DEF StrictSubsetOrdering
<1> QED BY <1>3

\* Well-orderedness of the natural numbers, and what a finite set of them adds.
LEMMA Smallest ==
  ASSUME NEW T \in SUBSET Nat, T # {}
  PROVE  \E x \in T : \A y \in T : x <= y
<1>1. PICK x \in T : \A y \in T : ~(<<y, x>> \in OpToRel(<, Nat))
  BY NatLessThanWellFounded, WFMin
<1>2. ASSUME NEW y \in T PROVE x <= y
  <2>1. x \in Nat /\ y \in Nat /\ <<y, x>> \in Nat \X Nat OBVIOUS
  <2>2. ~(y < x) BY <1>1, <2>1 DEF OpToRel
  <2> QED BY <2>1, <2>2
<1> QED BY <1>2

LEMMA Largest ==
  ASSUME NEW S, IsFiniteSet(S), S # {}, \A x \in S : x \in Nat
  PROVE  \E x \in S : \A y \in S : x >= y
<1> DEFINE Bad == {U \in SUBSET S : U # {} /\ ~ \E x \in U : \A y \in U : x >= y}
<1> SUFFICES ASSUME Bad # {} PROVE FALSE OBVIOUS
<1>1. PICK U \in Bad : \A V \in SUBSET U : V \in Bad => V = U
  <2>1. Bad \in SUBSET (SUBSET S) OBVIOUS
  <2> HIDE DEF Bad
  <2> QED BY <2>1, SmallestSet
<1>2. PICK z \in U : TRUE OBVIOUS
<1> DEFINE V == U \ {z}
<1>3. /\ V \in SUBSET U /\ V # U /\ V \in SUBSET S
      /\ z \in Nat /\ \A y \in U : y \in Nat
  OBVIOUS
<1>4. V # {}
  <2> SUFFICES ASSUME V = {} PROVE FALSE OBVIOUS
  <2>1. \A y \in U : y = z OBVIOUS
  <2>2. \A y \in U : z >= y BY <1>3, <2>1
  <2> QED BY <2>2
<1>5. PICK x \in V : \A y \in V : x >= y
  <2>1. V \notin Bad
    <3> HIDE DEF Bad, V
    <3> QED BY <1>1, <1>3
  <2> QED BY <1>3, <1>4, <2>1
<1>6. x \in U /\ x \in Nat BY <1>3
<1>7. CASE x >= z
  <2>1. \A y \in U : x >= y BY <1>5, <1>7
  <2> QED BY <1>6, <2>1
<1>8. CASE ~(x >= z)
  <2>1. \A y \in U : z >= y BY <1>3, <1>5, <1>6, <1>8
  <2> QED BY <2>1
<1> QED BY <1>7, <1>8

LEMMA SmallestNat ==
  ASSUME NEW T \in SUBSET Nat, T # {}
  PROVE  Min(T) \in T /\ \A y \in T : Min(T) <= y
<1>1. \E x \in T : \A y \in T : x <= y BY Smallest
<1> QED BY <1>1 DEF Min

LEMMA LargestNat ==
  ASSUME NEW T \in SUBSET Nat, T # {}, IsFiniteSet(T)
  PROVE  Max(T) \in T /\ \A y \in T : Max(T) >= y
<1>1. \E x \in T : \A y \in T : x >= y BY Largest
<1> QED BY <1>1 DEF Max

LEMMA PickedIn == ASSUME NEW T, T # {} PROVE Picked(T) \in T
BY DEF Picked

\* Two such functions agree wherever both are defined.
LEMMA SumsAgree ==
  ASSUME NEW f, NEW g, NEW h, NEW S, NEW T, IsFiniteSet(S), Sums(g, f, S), Sums(h, f, T),
         NEW V \in SUBSET (S \cap T)
  PROVE  g[V] = h[V]
<1> DEFINE Bad == {U \in SUBSET (S \cap T) : g[U] # h[U]}
<1> SUFFICES ASSUME Bad # {} PROVE FALSE OBVIOUS
<1>1. IsFiniteSet(S \cap T) BY FS_Intersection
<1>2. PICK U \in Bad : \A W \in SUBSET U : W \in Bad => W = U
  <2>1. Bad \in SUBSET (SUBSET (S \cap T)) OBVIOUS
  <2> HIDE DEF Bad
  <2> QED BY <1>1, <2>1, SmallestSet
<1>3. U \in SUBSET S /\ U \in SUBSET T /\ g[U] # h[U] BY <1>2
<1>4. /\ g[U] = IF U = {} THEN 0 ELSE f[Picked(U)] + g[U \ {Picked(U)}]
      /\ h[U] = IF U = {} THEN 0 ELSE f[Picked(U)] + h[U \ {Picked(U)}]
  BY <1>3 DEF Sums
<1>5. U # {} BY <1>3, <1>4
<1>6. U \ {Picked(U)} \in SUBSET U /\ U \ {Picked(U)} # U BY <1>5, PickedIn
<1>7. g[U \ {Picked(U)}] = h[U \ {Picked(U)}] BY <1>2, <1>3, <1>6
<1> QED BY <1>3, <1>4, <1>7

LEMMA SumsExist ==
  ASSUME NEW f, NEW S, IsFiniteSet(S)
  PROVE  \E g : Sums(g, f, S)
<1> DEFINE Bad == {T \in SUBSET S : ~ \E g : Sums(g, f, T)}
<1> SUFFICES ASSUME Bad # {} PROVE FALSE OBVIOUS
<1>1. PICK T \in Bad : \A U \in SUBSET T : U \in Bad => U = T
  <2>1. Bad \in SUBSET (SUBSET S) OBVIOUS
  <2> HIDE DEF Bad
  <2> QED BY <2>1, SmallestSet
<1> DEFINE G(U) == CHOOSE g : Sums(g, f, U)
           rest(U) == U \ {Picked(U)}
           h == [U \in SUBSET T |-> IF U = {} THEN 0 ELSE f[Picked(U)] + G(rest(U))[rest(U)]]
<1>2. ASSUME NEW U \in SUBSET T, U # T PROVE Sums(G(U), f, U)
  <2>1. \E g : Sums(g, f, U) BY <1>1, <1>2
  <2> QED BY <2>1
<1>3. ASSUME NEW U \in SUBSET T, U # {}
      PROVE  rest(U) \in SUBSET U /\ rest(U) # T /\ rest(U) \in SUBSET T
  BY <1>3, PickedIn
<1>4. ASSUME NEW U \in SUBSET T, U # T PROVE h[U] = G(U)[U]
  <2>1. G(U)[U] = IF U = {} THEN 0 ELSE f[Picked(U)] + G(U)[rest(U)]
    <3>1. Sums(G(U), f, U) BY <1>2, <1>4
    <3> HIDE DEF G
    <3>2. U \in SUBSET U OBVIOUS
    <3> QED BY <3>1, <3>2 DEF Sums
  <2>2. CASE U = {} BY <2>1, <2>2
  <2>3. CASE U # {}
    <3>1. rest(U) \in SUBSET U /\ rest(U) # T /\ rest(U) \in SUBSET T BY <2>3, <1>3
    <3>2. Sums(G(rest(U)), f, rest(U)) /\ Sums(G(U), f, U) BY <1>2, <1>4, <3>1
    <3>3. IsFiniteSet(U) BY FS_Subset
    <3>4. rest(U) \in SUBSET (U \cap rest(U)) BY <3>1
    <3> HIDE DEF G, rest
    <3>5. G(U)[rest(U)] = G(rest(U))[rest(U)] BY <3>2, <3>3, <3>4, SumsAgree
    <3>6. h[U] = f[Picked(U)] + G(rest(U))[rest(U)] BY <2>3
    <3> HIDE DEF h
    <3> QED BY <2>1, <2>3, <3>5, <3>6
  <2> QED BY <2>2, <2>3
<1> HIDE DEF G
<1>5. \A U \in SUBSET T : U # {} => h[rest(U)] = G(rest(U))[rest(U)] BY <1>3, <1>4
<1>6. h = [U \in SUBSET T |-> IF U = {} THEN 0 ELSE f[Picked(U)] + h[rest(U)]]
  <2> DEFINE k == [U \in SUBSET T |-> IF U = {} THEN 0 ELSE f[Picked(U)] + h[rest(U)]]
  <2>1. \A U \in SUBSET T : h[U] = k[U] BY <1>5
  <2> QED BY <2>1
<1>7. Sums(h, f, T) BY <1>6 DEF Sums
<1> QED BY <1>1, <1>7

\* The definition, unfolded once.
LEMMA SumFunctionOnSetIs ==
  ASSUME NEW f, NEW S, IsFiniteSet(S)
  PROVE  \E g : Sums(g, f, S) /\ SumFunctionOnSet(f, S) = g[S]
<1> DEFINE g == CHOOSE g : Sums(g, f, S)
<1>1. Sums(g, f, S) BY SumsExist
<1>2. SumFunctionOnSet(f, S) = g[S]
  BY DEF SumFunctionOnSet, FoldFunctionOnSet, MapThenFoldSet, Sums, Picked
<1> HIDE DEF g
<1> QED BY <1>1, <1>2

-----------------------------------------------------------------------------
(* What the proofs use.                                                    *)

LEMMA SumOfNone == ASSUME NEW f PROVE SumFunctionOnSet(f, {}) = 0
<1>1. PICK g : Sums(g, f, {}) /\ SumFunctionOnSet(f, {}) = g[{}]
  BY FS_EmptySet, SumFunctionOnSetIs
<1> QED BY <1>1 DEF Sums

\* The sum takes some element first.
LEMMA SumFirst ==
  ASSUME NEW f, NEW S, IsFiniteSet(S), S # {}
  PROVE  SumFunctionOnSet(f, S)
           = f[Picked(S)] + SumFunctionOnSet(f, S \ {Picked(S)})
<1> DEFINE R == S \ {Picked(S)}
<1>1. PICK g : Sums(g, f, S) /\ SumFunctionOnSet(f, S) = g[S] BY SumFunctionOnSetIs
<1>2. IsFiniteSet(R) /\ R \in SUBSET S /\ R \in SUBSET (S \cap R) BY FS_Subset
<1>3. PICK h : Sums(h, f, R) /\ SumFunctionOnSet(f, R) = h[R]
  BY <1>2, SumFunctionOnSetIs
<1>4. g[S] = f[Picked(S)] + g[R] BY <1>1 DEF Sums
<1> HIDE DEF R
<1>5. g[R] = h[R] BY <1>1, <1>2, <1>3, SumsAgree
<1> QED BY <1>1, <1>3, <1>4, <1>5 DEF R

LEMMA SumType ==
  ASSUME NEW f, NEW S, IsFiniteSet(S), \A x \in S : f[x] \in Nat
  PROVE  SumFunctionOnSet(f, S) \in Nat
<1> DEFINE Bad == {T \in SUBSET S : SumFunctionOnSet(f, T) \notin Nat}
<1> SUFFICES ASSUME Bad # {} PROVE FALSE OBVIOUS
<1>1. PICK T \in Bad : \A U \in SUBSET T : U \in Bad => U = T
  <2>1. Bad \in SUBSET (SUBSET S) OBVIOUS
  <2> HIDE DEF Bad
  <2> QED BY <2>1, SmallestSet
<1>2. T # {}
  <2> SUFFICES ASSUME T = {} PROVE FALSE OBVIOUS
  <2>1. SumFunctionOnSet(f, {}) = 0 BY SumOfNone
  <2> QED BY <1>1, <2>1
<1> DEFINE x == Picked(T)
<1>3. x \in T /\ T \in SUBSET S /\ IsFiniteSet(T) BY <1>1, <1>2, PickedIn, FS_Subset
<1>4. SumFunctionOnSet(f, T) = f[x] + SumFunctionOnSet(f, T \ {x}) BY <1>2, <1>3, SumFirst
<1>5. T \ {x} \notin Bad BY <1>1, <1>3
<1>6. T \ {x} \in SUBSET S BY <1>3
<1>7. SumFunctionOnSet(f, T \ {x}) \in Nat /\ f[x] \in Nat BY <1>3, <1>5, <1>6
<1>8. SumFunctionOnSet(f, T) \in Nat BY <1>4, <1>7
<1> QED BY <1>1, <1>8

\* Any element may be taken first: addition does not mind the order.
LEMMA SumRemove ==
  ASSUME NEW f, NEW S, IsFiniteSet(S), \A x \in S : f[x] \in Nat, NEW y \in S
  PROVE  SumFunctionOnSet(f, S) = f[y] + SumFunctionOnSet(f, S \ {y})
<1> DEFINE Total(T) == SumFunctionOnSet(f, T)
           Bad == {T \in SUBSET S : \E z \in T : Total(T) # f[z] + Total(T \ {z})}
<1> SUFFICES ASSUME Bad # {} PROVE FALSE OBVIOUS
<1>1. PICK T \in Bad : \A U \in SUBSET T : U \in Bad => U = T
  <2>1. Bad \in SUBSET (SUBSET S) OBVIOUS
  <2> HIDE DEF Bad
  <2> QED BY <2>1, SmallestSet
<1>2. PICK z \in T : Total(T) # f[z] + Total(T \ {z}) BY <1>1
<1> DEFINE x == Picked(T)
<1>3. x \in T /\ T \in SUBSET S /\ IsFiniteSet(T) BY <1>1, <1>2, PickedIn, FS_Subset
<1>4. Total(T) = f[x] + Total(T \ {x}) BY <1>2, <1>3, SumFirst
<1> HIDE DEF x
<1>5. z # x BY <1>2, <1>4
<1>6. /\ T \ {x} \in SUBSET S /\ T \ {x} \notin Bad /\ z \in T \ {x}
      /\ T \ {z} \in SUBSET S /\ T \ {z} \notin Bad /\ x \in T \ {z}
      /\ (T \ {x}) \ {z} = (T \ {z}) \ {x}
      /\ (T \ {x}) \ {z} \in SUBSET S
  <2>1. /\ T \ {x} \in SUBSET T /\ T \ {x} # T
        /\ T \ {z} \in SUBSET T /\ T \ {z} # T
    BY <1>3
  <2>2. T \ {x} \notin Bad /\ T \ {z} \notin Bad
    <3> HIDE DEF Bad
    <3> QED BY <1>1, <2>1
  <2>3. T \ {x} \in SUBSET S /\ T \ {z} \in SUBSET S /\ (T \ {x}) \ {z} \in SUBSET S
    BY <1>3
  <2>4. z \in T \ {x} /\ x \in T \ {z} BY <1>3, <1>5
  <2>5. (T \ {x}) \ {z} = (T \ {z}) \ {x} OBVIOUS
  <2> HIDE DEF Bad
  <2> QED BY <2>2, <2>3, <2>4, <2>5
<1>7. /\ Total(T \ {x}) = f[z] + Total((T \ {x}) \ {z})
      /\ Total(T \ {z}) = f[x] + Total((T \ {x}) \ {z})
  BY <1>6
<1>8. /\ f[x] \in Nat /\ f[z] \in Nat /\ IsFiniteSet((T \ {x}) \ {z})
      /\ \A u \in (T \ {x}) \ {z} : f[u] \in Nat
  BY <1>3, <1>5, <1>6, FS_Subset
<1>9. Total((T \ {x}) \ {z}) \in Nat BY <1>8, SumType
<1> HIDE DEF Total
<1> QED BY <1>2, <1>4, <1>7, <1>8, <1>9

\* A sum grows with its terms and, these being natural numbers, with its set.
LEMMA SumGrows ==
  ASSUME NEW f, NEW g, NEW S, IsFiniteSet(S), NEW T \in SUBSET S,
         \A x \in S : g[x] \in Nat, \A x \in T : f[x] \in Nat /\ f[x] <= g[x]
  PROVE  SumFunctionOnSet(f, T) <= SumFunctionOnSet(g, S)
<1> DEFINE Bad == {U \in SUBSET S :
                     ~(SumFunctionOnSet(f, U \cap T) <= SumFunctionOnSet(g, U))}
<1>0. S \cap T = T OBVIOUS
<1> SUFFICES ASSUME Bad # {} PROVE FALSE BY <1>0
<1>1. PICK U \in Bad : \A V \in SUBSET U : V \in Bad => V = U
  <2>1. Bad \in SUBSET (SUBSET S) OBVIOUS
  <2> HIDE DEF Bad
  <2> QED BY <2>1, SmallestSet
<1>2. U \in SUBSET S /\ IsFiniteSet(U) /\ \A x \in U : g[x] \in Nat BY <1>1, FS_Subset
<1>3. U # {}
  <2> SUFFICES ASSUME U = {} PROVE FALSE OBVIOUS
  <2>1. SumFunctionOnSet(f, {}) = 0 /\ SumFunctionOnSet(g, {}) = 0 BY SumOfNone
  <2>2. U \cap T = {} OBVIOUS
  <2> QED BY <1>1, <2>1, <2>2
<1>4. PICK x \in U : TRUE BY <1>3
<1> DEFINE V == U \ {x}
           W == U \cap T
<1>5. SumFunctionOnSet(g, U) = g[x] + SumFunctionOnSet(g, V) BY <1>2, <1>4, SumRemove
<1>6. SumFunctionOnSet(f, V \cap T) <= SumFunctionOnSet(g, V)
  <2>1. V \in SUBSET U /\ V # U /\ V \in SUBSET S BY <1>2, <1>4
  <2> QED BY <1>1, <2>1
<1>7. /\ IsFiniteSet(V) /\ IsFiniteSet(W) /\ IsFiniteSet(V \cap T)
      /\ \A y \in W : f[y] \in Nat
  BY <1>2, FS_Subset
<1>8. /\ SumFunctionOnSet(g, V) \in Nat /\ SumFunctionOnSet(f, V \cap T) \in Nat
      /\ g[x] \in Nat
  <2>1. \A y \in V : g[y] \in Nat BY <1>2
  <2>2. \A y \in V \cap T : f[y] \in Nat BY <1>7
  <2> QED BY <1>2, <1>7, <2>1, <2>2, SumType
<1>9. SumFunctionOnSet(f, W) <= SumFunctionOnSet(g, U)
  <2>1. CASE x \notin T
    <3>1. W = V \cap T BY <2>1
    <3> HIDE DEF W, V
    <3> QED BY <1>5, <1>6, <1>8, <3>1
  <2>2. CASE x \in T
    <3>1. x \in W /\ W \ {x} = V \cap T BY <1>4, <2>2
    <3>2. f[x] \in Nat /\ f[x] <= g[x] BY <2>2
    <3> HIDE DEF W, V
    <3>3. SumFunctionOnSet(f, W) = f[x] + SumFunctionOnSet(f, V \cap T)
      BY <1>7, <3>1, SumRemove
    <3> QED BY <1>5, <1>6, <1>8, <3>2, <3>3
  <2> QED BY <2>1, <2>2
<1> QED BY <1>1, <1>9

\* Only the values on the set count.
LEMMA SumSame ==
  ASSUME NEW f, NEW g, NEW S, IsFiniteSet(S), \A x \in S : f[x] = g[x] /\ f[x] \in Nat
  PROVE  SumFunctionOnSet(f, S) = SumFunctionOnSet(g, S)
<1>1. S \in SUBSET S OBVIOUS
<1>2. /\ \A x \in S : f[x] \in Nat /\ g[x] \in Nat /\ f[x] <= g[x] /\ g[x] <= f[x]
  OBVIOUS
<1>3. /\ SumFunctionOnSet(f, S) <= SumFunctionOnSet(g, S)
      /\ SumFunctionOnSet(g, S) <= SumFunctionOnSet(f, S)
  BY <1>1, <1>2, SumGrows
<1>4. SumFunctionOnSet(f, S) \in Nat /\ SumFunctionOnSet(g, S) \in Nat
  BY <1>2, SumType
<1> QED BY <1>3, <1>4

\* The sum over two disjoint sets.
LEMMA SumApart ==
  ASSUME NEW f, NEW S, NEW T, IsFiniteSet(S), IsFiniteSet(T), S \cap T = {},
         \A x \in S \cup T : f[x] \in Nat
  PROVE  SumFunctionOnSet(f, S \cup T) = SumFunctionOnSet(f, S) + SumFunctionOnSet(f, T)
<1> DEFINE Bad == {U \in SUBSET S : SumFunctionOnSet(f, U \cup T)
                                   # SumFunctionOnSet(f, U) + SumFunctionOnSet(f, T)}
<1> SUFFICES ASSUME Bad # {} PROVE FALSE OBVIOUS
<1>1. PICK U \in Bad : \A V \in SUBSET U : V \in Bad => V = U
  <2>1. Bad \in SUBSET (SUBSET S) OBVIOUS
  <2> HIDE DEF Bad
  <2> QED BY <2>1, SmallestSet
<1>2. U \in SUBSET S /\ IsFiniteSet(U) /\ IsFiniteSet(U \cup T)
  BY <1>1, FS_Subset, FS_Union
<1>3. SumFunctionOnSet(f, T) \in Nat BY SumType
<1>4. U # {}
  <2> SUFFICES ASSUME U = {} PROVE FALSE OBVIOUS
  <2>1. SumFunctionOnSet(f, {}) = 0 /\ U \cup T = T BY SumOfNone
  <2> QED BY <1>1, <1>3, <2>1
<1>5. PICK x \in U : TRUE BY <1>4
<1> DEFINE V == U \ {x}
<1>6. V \in SUBSET U /\ V # U /\ V \in SUBSET S /\ IsFiniteSet(V) BY <1>2, <1>5, FS_Subset
<1>7. SumFunctionOnSet(f, V \cup T) = SumFunctionOnSet(f, V) + SumFunctionOnSet(f, T)
  BY <1>1, <1>6
<1>8. SumFunctionOnSet(f, U) = f[x] + SumFunctionOnSet(f, V) BY <1>2, <1>5, SumRemove
<1>9. SumFunctionOnSet(f, U \cup T) = f[x] + SumFunctionOnSet(f, V \cup T)
  <2>1. (U \cup T) \ {x} = V \cup T BY <1>2, <1>5
  <2>2. x \in U \cup T /\ \A y \in U \cup T : f[y] \in Nat BY <1>2, <1>5
  <2> HIDE DEF V
  <2> QED BY <1>2, <2>1, <2>2, SumRemove
<1>10. f[x] \in Nat /\ SumFunctionOnSet(f, V) \in Nat
  <2>1. \A y \in V : f[y] \in Nat BY <1>6
  <2> QED BY <1>2, <1>5, <1>6, <2>1, SumType
<1> HIDE DEF V
<1>11. SumFunctionOnSet(f, U \cup T) = SumFunctionOnSet(f, U) + SumFunctionOnSet(f, T)
  BY <1>3, <1>7, <1>8, <1>9, <1>10
<1> QED BY <1>1, <1>11
=============================================================================
