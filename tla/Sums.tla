-------------------------------- MODULE Sums --------------------------------
(***************************************************************************)
(* Facts about SumFunctionOnSet, for sums over any finite set.             *)
(*                                                                         *)
(* The library defines a sum by recursion over the subsets of the set, and *)
(* its induction theorems take a predicate as a parameter.  Here induction *)
(* is over a set of sets instead: one that is not empty has a member with  *)
(* no member strictly inside it.                                           *)
(***************************************************************************)
EXTENDS Integers, FiniteSets, Functions, FiniteSetTheorems, TLAPS

Any(S) == CHOOSE x \in S : TRUE

\* g sums f over every subset of S.
Sums(g, f, S) ==
    g = [T \in SUBSET S |-> IF T = {} THEN 0 ELSE f[Any(T)] + g[T \ {Any(T)}]]

LEMMA AnyIsIn == ASSUME NEW S, S # {} PROVE Any(S) \in S
BY DEF Any

\* Of a set of subsets of a finite set, one contains no other.
LEMMA Smallest ==
  ASSUME NEW S, IsFiniteSet(S), NEW Bad, Bad \subseteq SUBSET S, Bad # {}
  PROVE  \E T \in Bad : \A U \in Bad : U \subseteq T => U = T
<1>1. FiniteSubsetsOf(S) = SUBSET S
  BY FS_FiniteSubsetsOfFinite
<1>2. IsWellFoundedOn(StrictSubsetOrdering(S), SUBSET S)
  BY <1>1, FS_StrictSubsetOrderingWellFounded
<1>3. PICK T \in Bad : \A U \in Bad : ~(<<U, T>> \in StrictSubsetOrdering(S))
  BY <1>2, WFMin
<1>4. \A U \in Bad : U \subseteq T => U = T
  BY <1>3 DEF StrictSubsetOrdering
<1> QED BY <1>4

LEMMA SumIsOne ==
  ASSUME NEW f, NEW S
  PROVE  SumFunctionOnSet(f, S) = (CHOOSE g : Sums(g, f, S))[S]
BY DEF SumFunctionOnSet, FoldFunctionOnSet, MapThenFoldSet, Sums, Any

LEMMA SumsAt ==
  ASSUME NEW g, NEW f, NEW S, Sums(g, f, S), NEW T, T \subseteq S
  PROVE  g[T] = IF T = {} THEN 0 ELSE f[Any(T)] + g[T \ {Any(T)}]
BY DEF Sums

\* Two such functions agree, also where they sum over different sets.
LEMMA SumsAgree ==
  ASSUME NEW f, NEW S, IsFiniteSet(S), NEW S2, NEW g, NEW g2, Sums(g, f, S), Sums(g2, f, S2), S \subseteq S2
  PROVE  \A T \in SUBSET S : g[T] = g2[T]
<1> DEFINE Bad == {T \in SUBSET S : g[T] # g2[T]}
<1> SUFFICES ASSUME Bad # {} PROVE FALSE
  OBVIOUS
<1>1. PICK T \in Bad : \A U \in Bad : U \subseteq T => U = T
  <2> HIDE DEF Bad
  <2>1. Bad \subseteq SUBSET S
    BY DEF Bad
  <2> QED BY <2>1, Smallest
<1>2. g[T] = IF T = {} THEN 0 ELSE f[Any(T)] + g[T \ {Any(T)}]
  BY SumsAt
<1>3. g2[T] = IF T = {} THEN 0 ELSE f[Any(T)] + g2[T \ {Any(T)}]
  BY SumsAt
<1>4. T # {}
  BY <1>2, <1>3
<1>5. Any(T) \in T
  BY <1>4, AnyIsIn
<1>6. g[T \ {Any(T)}] = g2[T \ {Any(T)}]
  BY <1>1, <1>5
<1> QED BY <1>2, <1>3, <1>6

\* There is one.
LEMMA SumsExist ==
  ASSUME NEW f, NEW S, IsFiniteSet(S)
  PROVE  \E g : Sums(g, f, S)
<1> DEFINE Bad == {T \in SUBSET S : ~\E g : Sums(g, f, T)}
<1> SUFFICES ASSUME Bad # {} PROVE FALSE
  OBVIOUS
<1>1. PICK T \in Bad : \A U \in Bad : U \subseteq T => U = T
  <2> HIDE DEF Bad
  <2>1. Bad \subseteq SUBSET S
    BY DEF Bad
  <2> QED BY <2>1, Smallest
<1>2. \A U \in SUBSET T : U # T => \E g : Sums(g, f, U)
  BY <1>1
<1> DEFINE h == [U \in SUBSET T |-> CHOOSE g : Sums(g, f, U)]
           k == [U \in SUBSET T |-> IF U = {} THEN 0 ELSE f[Any(U)] + h[U \ {Any(U)}][U \ {Any(U)}]]
<1>3. \A U \in SUBSET T : U # T => Sums(h[U], f, U)
  BY <1>2
<1>4. ASSUME NEW U \in SUBSET T, U # T PROVE k[U] = h[U][U]
  <2>1. Sums(h[U], f, U)
    BY <1>3, <1>4
  <2>2. CASE U = {}
    <3>1. h[U][U] = 0
      BY <2>1, <2>2, SumsAt
    <3> QED BY <2>2, <3>1
  <2>3. CASE U # {}
    <3> DEFINE V == U \ {Any(U)}
    <3>1. Any(U) \in U
      BY <2>3, AnyIsIn
    <3>2. V \in SUBSET T /\ V # T /\ V \subseteq U
      BY <3>1
    <3>3. Sums(h[V], f, V)
      BY <1>3, <3>2
    <3>4. IsFiniteSet(V)
      BY <3>2, FS_Subset
    <3>5. h[V][V] = h[U][V]
      <4> HIDE DEF h, V
      <4>1. \A W \in SUBSET V : h[V][W] = h[U][W]
        BY <2>1, <3>2, <3>3, <3>4, SumsAgree
      <4> QED BY <4>1
    <3>6. h[U][U] = f[Any(U)] + h[U][V]
      <4> HIDE DEF h
      <4> QED BY <2>1, <2>3, SumsAt
    <3>7. k[U] = f[Any(U)] + h[V][V]
      <4> HIDE DEF h
      <4> QED BY <2>3
    <3> QED BY <3>5, <3>6, <3>7
  <2> QED BY <2>2, <2>3
<1>5. ASSUME NEW U \in SUBSET T
      PROVE  k[U] = IF U = {} THEN 0 ELSE f[Any(U)] + k[U \ {Any(U)}]
  <2>1. CASE U = {}
    BY <2>1
  <2>2. CASE U # {}
    <3> DEFINE V == U \ {Any(U)}
    <3>1. V \in SUBSET T /\ V # T
      BY <2>2, AnyIsIn
    <3>2. k[V] = h[V][V]
      BY <1>4, <3>1
    <3>3. k[U] = f[Any(U)] + h[V][V]
      <4> HIDE DEF h
      <4> QED BY <2>2
    <3> HIDE DEF k, h
    <3> QED BY <2>2, <3>2, <3>3
  <2> QED BY <2>1, <2>2
<1>6. k = [U \in SUBSET T |-> k[U]]
  <2> HIDE DEF h
  <2> QED OBVIOUS
<1>7. Sums(k, f, T)
  <2> HIDE DEF k
  <2> QED BY <1>5, <1>6 DEF Sums
<1> QED BY <1>1, <1>7

(***************************************************************************)
(* What a sum is.                                                          *)
(***************************************************************************)
LEMMA SumEmpty == ASSUME NEW f PROVE SumFunctionOnSet(f, {}) = 0
<1>1. Sums(CHOOSE g : Sums(g, f, {}), f, {})
  BY SumsExist, FS_EmptySet
<1> DEFINE g == CHOOSE k : Sums(k, f, {})
<1>2. g[{}] = 0
  <2> HIDE DEF g
  <2>1. Sums(g, f, {})
    BY <1>1 DEF g
  <2> QED BY <2>1, SumsAt
<1> QED BY <1>2, SumIsOne

LEMMA SumStep ==
  ASSUME NEW f, NEW S, IsFiniteSet(S), S # {}
  PROVE  SumFunctionOnSet(f, S) = f[Any(S)] + SumFunctionOnSet(f, S \ {Any(S)})
<1> DEFINE T == S \ {Any(S)}
           g == CHOOSE k : Sums(k, f, S)
           h == CHOOSE k : Sums(k, f, T)
<1>1. IsFiniteSet(T)
  BY FS_Subset
<1>2. Sums(g, f, S) /\ Sums(h, f, T)
  BY <1>1, SumsExist
<1>3. SumFunctionOnSet(f, S) = g[S] /\ SumFunctionOnSet(f, T) = h[T]
  BY SumIsOne
<1> HIDE DEF g, h
<1>4. g[S] = f[Any(S)] + g[T]
  BY <1>2, SumsAt
<1> HIDE DEF T
<1>5. \A U \in SUBSET T : h[U] = g[U]
  BY <1>1, <1>2, SumsAgree DEF T
<1> QED BY <1>3, <1>4, <1>5 DEF T

LEMMA SumType ==
  ASSUME NEW f, NEW S, IsFiniteSet(S), \A x \in S : f[x] \in Int
  PROVE  SumFunctionOnSet(f, S) \in Int
<1> DEFINE Bad == {T \in SUBSET S : SumFunctionOnSet(f, T) \notin Int}
<1> SUFFICES ASSUME Bad # {} PROVE FALSE
  OBVIOUS
<1>1. PICK T \in Bad : \A U \in Bad : U \subseteq T => U = T
  <2> HIDE DEF Bad
  <2>1. Bad \subseteq SUBSET S
    BY DEF Bad
  <2> QED BY <2>1, Smallest
<1>2. IsFiniteSet(T)
  BY FS_Subset
<1>3. T # {}
  BY SumEmpty
<1>4. Any(T) \in T
  BY <1>3, AnyIsIn
<1>5. SumFunctionOnSet(f, T \ {Any(T)}) \in Int
  BY <1>1, <1>4
<1> QED BY <1>2, <1>3, <1>4, <1>5, SumStep

\* Any member may be taken out, not only the one the library chooses.
LEMMA SumRemove ==
  ASSUME NEW f, NEW S, IsFiniteSet(S), \A y \in S : f[y] \in Int, NEW x \in S
  PROVE  SumFunctionOnSet(f, S) = f[x] + SumFunctionOnSet(f, S \ {x})
<1> DEFINE Bad == {T \in SUBSET S : \E y \in T : SumFunctionOnSet(f, T) # f[y] + SumFunctionOnSet(f, T \ {y})}
<1> SUFFICES ASSUME Bad # {} PROVE FALSE
  OBVIOUS
<1>1. PICK T \in Bad : \A U \in Bad : U \subseteq T => U = T
  <2> HIDE DEF Bad
  <2>1. Bad \subseteq SUBSET S
    BY DEF Bad
  <2> QED BY <2>1, Smallest
<1>2. PICK y \in T : SumFunctionOnSet(f, T) # f[y] + SumFunctionOnSet(f, T \ {y})
  OBVIOUS
<1> DEFINE c == Any(T)
<1>3. IsFiniteSet(T) /\ c \in T
  BY FS_Subset, AnyIsIn
<1>4. SumFunctionOnSet(f, T) = f[c] + SumFunctionOnSet(f, T \ {c})
  BY <1>3, SumStep
<1> HIDE DEF c
<1>5. c # y
  BY <1>2, <1>4
<1>6. ASSUME NEW U \in SUBSET T, U # T, NEW z \in U
      PROVE  SumFunctionOnSet(f, U) = f[z] + SumFunctionOnSet(f, U \ {z})
  BY <1>1, <1>6
<1> HIDE DEF Bad
<1>7. SumFunctionOnSet(f, T \ {c}) = f[y] + SumFunctionOnSet(f, (T \ {c}) \ {y})
  BY <1>3, <1>5, <1>6
<1>8. SumFunctionOnSet(f, T \ {y}) = f[c] + SumFunctionOnSet(f, (T \ {c}) \ {y})
  <2>1. SumFunctionOnSet(f, T \ {y}) = f[c] + SumFunctionOnSet(f, (T \ {y}) \ {c})
    BY <1>3, <1>5, <1>6
  <2>2. (T \ {y}) \ {c} = (T \ {c}) \ {y}
    BY DEF Bad
  <2> QED BY <2>1, <2>2
<1>9. SumFunctionOnSet(f, (T \ {c}) \ {y}) \in Int
  <2>1. IsFiniteSet((T \ {c}) \ {y})
    BY <1>3, FS_Subset
  <2>2. \A z \in (T \ {c}) \ {y} : f[z] \in Int
    BY DEF Bad
  <2> QED BY <2>1, <2>2, SumType
<1>10. f[c] \in Int /\ f[y] \in Int
  BY <1>3 DEF Bad
<1> DEFINE rest == SumFunctionOnSet(f, (T \ {c}) \ {y})
<1>11. SumFunctionOnSet(f, T) = f[c] + (f[y] + rest)
  BY <1>4, <1>7
<1>12. SumFunctionOnSet(f, T) # f[y] + (f[c] + rest)
  BY <1>2, <1>8
<1> HIDE DEF rest
<1> QED BY <1>9, <1>10, <1>11, <1>12 DEF rest

LEMMA SumAdd ==
  ASSUME NEW f, NEW S, IsFiniteSet(S), NEW x, x \notin S, \A y \in S \cup {x} : f[y] \in Int
  PROVE  SumFunctionOnSet(f, S \cup {x}) = f[x] + SumFunctionOnSet(f, S)
<1>1. IsFiniteSet(S \cup {x}) /\ (S \cup {x}) \ {x} = S
  BY FS_AddElement
<1>2. x \in S \cup {x}
  OBVIOUS
<1>3. SumFunctionOnSet(f, S \cup {x}) = f[x] + SumFunctionOnSet(f, (S \cup {x}) \ {x})
  <2> DEFINE T == S \cup {x}
  <2>1. IsFiniteSet(T) /\ (\A y \in T : f[y] \in Int) /\ x \in T
    BY <1>1, <1>2
  <2> HIDE DEF T
  <2>2. SumFunctionOnSet(f, T) = f[x] + SumFunctionOnSet(f, T \ {x})
    BY <2>1, SumRemove
  <2> QED BY <2>2 DEF T
<1> QED BY <1>1, <1>3

\* A sum looks only at the members of its set.
LEMMA SumSame ==
  ASSUME NEW f, NEW g, NEW S, IsFiniteSet(S), \A x \in S : f[x] = g[x]
  PROVE  SumFunctionOnSet(f, S) = SumFunctionOnSet(g, S)
<1> DEFINE Bad == {T \in SUBSET S : SumFunctionOnSet(f, T) # SumFunctionOnSet(g, T)}
<1> SUFFICES ASSUME Bad # {} PROVE FALSE
  OBVIOUS
<1>1. PICK T \in Bad : \A U \in Bad : U \subseteq T => U = T
  <2> HIDE DEF Bad
  <2>1. Bad \subseteq SUBSET S
    BY DEF Bad
  <2> QED BY <2>1, Smallest
<1>2. IsFiniteSet(T)
  BY FS_Subset
<1>3. T # {}
  BY SumEmpty
<1>4. Any(T) \in T
  BY <1>3, AnyIsIn
<1>5. SumFunctionOnSet(f, T \ {Any(T)}) = SumFunctionOnSet(g, T \ {Any(T)})
  BY <1>1, <1>4
<1> QED BY <1>2, <1>3, <1>4, <1>5, SumStep

\* One addend changes: the sum changes by as much.
LEMMA SumExcept ==
  ASSUME NEW f, NEW g, NEW S, IsFiniteSet(S), NEW x \in S, \A y \in S : f[y] \in Int /\ g[y] \in Int,
         \A y \in S \ {x} : g[y] = f[y]
  PROVE  SumFunctionOnSet(g, S) = SumFunctionOnSet(f, S) - f[x] + g[x]
<1>1. IsFiniteSet(S \ {x})
  BY FS_Subset
<1>2. SumFunctionOnSet(f, S \ {x}) = SumFunctionOnSet(g, S \ {x}) /\ SumFunctionOnSet(f, S \ {x}) \in Int
  BY <1>1, SumSame, SumType
<1>3. /\ SumFunctionOnSet(f, S) = f[x] + SumFunctionOnSet(f, S \ {x})
      /\ SumFunctionOnSet(g, S) = g[x] + SumFunctionOnSet(g, S \ {x})
  BY SumRemove
<1> QED BY <1>2, <1>3

LEMMA SumMonotone ==
  ASSUME NEW f, NEW g, NEW S, IsFiniteSet(S), \A x \in S : f[x] \in Int /\ g[x] \in Int /\ f[x] <= g[x]
  PROVE  SumFunctionOnSet(f, S) <= SumFunctionOnSet(g, S)
<1> DEFINE Bad == {T \in SUBSET S : ~(SumFunctionOnSet(f, T) <= SumFunctionOnSet(g, T))}
<1> SUFFICES ASSUME Bad # {} PROVE FALSE
  OBVIOUS
<1>1. PICK T \in Bad : \A U \in Bad : U \subseteq T => U = T
  <2> HIDE DEF Bad
  <2>1. Bad \subseteq SUBSET S
    BY DEF Bad
  <2> QED BY <2>1, Smallest
<1>2. IsFiniteSet(T) /\ IsFiniteSet(T \ {Any(T)})
  BY FS_Subset
<1>3. T # {}
  BY SumEmpty
<1>4. Any(T) \in T
  BY <1>3, AnyIsIn
<1>5. SumFunctionOnSet(f, T \ {Any(T)}) <= SumFunctionOnSet(g, T \ {Any(T)})
  BY <1>1, <1>4
<1>6. SumFunctionOnSet(f, T \ {Any(T)}) \in Int /\ SumFunctionOnSet(g, T \ {Any(T)}) \in Int
  BY <1>2, SumType
<1> QED BY <1>2, <1>3, <1>4, <1>5, <1>6, SumStep

LEMMA SumNat ==
  ASSUME NEW f, NEW S, IsFiniteSet(S), \A x \in S : f[x] \in Nat
  PROVE  SumFunctionOnSet(f, S) \in Nat
<1> DEFINE zero == [x \in S |-> 0]
<1>1. SumFunctionOnSet(f, S) \in Int /\ SumFunctionOnSet(zero, S) \in Int
  BY SumType
<1>2. SumFunctionOnSet(zero, S) <= SumFunctionOnSet(f, S)
  <2>1. \A x \in S : zero[x] \in Int /\ f[x] \in Int /\ zero[x] <= f[x]
    OBVIOUS
  <2> HIDE DEF zero
  <2> QED BY <2>1, SumMonotone
<1>3. SumFunctionOnSet(zero, S) = 0
  <2> DEFINE Bad == {T \in SUBSET S : SumFunctionOnSet(zero, T) # 0}
  <2> SUFFICES ASSUME Bad # {} PROVE FALSE
    OBVIOUS
  <2>1. PICK T \in Bad : \A U \in Bad : U \subseteq T => U = T
    <3> HIDE DEF Bad
    <3>1. Bad \subseteq SUBSET S
      BY DEF Bad
    <3> QED BY <3>1, Smallest
  <2>2. IsFiniteSet(T) /\ T # {}
    BY SumEmpty, FS_Subset
  <2>3. Any(T) \in T
    BY <2>2, AnyIsIn
  <2>4. SumFunctionOnSet(zero, T \ {Any(T)}) = 0 /\ zero[Any(T)] = 0
    BY <2>1, <2>3
  <2> HIDE DEF zero
  <2>5. SumFunctionOnSet(zero, T) = zero[Any(T)] + SumFunctionOnSet(zero, T \ {Any(T)})
    BY <2>2, SumStep
  <2> QED BY <2>1, <2>4, <2>5
<1> QED BY <1>1, <1>2, <1>3

\* A sum over two sets apart is the sum of their sums.
LEMMA SumUnion ==
  ASSUME NEW f, NEW S, NEW R, IsFiniteSet(S), IsFiniteSet(R), S \cap R = {},
         \A x \in S \cup R : f[x] \in Int
  PROVE  SumFunctionOnSet(f, S \cup R) = SumFunctionOnSet(f, S) + SumFunctionOnSet(f, R)
<1> DEFINE Bad == {T \in SUBSET R : SumFunctionOnSet(f, S \cup T) # SumFunctionOnSet(f, S) + SumFunctionOnSet(f, T)}
<1> SUFFICES ASSUME Bad # {} PROVE FALSE
  OBVIOUS
<1>1. PICK T \in Bad : \A U \in Bad : U \subseteq T => U = T
  <2> HIDE DEF Bad
  <2>1. Bad \subseteq SUBSET R
    BY DEF Bad
  <2> QED BY <2>1, Smallest
<1>2. SumFunctionOnSet(f, S) \in Int
  BY SumType
<1>3. T # {}
  <2> SUFFICES ASSUME T = {} PROVE FALSE
    OBVIOUS
  <2>1. S \cup T = S
    OBVIOUS
  <2>2. SumFunctionOnSet(f, T) = 0
    BY SumEmpty
  <2>3. SumFunctionOnSet(f, S \cup T) # SumFunctionOnSet(f, S) + SumFunctionOnSet(f, T)
    OBVIOUS
  <2> HIDE DEF Bad
  <2> QED BY <1>2, <2>1, <2>2, <2>3
<1> DEFINE c == Any(T)
<1>4. c \in T
  BY <1>3, AnyIsIn
<1> HIDE DEF c
<1>5. SumFunctionOnSet(f, S \cup (T \ {c})) = SumFunctionOnSet(f, S) + SumFunctionOnSet(f, T \ {c})
  BY <1>1, <1>4
<1> HIDE DEF Bad
<1>6. T \subseteq R /\ IsFiniteSet(T) /\ IsFiniteSet(S \cup T) /\ f[c] \in Int
  <2>1. T \subseteq R
    BY DEF Bad
  <2> QED BY <1>4, <2>1, FS_Subset, FS_Union
<1>7. SumFunctionOnSet(f, T) = f[c] + SumFunctionOnSet(f, T \ {c})
  BY <1>4, <1>6, SumRemove
<1>8. SumFunctionOnSet(f, S \cup T) = f[c] + SumFunctionOnSet(f, S \cup (T \ {c}))
  <2> DEFINE V == S \cup T
  <2>1. c \in V /\ V \ {c} = S \cup (T \ {c}) /\ IsFiniteSet(V) /\ \A y \in V : f[y] \in Int
    BY <1>4, <1>6
  <2> HIDE DEF V
  <2>2. SumFunctionOnSet(f, V) = f[c] + SumFunctionOnSet(f, V \ {c})
    BY <2>1, SumRemove
  <2> QED BY <2>1, <2>2 DEF V
<1>9. SumFunctionOnSet(f, T \ {c}) \in Int
  <2>1. IsFiniteSet(T \ {c}) /\ \A y \in T \ {c} : f[y] \in Int
    BY <1>6, FS_Subset
  <2> QED BY <2>1, SumType
<1>10. SumFunctionOnSet(f, S \cup T) # SumFunctionOnSet(f, S) + SumFunctionOnSet(f, T)
  BY DEF Bad
<1> QED BY <1>2, <1>5, <1>6, <1>7, <1>8, <1>9, <1>10

\* A part of a sum of natural numbers.
LEMMA SumOfSome ==
  ASSUME NEW f, NEW S, IsFiniteSet(S), NEW R, R \subseteq S, \A x \in S : f[x] \in Nat
  PROVE  /\ SumFunctionOnSet(f, R) \in Nat /\ SumFunctionOnSet(f, S) \in Nat
         /\ SumFunctionOnSet(f, R) <= SumFunctionOnSet(f, S)
<1>1. IsFiniteSet(R) /\ IsFiniteSet(S \ R) /\ R \cup (S \ R) = S /\ R \cap (S \ R) = {}
  BY FS_Subset
<1>2. SumFunctionOnSet(f, R) \in Nat /\ SumFunctionOnSet(f, S \ R) \in Nat
  BY <1>1, SumNat
<1>3. SumFunctionOnSet(f, R \cup (S \ R)) = SumFunctionOnSet(f, R) + SumFunctionOnSet(f, S \ R)
  BY <1>1, SumUnion
<1> QED
  <2> DEFINE a == SumFunctionOnSet(f, R)
             b == SumFunctionOnSet(f, S \ R)
             c == SumFunctionOnSet(f, S)
  <2>1. a \in Nat /\ b \in Nat /\ c = a + b
    BY <1>1, <1>2, <1>3
  <2> HIDE DEF a, b, c
  <2>2. c \in Nat /\ a <= c
    BY <2>1
  <2> QED BY <2>1, <2>2 DEF a, b, c

\* A sum bounded term by term, with factors.
LEMMA SumScaled ==
  ASSUME NEW f, NEW g, NEW S, IsFiniteSet(S), \A y \in S : f[y] \in Int /\ g[y] \in Int,
         NEW c \in Int, NEW d \in Int, NEW e \in Int,
         \A y \in S : c * f[y] <= d * g[y] + e
  PROVE  c * SumFunctionOnSet(f, S) <= d * SumFunctionOnSet(g, S) + e * Cardinality(S)
<1> DEFINE F(T) == SumFunctionOnSet(f, T)
           G(T) == SumFunctionOnSet(g, T)
           Bad == {T \in SUBSET S : ~(c * F(T) <= d * G(T) + e * Cardinality(T))}
<1> SUFFICES ASSUME Bad # {} PROVE FALSE
  OBVIOUS
<1>1. PICK T \in Bad : \A U \in Bad : U \subseteq T => U = T
  <2> HIDE DEF Bad
  <2>1. Bad \subseteq SUBSET S
    BY DEF Bad
  <2> QED BY <2>1, Smallest
<1>2. CASE T = {}
  <2>1. F(T) = 0 /\ G(T) = 0 /\ Cardinality(T) = 0
    BY <1>2, SumEmpty, FS_EmptySet
  <2> HIDE DEF F, G
  <2>2. c * F(T) = 0 /\ d * G(T) = 0 /\ e * Cardinality(T) = 0
    BY <2>1, Z3
  <2> QED BY <2>2, <1>1
<1>3. CASE T # {}
  <2> DEFINE y == Any(T)
             U == T \ {y}
  <2>1. y \in T /\ T \subseteq S /\ IsFiniteSet(T)
    BY <1>1, <1>3, AnyIsIn, FS_Subset
  <2>2. U \subseteq T /\ U # T /\ U \in SUBSET S /\ IsFiniteSet(U)
    BY <2>1, FS_Subset
  <2>3. F(T) = f[y] + F(U) /\ G(T) = g[y] + G(U)
    BY <1>3, <2>1, SumStep
  <2>4. Cardinality(T) = Cardinality(U) + 1 /\ Cardinality(U) \in Nat
    <3>1. Cardinality(T \ {y}) = Cardinality(T) - 1 /\ Cardinality(T) \in Nat
      <4> HIDE DEF y
      <4> QED BY <2>1, FS_RemoveElement, FS_CardinalityType
    <3>2. Cardinality(U) \in Nat
      BY <2>2, FS_CardinalityType
    <3> QED BY <3>1, <3>2
  <2>5. F(U) \in Int /\ G(U) \in Int
    BY <2>2, SumType
  <2>6. c * F(U) <= d * G(U) + e * Cardinality(U)
    BY <1>1, <2>2
  <2>7. f[y] \in Int /\ g[y] \in Int /\ c * f[y] <= d * g[y] + e
    BY <2>1
  <2> HIDE DEF F, G, y, U
  <2> DEFINE fy == f[y]
             gy == g[y]
             fu == F(U)
             gu == G(U)
             k == Cardinality(U)
  <2>8. fy \in Int /\ gy \in Int /\ fu \in Int /\ gu \in Int /\ k \in Int
    BY <2>4, <2>5, <2>7
  <2>9. /\ c * (fy + fu) = c * fy + c * fu /\ d * (gy + gu) = d * gy + d * gu /\ e * (k + 1) = e * k + e
        /\ c * fy \in Int /\ c * fu \in Int /\ d * gy \in Int /\ d * gu \in Int /\ e * k \in Int
    <3> HIDE DEF fy, gy, fu, gu, k
    <3> QED BY <2>8, Z3
  <2>10. c * F(T) <= d * G(T) + e * Cardinality(T)
    <3>1. c * fy <= d * gy + e /\ c * fu <= d * gu + e * k
      BY <2>6, <2>7
    <3>2. c * F(T) = c * fy + c * fu /\ d * G(T) = d * gy + d * gu /\ e * Cardinality(T) = e * k + e
      BY <2>3, <2>4, <2>9
    <3> DEFINE a1 == c * fy
               a2 == c * fu
               a3 == d * gy
               a4 == d * gu
               a5 == e * k
    <3> HIDE DEF a1, a2, a3, a4, a5
    <3>3. a1 \in Int /\ a2 \in Int /\ a3 \in Int /\ a4 \in Int /\ a5 \in Int
      BY <2>9 DEF a1, a2, a3, a4, a5
    <3>4. a1 <= a3 + e /\ a2 <= a4 + a5
      BY <3>1 DEF a1, a2, a3, a4, a5
    <3>5. a1 + a2 <= (a3 + a4) + (a5 + e)
      BY <3>3, <3>4
    <3> QED BY <3>2, <3>5 DEF a1, a2, a3, a4, a5
  <2> QED BY <2>10, <1>1
<1> QED BY <1>2, <1>3

LEMMA SumOnes ==
  ASSUME NEW f, NEW S, IsFiniteSet(S), \A x \in S : f[x] = 1
  PROVE  SumFunctionOnSet(f, S) = Cardinality(S)
<1>1. SumFunctionOnSet(f, S) \in Int /\ Cardinality(S) \in Nat
  BY SumType, FS_CardinalityType
<1>2. ASSUME NEW c \in Int, NEW d \in Int, c = 1 \/ c = -1, d = 0 PROVE c * SumFunctionOnSet(f, S) <= c * Cardinality(S)
  <2>1. \A y \in S : f[y] \in Int /\ c * f[y] <= d * f[y] + c
    BY <1>2
  <2>2. c * SumFunctionOnSet(f, S) <= d * SumFunctionOnSet(f, S) + c * Cardinality(S)
    BY <2>1, SumScaled
  <2> QED BY <2>2, <1>1, <1>2
<1> DEFINE a == SumFunctionOnSet(f, S)
           b == Cardinality(S)
<1>3. 1 * a <= 1 * b
  BY <1>2
<1>4. (-1) * a <= (-1) * b
  BY <1>2
<1>5. a \in Int /\ b \in Int
  BY <1>1
<1> HIDE DEF a, b
<1>6. a = b
  BY <1>3, <1>4, <1>5
<1> QED BY <1>6 DEF a, b

-----------------------------------------------------------------------------
(* The most and the least                                                  *)

\* A finite set that is not empty has a heaviest member.
LEMMA Heaviest ==
  ASSUME NEW S, IsFiniteSet(S), S # {}, NEW w, \A x \in S : w[x] \in Int
  PROVE  \E x \in S : \A y \in S : w[x] >= w[y]
<1> DEFINE Bad == {T \in SUBSET S : T # {} /\ ~\E x \in T : \A y \in T : w[x] >= w[y]}
<1> SUFFICES ASSUME Bad # {} PROVE FALSE
  OBVIOUS
<1>1. PICK T \in Bad : \A U \in Bad : U \subseteq T => U = T
  <2> HIDE DEF Bad
  <2>1. Bad \subseteq SUBSET S
    BY DEF Bad
  <2> QED BY <2>1, Smallest
<1>2. PICK x \in T : TRUE
  BY <1>1
<1> DEFINE U == T \ {x}
<1>3. U \subseteq T /\ U # T /\ U \in SUBSET S /\ T \subseteq S
  BY <1>1, <1>2
<1>4. CASE U = {}
  <2>1. \A y \in T : y = x
    BY <1>4
  <2>2. w[x] >= w[x]
    BY <1>2, <1>3
  <2> QED BY <1>1, <1>2, <2>1, <2>2
<1>5. CASE U # {}
  <2>1. PICK m \in U : \A y \in U : w[m] >= w[y]
    BY <1>1, <1>3, <1>5
  <2>2. w[m] \in Int /\ w[x] \in Int /\ \A y \in T : w[y] \in Int
    BY <1>2, <1>3
  <2>3. CASE w[m] >= w[x]
    <3>1. \A y \in T : w[m] >= w[y]
      BY <2>1, <2>3
    <3> QED BY <1>1, <1>3, <3>1
  <2>4. CASE w[x] >= w[m]
    <3>1. \A y \in T : w[x] >= w[y]
      BY <2>1, <2>2, <2>4
    <3> QED BY <1>1, <1>2, <3>1
  <2> QED BY <2>2, <2>3, <2>4
<1> QED BY <1>4, <1>5

\* A set of natural numbers that has a bound has a least member.
LEMMA Least ==
  ASSUME NEW n \in Nat, NEW S, S \subseteq 0..n, S # {}
  PROVE  \E i \in S : \A j \in S : i <= j
<1> DEFINE upTo == {T \in SUBSET (0..n) : \E i \in S : T = 0..i}
<1>1. upTo \subseteq SUBSET (0..n) /\ upTo # {}
  <2>1. PICK i \in S : TRUE
    OBVIOUS
  <2>2. 0..i \subseteq 0..n
    BY <2>1
  <2> QED BY <2>2
<1>2. IsFiniteSet(0..n)
  BY FS_Interval
<1>3. PICK T \in upTo : \A U \in upTo : U \subseteq T => U = T
  <2> DEFINE N == 0..n
  <2> HIDE DEF upTo, N
  <2>1. upTo \subseteq SUBSET N /\ upTo # {} /\ IsFiniteSet(N)
    BY <1>1, <1>2 DEF N
  <2> QED BY <2>1, Smallest
<1>4. PICK i \in S : T = 0..i
  OBVIOUS
<1>5. ASSUME NEW j \in S, j < i PROVE FALSE
  <2>1. 0..j \in upTo /\ 0..j \subseteq T
    <3>1. 0..j \subseteq 0..n
      OBVIOUS
    <3> QED BY <3>1, <1>4, <1>5
  <2>2. 0..j = 0..i
    BY <1>3, <1>4, <2>1
  <2>3. i \in 0..i /\ i \notin 0..j
    BY <1>5
  <2> QED BY <2>2, <2>3
<1> QED BY <1>5
=============================================================================
