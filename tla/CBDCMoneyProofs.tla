-------------------------- MODULE CBDCMoneyProofs --------------------------
(***************************************************************************)
(* What happens to the money in generate(), for every number of wallets,   *)
(* coins, senders and receivers and every width of the coin values: the    *)
(* invariants of CBDCWorkload that are sums over wallets, transfers and    *)
(* senders.                                                                *)
(*                                                                         *)
(* First, sums of the values of a function over a finite set.              *)
(* SumFunctionOnSet takes the elements of the set in an order fixed by     *)
(* CHOOSE.  Induction is by a smallest counterexample, which exists among  *)
(* finite sets and among the naturals because strict inclusion and < are   *)
(* well founded: facts about sets only, that the provers can use.          *)
(***************************************************************************)
EXTENDS CBDCWorkloadProofs, Functions, WellFoundedInduction

(***************************************************************************)
(* Induction                                                               *)
(***************************************************************************)
(* Among the subsets of a finite set, one of those in Bad has no other of  *)
(* them inside.                                                            *)
LEMMA SmallestSet ==
  ASSUME NEW S, IsFiniteSet(S), NEW Bad \in SUBSET SUBSET S, Bad # {}
  PROVE  \E X \in Bad : \A Y \in SUBSET X : Y # X => Y \notin Bad
<1>1. Bad \subseteq FiniteSubsetsOf(S)
  BY FS_Subset DEF FiniteSubsetsOf
<1>2. PICK X \in Bad : \A Y \in Bad : <<Y, X>> \notin StrictSubsetOrdering(S)
  BY <1>1, FS_StrictSubsetOrderingWellFounded, WFMin
<1>3. ASSUME NEW Y \in SUBSET X, Y # X, Y \in Bad PROVE FALSE
  <2>1. X \subseteq S /\ Y \subseteq S
    OBVIOUS
  <2>2. <<Y, X>> \in StrictSubsetOrdering(S)
    BY <1>3, <2>1 DEF StrictSubsetOrdering
  <2> QED
    BY <1>2, <1>3, <2>2
<1> QED
  BY <1>3

(* Induction on the subsets of a finite set, one element at a time.        *)
LEMMA SetInduction ==
  ASSUME NEW S, IsFiniteSet(S), NEW Good,
         {} \in Good,
         \A T \in SUBSET S, x \in S : T \in Good /\ x \notin T => T \cup {x} \in Good
  PROVE  S \in Good
<1> DEFINE Bad == {T \in SUBSET S : T \notin Good}
<1> SUFFICES ASSUME S \notin Good PROVE FALSE
  OBVIOUS
<1>1. Bad \in SUBSET SUBSET S /\ Bad # {}
  OBVIOUS
<1> HIDE DEF Bad
<1>2. PICK X \in Bad : \A Y \in SUBSET X : Y # X => Y \notin Bad
  BY <1>1, SmallestSet
<1> USE DEF Bad
<1>3. X # {}
  BY <1>2
<1>4. PICK x : x \in X
  BY <1>3
<1>5. X \ {x} \in SUBSET X /\ X \ {x} # X
  BY <1>4
<1>6. X \ {x} \in Good
  BY <1>2, <1>5
<1>7. (X \ {x}) \cup {x} = X
  BY <1>4
<1> QED
  BY <1>4, <1>6, <1>7

(* Induction on the naturals, with a set for the induction hypothesis.     *)
LEMMA NatInductionInSet ==
  ASSUME NEW Good, 0 \in Good, \A n \in Nat : n \in Good => n + 1 \in Good
  PROVE  Nat \subseteq Good
<1> DEFINE Bad == {n \in Nat : n \notin Good}
           Below == {p \in Nat \X Nat : p[1] < p[2]}
<1> SUFFICES ASSUME Bad # {} PROVE FALSE
  OBVIOUS
<1>1. IsWellFoundedOn(Below, Nat)
  BY NatLessThanWellFounded DEF OpToRel
<1>2. Bad \subseteq Nat
  OBVIOUS
<1> HIDE DEF Bad
<1>3. PICK m \in Bad : \A n \in Bad : <<n, m>> \notin Below
  BY <1>1, <1>2, WFMin
<1> USE DEF Bad
<1>4. m \in Nat /\ m # 0
  OBVIOUS
<1>5. m - 1 \in Nat /\ (m - 1) + 1 = m /\ m - 1 < m
  BY <1>4
<1>6. m - 1 \notin Bad
  BY <1>3, <1>4, <1>5
<1> QED
  BY <1>3, <1>5, <1>6

(***************************************************************************)
(* The recursive function behind a sum                                     *)
(***************************************************************************)
First(s) == CHOOSE x \in s : TRUE

Solves(g, f, S) ==
  g = [s \in SUBSET S |-> IF s = {} THEN 0 ELSE f[First(s)] + g[s \ {First(s)}]]

(* SumFunctionOnSet is the value at S of a function that solves its         *)
(* recursive equation.                                                     *)
LEMMA SumByDefinition ==
  ASSUME NEW f, NEW S
  PROVE  SumFunctionOnSet(f, S) = (CHOOSE g : Solves(g, f, S))[S]
BY DEF SumFunctionOnSet, FoldFunctionOnSet, MapThenFoldSet, Solves, First

(* The element taken first is one of the set.                              *)
LEMMA FirstInside == ASSUME NEW s, s # {} PROVE First(s) \in s
BY DEF First

(* The function exists: it is built up by the size of the sets it is for.  *)
LEMMA SolutionExists ==
  ASSUME NEW f, NEW S, IsFiniteSet(S)
  PROVE  \E g : Solves(g, f, S)
<1> DEFINE Small(n) == {s \in SUBSET S : Cardinality(s) <= n}
           Rest(g, s) == IF s = {} THEN 0 ELSE f[First(s)] + g[s \ {First(s)}]
           Good == {n \in Nat : \E g : \A s \in Small(n) : g[s] = Rest(g, s)}
<1>1. ASSUME NEW s \in SUBSET S
      PROVE  /\ IsFiniteSet(s) /\ Cardinality(s) \in Nat /\ (Cardinality(s) = 0 <=> s = {})
             /\ s # {} => Cardinality(s \ {First(s)}) = Cardinality(s) - 1
  BY FS_Subset, FS_CardinalityType, FS_EmptySet, FS_RemoveElement, FirstInside
<1>2. 0 \in Good
  <2> DEFINE g == [s \in SUBSET S |-> 0]
  <2>1. ASSUME NEW s \in SUBSET S, Cardinality(s) <= 0 PROVE s = {}
    <3>1. Cardinality(s) \in Nat /\ (Cardinality(s) = 0 <=> s = {})
      BY <1>1
    <3>2. Cardinality(s) = 0
      BY <2>1, <3>1
    <3> QED
      BY <3>1, <3>2
  <2>2. \A s \in Small(0) : g[s] = Rest(g, s)
    BY <2>1
  <2> HIDE DEF g
  <2> QED
    BY <2>2
<1>3. ASSUME NEW n \in Nat, n \in Good
      PROVE  n + 1 \in Good
  <2>1. PICK g : \A s \in Small(n) : g[s] = Rest(g, s)
    BY <1>3
  <2> DEFINE h == [s \in SUBSET S |-> Rest(g, s)]
  <2>2. ASSUME NEW s \in Small(n + 1), s # {}
        PROVE  h[s \ {First(s)}] = g[s \ {First(s)}]
    <3>1. s \ {First(s)} \in Small(n)
      BY <1>1, <2>2
    <3> QED
      BY <2>1, <3>1
  <2>3. \A s \in Small(n + 1) : h[s] = Rest(h, s)
    BY <2>2
  <2> HIDE DEF h, Rest
  <2> QED
    BY <2>3
<1> HIDE DEF Good
<1>4. Cardinality(S) \in Good
  BY <1>1, <1>2, <1>3, NatInductionInSet
<1> USE DEF Good
<1>5. PICK g : \A s \in Small(Cardinality(S)) : g[s] = Rest(g, s)
  BY <1>4
<1>6. SUBSET S = Small(Cardinality(S))
  BY FS_Subset
<1> DEFINE h == [s \in SUBSET S |-> g[s]]
<1>7. \A s \in SUBSET S : s \ {First(s)} \in SUBSET S
  OBVIOUS
<1>8. \A s \in SUBSET S : h[s] = Rest(h, s)
  BY <1>5, <1>6, <1>7
<1>9. Solves(h, f, S)
  BY <1>8 DEF Solves
<1> QED
  BY <1>9

(* Two solutions agree where both are defined.                             *)
LEMMA SolutionsAgree ==
  ASSUME NEW f, NEW S, NEW T \in SUBSET S, IsFiniteSet(S),
         NEW g, Solves(g, f, S), NEW h, Solves(h, f, T)
  PROVE  g[T] = h[T]
<1> DEFINE Bad == {s \in SUBSET T : g[s] # h[s]}
<1> SUFFICES ASSUME Bad # {} PROVE FALSE
  OBVIOUS
<1>1. Bad \in SUBSET SUBSET T /\ IsFiniteSet(T)
  BY FS_Subset
<1> HIDE DEF Bad
<1>2. PICK X \in Bad : \A Y \in SUBSET X : Y # X => Y \notin Bad
  BY <1>1, SmallestSet
<1>3. /\ g[X] = IF X = {} THEN 0 ELSE f[First(X)] + g[X \ {First(X)}]
      /\ h[X] = IF X = {} THEN 0 ELSE f[First(X)] + h[X \ {First(X)}]
  BY DEF Solves, Bad
<1>4. CASE X = {}
  BY <1>3, <1>4 DEF Bad
<1>5. CASE X # {}
  <2>1. X \ {First(X)} \in SUBSET X /\ X \ {First(X)} # X
    BY <1>5, FirstInside
  <2>2. g[X \ {First(X)}] = h[X \ {First(X)}]
    BY <1>2, <2>1 DEF Bad
  <2> QED
    BY <1>3, <1>5, <2>2 DEF Bad
<1> QED
  BY <1>4, <1>5

(* The recursive equation of SumFunctionOnSet.                             *)
LEMMA SumEquation ==
  ASSUME NEW f, NEW S, IsFiniteSet(S)
  PROVE  SumFunctionOnSet(f, S) =
           IF S = {} THEN 0 ELSE f[First(S)] + SumFunctionOnSet(f, S \ {First(S)})
<1> DEFINE g == CHOOSE g : Solves(g, f, S)
           T == S \ {First(S)}
           h == CHOOSE h : Solves(h, f, T)
<1>1. IsFiniteSet(T) /\ T \in SUBSET S
  BY FS_Subset
<1>2. Solves(g, f, S) /\ Solves(h, f, T)
  BY <1>1, SolutionExists
<1>3. SumFunctionOnSet(f, S) = g[S] /\ SumFunctionOnSet(f, T) = h[T]
  BY SumByDefinition
<1> HIDE DEF g, h
<1>4. g[T] = h[T]
  BY <1>1, <1>2, SolutionsAgree
<1>5. g[S] = IF S = {} THEN 0 ELSE f[First(S)] + g[T]
  BY <1>2 DEF Solves
<1> QED
  BY <1>3, <1>4, <1>5

(***************************************************************************)
(* What the proofs about the models use                                    *)
(***************************************************************************)
(* The sum over no element.                                                *)
LEMMA SumEmpty ==
  ASSUME NEW f
  PROVE  SumFunctionOnSet(f, {}) = 0
BY SumEquation, FS_EmptySet

(* A sum of integers is an integer.                                        *)
LEMMA SumType ==
  ASSUME NEW S, IsFiniteSet(S), NEW f, \A x \in S : f[x] \in Int
  PROVE  SumFunctionOnSet(f, S) \in Int
<1> DEFINE Bad == {T \in SUBSET S : SumFunctionOnSet(f, T) \notin Int}
<1> SUFFICES ASSUME Bad # {} PROVE FALSE
  OBVIOUS
<1>1. Bad \in SUBSET SUBSET S
  OBVIOUS
<1> HIDE DEF Bad
<1>2. PICK X \in Bad : \A Y \in SUBSET X : Y # X => Y \notin Bad
  BY <1>1, SmallestSet
<1>3. IsFiniteSet(X) /\ X \in SUBSET S
  BY FS_Subset DEF Bad
<1>4. CASE X = {}
  BY <1>4, SumEmpty DEF Bad
<1>5. CASE X # {}
  <2>1. X \ {First(X)} \in SUBSET X /\ X \ {First(X)} # X /\ First(X) \in S
    BY <1>3, <1>5, FirstInside
  <2>2. SumFunctionOnSet(f, X \ {First(X)}) \in Int
    BY <1>2, <1>3, <2>1 DEF Bad
  <2>3. SumFunctionOnSet(f, X) = f[First(X)] + SumFunctionOnSet(f, X \ {First(X)})
    BY <1>3, <1>5, SumEquation
  <2> QED
    BY <2>1, <2>2, <2>3 DEF Bad
<1> QED
  BY <1>4, <1>5

(* Any element may be taken out first.                                     *)
LEMMA SumRemove ==
  ASSUME NEW S, IsFiniteSet(S), NEW f, \A y \in S : f[y] \in Int, NEW x \in S
  PROVE  SumFunctionOnSet(f, S) = f[x] + SumFunctionOnSet(f, S \ {x})
<1> DEFINE Sum(T) == SumFunctionOnSet(f, T)
           Bad == {T \in SUBSET S : \E y \in T : Sum(T) # f[y] + Sum(T \ {y})}
<1> SUFFICES ASSUME Bad # {} PROVE FALSE
  OBVIOUS
<1>1. Bad \in SUBSET SUBSET S
  OBVIOUS
<1> HIDE DEF Bad
<1>2. PICK X \in Bad : \A Y \in SUBSET X : Y # X => Y \notin Bad
  BY <1>1, SmallestSet
<1>3. X \in SUBSET S
  BY DEF Bad
<1>4. PICK y \in X : Sum(X) # f[y] + Sum(X \ {y})
  BY DEF Bad
<1>5. \A T \in SUBSET S : IsFiniteSet(T) /\ Sum(T) \in Int
  <2> TAKE T \in SUBSET S
  <2>1. IsFiniteSet(T) /\ \A z \in T : f[z] \in Int
    BY FS_Subset
  <2> QED
    BY <2>1, SumType
<1> DEFINE c == First(X)
<1>6. c \in X /\ Sum(X) = f[c] + Sum(X \ {c})
  BY <1>3, <1>4, <1>5, FirstInside, SumEquation
<1> HIDE DEF c, Sum
<1>7. c # y
  BY <1>4, <1>6
<1>8. Sum(X \ {c}) = f[y] + Sum((X \ {c}) \ {y})
  <2>1. X \ {c} \in SUBSET X /\ X \ {c} # X /\ y \in X \ {c} /\ X \ {c} \in SUBSET S
    BY <1>3, <1>4, <1>6, <1>7
  <2> QED
    BY <1>2, <2>1 DEF Bad
<1>9. Sum(X \ {y}) = f[c] + Sum((X \ {y}) \ {c})
  <2>1. X \ {y} \in SUBSET X /\ X \ {y} # X /\ c \in X \ {y} /\ X \ {y} \in SUBSET S
    BY <1>3, <1>4, <1>6, <1>7
  <2> QED
    BY <1>2, <2>1 DEF Bad
<1>10. (X \ {c}) \ {y} = (X \ {y}) \ {c} /\ (X \ {c}) \ {y} \in SUBSET S
  BY <1>3
<1>11. f[y] \in Int /\ f[c] \in Int /\ Sum((X \ {c}) \ {y}) \in Int
  BY <1>3, <1>4, <1>5, <1>6, <1>10
<1>12. \A a, b, s \in Int : a + (b + s) = b + (a + s)
  OBVIOUS
<1>13. f[c] + (f[y] + Sum((X \ {c}) \ {y})) = f[y] + (f[c] + Sum((X \ {c}) \ {y}))
  BY <1>11, <1>12
<1> QED
  BY <1>4, <1>6, <1>8, <1>9, <1>10, <1>13

(* A sum over one element more.                                            *)
LEMMA SumAdd ==
  ASSUME NEW S, IsFiniteSet(S), NEW x, x \notin S,
         NEW f, \A y \in S \cup {x} : f[y] \in Int
  PROVE  SumFunctionOnSet(f, S \cup {x}) = f[x] + SumFunctionOnSet(f, S)
<1>1. IsFiniteSet(S \cup {x}) /\ (S \cup {x}) \ {x} = S
  BY FS_AddElement
<1> QED
  BY <1>1, SumRemove

(***************************************************************************)
(* Sums over the domain of a function                                      *)
(***************************************************************************)
(* A sum of integers is an integer.                                        *)
LEMMA SumFunctionType ==
  ASSUME NEW D, IsFiniteSet(D), NEW f \in [D -> Int]
  PROVE  SumFunction(f) \in Int
BY SumType DEF SumFunction

(* A term of a sum may be taken out.                                       *)
LEMMA SumFunctionRemove ==
  ASSUME NEW D, IsFiniteSet(D), NEW f \in [D -> Int], NEW x \in D
  PROVE  SumFunction(f) = f[x] + SumFunctionOnSet(f, D \ {x})
BY SumRemove DEF SumFunction

(* A sum grows with its terms.                                             *)
LEMMA SumMonotonic ==
  ASSUME NEW S, IsFiniteSet(S), NEW f, NEW g,
         \A x \in S : f[x] \in Int /\ g[x] \in Int /\ f[x] <= g[x]
  PROVE  SumFunctionOnSet(f, S) <= SumFunctionOnSet(g, S)
<1> DEFINE F(T) == SumFunctionOnSet(f, T)
           G(T) == SumFunctionOnSet(g, T)
           Good == {T \in SUBSET S : F(T) <= G(T)}
<1>1. {} \in Good
  BY SumEmpty
<1>2. ASSUME NEW T \in SUBSET S, NEW x \in S, T \in Good, x \notin T
      PROVE  T \cup {x} \in Good
  <2>1. IsFiniteSet(T) /\ T \cup {x} \in SUBSET S
    BY FS_Subset
  <2>2. F(T \cup {x}) = f[x] + F(T) /\ G(T \cup {x}) = g[x] + G(T)
    BY <1>2, <2>1, SumAdd
  <2>3. F(T) \in Int /\ G(T) \in Int /\ F(T) <= G(T)
    BY <1>2, <2>1, SumType
  <2> HIDE DEF F, G
  <2>4. f[x] \in Int /\ g[x] \in Int /\ f[x] <= g[x]
    OBVIOUS
  <2>5. F(T \cup {x}) <= G(T \cup {x})
    BY <2>2, <2>3, <2>4
  <2> QED
    BY <2>1, <2>5
<1> HIDE DEF Good
<1>3. S \in Good
  BY <1>1, <1>2, SetInduction
<1> QED
  BY <1>3 DEF Good

(* Equal terms, equal sums.                                                *)
LEMMA SumSame ==
  ASSUME NEW S, IsFiniteSet(S), NEW f, NEW g, \A x \in S : f[x] \in Int /\ f[x] = g[x]
  PROVE  SumFunctionOnSet(f, S) = SumFunctionOnSet(g, S)
<1>1. \A x \in S : f[x] <= g[x] /\ g[x] <= f[x] /\ g[x] \in Int
  OBVIOUS
<1>2. /\ SumFunctionOnSet(f, S) <= SumFunctionOnSet(g, S)
      /\ SumFunctionOnSet(g, S) <= SumFunctionOnSet(f, S)
  BY <1>1, SumMonotonic
<1>3. SumFunctionOnSet(f, S) \in Int /\ SumFunctionOnSet(g, S) \in Int
  BY <1>1, SumType
<1> QED
  BY <1>2, <1>3

(* A sum of equal terms is a product.                                      *)
LEMMA SumConstant ==
  ASSUME NEW S, IsFiniteSet(S), NEW k \in Int, NEW f, \A x \in S : f[x] = k
  PROVE  SumFunctionOnSet(f, S) = k * Cardinality(S)
<1> DEFINE F(T) == SumFunctionOnSet(f, T)
           Good == {T \in SUBSET S : F(T) = k * Cardinality(T)}
<1>1. {} \in Good
  <2>1. F({}) = 0 /\ Cardinality({}) = 0
    BY SumEmpty, FS_EmptySet
  <2> QED
    BY <2>1
<1>2. ASSUME NEW T \in SUBSET S, NEW x \in S, T \in Good, x \notin T
      PROVE  T \cup {x} \in Good
  <2>1. IsFiniteSet(T) /\ T \cup {x} \in SUBSET S
    BY FS_Subset
  <2>2. F(T \cup {x}) = k + F(T)
    <3>1. \A y \in T \cup {x} : f[y] = k /\ f[y] \in Int
      BY <2>1
    <3>2. F(T \cup {x}) = f[x] + F(T)
      BY <1>2, <2>1, <3>1, SumAdd
    <3> QED
      BY <3>1, <3>2
  <2>3. Cardinality(T) \in Nat /\ Cardinality(T \cup {x}) = Cardinality(T) + 1
    BY <1>2, <2>1, FS_AddElement, FS_CardinalityType
  <2> HIDE DEF F
  <2>4. \A n \in Nat : k * (n + 1) = k + k * n
    OBVIOUS
  <2>5. F(T) = k * Cardinality(T)
    BY <1>2
  <2>6. F(T \cup {x}) = k * Cardinality(T \cup {x})
    BY <2>2, <2>3, <2>4, <2>5
  <2> QED
    BY <2>1, <2>6
<1> HIDE DEF Good
<1>3. S \in Good
  BY <1>1, <1>2, SetInduction
<1> QED
  BY <1>3 DEF Good

(* A sum of zeros is zero.                                                 *)
LEMMA SumZero ==
  ASSUME NEW S, IsFiniteSet(S), NEW f, \A x \in S : f[x] = 0
  PROVE  SumFunctionOnSet(f, S) = 0
<1>1. SumFunctionOnSet(f, S) = 0 * Cardinality(S) /\ Cardinality(S) \in Nat
  BY SumConstant, FS_CardinalityType
<1> QED
  BY <1>1

(* A sum with one term that is not zero.                                   *)
LEMMA SumOfOne ==
  ASSUME NEW D, IsFiniteSet(D), NEW f \in [D -> Int], NEW x \in D,
         \A y \in D \ {x} : f[y] = 0
  PROVE  SumFunction(f) = f[x]
<1>1. IsFiniteSet(D \ {x})
  BY FS_Subset
<1>2. SumFunctionOnSet(f, D \ {x}) = 0
  BY <1>1, SumZero
<1> QED
  BY <1>2, SumFunctionRemove

(* A sum without a term that is not zero.                                  *)
LEMMA SumOfNone ==
  ASSUME NEW D, IsFiniteSet(D), NEW f, DOMAIN f = D, \A y \in D : f[y] = 0
  PROVE  SumFunction(f) = 0
BY SumZero DEF SumFunction

(* A sum of naturals is a natural.                                         *)
LEMMA SumNat ==
  ASSUME NEW D, IsFiniteSet(D), NEW f \in [D -> Nat]
  PROVE  SumFunction(f) \in Nat
<1> DEFINE zero == [x \in D |-> 0]
<1>1. \A x \in D : zero[x] = 0 /\ f[x] \in Nat
  OBVIOUS
<1> HIDE DEF zero
<1>2. SumFunctionOnSet(zero, D) = 0
  BY <1>1, SumZero
<1>3. \A x \in D : zero[x] \in Int /\ f[x] \in Int /\ zero[x] <= f[x]
  BY <1>1
<1>4. SumFunctionOnSet(zero, D) <= SumFunctionOnSet(f, D) /\ SumFunctionOnSet(f, D) \in Int
  BY <1>3, SumMonotonic, SumType
<1> QED
  BY <1>2, <1>4 DEF SumFunction

(* One term changes.                                                       *)
LEMMA SumChange ==
  ASSUME NEW D, IsFiniteSet(D), NEW f \in [D -> Int], NEW g \in [D -> Int], NEW x \in D,
         \A y \in D \ {x} : g[y] = f[y]
  PROVE  SumFunction(g) = SumFunction(f) + (g[x] - f[x])
<1>1. IsFiniteSet(D \ {x}) /\ \A y \in D \ {x} : f[y] \in Int
  BY FS_Subset
<1>2. SumFunctionOnSet(g, D \ {x}) = SumFunctionOnSet(f, D \ {x})
  BY <1>1, SumSame
<1>3. /\ SumFunction(f) = f[x] + SumFunctionOnSet(f, D \ {x})
      /\ SumFunction(g) = g[x] + SumFunctionOnSet(g, D \ {x})
  BY SumFunctionRemove
<1>4. SumFunctionOnSet(f, D \ {x}) \in Int
  BY <1>1, SumType
<1>5. f[x] \in Int /\ g[x] \in Int
  OBVIOUS
<1> QED
  BY <1>2, <1>3, <1>4, <1>5

(* A sequence of terms gets one more.                                      *)
LEMMA SumOneMore ==
  ASSUME NEW n \in Nat, NEW f \in [1..n -> Int], NEW g \in [1..(n + 1) -> Int],
         \A i \in 1..n : g[i] = f[i]
  PROVE  SumFunction(g) = SumFunction(f) + g[n + 1]
<1>1. IsFiniteSet(1..n) /\ 1..(n + 1) = (1..n) \cup {n + 1} /\ n + 1 \notin 1..n
  <2>1. IsFiniteSet(1..n)
    BY FS_Interval
  <2>2. n + 1 \notin 1..n /\ 1..(n + 1) = (1..n) \cup {n + 1}
    OBVIOUS
  <2> QED
    BY <2>1, <2>2
<1>2. SumFunctionOnSet(g, (1..n) \cup {n + 1}) = g[n + 1] + SumFunctionOnSet(g, 1..n)
  BY <1>1, SumAdd
<1>3. \A i \in 1..n : f[i] \in Int
  OBVIOUS
<1>4. SumFunctionOnSet(g, 1..n) = SumFunctionOnSet(f, 1..n)
  BY <1>1, <1>3, SumSame
<1>5. SumFunctionOnSet(f, 1..n) \in Int /\ g[n + 1] \in Int
  BY <1>1, <1>3, SumType
<1>6. SumFunction(g) = SumFunctionOnSet(g, 1..(n + 1)) /\ SumFunction(f) = SumFunctionOnSet(f, 1..n)
  BY DEF SumFunction
<1>7. SumFunction(g) = g[n + 1] + SumFunction(f)
  BY <1>1, <1>2, <1>4, <1>6
<1> QED
  BY <1>5, <1>6, <1>7


(***************************************************************************)
(* The inductive invariant                                                 *)
(***************************************************************************)
(* A release build, where no search is ever given up.                      *)
NeverGivesUp == DanglingCompare = {FALSE}

Debit == TransferValuePerWallet

(* Every sender pays Debit with a coin of its own, and every receiver has  *)
(* got its share of each.                                                  *)
PaymentsInv ==
  /\ owner \in Shuffles
  /\ pc = "new" => /\ transfers = <<>>
                   /\ expected = [a \in Wallets \X Coins |-> 0]
  /\ InFlight =>
       /\ \A i \in DOMAIN senders :
            /\ senders[i].value = Debit
            /\ senders[i].coin \in CoinsOf(senders[i].wallet)
       /\ \A i, j \in DOMAIN senders : senders[i].coin = senders[j].coin => i = j
       /\ \A i \in DOMAIN receivers : receivers[i].coins = Shares
  /\ pc \in {"senders", "failed"} => receivers = <<>>

(* What the transfer being built has taken of a coin and not given yet.    *)
Held(c) ==
  IF InFlight /\ c \in SpentCoins(Current) THEN Debit - ValueIn * Len(receivers) ELSE 0

WorthInv == \A c \in Coins : Worth(c) + Held(c) <= CoinInitialValue

ExactWorthInv == pc # "new" => \A c \in Coins : Worth(c) + Held(c) = CoinInitialValue

MoneyInv == IInv /\ PartsInv /\ PaymentsInv

(***************************************************************************)
(* Numbers                                                                 *)
(***************************************************************************)
(* What the receivers of a transfer have got of a coin is at most Debit.   *)
LEMMA AmountFacts ==
  /\ Debit \in Nat /\ ValueIn \in Nat
  /\ \A n \in Nat : n <= ReceiversPerTransfer => ValueIn * n \in Nat /\ ValueIn * n <= Debit
  /\ ReceiversPerTransfer > 0 => ValueIn = Debit \div ReceiversPerTransfer
<1>1. Debit \in Nat /\ ValueIn \in Nat
  BY AmountTypes DEF Debit, Values
<1>2. ReceiversPerTransfer > 0 => ValueIn = Debit \div ReceiversPerTransfer
  BY SizesAssumption DEF ValueIn, Debit
<1>3. ASSUME NEW n \in Nat, n <= ReceiversPerTransfer
      PROVE  ValueIn * n \in Nat /\ ValueIn * n <= Debit
  <2>1. CASE ReceiversPerTransfer = 0
    <3>1. n = 0
      BY <1>3, <2>1
    <3> QED
      BY <1>1, <3>1
  <2>2. CASE ReceiversPerTransfer > 0
    <3>1. ReceiversPerTransfer \in Nat
      BY SizesAssumption
    <3>2. \A d, r \in Nat : r > 0 => (d \div r) * r <= d
      OBVIOUS
    <3>3. ValueIn * ReceiversPerTransfer <= Debit
      BY <1>1, <1>2, <2>2, <3>1, <3>2
    <3>4. \A v, r, k \in Nat : k <= r => v * k <= v * r
      OBVIOUS
    <3>5. ValueIn * n <= ValueIn * ReceiversPerTransfer
      BY <1>1, <1>3, <3>1, <3>4
    <3>6. ValueIn * n \in Nat /\ ValueIn * ReceiversPerTransfer \in Nat
      BY <1>1, <3>1
    <3> QED
      BY <1>1, <3>3, <3>5, <3>6
  <2> QED
    BY <2>1, <2>2, SizesAssumption
<1> QED
  BY <1>1, <1>2, <1>3

(* The wallets and coins are finitely many.                                *)
LEMMA FiniteParts ==
  /\ IsFiniteSet(Wallets) /\ IsFiniteSet(Coins)
  /\ \A w \in Wallets : IsFiniteSet(CoinsOf(w)) /\ CoinsOf(w) \subseteq Coins
<1>1. NumWallets * CoinsPerWallet \in Nat
  BY SizesAssumption
<1>2. IsFiniteSet(Wallets) /\ IsFiniteSet(Coins)
  BY <1>1, SizesAssumption, FS_Interval DEF Wallets, Coins
<1>3. \A w \in Wallets : CoinsOf(w) \subseteq Coins
  BY DEF CoinsOf
<1> QED
  BY <1>2, <1>3, FS_Subset

(* Every coin is minted to some wallet.                                    *)
LEMMA CoinHasOwner ==
  ASSUME NEW c \in Coins
  PROVE  \E w \in Wallets : c \in CoinsOf(w)
<1> DEFINE w == c \div CoinsPerWallet
<1>1. NumWallets \in Nat /\ CoinsPerWallet \in Nat /\ NumWallets * CoinsPerWallet \in Nat
  BY SizesAssumption
<1>2. c \in Nat /\ c < NumWallets * CoinsPerWallet
  BY <1>1 DEF Coins
<1>3. CoinsPerWallet > 0
  BY <1>1, <1>2
<1>4. \A d, r \in Nat : r > 0 => /\ d \div r \in Nat /\ (d \div r) * r <= d
                               /\ d < (d \div r + 1) * r
  OBVIOUS
<1>5. w \in Nat /\ w * CoinsPerWallet <= c /\ c < (w + 1) * CoinsPerWallet
  BY <1>1, <1>2, <1>3, <1>4
<1> HIDE DEF w
<1>6. w < NumWallets
  <2> SUFFICES ASSUME NumWallets <= w PROVE FALSE
    BY <1>1, <1>5
  <2>1. \A x, y, z \in Nat : x <= y => x * z <= y * z
    OBVIOUS
  <2>2. NumWallets * CoinsPerWallet <= w * CoinsPerWallet
    BY <1>1, <1>5, <2>1
  <2>3. w * CoinsPerWallet \in Nat
    BY <1>1, <1>5
  <2> QED
    BY <1>1, <1>2, <1>5, <2>2, <2>3
<1>7. w \in Wallets
  BY <1>1, <1>5, <1>6 DEF Wallets
<1> QED
  BY <1>5, <1>7 DEF CoinsOf

(***************************************************************************)
(* What the steps do                                                       *)
(***************************************************************************)
(* The steps that move no money and leave the list as it is.               *)
Quiet ==
  /\ UNCHANGED <<owner, live, senders, receivers, transfers, expected>>
  /\ InFlight' = InFlight
  /\ pc = "new" <=> pc' = "new"
  /\ pc' \in {"senders", "failed"} => pc \in {"senders", "failed"}

(* These are all the steps but those that pay, credit, start or end.       *)
LEMMA QuietSteps ==
  ASSUME SkipPicked \/ SendersPicked \/ NotEnoughFunds \/ Finish \/ Returned \/ UNCHANGED vars
  PROVE  Quiet
<1>1. CASE SkipPicked
  BY <1>1 DEF SkipPicked, Quiet, InFlight
<1>2. CASE SendersPicked
  BY <1>2 DEF SendersPicked, Quiet, InFlight
<1>3. CASE NotEnoughFunds
  BY <1>3 DEF NotEnoughFunds, PickingSender, Quiet, InFlight
<1>4. CASE Finish
  BY <1>4 DEF Finish, Quiet, InFlight
<1>5. CASE Returned \/ UNCHANGED vars
  BY <1>5 DEF Returned, vars, Quiet, InFlight
<1> QED
  BY <1>1, <1>2, <1>3, <1>4, <1>5

(* Giving up drops the transfer being built.                               *)
LEMMA GiveUpDrops ==
  ASSUME GiveUp
  PROVE  /\ UNCHANGED <<owner, live, transfers, expected>>
         /\ InFlight /\ ~InFlight' /\ pc \in {"senders", "receivers"} /\ pc' \in {"next", "done"}
BY DEF GiveUp, InFlight, Picking, PickingSender, PickingReceiver

(* Without a comparison that may turn out true nothing is given up.        *)
LEMMA NoGivingUp ==
  ASSUME IInv, NeverGivesUp
  PROVE  ~GiveUp
<1> SUFFICES ASSUME GiveUp PROVE FALSE
  OBVIOUS
<1>1. started \notin live
  BY IInvImpliesStartedIsErased DEF StartedIsErased, GiveUp
<1> QED
  BY <1>1 DEF GiveUp, IsStarted, NeverGivesUp

(* A sender pays Debit with a coin of its own that no other sender uses.   *)
Pays(w, c) ==
  /\ pc = "senders" /\ pc' = "senders"
  /\ w \notin Spenders(Current) /\ c \notin SpentCoins(Current)
  /\ cursor \in live /\ owner[cursor] = w /\ live' = live \ {cursor}
  /\ senders' = Append(senders, [wallet |-> w, coin |-> c, value |-> Debit])
  /\ DOMAIN senders' = DOMAIN senders \cup {Len(senders) + 1}
  /\ Len(senders') = Len(senders) + 1
  /\ senders'[Len(senders) + 1] = [wallet |-> w, coin |-> c, value |-> Debit]
  /\ \A i \in DOMAIN senders : senders'[i] = senders[i]
  /\ expected[<<w, c>>] >= Debit
  /\ expected' = [expected EXCEPT ![<<w, c>>] = @ - Debit]
  /\ UNCHANGED <<owner, receivers, transfers>>

(* PickSender is such a payment.                                           *)
LEMMA PickSenderPays ==
  ASSUME MoneyInv, PickSender
  PROVE  \E w \in Wallets : \E c \in CoinsOf(w) : Pays(w, c)
<1> DEFINE w == owner[cursor]
<1>1. pc = "senders" /\ pc' = "senders" /\ w \notin picked
  BY DEF PickSender, PickingSender
<1>2. cursor \in live /\ cursor \in Nodes /\ w \in Wallets
  BY IInvImpliesCursorLive DEF MoneyInv, IInv, TypeOK, CursorLive, PickSender, Picking
<1>3. PICK c \in Affordable(w) :
        /\ senders' = Append(senders, [wallet |-> w, coin |-> c, value |-> Debit])
        /\ expected' = [expected EXCEPT ![<<w, c>>] = @ - Debit]
  BY DEF PickSender, Debit
<1>4. c \in CoinsOf(w) /\ expected[<<w, c>>] >= Debit
  BY DEF Affordable, Debit
<1>5. senders \in Seq(Payments)
  BY DEF MoneyInv, IInv, TypeOK
<1>6. /\ DOMAIN senders' = DOMAIN senders \cup {Len(senders) + 1}
      /\ senders'[Len(senders) + 1] = [wallet |-> w, coin |-> c, value |-> Debit]
      /\ \A i \in DOMAIN senders : senders'[i] = senders[i]
  BY <1>3, <1>5, AppendDomain
<1>7. Len(senders') = Len(senders) + 1
  BY <1>3, <1>5
<1>8. w \notin Spenders(Current)
  BY <1>1 DEF MoneyInv, PartsInv
<1>9. c \notin SpentCoins(Current)
  <2> SUFFICES ASSUME NEW i \in DOMAIN senders, senders[i].coin = c PROVE FALSE
    BY DEF SpentCoins, Current
  <2>1. senders[i].wallet \in Wallets /\ senders[i].wallet \in Spenders(Current)
    BY PartsFinite DEF Spenders, Current, MoneyInv
  <2>2. c \in CoinsOf(senders[i].wallet)
    BY <1>1 DEF MoneyInv, PartsInv
  <2> QED
    BY <1>2, <1>4, <1>8, <2>1, <2>2, CoinsDisjoint
<1>10. live' = live \ {cursor} /\ UNCHANGED <<owner, receivers, transfers>>
  BY DEF PickSender, EraseCursor
<1>11. Pays(w, c)
  BY <1>1, <1>2, <1>3, <1>4, <1>6, <1>7, <1>8, <1>9, <1>10 DEF Pays
<1> QED
  BY <1>2, <1>4, <1>11

(* A receiver that plays no other part in the transfer gets its shares.    *)
Receives(w) ==
  /\ pc = "receivers" /\ pc' = "receivers"
  /\ w \notin Spenders(Current) /\ w \notin Recipients(Current)
  /\ Len(receivers) \in Nat /\ Len(receivers) < ReceiversPerTransfer
  /\ cursor \in live /\ owner[cursor] = w /\ live' = live \ {cursor}
  /\ receivers' = Append(receivers, [wallet |-> w, coins |-> Shares])
  /\ DOMAIN receivers' = DOMAIN receivers \cup {Len(receivers) + 1}
  /\ Len(receivers') = Len(receivers) + 1
  /\ receivers'[Len(receivers) + 1] = [wallet |-> w, coins |-> Shares]
  /\ \A i \in DOMAIN receivers : receivers'[i] = receivers[i]
  /\ expected' = Credited(w)
  /\ UNCHANGED <<owner, senders, transfers>>

(* PickReceiver is such a receipt.                                         *)
LEMMA PickReceiverReceives ==
  ASSUME MoneyInv, PickReceiver
  PROVE  \E w \in Wallets : Receives(w)
<1> DEFINE w == owner[cursor]
<1>1. /\ pc = "receivers" /\ pc' = "receivers" /\ w \notin picked
      /\ Len(receivers) < ReceiversPerTransfer
  BY DEF PickReceiver, PickingReceiver
<1>2. cursor \in live /\ cursor \in Nodes /\ w \in Wallets
  BY IInvImpliesCursorLive DEF MoneyInv, IInv, TypeOK, CursorLive, PickReceiver, Picking
<1>3. receivers \in Seq(Receipts) /\ Len(receivers) \in Nat
  BY DEF MoneyInv, IInv, TypeOK
<1>4. receivers' = Append(receivers, [wallet |-> w, coins |-> Shares])
  BY DEF PickReceiver
<1>5. /\ DOMAIN receivers' = DOMAIN receivers \cup {Len(receivers) + 1}
      /\ receivers'[Len(receivers) + 1] = [wallet |-> w, coins |-> Shares]
      /\ \A i \in DOMAIN receivers : receivers'[i] = receivers[i]
      /\ Len(receivers') = Len(receivers) + 1
  BY <1>3, <1>4, AppendDomain
<1>6. w \notin Spenders(Current) /\ w \notin Recipients(Current)
  BY <1>1 DEF MoneyInv, PartsInv
<1>7. live' = live \ {cursor} /\ expected' = Credited(w) /\ UNCHANGED <<owner, senders, transfers>>
  BY DEF PickReceiver, EraseCursor
<1>8. Receives(w)
  BY <1>1, <1>2, <1>3, <1>4, <1>5, <1>6, <1>7 DEF Receives
<1> QED
  BY <1>2, <1>8

(* A whole transfer is appended to the list.                               *)
LEMMA PushTransferAppends ==
  ASSUME MoneyInv, PushTransfer
  PROVE  /\ transfers' = Append(transfers, Current)
         /\ Current \in Transfers
         /\ pc = "receivers" /\ pc' = "next" /\ InFlight /\ ~InFlight'
         /\ Len(receivers) = ReceiversPerTransfer
         /\ UNCHANGED <<owner, live, senders, receivers, expected>>
<1>1. Len(receivers) \in Nat /\ Len(receivers) <= ReceiversPerTransfer
  BY DEF MoneyInv, PushTransfer, IInv, TypeOK, ListInv
<1>2. Len(receivers) = ReceiversPerTransfer
  BY <1>1, SizesAssumption DEF PushTransfer
<1>3. Current \in Transfers
  BY DEF Current, Transfers, MoneyInv, IInv, TypeOK
<1> QED
  BY <1>2, <1>3 DEF PushTransfer, Current, InFlight

(***************************************************************************)
(* Payments                                                                *)
(***************************************************************************)
(* PaymentsInv is kept by every step.                                      *)
LEMMA PaymentsStep == MoneyInv /\ [Next]_vars => PaymentsInv'
<1> SUFFICES ASSUME MoneyInv, [Next]_vars PROVE PaymentsInv'
  OBVIOUS
<1> USE DEF MoneyInv
<1>1. CASE Quiet
  <2>1. Shares' = Shares
    BY <1>1 DEF Quiet, Shares
  <2> QED
    BY <1>1, <2>1 DEF Quiet, PaymentsInv
<1>2. CASE GiveUp
  BY <1>2, GiveUpDrops DEF PaymentsInv
<1>3. CASE Prepare
  BY <1>3 DEF Prepare, PaymentsInv, InFlight
<1>4. CASE StartTransfer
  BY <1>4 DEF StartTransfer, PaymentsInv, InFlight
<1>5. CASE PickSender
  <2>1. PICK w \in Wallets : \E c \in CoinsOf(w) : Pays(w, c)
    BY <1>5, PickSenderPays
  <2>2. PICK c \in CoinsOf(w) : Pays(w, c)
    BY <2>1
  <2>3. receivers = <<>> /\ InFlight
    BY <2>2 DEF Pays, PaymentsInv, InFlight
  <2>4. ASSUME NEW i \in DOMAIN senders' 
        PROVE  senders'[i].value = Debit /\ senders'[i].coin \in CoinsOf(senders'[i].wallet)
    BY <2>2, <2>3 DEF Pays, PaymentsInv
  <2>5. \A i \in DOMAIN senders : senders[i].coin # c
    BY <2>2 DEF Pays, SpentCoins, Current
  <2>6. \A i, j \in DOMAIN senders' : senders'[i].coin = senders'[j].coin => i = j
    BY <2>2, <2>3, <2>5 DEF Pays, PaymentsInv
  <2> QED
    BY <2>2, <2>3, <2>4, <2>6 DEF Pays, PaymentsInv
<1>6. CASE PickReceiver
  <2>1. PICK w \in Wallets : Receives(w)
    BY <1>6, PickReceiverReceives
  <2>2. Shares' = Shares
    BY <2>1 DEF Receives, Shares
  <2>3. InFlight
    BY <2>1 DEF Receives, InFlight
  <2>4. \A i \in DOMAIN receivers' : receivers'[i].coins = Shares
    BY <2>1, <2>3 DEF Receives, PaymentsInv
  <2> QED
    BY <2>1, <2>2, <2>3, <2>4 DEF Receives, PaymentsInv
<1>7. CASE PushTransfer
  BY <1>7, PushTransferAppends DEF PaymentsInv
<1> QED
  BY <1>1, <1>2, <1>3, <1>4, <1>5, <1>6, <1>7, QuietSteps DEF Next

(* The initial states.                                                     *)
LEMMA InitMoney == Init => MoneyInv
<1> SUFFICES ASSUME Init PROVE MoneyInv
  OBVIOUS
<1>1. PartsInv
  BY DEF Init, PartsInv
<1>2. PaymentsInv
  BY DEF Init, PaymentsInv, InFlight
<1> QED
  BY <1>1, <1>2, InitIInv DEF MoneyInv

(* MoneyInv is an invariant.                                               *)
LEMMA MoneyInvHolds == Spec => []MoneyInv
<1>1. MoneyInv /\ [Next]_vars => MoneyInv'
  BY NextIInv, NextParts, PaymentsStep DEF MoneyInv
<1> QED
  BY <1>1, InitMoney, PTL DEF Spec

(***************************************************************************)
(* The worth of a coin                                                     *)
(***************************************************************************)
(* The worth of a coin according to e.                                     *)
WorthIn(e, c) == SumFunction([w \in Wallets |-> e[<<w, c>>]])

(* Worth is a sum over the expected values, before and after a step.       *)
LEMMA WorthIsWorthIn ==
  ASSUME NEW c
  PROVE  Worth(c) = WorthIn(expected, c) /\ Worth(c)' = WorthIn(expected', c)
BY DEF Worth, WorthIn

(* No account holds more of a coin than it is worth.                       *)
LEMMA WorthBounds ==
  ASSUME NEW e \in [Wallets \X Coins -> Values], NEW c \in Coins
  PROVE  /\ WorthIn(e, c) \in Int
         /\ \A w \in Wallets : e[<<w, c>>] \in Nat /\ e[<<w, c>>] <= WorthIn(e, c)
<1> DEFINE f == [w \in Wallets |-> e[<<w, c>>]]
<1>1. \A w \in Wallets : e[<<w, c>>] \in Nat
  BY DEF Values
<1>2. f \in [Wallets -> Int] /\ \A w \in Wallets : f[w] = e[<<w, c>>] /\ f[w] \in Nat
  BY <1>1
<1>3. WorthIn(e, c) = SumFunction(f)
  BY DEF WorthIn
<1> HIDE DEF f
<1>4. SumFunction(f) \in Int
  BY <1>2, FiniteParts, SumFunctionType
<1>5. ASSUME NEW w \in Wallets
      PROVE  f[w] <= SumFunction(f)
  <2> DEFINE S == Wallets \ {w}
             zero == [v \in S |-> 0]
  <2>1. IsFiniteSet(S)
    BY FiniteParts, FS_Subset
  <2>2. \A v \in S : zero[v] = 0
    OBVIOUS
  <2> HIDE DEF zero
  <2>3. ASSUME NEW v \in S
        PROVE  zero[v] \in Int /\ f[v] \in Int /\ zero[v] <= f[v]
    <3>1. zero[v] = 0
      BY <2>2
    <3>2. f[v] \in Nat
      BY <1>2
    <3> QED
      BY <3>1, <3>2
  <2>4. SumFunctionOnSet(zero, S) = 0
    BY <2>1, <2>2, SumZero
  <2>5. SumFunctionOnSet(zero, S) <= SumFunctionOnSet(f, S)
    BY <2>1, <2>3, SumMonotonic
  <2>6. SumFunctionOnSet(f, S) \in Int
    BY <2>1, <2>3, SumType
  <2>7. SumFunction(f) = f[w] + SumFunctionOnSet(f, S)
    BY <1>2, FiniteParts, SumFunctionRemove
  <2> HIDE DEF S
  <2> QED
    BY <1>2, <2>4, <2>5, <2>6, <2>7
<1> QED
  BY <1>2, <1>3, <1>4, <1>5

(* The worth of a coin changes with the account that does.                 *)
LEMMA WorthChanges ==
  ASSUME NEW e \in [Wallets \X Coins -> Values], NEW d \in [Wallets \X Coins -> Values],
         NEW c \in Coins, NEW w \in Wallets, \A v \in Wallets \ {w} : d[<<v, c>>] = e[<<v, c>>]
  PROVE  WorthIn(d, c) = WorthIn(e, c) + (d[<<w, c>>] - e[<<w, c>>])
<1> DEFINE f == [v \in Wallets |-> e[<<v, c>>]]
           g == [v \in Wallets |-> d[<<v, c>>]]
<1>1. Values \subseteq Int
  BY DEF Values
<1>2. f \in [Wallets -> Int] /\ g \in [Wallets -> Int]
  BY <1>1
<1>3. f[w] = e[<<w, c>>] /\ g[w] = d[<<w, c>>] /\ \A v \in Wallets \ {w} : g[v] = f[v]
  OBVIOUS
<1>4. WorthIn(e, c) = SumFunction(f) /\ WorthIn(d, c) = SumFunction(g)
  BY DEF WorthIn
<1> HIDE DEF f, g
<1> QED
  BY <1>2, <1>3, <1>4, FiniteParts, SumChange

(* A minted coin is worth CoinInitialValue.                                *)
LEMMA WorthMinted ==
  ASSUME NEW c \in Coins
  PROVE  WorthIn(Minted, c) = CoinInitialValue
<1> DEFINE f == [v \in Wallets |-> Minted[<<v, c>>]]
<1>1. PICK w \in Wallets : c \in CoinsOf(w)
  BY CoinHasOwner
<1>2. Values \subseteq Int
  BY DEF Values
<1>3. f \in [Wallets -> Int]
  BY <1>2, AmountTypes
<1>4. f[w] = CoinInitialValue
  BY <1>1 DEF Minted
<1>5. \A v \in Wallets \ {w} : f[v] = 0
  BY <1>1, CoinsDisjoint DEF Minted
<1>6. WorthIn(Minted, c) = SumFunction(f)
  BY DEF WorthIn
<1> HIDE DEF f
<1> QED
  BY <1>1, <1>3, <1>4, <1>5, <1>6, FiniteParts, SumOfOne

(* Coins that nobody holds are worth nothing.                              *)
LEMMA WorthNothing ==
  ASSUME NEW e, \A w \in Wallets, c \in Coins : e[<<w, c>>] = 0, NEW c \in Coins
  PROVE  WorthIn(e, c) = 0
<1> DEFINE f == [v \in Wallets |-> e[<<v, c>>]]
<1>1. DOMAIN f = Wallets /\ \A v \in Wallets : f[v] = 0
  OBVIOUS
<1>2. WorthIn(e, c) = SumFunction(f)
  BY DEF WorthIn
<1> HIDE DEF f
<1> QED
  BY <1>1, <1>2, FiniteParts, SumOfNone

(***************************************************************************)
(* What a receiver gets                                                    *)
(***************************************************************************)
(* A coin is spent by one sender of a transfer at most.                    *)
LEMMA SpenderOfCoin ==
  ASSUME MoneyInv, InFlight, NEW c
  PROVE  \/ /\ c \notin SpentCoins(Current)
            /\ \A i \in DOMAIN senders : senders[i].coin # c
         \/ /\ c \in SpentCoins(Current)
            /\ \E i \in DOMAIN senders :
                 /\ senders[i].coin = c
                 /\ \A j \in DOMAIN senders : senders[j].coin = c => j = i
<1>1. \A i, j \in DOMAIN senders : senders[i].coin = senders[j].coin => i = j
  BY DEF MoneyInv, PaymentsInv
<1>2. SpentCoins(Current) = {senders[i].coin : i \in DOMAIN senders}
  BY DEF SpentCoins, Current
<1> QED
  BY <1>1, <1>2

(* The types of the expected values and of the transfer being built.       *)
LEMMA ExpectedTypes ==
  ASSUME MoneyInv
  PROVE  /\ expected \in [Wallets \X Coins -> Values]
         /\ \A a \in Wallets \X Coins : expected[a] \in Nat /\ expected[a] % ValueModulus = expected[a]
         /\ Len(senders) \in Nat /\ DOMAIN senders = 1..Len(senders) /\ IsFiniteSet(DOMAIN senders)
         /\ Len(receivers) \in Nat /\ DOMAIN receivers = 1..Len(receivers)
         /\ IsFiniteSet(DOMAIN receivers)
         /\ SpentCoins(Current) \subseteq Coins
<1>1. /\ expected \in [Wallets \X Coins -> Values]
      /\ senders \in Seq(Payments) /\ receivers \in Seq(Receipts)
  BY DEF MoneyInv, IInv, TypeOK
<1>2. \A v \in Values : v \in Nat /\ v % ValueModulus = v
  BY ValuesAssumption DEF Values
<1>3. /\ Len(senders) \in Nat /\ DOMAIN senders = 1..Len(senders)
      /\ Len(receivers) \in Nat /\ DOMAIN receivers = 1..Len(receivers)
  BY <1>1
<1>4. IsFiniteSet(DOMAIN senders) /\ IsFiniteSet(DOMAIN receivers)
  BY <1>3, FS_Interval
<1>5. \A a \in Wallets \X Coins : expected[a] \in Nat /\ expected[a] % ValueModulus = expected[a]
  BY <1>1, <1>2
<1> QED
  BY <1>1, <1>3, <1>4, <1>5, PartsFinite DEF MoneyInv

(* A receiver's account of a spent coin is credited once.                  *)
LEMMA CreditIs ==
  ASSUME MoneyInv, InFlight, NEW w, NEW a \in Wallets \X Coins
  PROVE  Credited(w)[a] = IF a[1] = w /\ a[2] \in SpentCoins(Current)
                          THEN (expected[a] + ValueIn) % ValueModulus ELSE expected[a]
<1> DEFINE paidWith == {i \in DOMAIN senders : senders[i].coin = a[2]}
<1>1. Credited(w)[a] = IF a[1] = w THEN (expected[a] + ValueIn * Cardinality(paidWith)) % ValueModulus
                       ELSE expected[a]
  BY DEF Credited
<1>2. expected[a] \in Nat /\ expected[a] % ValueModulus = expected[a] /\ ValueIn \in Nat
  BY ExpectedTypes, AmountFacts
<1>3. CASE a[2] \in SpentCoins(Current)
  <2>1. \E i : paidWith = {i}
    BY <1>3, SpenderOfCoin
  <2>2. Cardinality(paidWith) = 1
    BY <2>1, FS_Singleton
  <2> HIDE DEF paidWith
  <2> QED
    BY <1>1, <1>2, <1>3, <2>2
<1>4. CASE a[2] \notin SpentCoins(Current)
  <2>1. paidWith = {}
    BY <1>4, SpenderOfCoin
  <2>2. Cardinality(paidWith) = 0
    BY <2>1, FS_EmptySet
  <2> HIDE DEF paidWith
  <2> QED
    BY <1>1, <1>2, <1>4, <2>2
<1> QED
  BY <1>3, <1>4

(* The share of a coin that a receiver gets.                               *)
LEMMA ShareIs ==
  ASSUME MoneyInv, InFlight, ReceiversPerTransfer > 0, NEW c
  PROVE  ShareOf(Shares, c) = IF c \in SpentCoins(Current) THEN ValueIn ELSE 0
<1> DEFINE f == [j \in DOMAIN Shares |-> IF Shares[j].coin = c THEN Shares[j].value ELSE 0]
           D == DOMAIN senders
<1>1. DOMAIN Shares = D /\ IsFiniteSet(D)
  BY ExpectedTypes DEF Shares
<1>2. \A j \in D : Shares[j].coin = senders[j].coin /\ Shares[j].value = ValueIn
  BY AmountFacts DEF Shares, MoneyInv, PaymentsInv
<1>3. DOMAIN f = D /\ \A j \in D : f[j] = IF senders[j].coin = c THEN ValueIn ELSE 0
  BY <1>1, <1>2
<1>4. ShareOf(Shares, c) = SumFunction(f)
  BY DEF ShareOf
<1>5. f \in [D -> Int]
  BY <1>1, <1>3, AmountFacts
<1> HIDE DEF f
<1>6. CASE c \in SpentCoins(Current)
  <2>1. PICK i \in D : senders[i].coin = c /\ \A j \in D : senders[j].coin = c => j = i
    BY <1>6, SpenderOfCoin
  <2>2. f[i] = ValueIn /\ \A j \in D \ {i} : f[j] = 0
    BY <1>3, <2>1
  <2> HIDE DEF D
  <2>3. SumFunction(f) = f[i]
    BY <1>1, <1>5, <2>2, SumOfOne
  <2> QED
    BY <1>4, <1>6, <2>2, <2>3
<1>7. CASE c \notin SpentCoins(Current)
  <2>1. \A j \in D : f[j] = 0
    BY <1>3, <1>7, SpenderOfCoin
  <2> HIDE DEF D
  <2>2. SumFunction(f) = 0
    BY <1>1, <1>3, <2>1, SumOfNone
  <2> QED
    BY <1>4, <1>7, <2>2
<1> QED
  BY <1>6, <1>7

(***************************************************************************)
(* No money is created                                                     *)
(***************************************************************************)
(* A credit never wraps around: what the transfer still holds of the coin  *)
(* covers the share.                                                       *)
LEMMA CreditFits ==
  ASSUME MoneyInv, WorthInv, NEW w \in Wallets, Receives(w), NEW a \in Wallets \X Coins
  PROVE  expected'[a] = IF a[1] = w /\ a[2] \in SpentCoins(Current)
                        THEN expected[a] + ValueIn ELSE expected[a]
<1>1. InFlight /\ expected' = Credited(w) /\ Len(receivers) \in Nat
      /\ Len(receivers) < ReceiversPerTransfer
  BY DEF Receives, InFlight
<1>2. CASE a[1] = w /\ a[2] \in SpentCoins(Current)
  <2> DEFINE c == a[2]
             n == Len(receivers)
  <2>1. c \in Coins /\ a = <<w, c>>
    BY <1>2
  <2>2. Worth(c) + (Debit - ValueIn * n) <= CoinInitialValue
    BY <1>1, <1>2, <2>1 DEF WorthInv, Held
  <2>3. Worth(c) \in Int /\ expected[a] \in Nat /\ expected[a] <= Worth(c)
    BY <2>1, WorthBounds, WorthIsWorthIn, ExpectedTypes
  <2>4. ValueIn * (n + 1) <= Debit /\ ValueIn * n \in Nat /\ Debit \in Nat /\ ValueIn \in Nat
    BY <1>1, SizesAssumption, AmountFacts
  <2>5. ValueIn * (n + 1) = ValueIn * n + ValueIn
    BY <1>1, AmountFacts
  <2>6. CoinInitialValue < ValueModulus /\ CoinInitialValue \in Nat /\ ValueModulus \in Nat
    BY ValuesAssumption
  <2> HIDE DEF n
  <2>7. expected[a] + ValueIn \in Nat /\ expected[a] + ValueIn < ValueModulus
    BY <2>2, <2>3, <2>4, <2>5, <2>6
  <2>8. (expected[a] + ValueIn) % ValueModulus = expected[a] + ValueIn
    BY <2>6, <2>7
  <2> QED
    BY <1>1, <1>2, <2>8, CreditIs
<1>3. CASE ~(a[1] = w /\ a[2] \in SpentCoins(Current))
  BY <1>1, <1>3, CreditIs
<1> QED
  BY <1>2, <1>3

(* What a step makes of the worth of a coin and of what is held of it.     *)
LEMMA PayKeepsWorth ==
  ASSUME MoneyInv, MoneyInv', NEW w \in Wallets, NEW c \in CoinsOf(w), Pays(w, c), NEW d \in Coins
  PROVE  Worth(d)' + Held(d)' = Worth(d) + Held(d) /\ Worth(d) \in Int /\ Held(d) \in Int
<1>1. InFlight /\ InFlight' /\ receivers = <<>> /\ receivers' = <<>>
  BY DEF Pays, InFlight, MoneyInv, PaymentsInv
<1>2. SpentCoins(Current)' = SpentCoins(Current) \cup {c}
  BY DEF Pays, SpentCoins, Current
<1>3. c \in Coins /\ c \notin SpentCoins(Current)
  BY DEF Pays, CoinsOf
<1>4. Len(receivers) = 0 /\ Len(receivers') = 0 /\ ValueIn * 0 = 0 /\ Debit \in Nat
  BY <1>1, AmountFacts
<1>5. /\ Held(d) = IF d \in SpentCoins(Current) THEN Debit ELSE 0
      /\ Held(d)' = IF d \in SpentCoins(Current)' THEN Debit ELSE 0
  BY <1>1, <1>4 DEF Held
<1>6. expected \in [Wallets \X Coins -> Values] /\ expected' \in [Wallets \X Coins -> Values]
  BY DEF MoneyInv, IInv, TypeOK
<1>7. /\ \A v \in Wallets \ {w} : expected'[<<v, d>>] = expected[<<v, d>>]
      /\ expected'[<<w, d>>] = IF d = c THEN expected[<<w, d>>] - Debit ELSE expected[<<w, d>>]
  BY <1>3, <1>6 DEF Pays
<1>8. Worth(d)' = Worth(d) + (expected'[<<w, d>>] - expected[<<w, d>>])
  <2>1. \A v \in Wallets \ {w} : expected'[<<v, d>>] = expected[<<v, d>>]
    BY <1>7
  <2>2. WorthIn(expected', d) = WorthIn(expected, d) + (expected'[<<w, d>>] - expected[<<w, d>>])
    BY <1>6, <2>1, WorthChanges
  <2>3. Worth(d) = WorthIn(expected, d) /\ Worth(d)' = WorthIn(expected', d)
    BY WorthIsWorthIn
  <2> QED
    BY <2>2, <2>3
<1>9. Worth(d) \in Int /\ expected[<<w, d>>] \in Nat
  BY <1>6, WorthBounds, WorthIsWorthIn
<1> QED
  BY <1>2, <1>3, <1>4, <1>5, <1>7, <1>8, <1>9

(* A receiver takes from what is held of a coin what it adds to its worth. *)
LEMMA ReceiptKeepsWorth ==
  ASSUME MoneyInv, MoneyInv', WorthInv, NEW w \in Wallets, Receives(w), NEW d \in Coins
  PROVE  Worth(d)' + Held(d)' = Worth(d) + Held(d) /\ Worth(d) \in Int /\ Held(d) \in Int
<1> DEFINE n == Len(receivers)
<1>1. InFlight /\ InFlight' /\ n \in Nat /\ Len(receivers') = n + 1 /\ n < ReceiversPerTransfer
  BY DEF Receives, InFlight
<1>2. SpentCoins(Current)' = SpentCoins(Current)
  BY DEF Receives, SpentCoins, Current
<1>3. /\ Held(d) = IF d \in SpentCoins(Current) THEN Debit - ValueIn * n ELSE 0
      /\ Held(d)' = IF d \in SpentCoins(Current) THEN Debit - ValueIn * (n + 1) ELSE 0
  BY <1>1, <1>2 DEF Held
<1>4. ValueIn * (n + 1) = ValueIn * n + ValueIn /\ ValueIn * n \in Nat /\ ValueIn \in Nat /\ Debit \in Nat
  BY <1>1, AmountFacts
<1>5. expected \in [Wallets \X Coins -> Values] /\ expected' \in [Wallets \X Coins -> Values]
  BY DEF MoneyInv, IInv, TypeOK
<1>6. /\ \A v \in Wallets \ {w} : expected'[<<v, d>>] = expected[<<v, d>>]
      /\ expected'[<<w, d>>] = IF d \in SpentCoins(Current) THEN expected[<<w, d>>] + ValueIn
                              ELSE expected[<<w, d>>]
  BY CreditFits
<1>7. Worth(d)' = Worth(d) + (expected'[<<w, d>>] - expected[<<w, d>>])
  <2>1. \A v \in Wallets \ {w} : expected'[<<v, d>>] = expected[<<v, d>>]
    BY <1>6
  <2>2. WorthIn(expected', d) = WorthIn(expected, d) + (expected'[<<w, d>>] - expected[<<w, d>>])
    BY <1>5, <2>1, WorthChanges
  <2>3. Worth(d) = WorthIn(expected, d) /\ Worth(d)' = WorthIn(expected', d)
    BY WorthIsWorthIn
  <2> QED
    BY <2>2, <2>3
<1>8. Worth(d) \in Int /\ expected[<<w, d>>] \in Nat
  BY <1>5, WorthBounds, WorthIsWorthIn
<1> HIDE DEF n
<1> QED
  BY <1>3, <1>4, <1>6, <1>7, <1>8

(* Both the bound on the worth of a coin and its exact value are kept by   *)
(* the steps that move money between accounts and the transfer being built *)
LEMMA WorthStep == MoneyInv /\ MoneyInv' /\ WorthInv /\ [Next]_vars => WorthInv'
<1> SUFFICES ASSUME MoneyInv, MoneyInv', WorthInv, [Next]_vars, NEW d \in Coins
             PROVE  Worth(d)' + Held(d)' <= CoinInitialValue
  BY DEF WorthInv
<1>1. Worth(d) + Held(d) <= CoinInitialValue /\ CoinInitialValue \in Nat
  BY ValuesAssumption DEF WorthInv
<1>2. CASE Quiet
  <2>1. Held(d)' = Held(d)
    BY <1>2 DEF Quiet, Held, SpentCoins, Current
  <2>2. Worth(d)' = Worth(d)
    BY <1>2, WorthIsWorthIn DEF Quiet
  <2> QED
    BY <1>1, <2>1, <2>2
<1>3. CASE GiveUp \/ PushTransfer
  <2>1. InFlight /\ ~InFlight' /\ expected' = expected /\ pc \in {"senders", "receivers"}
    BY <1>3, GiveUpDrops, PushTransferAppends
  <2>2. Len(receivers) \in Nat /\ Len(receivers) <= ReceiversPerTransfer
    BY <2>1, SizesAssumption DEF MoneyInv, IInv, TypeOK, ListInv
  <2>3. ValueIn * Len(receivers) \in Nat /\ ValueIn * Len(receivers) <= Debit /\ Debit \in Nat
    BY <2>2, AmountFacts
  <2>4. Held(d) \in Nat /\ Held(d)' = 0
    BY <2>1, <2>3 DEF Held
  <2>5. Worth(d)' = Worth(d) /\ Worth(d) \in Int
    BY <2>1, WorthIsWorthIn, WorthBounds, ExpectedTypes
  <2> QED
    BY <1>1, <2>4, <2>5
<1>4. CASE Prepare
  <2>1. ~InFlight' /\ expected' = Minted
    BY <1>4 DEF Prepare, InFlight
  <2>2. Worth(d)' = CoinInitialValue /\ Held(d)' = 0
    BY <2>1, WorthIsWorthIn, WorthMinted DEF Held
  <2> QED
    BY <1>1, <2>2
<1>5. CASE StartTransfer
  <2>1. ~InFlight /\ expected' = expected /\ SpentCoins(Current)' = {}
    BY <1>5 DEF StartTransfer, InFlight, SpentCoins, Current
  <2>2. Held(d)' = Held(d) /\ Worth(d)' = Worth(d)
    BY <2>1, WorthIsWorthIn DEF Held
  <2> QED
    BY <1>1, <2>2
<1>6. CASE PickSender
  BY <1>1, <1>6, PickSenderPays, PayKeepsWorth
<1>7. CASE PickReceiver
  BY <1>1, <1>7, PickReceiverReceives, ReceiptKeepsWorth
<1> QED
  BY <1>2, <1>3, <1>4, <1>5, <1>6, <1>7, QuietSteps DEF Next

(* WorthInv is an invariant.                                               *)
LEMMA WorthHolds == Spec => []WorthInv
<1>1. Init => WorthInv
  <2> SUFFICES ASSUME Init, NEW c \in Coins PROVE Worth(c) + Held(c) <= CoinInitialValue
    BY DEF WorthInv
  <2>1. \A w \in Wallets, d \in Coins : expected[<<w, d>>] = 0
    BY DEF Init
  <2>2. Worth(c) = 0
    BY <2>1, WorthIsWorthIn, WorthNothing
  <2>3. Held(c) = 0
    BY DEF Init, Held, InFlight
  <2> QED
    BY <2>2, <2>3, ValuesAssumption
<1> QED
  BY <1>1, WorthStep, MoneyInvHolds, PTL DEF Spec

(* No coin is ever worth more than what was minted (generate() lines       *)
(* 53-149), whatever the comparisons with "started" give and whatever      *)
(* product of -v and -r wraps around in 32 bits.                           *)
THEOREM MoneyIsNotCreated == Spec => []NoMoneyCreated
<1>1. MoneyInv /\ WorthInv => NoMoneyCreated
  <2> SUFFICES ASSUME MoneyInv, WorthInv, NEW c \in Coins PROVE Worth(c) <= CoinInitialValue
    BY DEF NoMoneyCreated
  <2>1. Held(c) \in Nat
    <3>1. CASE InFlight
      <4>1. Len(receivers) \in Nat /\ Len(receivers) <= ReceiversPerTransfer
        BY <3>1, SizesAssumption DEF MoneyInv, IInv, TypeOK, ListInv, PaymentsInv, InFlight
      <4>2. ValueIn * Len(receivers) \in Nat /\ ValueIn * Len(receivers) <= Debit /\ Debit \in Nat
        BY <4>1, AmountFacts
      <4> QED
        BY <4>2 DEF Held
    <3>2. CASE ~InFlight
      BY <3>2 DEF Held
    <3> QED
      BY <3>1, <3>2
  <2>2. Worth(c) \in Int
    BY WorthIsWorthIn, WorthBounds, ExpectedTypes
  <2> QED
    BY <2>1, <2>2, ValuesAssumption DEF WorthInv
<1> QED
  BY <1>1, WorthHolds, MoneyInvHolds, PTL

(* When the product of -v and -r fits its 32 bits, so that a sender pays   *)
(* exactly what the receivers get, and no search is given up, a coin is    *)
(* worth what was minted before and after every transfer.                  *)
THEOREM MoneyIsNotLost ==
  ASSUME NeverGivesUp, ValueIn * ReceiversPerTransfer = TransferValuePerWallet
  PROVE  Spec => []NoMoneyLost
<1>1. Init => ExactWorthInv
  BY DEF Init, ExactWorthInv
<1>2. ASSUME MoneyInv, MoneyInv', WorthInv, ExactWorthInv, [Next]_vars
      PROVE  ExactWorthInv'
  <2> SUFFICES ASSUME pc' # "new", NEW d \in Coins
               PROVE  Worth(d)' + Held(d)' = CoinInitialValue
    BY DEF ExactWorthInv
  <2> USE <1>2
  <2>1. CASE Quiet
    <3>1. Held(d)' = Held(d)
      BY <2>1 DEF Quiet, Held, SpentCoins, Current
    <3>2. Worth(d)' = Worth(d)
      BY <2>1, WorthIsWorthIn DEF Quiet
    <3> QED
      BY <2>1, <3>1, <3>2 DEF Quiet, ExactWorthInv
  <2>2. CASE PushTransfer
    <3>1. /\ InFlight /\ ~InFlight' /\ expected' = expected /\ pc = "receivers"
          /\ Len(receivers) = ReceiversPerTransfer
      BY <2>2, PushTransferAppends
    <3>2. Held(d) = 0 /\ Held(d)' = 0
      BY <1>2, <3>1, AmountFacts DEF Held, Debit
    <3>3. Worth(d)' = Worth(d)
      BY <3>1, WorthIsWorthIn
    <3> QED
      BY <3>1, <3>2, <3>3 DEF ExactWorthInv
  <2>3. CASE Prepare
    <3>1. ~InFlight' /\ expected' = Minted
      BY <2>3 DEF Prepare, InFlight
    <3>2. Worth(d)' = CoinInitialValue /\ Held(d)' = 0
      BY <3>1, WorthIsWorthIn, WorthMinted DEF Held
    <3> QED
      BY <3>2, ValuesAssumption
  <2>4. CASE StartTransfer
    <3>1. ~InFlight /\ expected' = expected /\ SpentCoins(Current)' = {} /\ pc # "new"
      BY <2>4 DEF StartTransfer, InFlight, SpentCoins, Current
    <3>2. Held(d)' = Held(d) /\ Worth(d)' = Worth(d)
      BY <3>1, WorthIsWorthIn DEF Held
    <3> QED
      BY <3>1, <3>2 DEF ExactWorthInv
  <2>5. CASE PickSender
    <3>1. pc # "new"
      BY <2>5 DEF PickSender, PickingSender
    <3> QED
      BY <2>5, <3>1, PickSenderPays, PayKeepsWorth DEF ExactWorthInv
  <2>6. CASE PickReceiver
    <3>1. pc # "new"
      BY <2>6 DEF PickReceiver, PickingReceiver
    <3> QED
      BY <2>6, <3>1, PickReceiverReceives, ReceiptKeepsWorth DEF ExactWorthInv
  <2> QED
    BY <2>1, <2>2, <2>3, <2>4, <2>5, <2>6, QuietSteps, NoGivingUp DEF Next, MoneyInv
<1>3. MoneyInv /\ ExactWorthInv => NoMoneyLost
  <2> SUFFICES ASSUME MoneyInv, ExactWorthInv, pc \in {"next", "done"}, NEW c \in Coins
               PROVE  Worth(c) = CoinInitialValue
    BY DEF NoMoneyLost
  <2>1. Held(c) = 0
    BY DEF Held, InFlight
  <2>2. Worth(c) \in Int
    BY WorthIsWorthIn, WorthBounds, ExpectedTypes
  <2> QED
    BY <2>1, <2>2 DEF ExactWorthInv
<1> QED
  BY <1>1, <1>2, <1>3, WorthHolds, MoneyInvHolds, PTL DEF Spec
=============================================================================
