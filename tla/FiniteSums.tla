----------------------------- MODULE FiniteSums -----------------------------
(***************************************************************************)
(* What SumFunctionOnSet and SumFunction of the community modules compute  *)
(* for a finite set.  They are defined by recursion on sets, so that       *)
(* everything about them takes an induction, which is stated with a family *)
(* of sets in place of a predicate: a family that has the empty set, and   *)
(* each set it has with one element more, has every finite set.            *)
(***************************************************************************)
EXTENDS Integers, FiniteSets, Functions, FiniteSetTheorems, WellFoundedInduction, TLAPS

(* A family that has a subset of a finite set whenever it has all strictly *)
(* smaller ones has every subset.                                          *)
THEOREM SubsetInduction ==
  ASSUME NEW S, IsFiniteSet(S), NEW F,
         \A U \in SUBSET S : (\A T \in SUBSET U : T # U => T \in F) => U \in F
  PROVE  \A U \in SUBSET S : U \in F
<1> SUFFICES ASSUME NEW V \in SUBSET S, V \notin F PROVE FALSE
  OBVIOUS
<1> DEFINE R == StrictSubsetOrdering(S)
           Bad == {T \in SUBSET S : T \notin F}
<1>1. IsWellFoundedOn(R, FiniteSubsetsOf(S))
  BY FS_StrictSubsetOrderingWellFounded
<1>2. Bad \subseteq FiniteSubsetsOf(S) /\ Bad # {}
  BY FS_Subset DEF FiniteSubsetsOf
<1>3. \A U, T \in SUBSET S : U \subseteq T /\ U # T => <<U, T>> \in R
  BY DEF StrictSubsetOrdering
<1> HIDE DEF R
<1>4. \E T \in Bad : \A U \in Bad : ~ (<<U, T>> \in R)
  <2> HIDE DEF Bad
  <2> QED
    BY <1>1, <1>2, WFMin
<1>5. PICK T \in Bad : \A U \in Bad : ~ (<<U, T>> \in R)
  BY <1>4
<1>6. T \in SUBSET S /\ T \notin F
  BY <1>5
<1>7. ASSUME NEW U \in SUBSET T, U # T
      PROVE  U \in F
  <2>1. U \in SUBSET S
    BY <1>6
  <2>2. <<U, T>> \in R
    BY <1>3, <1>6, <1>7, <2>1
  <2> QED
    BY <1>5, <2>1, <2>2
<1> QED
  BY <1>6, <1>7

(* A family that has the empty set, and each set it has with one element   *)
(* more, has the whole finite set.                                         *)
THEOREM FiniteInduction ==
  ASSUME NEW S, IsFiniteSet(S), NEW F, {} \in F,
         \A T \in SUBSET S : \A x \in S \ T : T \in F => T \cup {x} \in F
  PROVE  S \in F
<1>1. ASSUME NEW U \in SUBSET S, \A T \in SUBSET U : T # U => T \in F
      PROVE  U \in F
  <2>1. CASE U = {}
    BY <2>1
  <2>2. CASE U # {}
    <3>1. PICK x \in U : TRUE
      BY <2>2
    <3>2. U \ {x} \in SUBSET U /\ U \ {x} # U /\ x \in S \ (U \ {x})
      BY <3>1
    <3>3. (U \ {x}) \cup {x} = U
      BY <3>1
    <3>4. U \ {x} \in F
      BY <1>1, <3>2
    <3>5. (U \ {x}) \cup {x} \in F
      BY <3>2, <3>4
    <3> QED
      BY <3>3, <3>5
  <2> QED
    BY <2>1, <2>2
<1> QED
  BY <1>1, SubsetInduction

(* A family of subsets that has every set it has without the chosen one.   *)
Pick(U) == CHOOSE x \in U : TRUE

LEMMA PickInduction ==
  ASSUME NEW S, IsFiniteSet(S), NEW F, {} \in F,
         \A U \in SUBSET S : U # {} /\ U \ {Pick(U)} \in F => U \in F
  PROVE  \A U \in SUBSET S : U \in F
<1>1. ASSUME NEW U \in SUBSET S, \A T \in SUBSET U : T # U => T \in F
      PROVE  U \in F
  <2>1. CASE U = {}
    BY <2>1
  <2>2. CASE U # {}
    <3>1. Pick(U) \in U
      BY <2>2 DEF Pick
    <3>2. U \ {Pick(U)} \in SUBSET U /\ U \ {Pick(U)} # U
      BY <3>1
    <3> QED
      BY <1>1, <2>2, <3>2
  <2> QED
    BY <2>1, <2>2
<1> QED
  BY <1>1, SubsetInduction

(* A set of natural numbers that is not empty has a least one.             *)
LEMMA LeastNat ==
  ASSUME NEW T, T \subseteq Nat, T # {}
  PROVE  \E x \in T : \A y \in T : x <= y
<1> DEFINE R == OpToRel(<, Nat)
<1>1. IsWellFoundedOn(R, Nat)
  BY NatLessThanWellFounded
<1>2. \A x, y \in Nat : y < x => <<y, x>> \in R
  BY DEF OpToRel
<1> HIDE DEF R
<1>3. \E x \in T : \A y \in T : ~ (<<y, x>> \in R)
  BY <1>1, WFMin
<1>4. PICK x \in T : \A y \in T : ~ (<<y, x>> \in R)
  BY <1>3
<1>5. \A y \in T : x <= y
  <2> TAKE y \in T
  <2>1. x \in Nat /\ y \in Nat
    OBVIOUS
  <2>2. ~ (y < x)
    BY <1>2, <1>4, <2>1, Zenon
  <2> QED BY <2>1, <2>2
<1> QED BY <1>5

(* A set that has 0 and every successor of what it has has Nat.            *)
THEOREM NatSetInduction ==
  ASSUME NEW N, 0 \in N, \A n \in Nat : n \in N => n + 1 \in N
  PROVE  Nat \subseteq N
<1> SUFFICES ASSUME NEW m \in Nat, m \notin N PROVE FALSE
  OBVIOUS
<1> DEFINE Bad == Nat \ N
<1>1. PICK x \in Bad : \A y \in Bad : x <= y
  BY LeastNat
<1>2. x # 0 /\ x - 1 \in Nat
  BY <1>1
<1>3. x - 1 \notin N
  BY <1>1, <1>2
<1>4. x - 1 \in Bad /\ ~ (x <= x - 1)
  BY <1>2, <1>3
<1> QED
  BY <1>1, <1>4

(* Recursion on the finite subsets of a set: the function that sums up the *)
(* weights of the elements in the order in which they are chosen.          *)
SumAt(w, g, U) == IF U = {} THEN 0 ELSE w[Pick(U)] + g[U \ {Pick(U)}]

IsSum(w, S, g) == g = [U \in SUBSET S |-> SumAt(w, g, U)]

LEMMA SumExists ==
  ASSUME NEW S, IsFiniteSet(S), NEW w, \A x \in S : w[x] \in Int
  PROVE  \E g : IsSum(w, S, g)
<1> DEFINE Small(n) == {U \in SUBSET S : Cardinality(U) <= n}
           Has(n) == \E g \in [Small(n) -> Int] : \A U \in Small(n) : g[U] = SumAt(w, g, U)
           N == {n \in Nat : Has(n)}
<1>1. \A U \in SUBSET S : IsFiniteSet(U) /\ Cardinality(U) \in Nat
  BY FS_Subset, FS_CardinalityType
<1>2. \A U \in SUBSET S : U # {} => Pick(U) \in U
  BY DEF Pick
<1>3. \A U \in SUBSET S : U # {} => Cardinality(U \ {Pick(U)}) = Cardinality(U) - 1
  BY <1>1, <1>2, FS_RemoveElement
<1>4. \A U \in SUBSET S : Cardinality(U) <= 0 <=> U = {}
  BY <1>1, FS_EmptySet
<1>5. 0 \in N
  <2> DEFINE g == [U \in Small(0) |-> 0]
  <2>1. g \in [Small(0) -> Int]
    OBVIOUS
  <2>2. \A U \in Small(0) : g[U] = SumAt(w, g, U)
    BY <1>4 DEF SumAt
  <2> QED
    BY <2>1, <2>2
<1>6. ASSUME NEW n \in Nat, n \in N
      PROVE  n + 1 \in N
  <2>1. PICK g \in [Small(n) -> Int] : \A U \in Small(n) : g[U] = SumAt(w, g, U)
    BY <1>6
  <2> DEFINE h == [U \in Small(n + 1) |-> IF U \in Small(n) THEN g[U] ELSE SumAt(w, g, U)]
  <2>2. \A U \in Small(n + 1) : U # {} => U \ {Pick(U)} \in Small(n)
    BY <1>1, <1>3
  <2>3. Small(n) \subseteq Small(n + 1)
    BY <1>1
  <2>4. \A U \in Small(n + 1) : h[U] = SumAt(w, g, U)
    BY <2>1
  <2>5. \A U \in Small(n) : h[U] = g[U]
    BY <2>3
  <2>6. \A U \in Small(n + 1) : U # {} => h[U \ {Pick(U)}] = g[U \ {Pick(U)}]
    BY <2>2, <2>5
  <2>7. \A U \in Small(n + 1) : h[U] = SumAt(w, h, U)
    BY <2>4, <2>6 DEF SumAt
  <2>8. h \in [Small(n + 1) -> Int]
    <3>1. \A U \in Small(n + 1) : SumAt(w, g, U) \in Int
      <4> TAKE U \in Small(n + 1)
      <4>1. CASE U = {}
        BY <4>1 DEF SumAt
      <4>2. CASE U # {}
        <5>1. g[U \ {Pick(U)}] \in Int
          BY <2>1, <2>2, <4>2
        <5>2. w[Pick(U)] \in Int
          BY <1>2, <4>2
        <5> QED
          BY <4>2, <5>1, <5>2 DEF SumAt
      <4> QED
        BY <4>1, <4>2
    <3> HIDE DEF Small
    <3> QED
      BY <2>1, <3>1
  <2>9. Has(n + 1)
    BY <2>7, <2>8
  <2> QED
    BY <2>9
<1>7. Cardinality(S) \in N
  <2> HIDE DEF N
  <2>1. Nat \subseteq N
    BY <1>5, <1>6, NatSetInduction
  <2> QED
    BY <1>1, <2>1
<1>8. PICK g \in [Small(Cardinality(S)) -> Int] :
        \A U \in Small(Cardinality(S)) : g[U] = SumAt(w, g, U)
  BY <1>7
<1>9. Small(Cardinality(S)) = SUBSET S
  BY FS_Subset, FS_CardinalityType
<1> HIDE DEF Small
<1>10. g = [U \in SUBSET S |-> SumAt(w, g, U)]
  BY <1>8, <1>9
<1> QED
  BY <1>10 DEF IsSum

(* Such a function is one to the integers, and there is no other.          *)
LEMMA SumTyped ==
  ASSUME NEW S, IsFiniteSet(S), NEW w, \A x \in S : w[x] \in Int,
         NEW g, \A U \in SUBSET S : g[U] = SumAt(w, g, U)
  PROVE  \A U \in SUBSET S : g[U] \in Int
<1> DEFINE F == {U \in SUBSET S : g[U] \in Int}
<1>1. {} \in F
  BY DEF SumAt
<1>2. ASSUME NEW U \in SUBSET S, U # {}, U \ {Pick(U)} \in F
      PROVE  U \in F
  <2>1. w[Pick(U)] \in Int
    BY <1>2 DEF Pick
  <2>2. g[U \ {Pick(U)}] \in Int
    BY <1>2
  <2>3. g[U] = w[Pick(U)] + g[U \ {Pick(U)}]
    BY <1>2 DEF SumAt
  <2> QED
    BY <2>1, <2>2, <2>3
<1>3. \A U \in SUBSET S : U \in F
  <2> HIDE DEF F
  <2> QED
    BY <1>1, <1>2, PickInduction
<1> QED
  BY <1>3

LEMMA SumsAgree ==
  ASSUME NEW S, IsFiniteSet(S), NEW w,
         NEW g, \A U \in SUBSET S : g[U] = SumAt(w, g, U),
         NEW h, \A U \in SUBSET S : h[U] = SumAt(w, h, U)
  PROVE  \A U \in SUBSET S : g[U] = h[U]
<1> DEFINE F == {U \in SUBSET S : g[U] = h[U]}
<1>1. {} \in F
  BY DEF SumAt
<1>2. ASSUME NEW U \in SUBSET S, U # {}, U \ {Pick(U)} \in F
      PROVE  U \in F
  BY <1>2 DEF SumAt
<1>3. \A U \in SUBSET S : U \in F
  <2> HIDE DEF F
  <2> QED
    BY <1>1, <1>2, PickInduction
<1> QED
  BY <1>3

(* The sum of the community modules is that function.                      *)
LEMMA SumUnfolds ==
  ASSUME NEW S, IsFiniteSet(S), NEW w, \A x \in S : w[x] \in Int
  PROVE  \A U \in SUBSET S :
           /\ SumFunctionOnSet(w, U) \in Int
           /\ U = {} => SumFunctionOnSet(w, U) = 0
           /\ U # {} => SumFunctionOnSet(w, U)
                          = w[Pick(U)] + SumFunctionOnSet(w, U \ {Pick(U)})
<1> DEFINE sum(U) == CHOOSE g : IsSum(w, U, g)
<1>1. ASSUME NEW U \in SUBSET S
      PROVE  IsSum(w, U, sum(U))
  <2>1. IsFiniteSet(U) /\ \A x \in U : w[x] \in Int
    BY FS_Subset
  <2>2. \E g : IsSum(w, U, g)
    BY <2>1, SumExists
  <2> QED
    BY <2>2, Zenon
<1>2. ASSUME NEW U \in SUBSET S
      PROVE  SumFunctionOnSet(w, U) = sum(U)[U]
  BY DEF SumFunctionOnSet, FoldFunctionOnSet, MapThenFoldSet, IsSum, SumAt, Pick
<1> HIDE DEF sum
<1>3. ASSUME NEW U \in SUBSET S, NEW V \in SUBSET U
      PROVE  sum(U)[V] = SumAt(w, sum(U), V)
  BY <1>1 DEF IsSum
<1>4. ASSUME NEW U \in SUBSET S
      PROVE  sum(U)[U] = sum(S)[U]
  <2>1. IsFiniteSet(U) /\ U \in SUBSET U
    BY FS_Subset
  <2>2. \A V \in SUBSET U : sum(U)[V] = SumAt(w, sum(U), V)
    BY <1>3
  <2>3. \A V \in SUBSET U : sum(S)[V] = SumAt(w, sum(S), V)
    BY <1>3
  <2>4. \A V \in SUBSET U : sum(U)[V] = sum(S)[V]
    BY <2>1, <2>2, <2>3, SumsAgree
  <2> QED
    BY <2>1, <2>4
<1>5. \A U \in SUBSET S : sum(S)[U] = SumAt(w, sum(S), U)
  BY <1>3
<1>6. \A U \in SUBSET S : sum(S)[U] \in Int
  BY <1>5, SumTyped
<1>7. \A U \in SUBSET S : SumFunctionOnSet(w, U) = sum(S)[U]
  BY <1>2, <1>4
<1> QED
  BY <1>5, <1>6, <1>7 DEF SumAt

-----------------------------------------------------------------------------
(* A sum is a number, and splits at any element.                           *)

(* The sum over the empty set.                                             *)
THEOREM SumEmpty ==
  ASSUME NEW w
  PROVE  SumFunctionOnSet(w, {}) = 0
<1>1. IsFiniteSet({}) /\ {} \in SUBSET {}
  BY FS_EmptySet
<1>2. \A x \in {} : w[x] \in Int
  OBVIOUS
<1>3. \A U \in SUBSET {} : U = {} => SumFunctionOnSet(w, U) = 0
  BY <1>1, <1>2, SumUnfolds
<1> QED
  BY <1>1, <1>3

(* The sum over a finite set of integers is an integer.                    *)
THEOREM SumInt ==
  ASSUME NEW S, IsFiniteSet(S), NEW w, \A x \in S : w[x] \in Int
  PROVE  SumFunctionOnSet(w, S) \in Int
  BY SumUnfolds

(* Whichever element is taken out, the sum is what it weighs and the rest. *)
THEOREM SumSplit ==
  ASSUME NEW S, IsFiniteSet(S), NEW w, \A x \in S : w[x] \in Int, NEW x \in S
  PROVE  SumFunctionOnSet(w, S) = w[x] + SumFunctionOnSet(w, S \ {x})
<1> DEFINE Sum(U) == SumFunctionOnSet(w, U)
           F == {U \in SUBSET S : \A y \in U : Sum(U) = w[y] + Sum(U \ {y})}
<1>1. \A U \in SUBSET S : Sum(U) \in Int
  BY SumUnfolds
<1>2. \A U \in SUBSET S : U # {} => Pick(U) \in U
  BY DEF Pick
<1>3. \A U \in SUBSET S : U # {} => Sum(U) = w[Pick(U)] + Sum(U \ {Pick(U)})
  BY SumUnfolds
<1> HIDE DEF Sum
<1>4. ASSUME NEW U \in SUBSET S, \A T \in SUBSET U : T # U => T \in F, NEW y \in U
      PROVE  Sum(U) = w[y] + Sum(U \ {y})
  <2>1. CASE y = Pick(U)
    BY <1>3, <2>1
  <2>2. CASE y # Pick(U)
    <3>1. PICK p \in U : p = Pick(U) /\ Sum(U) = w[p] + Sum(U \ {p})
      BY <1>2, <1>3
    <3>2. U \ {p} \in F /\ U \ {y} \in F
      <4>1. U \ {p} # U /\ U \ {y} # U
        OBVIOUS
      <4> HIDE DEF F
      <4> QED
        BY <1>4, <4>1
    <3>3. Sum(U \ {p}) = w[y] + Sum((U \ {p}) \ {y})
      BY <2>2, <3>1, <3>2
    <3>4. Sum(U \ {y}) = w[p] + Sum((U \ {y}) \ {p})
      BY <2>2, <3>1, <3>2
    <3>5. Sum(U \ {y}) = w[p] + Sum((U \ {p}) \ {y})
      <4>1. (U \ {y}) \ {p} = (U \ {p}) \ {y}
        OBVIOUS
      <4> QED
        BY <3>4, <4>1
    <3>6. w[y] \in Int /\ w[p] \in Int /\ Sum((U \ {p}) \ {y}) \in Int
      BY <1>1
    <3> HIDE DEF F
    <3> QED
      BY <3>1, <3>3, <3>5, <3>6
  <2> QED
    BY <2>1, <2>2
<1>5. \A U \in SUBSET S : U \in F
  <2>1. \A U \in SUBSET S : (\A T \in SUBSET U : T # U => T \in F) => U \in F
    BY <1>4
  <2> HIDE DEF F
  <2> QED
    BY <2>1, SubsetInduction
<1> QED
  BY <1>5 DEF Sum

(* An element more adds what it weighs.                                    *)
THEOREM SumAdd ==
  ASSUME NEW S, IsFiniteSet(S), NEW x, x \notin S, NEW w, \A y \in S \cup {x} : w[y] \in Int
  PROVE  SumFunctionOnSet(w, S \cup {x}) = w[x] + SumFunctionOnSet(w, S)
<1>1. IsFiniteSet(S \cup {x}) /\ x \in S \cup {x} /\ (S \cup {x}) \ {x} = S
  BY FS_AddElement
<1>2. SumFunctionOnSet(w, S \cup {x}) = w[x] + SumFunctionOnSet(w, (S \cup {x}) \ {x})
  BY <1>1, SumSplit
<1> QED
  BY <1>1, <1>2

(* Two functions that agree on a set have one sum over it.                 *)
THEOREM SumEqual ==
  ASSUME NEW S, IsFiniteSet(S), NEW w, NEW v, \A x \in S : w[x] \in Int /\ w[x] = v[x]
  PROVE  SumFunctionOnSet(w, S) = SumFunctionOnSet(v, S)
<1> DEFINE F == {U \in SUBSET S : SumFunctionOnSet(w, U) = SumFunctionOnSet(v, U)}
<1>1. {} \in F
  BY SumEmpty
<1>2. ASSUME NEW T \in SUBSET S, NEW x \in S \ T, T \in F
      PROVE  T \cup {x} \in F
  <2>1. IsFiniteSet(T) /\ \A y \in T \cup {x} : w[y] \in Int /\ v[y] \in Int
    BY FS_Subset
  <2>2. SumFunctionOnSet(w, T \cup {x}) = w[x] + SumFunctionOnSet(w, T)
    BY <2>1, SumAdd
  <2>3. SumFunctionOnSet(v, T \cup {x}) = v[x] + SumFunctionOnSet(v, T)
    BY <2>1, SumAdd
  <2> QED
    BY <1>2, <2>2, <2>3
<1>3. S \in F
  <2> HIDE DEF F
  <2> QED
    BY <1>1, <1>2, FiniteInduction
<1> QED
  BY <1>3

(* No part of a sum of numbers that are not negative exceeds the sum.      *)
THEOREM SumNat ==
  ASSUME NEW S, IsFiniteSet(S), NEW w, \A x \in S : w[x] \in Nat
  PROVE  SumFunctionOnSet(w, S) \in Nat
<1> DEFINE F == {U \in SUBSET S : SumFunctionOnSet(w, U) \in Nat}
<1>1. {} \in F
  BY SumEmpty
<1>2. ASSUME NEW T \in SUBSET S, NEW x \in S \ T, T \in F
      PROVE  T \cup {x} \in F
  <2>1. IsFiniteSet(T) /\ \A y \in T \cup {x} : w[y] \in Int
    BY FS_Subset
  <2>2. SumFunctionOnSet(w, T \cup {x}) = w[x] + SumFunctionOnSet(w, T)
    BY <2>1, SumAdd
  <2>3. w[x] \in Nat /\ SumFunctionOnSet(w, T) \in Nat
    BY <1>2
  <2> QED
    BY <2>2, <2>3
<1>3. S \in F
  <2> HIDE DEF F
  <2> QED
    BY <1>1, <1>2, FiniteInduction
<1> QED
  BY <1>3

-----------------------------------------------------------------------------
(* The same about the sum of all values of a function, which is what the   *)
(* models write: sums over sets that differ are sums of functions that     *)
(* agree where both are defined.                                           *)

(* Nothing adds up to 0.                                                   *)
THEOREM SumOfNothing ==
  ASSUME NEW f, DOMAIN f = {}
  PROVE  SumFunction(f) = 0
  BY SumEmpty DEF SumFunction

(* The sum of finitely many integers is an integer.                        *)
THEOREM SumOfInts ==
  ASSUME NEW f, IsFiniteSet(DOMAIN f), \A x \in DOMAIN f : f[x] \in Int
  PROVE  SumFunction(f) \in Int
  BY SumInt DEF SumFunction

(* The sum of finitely many natural numbers is one.                        *)
THEOREM SumOfNats ==
  ASSUME NEW f, IsFiniteSet(DOMAIN f), \A x \in DOMAIN f : f[x] \in Nat
  PROVE  SumFunction(f) \in Nat
  BY SumNat DEF SumFunction

(* A function with one value more adds up to that much more, seen from the *)
(* larger set.                                                             *)
THEOREM SumWithOneMore ==
  ASSUME NEW f, IsFiniteSet(DOMAIN f), \A y \in DOMAIN f : f[y] \in Int,
         NEW x \in DOMAIN f,
         NEW g, DOMAIN g = DOMAIN f \ {x}, \A y \in DOMAIN g : g[y] = f[y]
  PROVE  SumFunction(f) = f[x] + SumFunction(g)
<1>1. SumFunctionOnSet(f, DOMAIN f) = f[x] + SumFunctionOnSet(f, DOMAIN f \ {x})
  BY SumSplit
<1>2. IsFiniteSet(DOMAIN g)
  BY FS_Subset
<1>3. SumFunctionOnSet(f, DOMAIN g) = SumFunctionOnSet(g, DOMAIN g)
  BY <1>2, SumEqual
<1> QED
  BY <1>1, <1>3 DEF SumFunction

(* The same, seen from the smaller set.                                    *)
THEOREM SumGrows ==
  ASSUME NEW g, IsFiniteSet(DOMAIN g), NEW x, x \notin DOMAIN g,
         NEW f, DOMAIN f = (DOMAIN g) \cup {x}, \A y \in DOMAIN f : f[y] \in Int,
         \A y \in DOMAIN g : g[y] = f[y]
  PROVE  SumFunction(f) = f[x] + SumFunction(g)
<1>1. SumFunctionOnSet(f, (DOMAIN g) \cup {x}) = f[x] + SumFunctionOnSet(f, DOMAIN g)
  BY SumAdd
<1>2. SumFunctionOnSet(f, DOMAIN g) = SumFunctionOnSet(g, DOMAIN g)
  BY SumEqual
<1> QED
  BY <1>1, <1>2 DEF SumFunction

(* A part of a sum of natural numbers is not above the sum.                *)
THEOREM SumOfPart ==
  ASSUME NEW f, IsFiniteSet(DOMAIN f), \A x \in DOMAIN f : f[x] \in Nat,
         NEW g, DOMAIN g \subseteq DOMAIN f, \A x \in DOMAIN g : g[x] = f[x]
  PROVE  SumFunction(g) <= SumFunction(f)
<1> DEFINE D == DOMAIN g
           F == {T \in SUBSET (DOMAIN f \ D) :
                   SumFunctionOnSet(f, D) <= SumFunctionOnSet(f, D \cup T)}
<1>0. IsFiniteSet(D) /\ IsFiniteSet(DOMAIN f \ D)
  BY FS_Subset
<1>1. SumFunctionOnSet(f, D) \in Nat
  BY <1>0, SumNat
<1>2. {} \in F
  <2>1. D \cup {} = D
    OBVIOUS
  <2> QED
    BY <1>1, <2>1
<1>3. ASSUME NEW T \in SUBSET (DOMAIN f \ D), NEW x \in (DOMAIN f \ D) \ T, T \in F
      PROVE  T \cup {x} \in F
  <2>1. IsFiniteSet(D \cup T) /\ D \cup T \subseteq DOMAIN f
    BY FS_Subset
  <2>2. x \notin D \cup T
    OBVIOUS
  <2>3. SumFunctionOnSet(f, D \cup (T \cup {x})) = f[x] + SumFunctionOnSet(f, D \cup T)
    <3>1. SumFunctionOnSet(f, (D \cup T) \cup {x}) = f[x] + SumFunctionOnSet(f, D \cup T)
      BY <2>1, <2>2, SumAdd
    <3>2. D \cup (T \cup {x}) = (D \cup T) \cup {x}
      OBVIOUS
    <3> QED
      BY <3>1, <3>2, Zenon
  <2>4. f[x] \in Nat /\ SumFunctionOnSet(f, D \cup T) \in Nat
    BY <2>1, SumNat
  <2>5. SumFunctionOnSet(f, D) <= SumFunctionOnSet(f, D \cup T)
    BY <1>3
  <2>6. SumFunctionOnSet(f, D) <= SumFunctionOnSet(f, D \cup (T \cup {x}))
    BY <1>1, <2>3, <2>4, <2>5
  <2> QED
    BY <2>6
<1>4. DOMAIN f \ D \in F
  <2> HIDE DEF F
  <2> QED
    BY <1>0, <1>2, <1>3, FiniteInduction
<1>5. D \cup (DOMAIN f \ D) = DOMAIN f
  OBVIOUS
<1>6. SumFunctionOnSet(f, D) <= SumFunctionOnSet(f, DOMAIN f)
  BY <1>4, <1>5
<1>7. SumFunctionOnSet(f, D) = SumFunctionOnSet(g, D)
  BY <1>0, SumEqual
<1> QED
  BY <1>6, <1>7 DEF SumFunction

(* A sum does not depend on what its terms are called.                     *)
THEOREM SumRenamed ==
  ASSUME NEW f, IsFiniteSet(DOMAIN f), \A x \in DOMAIN f : f[x] \in Int,
         NEW h, \A x, y \in DOMAIN f : h[x] = h[y] => x = y,
         NEW g, DOMAIN g = {h[x] : x \in DOMAIN f}, \A x \in DOMAIN f : g[h[x]] = f[x]
  PROVE  SumFunction(g) = SumFunction(f)
<1> DEFINE Im(T) == {h[x] : x \in T}
           F == {T \in SUBSET DOMAIN f :
                   IsFiniteSet(Im(T)) /\ SumFunctionOnSet(g, Im(T)) = SumFunctionOnSet(f, T)}
<1>1. {} \in F
  <2>1. Im({}) = {}
    OBVIOUS
  <2>2. IsFiniteSet({})
    BY FS_EmptySet
  <2> QED
    BY <2>1, <2>2, SumEmpty
<1>2. ASSUME NEW T \in SUBSET DOMAIN f, NEW x \in (DOMAIN f) \ T, T \in F
      PROVE  T \cup {x} \in F
  <2>1. IsFiniteSet(Im(T)) /\ IsFiniteSet(T) /\ SumFunctionOnSet(g, Im(T)) = SumFunctionOnSet(f, T)
    BY <1>2, FS_Subset
  <2>2. Im(T \cup {x}) = Im(T) \cup {h[x]}
    OBVIOUS
  <2>h. h[x] \notin Im(T)
    OBVIOUS
  <2>3. \A z \in Im(T) \cup {h[x]} : g[z] \in Int
    OBVIOUS
  <2> HIDE DEF Im
  <2>4. IsFiniteSet(Im(T) \cup {h[x]})
    BY <2>1, FS_AddElement
  <2>5. SumFunctionOnSet(g, Im(T) \cup {h[x]}) = g[h[x]] + SumFunctionOnSet(g, Im(T))
    BY <2>1, <2>h, <2>3, SumAdd
  <2>6. SumFunctionOnSet(f, T \cup {x}) = f[x] + SumFunctionOnSet(f, T)
    BY <2>1, SumAdd
  <2>7. IsFiniteSet(Im(T \cup {x})) /\ SumFunctionOnSet(g, Im(T \cup {x})) = SumFunctionOnSet(f, T \cup {x})
    BY <2>1, <2>2, <2>4, <2>5, <2>6
  <2> QED
    BY <2>7
<1>3. DOMAIN f \in F
  <2> HIDE DEF F
  <2> QED
    BY <1>1, <1>2, FiniteInduction
<1> QED
  BY <1>3 DEF SumFunction

(* Terms that are 0 do not count.                                          *)
THEOREM SumWithoutZeros ==
  ASSUME NEW f, IsFiniteSet(DOMAIN f), \A x \in DOMAIN f : f[x] \in Int,
         NEW g, DOMAIN g \subseteq DOMAIN f, \A x \in DOMAIN g : g[x] = f[x],
         \A x \in DOMAIN f \ DOMAIN g : f[x] = 0
  PROVE  SumFunction(g) = SumFunction(f)
<1> DEFINE D == DOMAIN g
           F == {T \in SUBSET (DOMAIN f \ D) :
                   SumFunctionOnSet(f, D \cup T) = SumFunctionOnSet(f, D)}
<1>0. IsFiniteSet(D) /\ IsFiniteSet(DOMAIN f \ D)
  BY FS_Subset
<1>1. SumFunctionOnSet(f, D) \in Int
  BY <1>0, SumInt
<1>2. {} \in F
  <2>1. D \cup {} = D
    OBVIOUS
  <2> QED
    BY <2>1
<1>3. ASSUME NEW T \in SUBSET (DOMAIN f \ D), NEW x \in (DOMAIN f \ D) \ T, T \in F
      PROVE  T \cup {x} \in F
  <2>1. IsFiniteSet(D \cup T) /\ D \cup T \subseteq DOMAIN f
    BY FS_Subset
  <2>2. x \notin D \cup T
    OBVIOUS
  <2>3. SumFunctionOnSet(f, D \cup (T \cup {x})) = f[x] + SumFunctionOnSet(f, D \cup T)
    <3>1. SumFunctionOnSet(f, (D \cup T) \cup {x}) = f[x] + SumFunctionOnSet(f, D \cup T)
      BY <2>1, <2>2, SumAdd
    <3>2. D \cup (T \cup {x}) = (D \cup T) \cup {x}
      OBVIOUS
    <3> QED
      BY <3>1, <3>2, Zenon
  <2>4. f[x] = 0 /\ SumFunctionOnSet(f, D \cup T) = SumFunctionOnSet(f, D)
    BY <1>3
  <2>5. SumFunctionOnSet(f, D \cup (T \cup {x})) = SumFunctionOnSet(f, D)
    BY <1>1, <2>3, <2>4
  <2> QED
    BY <2>5
<1>4. DOMAIN f \ D \in F
  <2> HIDE DEF F
  <2> QED
    BY <1>0, <1>2, <1>3, FiniteInduction
<1>5. D \cup (DOMAIN f \ D) = DOMAIN f
  OBVIOUS
<1>6. SumFunctionOnSet(f, DOMAIN f) = SumFunctionOnSet(f, D)
  BY <1>4, <1>5
<1>7. SumFunctionOnSet(f, D) = SumFunctionOnSet(g, D)
  BY <1>0, SumEqual
<1> QED
  BY <1>6, <1>7 DEF SumFunction
=============================================================================
