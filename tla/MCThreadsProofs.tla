--------------------------- MODULE MCThreadsProofs ---------------------------
(***************************************************************************)
(* Proofs about the programs of MCThreads, for any number of threads,      *)
(* readers, writers and items, any amounts of work and any numbers to sum, *)
(* and any bound of the recursive count.  Each program has an inductive    *)
(* invariant in its own module.                                            *)
(*                                                                         *)
(* Three of the programs add up.  What the folds of the community modules  *)
(* compute is proved here by induction on the size of a set or the length  *)
(* of an array: the numbers without the property, were there any, would    *)
(* have a least one (Least, Induct): the induction theorems of the library *)
(* take a predicate as a parameter, which no prover here can instantiate;  *)
(* its statement that < is well founded has none, and a set stands in for  *)
(* the predicate.                                                          *)
(***************************************************************************)
EXTENDS MCThreads, FiniteSetTheorems, WellFoundedInduction, TLAPS

------------------------------------------------------------------------------
(* induction on numbers *)

\* A set of numbers that has a member has a least one.
LEMMA Least ==
  ASSUME NEW T \in SUBSET Nat, T # {}
  PROVE  \E x \in T : \A y \in T : ~(y < x)
<1> DEFINE R == {ss \in Nat \X Nat : ss[1] < ss[2]}
<1>1. IsWellFoundedOn(R, Nat)
  BY NatLessThanWellFounded DEF OpToRel
<1>2. PICK x \in T : \A y \in T : ~(<<y, x>> \in R)
  BY ONLY <1>1, WFMin, T \in SUBSET Nat, T # {}
<1>3. \A y \in T : y < x => <<y, x>> \in R
  OBVIOUS
<1> QED BY <1>2, <1>3

\* Induction, for a set of numbers in place of a predicate.
LEMMA Induct ==
  ASSUME NEW P \in SUBSET Nat, 0 \in P, \A n \in P : n + 1 \in P
  PROVE  P = Nat
<1>1. SUFFICES ASSUME Nat \ P # {} PROVE FALSE
  OBVIOUS
<1>2. PICK x \in Nat \ P : \A y \in Nat \ P : ~(y < x)
  BY Least, <1>1
<1>3. x - 1 \in Nat /\ x - 1 < x
  BY <1>2
<1>4. x - 1 \in P /\ (x - 1) + 1 = x
  BY <1>2, <1>3
<1> QED BY <1>2, <1>4

------------------------------------------------------------------------------
(* finite sums *)

\* The element a fold takes first.
Pick(s) == CHOOSE x \in s : TRUE

\* It is one of them.
LEMMA Picked == ASSUME NEW s, s # {} PROVE Pick(s) \in s
  BY DEF Pick

\* A sum of T, given the sums of smaller sets.
SumOver(f, it, T) == IF T = {} THEN 0 ELSE f[Pick(T)] + it[T \ {Pick(T)}]

\* A fold without its first element is shorter.
LEMMA Smaller ==
  ASSUME NEW T, IsFiniteSet(T), T # {}
  PROVE  /\ IsFiniteSet(T \ {Pick(T)}) /\ Cardinality(T \ {Pick(T)}) \in Nat /\ Cardinality(T) \in Nat
         /\ Cardinality(T \ {Pick(T)}) = Cardinality(T) - 1
  BY Picked, FS_RemoveElement, FS_CardinalityType

\* The fold of SumFunctionOnSet does sum up: its recursion has a solution, which is
\* integer-valued.
LEMMA SumDefined ==
  ASSUME NEW S, IsFiniteSet(S), NEW f, \A x \in S : f[x] \in Int
  PROVE  \E it \in [SUBSET S -> Int] :
            /\ \A T \in SUBSET S : it[T] = SumOver(f, it, T)
            /\ SumFunctionOnSet(f, S) = it[S]
<1> DEFINE Small(n) == {T \in SUBSET S : Cardinality(T) <= n}
           Good(n, g) == g \in [Small(n) -> Int] /\ \A T \in Small(n) : g[T] = SumOver(f, g, T)
           P == {n \in Nat : \E g : Good(n, g)}
<1>0. \A T \in SUBSET S : IsFiniteSet(T) /\ Cardinality(T) \in Nat
  BY FS_Subset, FS_CardinalityType
<1>1. 0 \in P
  <2> DEFINE g == [T \in Small(0) |-> 0]
  <2>1. \A T \in Small(0) : T = {}
    BY <1>0, FS_EmptySet
  <2>2. Good(0, g)
    BY <2>1 DEF SumOver
  <2> QED BY <2>2
<1>2. ASSUME NEW n \in P PROVE n + 1 \in P
  <2> n \in Nat OBVIOUS
  <2>1. PICK g : Good(n, g)
    OBVIOUS
  <2> DEFINE G == [T \in Small(n + 1) |-> SumOver(f, g, T)]
  <2>2. ASSUME NEW T \in Small(n + 1), T # {}
        PROVE  /\ T \ {Pick(T)} \in Small(n) /\ T \ {Pick(T)} \in Small(n + 1)
               /\ Pick(T) \in S
    <3>1. Cardinality(T \ {Pick(T)}) = Cardinality(T) - 1 /\ Cardinality(T) \in Nat
      BY <1>0, <2>2, Smaller
    <3>2. Cardinality(T) <= n + 1 OBVIOUS
    <3>3. Cardinality(T \ {Pick(T)}) <= n
      BY <3>1, <3>2
    <3>4. Cardinality(T \ {Pick(T)}) <= n + 1
      BY <3>1, <3>2
    <3> QED BY <2>2, <3>3, <3>4, Picked
  <2>3. ASSUME NEW T \in Small(n) PROVE T \in Small(n + 1) /\ G[T] = g[T]
    <3>1. Cardinality(T) <= n /\ Cardinality(T) \in Nat BY <1>0
    <3>2. T \in Small(n + 1) BY <3>1
    <3> QED BY <2>1, <3>2
  <2>4. ASSUME NEW T \in Small(n + 1) PROVE G[T] = SumOver(f, G, T) /\ G[T] \in Int
    <3>1. CASE T = {}
      BY <3>1 DEF SumOver
    <3>2. CASE T # {}
      <4>1. G[T \ {Pick(T)}] = g[T \ {Pick(T)}] /\ g[T \ {Pick(T)}] \in Int
        BY <2>1, <2>2, <2>3, <3>2
      <4>2. f[Pick(T)] \in Int
        BY <2>2, <3>2
      <4>3. G[T] = SumOver(f, g, T) OBVIOUS
      <4> QED BY <3>2, <4>1, <4>2, <4>3 DEF SumOver
    <3> QED BY <3>1, <3>2
  <2>5. Good(n + 1, G)
    BY <2>4
  <2> HIDE DEF G, Good
  <2> QED BY <2>5
<1>3. P = Nat
  <2> HIDE DEF P
  <2>1. P \in SUBSET Nat BY DEF P
  <2> QED BY <1>1, <1>2, <2>1, Induct
<1>4. PICK g : Good(Cardinality(S), g)
  BY <1>0, <1>3
<1>5. Small(Cardinality(S)) = SUBSET S
  BY <1>0, FS_Subset
<1>6. g \in [SUBSET S -> Int] /\ \A T \in SUBSET S : g[T] = SumOver(f, g, T)
  BY <1>4, <1>5
<1> HIDE DEF Good, Small
<1>7. g = [T \in SUBSET S |-> SumOver(f, g, T)]
  BY <1>6
<1>8. g = [T \in SUBSET S |-> IF T = {} THEN 0 ELSE f[Pick(T)] + g[T \ {Pick(T)}]]
  BY <1>7 DEF SumOver
<1> DEFINE It == CHOOSE it : it = [s \in SUBSET S |-> IF s = {} THEN 0
                                                     ELSE f[Pick(s)] + it[s \ {Pick(s)}]]
<1>9. SumFunctionOnSet(f, S) = It[S]
  BY Zenon DEF SumFunctionOnSet, FoldFunctionOnSet, MapThenFoldSet, Pick
<1>10. It = [s \in SUBSET S |-> IF s = {} THEN 0 ELSE f[Pick(s)] + It[s \ {Pick(s)}]]
  BY <1>8, Zenon
<1> HIDE DEF It
<1>11. \A T \in SUBSET S : It[T] = SumOver(f, It, T)
  <2> TAKE T \in SUBSET S
  <2>1. It[T] = IF T = {} THEN 0 ELSE f[Pick(T)] + It[T \ {Pick(T)}]
    BY <1>10, Zenon
  <2> QED BY <2>1, Zenon DEF SumOver
<1> DEFINE Q == {n \in Nat : \A T \in SUBSET S : Cardinality(T) = n => It[T] \in Int}
<1>12. 0 \in Q
  <2>1. \A T \in SUBSET S : Cardinality(T) = 0 => T = {}
    BY <1>0, FS_EmptySet
  <2>2. It[{}] = 0
    BY <1>11 DEF SumOver
  <2> HIDE DEF It
  <2> QED BY <2>1, <2>2
<1>13. ASSUME NEW n \in Q PROVE n + 1 \in Q
  <2> n \in Nat OBVIOUS
  <2> SUFFICES ASSUME NEW T \in SUBSET S, Cardinality(T) = n + 1 PROVE It[T] \in Int
    OBVIOUS
  <2>1. T # {}
    <3>1. Cardinality({}) = 0 BY FS_EmptySet
    <3>2. n + 1 # 0 OBVIOUS
    <3> QED BY <3>1, <3>2
  <2>2. Cardinality(T \ {Pick(T)}) = n
    <3>1. Cardinality(T \ {Pick(T)}) = Cardinality(T) - 1
      BY <1>0, <2>1, Smaller
    <3>2. (n + 1) - 1 = n OBVIOUS
    <3> QED BY <3>1, <3>2
  <2>3. It[T \ {Pick(T)}] \in Int /\ f[Pick(T)] \in Int
    BY <2>1, <2>2, Picked
  <2>4. It[T] = f[Pick(T)] + It[T \ {Pick(T)}]
    BY <1>11, <2>1, Zenon DEF SumOver
  <2> QED BY <2>3, <2>4
<1>14. Q = Nat
  <2> HIDE DEF Q
  <2>1. Q \in SUBSET Nat BY DEF Q
  <2> QED BY <1>12, <1>13, <2>1, Induct
<1>15. \A T \in SUBSET S : It[T] \in Int
  BY <1>0, <1>14
<1>16. It \in [SUBSET S -> Int]
  <2>1. It = [s \in SUBSET S |-> It[s]]
    BY <1>10
  <2> QED BY <2>1, <1>15
<1> QED BY <1>9, <1>11, <1>16

\* What a function sums up to is an integer.
LEMMA SumIsInt ==
  ASSUME NEW S, IsFiniteSet(S), NEW f \in [S -> Int]
  PROVE  SumFunction(f) = SumFunctionOnSet(f, S) /\ SumFunction(f) \in Int
<1>0. \A x \in S : f[x] \in Int  OBVIOUS
<1>1. PICK it \in [SUBSET S -> Int] : SumFunctionOnSet(f, S) = it[S]
  <2>1. \E it \in [SUBSET S -> Int] : /\ \A T \in SUBSET S : it[T] = SumOver(f, it, T)
                                      /\ SumFunctionOnSet(f, S) = it[S]
    BY <1>0, SumDefined
  <2> QED BY <2>1
<1>2. DOMAIN f = S
  OBVIOUS
<1>3. SumFunction(f) = SumFunctionOnSet(f, S)
  BY <1>2, Zenon DEF SumFunction
<1> QED BY <1>1, <1>3

\* Zeros sum up to zero.
LEMMA SumOfZeros ==
  ASSUME NEW S, IsFiniteSet(S), NEW f \in [S -> Int], \A x \in S : f[x] = 0
  PROVE  SumFunction(f) = 0
<1>1. PICK it \in [SUBSET S -> Int] : /\ \A T \in SUBSET S : it[T] = SumOver(f, it, T)
                                      /\ SumFunctionOnSet(f, S) = it[S]
  BY SumDefined
<1>0. \A T \in SUBSET S : IsFiniteSet(T) /\ Cardinality(T) \in Nat
  BY FS_Subset, FS_CardinalityType
<1> DEFINE Q == {n \in Nat : \A T \in SUBSET S : Cardinality(T) = n => it[T] = 0}
<1>2. 0 \in Q
  <2>1. \A T \in SUBSET S : Cardinality(T) = 0 => T = {}
    BY <1>0, FS_EmptySet
  <2>2. it[{}] = 0
    BY <1>1 DEF SumOver
  <2> QED BY <2>1, <2>2
<1>3. ASSUME NEW n \in Q PROVE n + 1 \in Q
  <2> n \in Nat OBVIOUS
  <2> SUFFICES ASSUME NEW T \in SUBSET S, Cardinality(T) = n + 1 PROVE it[T] = 0
    OBVIOUS
  <2>1. T # {}
    <3>1. Cardinality({}) = 0 BY FS_EmptySet
    <3>2. n + 1 # 0 OBVIOUS
    <3> QED BY <3>1, <3>2
  <2>2. Cardinality(T \ {Pick(T)}) = n
    <3>1. Cardinality(T \ {Pick(T)}) = Cardinality(T) - 1
      BY <1>0, <2>1, Smaller
    <3>2. (n + 1) - 1 = n OBVIOUS
    <3> QED BY <3>1, <3>2
  <2>3. it[T \ {Pick(T)}] = 0 /\ f[Pick(T)] = 0
    BY <2>1, <2>2, Picked
  <2> QED BY <1>1, <2>1, <2>3 DEF SumOver
<1>4. Q = Nat
  <2> HIDE DEF Q
  <2>1. Q \in SUBSET Nat BY DEF Q
  <2> QED BY <1>2, <1>3, <2>1, Induct
<1>5. it[S] = 0
  BY <1>0, <1>4
<1> QED BY <1>1, <1>5, SumIsInt

\* A change at one point changes the sum by as much.
LEMMA SumAtPoint ==
  ASSUME NEW S, IsFiniteSet(S), NEW f \in [S -> Int], NEW g \in [S -> Int],
         NEW a \in S, \A x \in S \ {a} : g[x] = f[x]
  PROVE  SumFunction(g) = SumFunction(f) + (g[a] - f[a])
<1>1. PICK it \in [SUBSET S -> Int] : /\ \A T \in SUBSET S : it[T] = SumOver(f, it, T)
                                      /\ SumFunctionOnSet(f, S) = it[S]
  BY SumDefined
<1>2. PICK iu \in [SUBSET S -> Int] : /\ \A T \in SUBSET S : iu[T] = SumOver(g, iu, T)
                                      /\ SumFunctionOnSet(g, S) = iu[S]
  BY SumDefined
<1>0. \A T \in SUBSET S : IsFiniteSet(T) /\ Cardinality(T) \in Nat
  BY FS_Subset, FS_CardinalityType
<1> DEFINE More(T) == IF a \in T THEN g[a] - f[a] ELSE 0
           Q == {n \in Nat : \A T \in SUBSET S : Cardinality(T) = n => iu[T] = it[T] + More(T)}
<1>3. 0 \in Q
  <2>1. \A T \in SUBSET S : Cardinality(T) = 0 => T = {}
    BY <1>0, FS_EmptySet
  <2>2. it[{}] = 0 /\ iu[{}] = 0
    BY <1>1, <1>2 DEF SumOver
  <2>3. More({}) = 0
    OBVIOUS
  <2> HIDE DEF More
  <2>4. iu[{}] = it[{}] + More({})
    BY <2>2, <2>3
  <2> QED BY <2>1, <2>4
<1>4. ASSUME NEW n \in Q PROVE n + 1 \in Q
  <2> n \in Nat OBVIOUS
  <2> SUFFICES ASSUME NEW T \in SUBSET S, Cardinality(T) = n + 1
               PROVE  iu[T] = it[T] + More(T)
    OBVIOUS
  <2>1. T # {}
    <3>1. Cardinality({}) = 0 BY FS_EmptySet
    <3>2. n + 1 # 0 OBVIOUS
    <3> QED BY <3>1, <3>2
  <2>2. PICK p \in T : p = Pick(T)
    BY <2>1, Picked
  <2>3. PICK U \in SUBSET S : U = T \ {p}
    OBVIOUS
  <2>4. Cardinality(U) = n
    <3>1. Cardinality(U) = Cardinality(T) - 1
      BY <1>0, <2>1, <2>2, <2>3, Smaller
    <3>2. (n + 1) - 1 = n OBVIOUS
    <3> QED BY <3>1, <3>2
  <2>5. it[T] = f[p] + it[U] /\ iu[T] = g[p] + iu[U]
    BY <1>1, <1>2, <2>1, <2>2, <2>3 DEF SumOver
  <2>6. iu[U] = it[U] + More(U)
    BY <2>4
  <2>7. f[p] \in Int /\ g[p] \in Int /\ it[U] \in Int /\ iu[U] \in Int /\ f[a] \in Int /\ g[a] \in Int
    OBVIOUS
  <2>8. CASE p = a
    <3>1. More(U) = 0 /\ More(T) = g[a] - f[a]
      BY <2>3, <2>8
    <3> HIDE DEF More
    <3> QED BY <2>5, <2>6, <2>7, <2>8, <3>1
  <2>9. CASE p # a
    <3>1. More(U) = More(T) /\ g[p] = f[p] /\ More(T) \in Int
      BY <2>3, <2>9
    <3> HIDE DEF More
    <3> QED BY <2>5, <2>6, <2>7, <3>1
  <2> QED BY <2>8, <2>9
<1>5. Q = Nat
  <2> HIDE DEF Q
  <2>1. Q \in SUBSET Nat BY DEF Q
  <2> QED BY <1>3, <1>4, <2>1, Induct
<1>6. iu[S] = it[S] + (g[a] - f[a])
  BY <1>0, <1>5
<1> QED BY <1>1, <1>2, <1>6, SumIsInt

\* The order does not matter: any element may be taken out first.
SumsUp(it, f, S) ==
    /\ it \in [SUBSET S -> Int] /\ \A x \in S : f[x] \in Int
    /\ \A T \in SUBSET S : it[T] = SumOver(f, it, T)

\* Whichever element is taken out, the rest and it make the whole.
TakesOut(it, f, S) == \A T \in SUBSET S : \A x \in T : it[T] = f[x] + it[T \ {x}]

\* This holds of every fold that sums up.
LEMMA AnyFirst ==
  ASSUME NEW S, IsFiniteSet(S), NEW f, NEW it, SumsUp(it, f, S)
  PROVE  TakesOut(it, f, S)
<1> USE DEF SumsUp, TakesOut
<1>0. \A T \in SUBSET S : IsFiniteSet(T) /\ Cardinality(T) \in Nat
  BY FS_Subset, FS_CardinalityType
<1> DEFINE Q == {n \in Nat : \A T \in SUBSET S : Cardinality(T) = n =>
                                \A x \in T : it[T] = f[x] + it[T \ {x}]}
<1>1. 0 \in Q
  <2>1. \A T \in SUBSET S : Cardinality(T) = 0 => T = {}
    BY <1>0, FS_EmptySet
  <2> QED BY <2>1
<1>2. ASSUME NEW n \in Q PROVE n + 1 \in Q
  <2> n \in Nat OBVIOUS
  <2> SUFFICES ASSUME NEW T \in SUBSET S, Cardinality(T) = n + 1, NEW x \in T
               PROVE  it[T] = f[x] + it[T \ {x}]
    OBVIOUS
  <2>1. PICK p \in T : p = Pick(T)
    BY Picked
  <2>2. it[T] = f[p] + it[T \ {p}]
    BY <2>1 DEF SumOver
  <2>3. CASE x = p
    BY <2>2, <2>3
  <2>4. CASE x # p
    <3>1. PICK U \in SUBSET S : U = T \ {p}  OBVIOUS
    <3>2. PICK V \in SUBSET S : V = T \ {x}  OBVIOUS
    <3>3. PICK W \in SUBSET S : W = U \ {x}  OBVIOUS
    <3>4. W = V \ {p} /\ x \in U /\ p \in V
      BY <2>4, <3>1, <3>2, <3>3
    <3>5. Cardinality(U) = n /\ Cardinality(V) = n
      <4>1. Cardinality(U) = Cardinality(T) - 1 /\ Cardinality(V) = Cardinality(T) - 1
        BY <1>0, <3>1, <3>2, FS_RemoveElement
      <4>2. (n + 1) - 1 = n  OBVIOUS
      <4> QED BY <4>1, <4>2
    <3>6. it[U] = f[x] + it[W] /\ it[V] = f[p] + it[W]
      BY <3>3, <3>4, <3>5
    <3>7. f[x] \in Int /\ f[p] \in Int /\ it[W] \in Int
      OBVIOUS
    <3> QED BY <2>2, <3>1, <3>2, <3>6, <3>7
  <2> QED BY <2>3, <2>4
<1>3. Q = Nat
  <2> HIDE DEF Q
  <2>1. Q \in SUBSET Nat BY DEF Q
  <2> QED BY <1>1, <1>2, <2>1, Induct
<1> QED BY <1>0, <1>3

\* The function that is f on the part S of its domain D, and zero elsewhere.
Padded(f, S, D) == [x \in D |-> IF x \in S THEN f[x] ELSE 0]

\* What it is, point by point.
LEMMA PaddedIs ==
  ASSUME NEW D, NEW S, NEW f \in [D -> Int]
  PROVE  /\ Padded(f, S, D) \in [D -> Int]
         /\ \A x \in D : Padded(f, S, D)[x] = IF x \in S THEN f[x] ELSE 0
<1>1. \A x \in D : Padded(f, S, D)[x] = IF x \in S THEN f[x] ELSE 0
  BY DEF Padded
<1>2. \A x \in D : Padded(f, S, D)[x] \in Int
  BY <1>1
<1>3. Padded(f, S, D) = [x \in D |-> Padded(f, S, D)[x]]
  BY DEF Padded
<1> QED BY <1>1, <1>2, <1>3

\* A sum over a part of the domain: the elements outside count as zeros.
LEMMA SumOfPart ==
  ASSUME NEW D, IsFiniteSet(D), NEW S \in SUBSET D, NEW f \in [D -> Int]
  PROVE  SumFunctionOnSet(f, S) = SumFunction(Padded(f, S, D))
<1>1. PICK g \in [D -> Int] : /\ g = Padded(f, S, D)
                              /\ \A x \in D : g[x] = IF x \in S THEN f[x] ELSE 0
  BY PaddedIs
<1>2. IsFiniteSet(S)
  BY FS_Subset
<1>3. PICK it \in [SUBSET S -> Int] : /\ \A T \in SUBSET S : it[T] = SumOver(f, it, T)
                                      /\ SumFunctionOnSet(f, S) = it[S]
  <2>1. \A x \in S : f[x] \in Int  OBVIOUS
  <2> QED BY <1>2, <2>1, SumDefined
<1>4. PICK iu \in [SUBSET D -> Int] : /\ \A T \in SUBSET D : iu[T] = SumOver(g, iu, T)
                                      /\ SumFunctionOnSet(g, D) = iu[D]
  <2>1. \A x \in D : g[x] \in Int  OBVIOUS
  <2> QED BY <2>1, SumDefined
<1>5. \A T \in SUBSET S : \A x \in T : it[T] = f[x] + it[T \ {x}]
  <2>1. \A x \in S : f[x] \in Int  OBVIOUS
  <2>2. SumsUp(it, f, S)  BY <1>3, <2>1 DEF SumsUp
  <2>3. TakesOut(it, f, S)  BY <1>2, <2>2, AnyFirst
  <2> QED BY <2>3 DEF TakesOut
<1>0. \A T \in SUBSET D : IsFiniteSet(T) /\ Cardinality(T) \in Nat
  BY FS_Subset, FS_CardinalityType
<1> DEFINE Q == {n \in Nat : \A T \in SUBSET D : Cardinality(T) = n => iu[T] = it[T \cap S]}
<1>6. 0 \in Q
  <2>1. \A T \in SUBSET D : Cardinality(T) = 0 => T = {}
    BY <1>0, FS_EmptySet
  <2>2. it[{}] = 0 /\ iu[{}] = 0
    BY <1>3, <1>4 DEF SumOver
  <2>3. {} \cap S = {}
    OBVIOUS
  <2> QED BY <2>1, <2>2, <2>3
<1>7. ASSUME NEW n \in Q PROVE n + 1 \in Q
  <2> n \in Nat OBVIOUS
  <2> SUFFICES ASSUME NEW T \in SUBSET D, Cardinality(T) = n + 1 PROVE iu[T] = it[T \cap S]
    OBVIOUS
  <2>1. T # {}
    <3>1. Cardinality({}) = 0 BY FS_EmptySet
    <3>2. n + 1 # 0 OBVIOUS
    <3> QED BY <3>1, <3>2
  <2>2. PICK p \in T : p = Pick(T)
    BY <2>1, Picked
  <2>3. PICK U \in SUBSET D : U = T \ {p}
    OBVIOUS
  <2>4. Cardinality(U) = n
    <3>1. Cardinality(U) = Cardinality(T) - 1
      BY <1>0, <2>1, <2>2, <2>3, Smaller
    <3>2. (n + 1) - 1 = n OBVIOUS
    <3> QED BY <3>1, <3>2
  <2>5. iu[T] = g[p] + iu[U]
    BY <1>4, <2>1, <2>2, <2>3 DEF SumOver
  <2>6. iu[U] = it[U \cap S]
    BY <2>4
  <2>7. PICK V \in SUBSET S : V = T \cap S
    OBVIOUS
  <2>8. CASE p \in S
    <3>1. p \in V /\ U \cap S = V \ {p} /\ g[p] = f[p]
      BY <1>1, <2>3, <2>7, <2>8
    <3>2. it[V] = f[p] + it[V \ {p}]
      BY <1>5, <3>1
    <3> QED BY <2>5, <2>6, <2>7, <3>1, <3>2
  <2>9. CASE p \notin S
    <3>1. U \cap S = V /\ g[p] = 0 /\ it[V] \in Int
      BY <1>1, <2>3, <2>7, <2>9
    <3>2. PICK c \in Int : c = it[V]  OBVIOUS
    <3>3. iu[T] = 0 + c
      BY <2>5, <2>6, <3>1, <3>2
    <3> QED BY <2>7, <3>2, <3>3
  <2> QED BY <2>8, <2>9
<1>8. Q = Nat
  <2> HIDE DEF Q
  <2>1. Q \in SUBSET Nat BY DEF Q
  <2> QED BY <1>6, <1>7, <2>1, Induct
<1>9. iu[D] = it[D \cap S] /\ D \cap S = S
  BY <1>0, <1>8
<1> QED BY <1>1, <1>3, <1>4, <1>9, SumIsInt

------------------------------------------------------------------------------
(* arrays and their prefixes *)

\* The indices of an array of n elements.
Index(n) == 0 .. n - 1

\* g is f from index a to index b - 1, and zero elsewhere.
IsSlice(g, f, a, b, n) ==
    g \in [Index(n) -> Int] /\ \A x \in Index(n) : g[x] = IF a <= x /\ x < b THEN f[x] ELSE 0

\* The sum of the elements before the m-th.
Prefix(f, m) == SumFunction([x \in DOMAIN f |-> IF 0 <= x /\ x < m THEN f[x] ELSE 0])

\* They are finitely many.
LEMMA IndexIs == ASSUME NEW n \in Nat PROVE IsFiniteSet(Index(n)) /\ Index(n) \subseteq Nat
                                            /\ \A x \in Int : x \in Index(n) <=> 0 <= x /\ x < n
  BY FS_Interval DEF Index

\* A slice, written down.
LEMMA SliceIs ==
  ASSUME NEW n \in Nat, NEW f \in [Index(n) -> Int], NEW a \in Int, NEW b \in Int
  PROVE  IsSlice([x \in Index(n) |-> IF a <= x /\ x < b THEN f[x] ELSE 0], f, a, b, n)
<1> DEFINE g == [x \in Index(n) |-> IF a <= x /\ x < b THEN f[x] ELSE 0]
<1>1. \A x \in Index(n) : g[x] = IF a <= x /\ x < b THEN f[x] ELSE 0
  OBVIOUS
<1>2. \A x \in Index(n) : g[x] \in Int
  BY <1>1
<1>3. g = [x \in Index(n) |-> g[x]]
  OBVIOUS
<1> HIDE DEF g
<1>4. g \in [Index(n) -> Int]
  BY <1>2, <1>3
<1>5. IsSlice(g, f, a, b, n)
  BY <1>1, <1>4 DEF IsSlice
<1> QED BY <1>5 DEF g

\* A slice that is longer by an element sums up to as much more.
LEMMA SliceNext ==
  ASSUME NEW n \in Nat, NEW f \in [Index(n) -> Int], NEW a \in Nat, NEW b \in Index(n), a <= b,
         NEW g, IsSlice(g, f, a, b, n), NEW h, IsSlice(h, f, a, b + 1, n)
  PROVE  SumFunction(h) = SumFunction(g) + f[b] /\ SumFunction(g) \in Int
<1>0. IsFiniteSet(Index(n)) /\ Index(n) \subseteq Nat
  BY IndexIs
<1>1. g \in [Index(n) -> Int] /\ h \in [Index(n) -> Int]
  BY DEF IsSlice
<1>2. /\ \A x \in Index(n) : g[x] = IF a <= x /\ x < b THEN f[x] ELSE 0
      /\ \A x \in Index(n) : h[x] = IF a <= x /\ x < b + 1 THEN f[x] ELSE 0
  BY DEF IsSlice
<1>3. \A x \in Index(n) \ {b} : h[x] = g[x]
  BY <1>0, <1>2
<1>4. h[b] = f[b] /\ g[b] = 0 /\ f[b] \in Int
  BY <1>0, <1>2
<1>5. SumFunction(h) = SumFunction(g) + (h[b] - g[b])
  BY <1>0, <1>1, <1>3, SumAtPoint
<1>6. SumFunction(g) \in Int
  BY <1>0, <1>1, SumIsInt
<1> QED BY <1>4, <1>5, <1>6

\* An empty slice sums up to nothing.
LEMMA SliceEmpty ==
  ASSUME NEW n \in Nat, NEW f \in [Index(n) -> Int], NEW a \in Int,
         NEW g, IsSlice(g, f, a, a, n)
  PROVE  SumFunction(g) = 0
<1>0. IsFiniteSet(Index(n)) /\ Index(n) \subseteq Nat
  BY IndexIs
<1>1. g \in [Index(n) -> Int]
  BY DEF IsSlice
<1>2. \A x \in Index(n) : g[x] = 0
  BY <1>0 DEF IsSlice
<1> QED BY <1>0, <1>1, <1>2, SumOfZeros

\* A prefix is the sum of a slice.
LEMMA PrefixIs ==
  ASSUME NEW n \in Nat, NEW f \in [Index(n) -> Int], NEW m \in Int
  PROVE  \E g : IsSlice(g, f, 0, m, n) /\ Prefix(f, m) = SumFunction(g)
<1>1. DOMAIN f = Index(n)
  OBVIOUS
<1>2. Prefix(f, m) = SumFunction([x \in Index(n) |-> IF 0 <= x /\ x < m THEN f[x] ELSE 0])
  BY <1>1 DEF Prefix
<1>3. IsSlice([x \in Index(n) |-> IF 0 <= x /\ x < m THEN f[x] ELSE 0], f, 0, m, n)
  BY SliceIs
<1> QED BY <1>2, <1>3

\* Before the first element there is nothing.
LEMMA PrefixNone ==
  ASSUME NEW n \in Nat, NEW f \in [Index(n) -> Int]
  PROVE  Prefix(f, 0) = 0
  BY PrefixIs, SliceEmpty

\* A prefix is an integer.
LEMMA PrefixIsInt ==
  ASSUME NEW n \in Nat, NEW f \in [Index(n) -> Int], NEW m \in Int
  PROVE  Prefix(f, m) \in Int
<1>1. PICK g : IsSlice(g, f, 0, m, n) /\ Prefix(f, m) = SumFunction(g)
  BY PrefixIs
<1>2. g \in [Index(n) -> Int]
  BY <1>1 DEF IsSlice
<1> QED BY <1>1, <1>2, IndexIs, SumIsInt

\* The next prefix takes one more element in.
LEMMA PrefixNext ==
  ASSUME NEW n \in Nat, NEW f \in [Index(n) -> Int], NEW m \in Index(n)
  PROVE  Prefix(f, m + 1) = Prefix(f, m) + f[m]
<1>0. m \in Nat /\ 0 <= m /\ 0 \in Nat
  BY IndexIs
<1>1. PICK g : IsSlice(g, f, 0, m, n) /\ Prefix(f, m) = SumFunction(g)
  BY <1>0, PrefixIs
<1>2. PICK h : IsSlice(h, f, 0, m + 1, n) /\ Prefix(f, m + 1) = SumFunction(h)
  BY <1>0, PrefixIs
<1> QED BY <1>0, <1>1, <1>2, SliceNext

\* Elements that are zero add nothing.
LEMMA PrefixAll ==
  ASSUME NEW n \in Nat, NEW f \in [Index(n) -> Int], NEW m \in Int,
         \A x \in Index(n) : x < m \/ f[x] = 0
  PROVE  Prefix(f, m) = SumFunction(f)
<1>1. PICK g : IsSlice(g, f, 0, m, n) /\ Prefix(f, m) = SumFunction(g)
  BY PrefixIs
<1>2. g \in [Index(n) -> Int]
  BY <1>1 DEF IsSlice
<1>3. \A x \in Index(n) : g[x] = f[x]
  BY <1>1, IndexIs DEF IsSlice
<1>4. g = f
  BY <1>2, <1>3
<1> QED BY <1>1, <1>4

\* The sum of a part of the array is the difference of two prefixes.
LEMMA SumOfInterval ==
  ASSUME NEW n \in Nat, NEW f \in [Index(n) -> Int], NEW a \in 0 .. n, NEW b \in a .. n
  PROVE  SumFunctionOnSet(f, a .. b - 1) = Prefix(f, b) - Prefix(f, a)
<1> DEFINE on(c) == SumFunctionOnSet(f, a .. c - 1)
           Q == {d \in Nat : a + d <= n => on(a + d) = Prefix(f, a + d) - Prefix(f, a)}
<1>0. IsFiniteSet(Index(n)) /\ \A m \in Int : Prefix(f, m) \in Int
  BY IndexIs, PrefixIsInt
<1>1. ASSUME NEW c \in a .. n
      PROVE  \E g : IsSlice(g, f, a, c, n) /\ on(c) = SumFunction(g)
  <2>1. PICK S \in SUBSET Index(n) : S = a .. c - 1
    BY DEF Index
  <2>2. on(c) = SumFunction(Padded(f, S, Index(n)))
    BY <1>0, <2>1, SumOfPart
  <2>3. \A x \in Index(n) : x \in S <=> a <= x /\ x < c
    BY <2>1 DEF Index
  <2>4. IsSlice(Padded(f, S, Index(n)), f, a, c, n)
    BY <2>3, PaddedIs DEF IsSlice
  <2> QED BY <2>2, <2>4
<1>2. 0 \in Q
  <2>1. PICK g : IsSlice(g, f, a, a, n) /\ on(a) = SumFunction(g)
    BY <1>1
  <2>3. on(a) = 0
    BY <2>1, SliceEmpty
  <2>4. PICK p \in Int : p = Prefix(f, a)
    BY <1>0
  <2>5. on(a + 0) = Prefix(f, a + 0) - Prefix(f, a)
    <3>1. a + 0 = a  OBVIOUS
    <3>2. 0 = p - p  OBVIOUS
    <3> HIDE DEF on
    <3> QED BY <2>3, <2>4, <3>1, <3>2
  <2> HIDE DEF on
  <2> QED BY <2>5
<1>3. ASSUME NEW d \in Q PROVE d + 1 \in Q
  <2>0. d \in Nat  OBVIOUS
  <2> SUFFICES ASSUME a + (d + 1) <= n
               PROVE  on(a + (d + 1)) = Prefix(f, a + (d + 1)) - Prefix(f, a)
    BY <2>0
  <2>1. PICK c \in Index(n) : c = a + d /\ c + 1 = a + (d + 1) /\ c \in a .. n /\ c + 1 \in a .. n
    BY <2>0 DEF Index
  <2>2. on(c) = Prefix(f, c) - Prefix(f, a)
    BY <2>0, <2>1
  <2>3. PICK g : IsSlice(g, f, a, c, n) /\ on(c) = SumFunction(g)
    BY <1>1, <2>1
  <2>4. PICK h : IsSlice(h, f, a, c + 1, n) /\ on(c + 1) = SumFunction(h)
    BY <1>1, <2>1
  <2> HIDE DEF on, Q
  <2>5. a \in Nat /\ a <= c /\ c \in Int
    BY <2>1
  <2>6. SumFunction(h) = SumFunction(g) + f[c]
    BY <2>3, <2>4, <2>5, SliceNext
  <2>7. f[c] \in Int
    OBVIOUS
  <2>8. Prefix(f, c + 1) = Prefix(f, c) + f[c]
    BY PrefixNext
  <2>9. PICK p \in Int : p = Prefix(f, c)  BY <1>0, <2>5
  <2>10. PICK q \in Int : q = Prefix(f, a)  BY <1>0
  <2>11. on(c + 1) = (p - q) + f[c]
    BY <2>2, <2>3, <2>4, <2>6, <2>9, <2>10
  <2>12. on(c + 1) = (p + f[c]) - q
    BY <2>7, <2>11
  <2> QED BY <2>1, <2>8, <2>9, <2>10, <2>12
<1>4. Q = Nat
  <2> HIDE DEF Q
  <2>1. Q \in SUBSET Nat BY DEF Q
  <2> QED BY <1>2, <1>3, <2>1, Induct
<1>5. b - a \in Nat /\ a + (b - a) = b /\ b <= n
  OBVIOUS
<1>6. b - a \in Q
  BY ONLY <1>4, <1>5
<1> HIDE DEF on
<1>7. on(b) = Prefix(f, b) - Prefix(f, a)
  BY <1>5, <1>6
<1> QED BY <1>7 DEF on

\* Neighbouring parts meet, and together they are the whole.
LEMMA PartsMeet ==
  ASSUME NEW size \in Nat, NEW n \in Nat \ {0}
  PROVE  /\ First(0, size, n) = 0 /\ First(n, size, n) = size
         /\ \A u \in 0 .. n : First(u, size, n) \in 0 .. size
         /\ \A u \in 0 .. n - 1 : /\ First(u, size, n) <= First(u + 1, size, n)
                                  /\ Last(u, size, n) = First(u + 1, size, n) - 1
<1>1. First(0, size, n) = 0
  <2>1. 0 * size = 0 /\ 0 \div n = 0  OBVIOUS
  <2> QED BY <2>1 DEF First
<1>2. First(n, size, n) = size
  <2>1. (n * size) \div n = size  BY Z3
  <2> QED BY <2>1 DEF First
<1>3. ASSUME NEW u \in 0 .. n - 1
      PROVE  First(u, size, n) <= First(u + 1, size, n) /\ Last(u, size, n) = First(u + 1, size, n) - 1
  <2>1. PICK p \in Nat : p = u * size  BY Z3
  <2>2. (u + 1) * size = p + size  BY <2>1, Z3
  <2>3. p \div n <= (p + size) \div n  BY Z3
  <2> QED BY <2>1, <2>2, <2>3 DEF First, Last
<1>4. ASSUME NEW u \in 0 .. n PROVE First(u, size, n) \in 0 .. size
  <2>1. PICK p \in Nat : p = u * size  BY Z3
  <2>2. PICK q \in Nat : q = n * size  BY Z3
  <2>3. p <= q
    <3>1. PICK d \in Nat : n = u + d
      <4>1. n - u \in Nat /\ n = u + (n - u)  OBVIOUS
      <4> QED BY <4>1
    <3>2. PICK r \in Nat : r = d * size  BY Z3
    <3>3. q = p + r  BY <2>1, <2>2, <3>1, <3>2, Z3
    <3> QED BY <3>3
  <2>4. p \div n <= q \div n /\ p \div n \in Nat  BY <2>3, Z3
  <2>5. q \div n = size  BY <2>2, Z3
  <2> QED BY <2>1, <2>4, <2>5 DEF First
<1> QED BY <1>1, <1>2, <1>3, <1>4

------------------------------------------------------------------------------
(* pthread_bcast_demo.c: the barriers *)

\* Finiteness and cardinality are the same notions inside the instance.
LEMMA SameCardinality ==
    ASSUME NEW S PROVE Barrier!Cardinality(S) = Cardinality(S)
  BY Zenon DEF Barrier!Cardinality, Cardinality

\* Finiteness likewise.
LEMMA SameFiniteness ==
    ASSUME NEW S PROVE Barrier!IsFiniteSet(S) <=> IsFiniteSet(S)
  BY Zenon DEF Barrier!IsFiniteSet, IsFiniteSet

\* No thread has arrived when all have been created.
LEMMA BarrierStart == Barrier!Init => Barrier!BarrierInv
<1> SUFFICES ASSUME Barrier!Init PROVE Barrier!BarrierInv  OBVIOUS
<1> USE DEF Barrier!Init, Barrier!Pcs, Barrier!BeforeFirst, Barrier!Past
<1>1. Barrier!Counted = {}  BY DEF Barrier!Counted
<1>2. count = Barrier!Cardinality(Barrier!Counted)
  BY <1>1, FS_EmptySet, SameCardinality
<1>3. QED  BY <1>2 DEF Barrier!BarrierInv

\* Where no thread enters or leaves the counted part, the count stays exact.
LEMMA CountedSame ==
    ASSUME \A u \in Threads : barrier_pc'[u] \in {"wait1", "woken1", "release", "leave"}
                              <=> barrier_pc[u] \in {"wait1", "woken1", "release", "leave"}
    PROVE  Barrier!Counted' = Barrier!Counted
  BY DEF Barrier!Counted

\* Every statement of f() preserves the invariant, whoever holds the mutexes.
LEMMA BarrierNext == Barrier!BarrierInv /\ Barrier!Next => Barrier!BarrierInv'
<1> SUFFICES ASSUME Barrier!BarrierInv, NEW u \in Threads, Barrier!f(u)
             PROVE  Barrier!BarrierInv'
  BY DEF Barrier!Next
<1> USE ThreadsAssumption
    DEF Barrier!BarrierAssumption, Barrier!BarrierInv, Barrier!Pcs, Barrier!BeforeFirst,
        Barrier!Past, Barrier!Goto
<1>1. IsFiniteSet(Barrier!Counted) /\ Barrier!Counted \subseteq Threads
  BY FS_Subset, SameFiniteness DEF Barrier!Counted
<1>2. CASE Barrier!Lock(u)
  <2>1. Barrier!Counted' = Barrier!Counted  BY <1>2, CountedSame DEF Barrier!Lock
  <2>2. QED  BY <1>2, <2>1 DEF Barrier!Lock
<1>3. CASE Barrier!Arrive(u)
  <2>1. /\ barrier_pc[u] = "arrive" /\ barrier_pc'[u] \in {"wait1", "release"}
        /\ \A v \in Threads : v # u => barrier_pc'[v] = barrier_pc[v]
    BY <1>3 DEF Barrier!Arrive
  <2>2. Barrier!Counted' = Barrier!Counted \cup {u} /\ u \notin Barrier!Counted
    BY <2>1 DEF Barrier!Counted
  <2>3. Cardinality(Barrier!Counted') = Cardinality(Barrier!Counted) + 1
    BY <1>1, <2>2, FS_AddElement
  <2>4. count' = Barrier!Cardinality(Barrier!Counted)'
    BY <1>3, <2>3, SameCardinality DEF Barrier!Arrive
  <2>5. CASE barrier_pc'[u] = "release"
    <3>1. Cardinality(Barrier!Counted') >= Cardinality(Threads)
      BY <1>3, <2>4, <2>5, SameCardinality DEF Barrier!Arrive, Barrier!NUM_THREADS
    <3>2. Barrier!Counted' = Threads
      <4>1. IsFiniteSet(Threads) /\ Barrier!Counted' \subseteq Threads
        BY <1>1, <2>2, SameFiniteness
      <4>2. /\ Cardinality(Barrier!Counted') \in Nat /\ Cardinality(Threads) \in Nat
            /\ Cardinality(Barrier!Counted') <= Cardinality(Threads)
            /\ Cardinality(Threads) = Cardinality(Barrier!Counted')
                 => Barrier!Counted' = Threads
        BY <4>1, FS_Subset, FS_CardinalityType
      <4>3. QED  BY <3>1, <4>2
    <3>3. QED  BY <1>3, <2>1, <2>4, <3>2 DEF Barrier!Arrive, Barrier!Counted
  <2>6. CASE barrier_pc'[u] = "wait1"
    BY <1>3, <2>1, <2>4, <2>6 DEF Barrier!Arrive
  <2>7. QED  BY <2>1, <2>5, <2>6
<1>4. CASE Barrier!Release(u)
  <2>1. Barrier!Counted' = Barrier!Counted
    BY <1>4, CountedSame DEF Barrier!Release, Barrier!Broadcast
  <2>2. QED  BY <1>4, <2>1 DEF Barrier!Release, Barrier!Broadcast
<1>5. CASE Barrier!Leave(u)
  <2>1. /\ barrier_pc[u] = "leave" /\ barrier_pc'[u] = "lock2"
        /\ \A v \in Threads : v # u => barrier_pc'[v] = barrier_pc[v]
    BY <1>5 DEF Barrier!Leave
  <2>2. Barrier!Counted' = Barrier!Counted \ {u} /\ u \in Barrier!Counted
    BY <2>1 DEF Barrier!Counted
  <2>3. Cardinality(Barrier!Counted') = Cardinality(Barrier!Counted) - 1
    BY <1>1, <2>2, FS_RemoveElement
  <2>4. count' = Barrier!Cardinality(Barrier!Counted)'
    BY <1>5, <2>3, SameCardinality DEF Barrier!Leave
  <2>5. QED  BY <1>5, <2>1, <2>4 DEF Barrier!Leave
<1>6. CASE Barrier!LockCount(u)
  <2>1. Barrier!Counted' = Barrier!Counted  BY <1>6, CountedSame DEF Barrier!LockCount
  <2>2. QED  BY <1>6, <2>1 DEF Barrier!LockCount
<1>7. CASE Barrier!TestCount(u)
  <2>1. Barrier!Counted' = Barrier!Counted  BY <1>7, CountedSame DEF Barrier!TestCount
  <2>2. CASE barrier_pc'[u] = "release2"
    <3>1. Barrier!Counted = {}
      BY <1>1, <1>7, <2>2, FS_EmptySet, SameCardinality DEF Barrier!TestCount
    <3>2. \A v \in Threads : barrier_pc[v] \notin {"wait1", "woken1", "release", "leave"}
      BY <3>1 DEF Barrier!Counted
    <3>3. QED  BY <1>7, <2>1, <3>2 DEF Barrier!TestCount
  <2>3. CASE barrier_pc'[u] = "sleep2"
    BY <1>7, <2>1, <2>3 DEF Barrier!TestCount
  <2>4. QED  BY <1>7, <2>2, <2>3 DEF Barrier!TestCount
<1>8. CASE Barrier!Release2(u)
  <2>1. Barrier!Counted' = Barrier!Counted
    BY <1>8, CountedSame DEF Barrier!Release2, Barrier!Broadcast
  <2>2. QED  BY <1>8, <2>1 DEF Barrier!Release2, Barrier!Broadcast
<1>9. CASE Barrier!Return(u)
  <2>1. Barrier!Counted' = Barrier!Counted  BY <1>9, CountedSame DEF Barrier!Return
  <2>2. QED  BY <1>9, <2>1 DEF Barrier!Return
<1>10. CASE Barrier!WaitCount(u)
  <2>1. Barrier!Counted' = Barrier!Counted  BY <1>10, CountedSame DEF Barrier!WaitCount
  <2>2. QED  BY <1>10, <2>1 DEF Barrier!WaitCount
<1>11. QED
  BY <1>2, <1>3, <1>4, <1>5, <1>6, <1>7, <1>8, <1>9, <1>10 DEF Barrier!f

\* The invariant says what the two comments of the program say.
LEMMA BarrierImplied == Barrier!BarrierInv => Barrier!AllArrived /\ Barrier!AllLeft
  BY DEF Barrier!BarrierInv, Barrier!AllArrived, Barrier!AllLeft, Barrier!BeforeFirst,
         Barrier!Past

------------------------------------------------------------------------------
(* recursive_mutex_demo.c *)

\* Nobody owns the mutex at first.
LEMMA RecStart == Rec!Init => Rec!MutexInv
  BY DEF Rec!Init, Rec!MutexInv, Rec!Inside, Rec!Outside, Rec!Tids

\* Only the owner, or who becomes it, takes a step, so what is said of the other
\* thread stays true.
LEMMA RecNext == Rec!MutexInv /\ Rec!Next => Rec!MutexInv'
<1> SUFFICES ASSUME Rec!MutexInv, Rec!Next PROVE Rec!MutexInv'  OBVIOUS
<1> USE DEF Rec!MutexInv, Rec!Inside, Rec!Outside, Rec!Tids
<1>1. ASSUME NEW u \in Rec!Tids, Rec!Lock(u) PROVE Rec!MutexInv'
  BY <1>1 DEF Rec!Lock
<1>2. ASSUME NEW u \in Rec!Tids, Rec!Count(u) PROVE Rec!MutexInv'
  BY <1>2 DEF Rec!Count
<1>3. ASSUME NEW u \in Rec!Tids, Rec!Unlock(u) PROVE Rec!MutexInv'
  BY <1>3 DEF Rec!Unlock
<1>4. QED  BY <1>1, <1>2, <1>3 DEF Rec!Next, Rec!thread_routine

\* The owner's depth is the count, and the other thread is outside.
LEMMA RecImplied == Rec!MutexInv => Rec!TurnsAreWhole
  BY DEF Rec!MutexInv, Rec!Inside, Rec!Outside, Rec!Tids, Rec!TurnsAreWhole

------------------------------------------------------------------------------
(* pthread_rwlock_demo.c: the snapshot *)

\* Readers and writers are different threads, none of them is None.
LEMMA ThreadKinds ==
    /\ Rwlock!Readers \cap Rwlock!Writers = {}
    /\ Rwlock!Readers \subseteq Rwlock!Tids /\ Rwlock!Writers \subseteq Rwlock!Tids
    /\ Rwlock!Tids \subseteq Int /\ None \notin Rwlock!Tids
    /\ nreaders \in Nat /\ nwriters \in Nat /\ arraysize \in Nat
  BY ThreadsAssumption
  DEF Rwlock!RwlockAssumption, Rwlock!Readers, Rwlock!Writers, Rwlock!Tids,
      Rwlock!num_threads

\* A reader's share lies within the array.
LEMMA ShareInArray ==
    ASSUME NEW r \in Rwlock!Readers
    PROVE  /\ Rwlock!First(r, arraysize, nreaders) \in Nat
           /\ Rwlock!Last(r, arraysize, nreaders) \in Int
           /\ Rwlock!Last(r, arraysize, nreaders) < arraysize
<1>1. r \in Nat /\ nreaders \in Nat /\ r + 1 <= nreaders /\ arraysize \in Nat
  BY ThreadKinds DEF Rwlock!Readers
<1>2. r * arraysize \in Nat /\ (r + 1) * arraysize <= nreaders * arraysize
  BY <1>1
<1>3. (r * arraysize) \div nreaders \in Nat  BY <1>1, <1>2
<1>4. \A a, b \in Nat : a <= nreaders * b => a \div nreaders \in Nat /\ a \div nreaders <= b
  BY <1>1
<1>5. (r + 1) * arraysize \in Nat  BY <1>1
<1>6. ((r + 1) * arraysize) \div nreaders \in Nat /\ ((r + 1) * arraysize) \div nreaders <= arraysize
  BY <1>1, <1>2, <1>4, <1>5
<1>7. QED  BY <1>1, <1>3, <1>6 DEF Rwlock!First, Rwlock!Last

\* Before the first lock nothing is held, seen or written.
LEMMA RwlockStart == Rwlock!Init => Rwlock!RwlockInv
<1> SUFFICES ASSUME Rwlock!Init PROVE Rwlock!RwlockInv  OBVIOUS
<1> USE ThreadKinds DEF Rwlock!Init
<1>1. Rwlock!TypeOK
  <2>1. Rwlock!Items \subseteq Int /\ 0 \in Int /\ created \in Int
    BY DEF Rwlock!Items
  <2>2. \A w \in Rwlock!Writers : curtime[w] = <<w, FALSE>>  OBVIOUS
  <2>3. [wrid |-> 0, wrtime |-> <<0, FALSE>>] \in [wrid : Int, wrtime : Int \X BOOLEAN]
    <3>1. 0 \in Int  OBVIOUS
    <3>2. <<0, FALSE>> \in Int \X BOOLEAN  BY <3>1, Zenon
    <3>3. QED  BY <3>1, <3>2, Zenon
  <2>4. shared_data \in [Rwlock!Items -> [wrid : Int, wrtime : Int \X BOOLEAN]]
    BY <2>3
  <2>5. QED  BY <2>1, <2>2, <2>4 DEF Rwlock!TypeOK, Rwlock!Reading, Rwlock!Writing
<1>2. Rwlock!LockHeld
  BY DEF Rwlock!LockHeld, Rwlock!Reading, Rwlock!Writing
<1>3. Rwlock!SeenIsThere  BY DEF Rwlock!SeenIsThere
<1>4. Rwlock!ItemsWhole  BY DEF Rwlock!ItemsWhole
<1>5. QED  BY <1>1, <1>2, <1>3, <1>4 DEF Rwlock!RwlockInv

\* Statements outside the critical sections, after which nothing is at stake.
Quiet == {"new", "barrier", "arrived", "lock", "waiting"}
\* Where a thread of the readers and writers can be.
Statements == Quiet \cup {"exited"} \cup Rwlock!Reading \cup Rwlock!Writing

\* A step between quiet statements disturbs no part of the invariant.
LEMMA QuietStep ==
    ASSUME Rwlock!RwlockInv, DOMAIN rwlock_pc' = Rwlock!Tids,
           rwlock_pc' = [u \in Rwlock!Tids |-> rwlock_pc'[u]],
           \A u \in Rwlock!Tids : \/ rwlock_pc'[u] = rwlock_pc[u]
                                  \/ rwlock_pc[u] \in Quiet /\ rwlock_pc'[u] \in Quiet,
           UNCHANGED <<k, curtime, rwlock, shared_data, seen>>, created' \in Int
    PROVE  Rwlock!RwlockInv'
<1> USE ThreadKinds DEF Rwlock!RwlockInv, Rwlock!Reading, Rwlock!Writing, Quiet
<1>1. Rwlock!TypeOK'
  <2>1. rwlock_pc' \in [Rwlock!Tids -> Quiet \cup {"exited"} \cup Rwlock!Reading \cup Rwlock!Writing]
    BY DEF Rwlock!TypeOK
  <2>2. \/ shared_data' = <<>> /\ \A u \in Rwlock!Tids : rwlock_pc'[u] = "exited"
        \/ shared_data' \in [Rwlock!Items -> [wrid : Int, wrtime : Int \X BOOLEAN]]
    BY DEF Rwlock!TypeOK
  <2>3. QED  BY <2>1, <2>2 DEF Rwlock!TypeOK
<1>2. Rwlock!LockHeld'  BY DEF Rwlock!LockHeld
<1>3. Rwlock!SeenIsThere'  BY DEF Rwlock!SeenIsThere
<1>4. Rwlock!ItemsWhole'  BY DEF Rwlock!ItemsWhole
<1>5. QED  BY <1>1, <1>2, <1>3, <1>4

\* main() creates a thread, or one arrives at the barrier.
LEMMA RwlockCreate == Rwlock!RwlockInv /\ Rwlock!Create => Rwlock!RwlockInv'
<1> SUFFICES ASSUME Rwlock!RwlockInv, Rwlock!Create PROVE Rwlock!RwlockInv'  OBVIOUS
<1>1. rwlock_pc \in [Rwlock!Tids -> Statements] /\ created \in Int
  BY DEF Rwlock!RwlockInv, Rwlock!TypeOK, Rwlock!Reading, Rwlock!Writing, Statements, Quiet
<1>2. /\ DOMAIN rwlock_pc' = Rwlock!Tids /\ rwlock_pc' = [u \in Rwlock!Tids |-> rwlock_pc'[u]]
      /\ \A u \in Rwlock!Tids : \/ rwlock_pc'[u] = rwlock_pc[u]
                                \/ rwlock_pc[u] \in Quiet /\ rwlock_pc'[u] \in Quiet
  BY <1>1 DEF Rwlock!Create, Rwlock!Goto, Quiet
<1>3. created' \in Int /\ UNCHANGED <<k, curtime, rwlock, shared_data, seen>>
  BY <1>1 DEF Rwlock!Create
<1>4. QED  BY <1>2, <1>3, QuietStep

\* A thread passes the barrier or waits at it.
LEMMA RwlockBarrier ==
    ASSUME Rwlock!RwlockInv, NEW u \in Rwlock!Tids, Rwlock!Barrier(u)
    PROVE  Rwlock!RwlockInv'
<1>1. rwlock_pc \in [Rwlock!Tids -> Statements] /\ created \in Int
  BY DEF Rwlock!RwlockInv, Rwlock!TypeOK, Rwlock!Reading, Rwlock!Writing, Statements, Quiet
<1>2. /\ DOMAIN rwlock_pc' = Rwlock!Tids /\ rwlock_pc' = [v \in Rwlock!Tids |-> rwlock_pc'[v]]
      /\ \A v \in Rwlock!Tids : \/ rwlock_pc'[v] = rwlock_pc[v]
                                \/ rwlock_pc[v] \in Quiet /\ rwlock_pc'[v] \in Quiet
  BY <1>1 DEF Rwlock!Barrier, Quiet
<1>3. created' \in Int /\ UNCHANGED <<k, curtime, rwlock, shared_data, seen>>
  BY <1>1 DEF Rwlock!Barrier
<1>4. QED  BY <1>2, <1>3, QuietStep

\* A thread that cannot have the lock waits for it.
LEMMA RwlockWait ==
    ASSUME Rwlock!RwlockInv, NEW u \in Rwlock!Tids, Rwlock!Goto(u, "lock", "waiting"),
           UNCHANGED <<k, curtime, rwlock, shared_data, seen, created>>
    PROVE  Rwlock!RwlockInv'
<1>1. rwlock_pc \in [Rwlock!Tids -> Statements] /\ created \in Int
  BY DEF Rwlock!RwlockInv, Rwlock!TypeOK, Rwlock!Reading, Rwlock!Writing, Statements, Quiet
<1>2. /\ DOMAIN rwlock_pc' = Rwlock!Tids /\ rwlock_pc' = [v \in Rwlock!Tids |-> rwlock_pc'[v]]
      /\ \A v \in Rwlock!Tids : \/ rwlock_pc'[v] = rwlock_pc[v]
                                \/ rwlock_pc[v] \in Quiet /\ rwlock_pc'[v] \in Quiet
  BY <1>1 DEF Rwlock!Goto, Quiet
<1>3. QED  BY <1>1, <1>2, QuietStep

\* A reader or a writer takes the lock.
LEMMA RwlockReadLock ==
    ASSUME Rwlock!RwlockInv, NEW r \in Rwlock!Readers, Rwlock!rdlock(r)
    PROVE  Rwlock!RwlockInv'
<1> USE ThreadKinds DEF Rwlock!RwlockInv, Rwlock!Reading, Rwlock!Writing
<1>1. CASE rwlock_pc'[r] # "print_lock"
  <2>1. rwlock_pc \in [Rwlock!Tids -> Statements] /\ r \in Rwlock!Tids
    BY DEF Rwlock!TypeOK, Statements, Quiet
  <2>2. /\ Rwlock!Goto(r, "lock", "waiting")
        /\ UNCHANGED <<k, curtime, rwlock, shared_data, seen, created>>
    BY <1>1, <2>1 DEF Rwlock!rdlock
  <2>3. QED  BY <2>1, <2>2, RwlockWait
<1>2. CASE rwlock_pc'[r] = "print_lock"
  <2>1. /\ rwlock.writer = None /\ rwlock_pc[r] \in {"lock", "waiting"}
        /\ rwlock_pc' = [rwlock_pc EXCEPT ![r] = "print_lock"]
        /\ rwlock' = [rwlock EXCEPT !.readers = @ \cup {r}]
        /\ UNCHANGED <<k, curtime, shared_data, seen, created>>
    BY <1>2 DEF Rwlock!rdlock, Rwlock!Goto, Rwlock!TypeOK
  <2>2. Rwlock!TypeOK'  BY <2>1 DEF Rwlock!TypeOK
  <2>3. Rwlock!LockHeld'  BY <2>1 DEF Rwlock!LockHeld, Rwlock!TypeOK
  <2>4. Rwlock!SeenIsThere'  BY <2>1 DEF Rwlock!SeenIsThere, Rwlock!TypeOK
  <2>5. Rwlock!ItemsWhole'  BY <2>1 DEF Rwlock!ItemsWhole, Rwlock!TypeOK
  <2>6. QED  BY <2>2, <2>3, <2>4, <2>5
<1>3. QED  BY <1>1, <1>2

\* A writer takes the lock only if nobody holds it.
LEMMA RwlockWriteLock ==
    ASSUME Rwlock!RwlockInv, NEW w \in Rwlock!Writers, Rwlock!wrlock(w)
    PROVE  Rwlock!RwlockInv'
<1> USE ThreadKinds DEF Rwlock!RwlockInv, Rwlock!Reading, Rwlock!Writing
<1>1. CASE ~(rwlock.writer = None /\ rwlock.readers = {})
  BY <1>1, RwlockWait DEF Rwlock!wrlock
<1>2. CASE rwlock.writer = None /\ rwlock.readers = {}
  <2>1. /\ rwlock_pc[w] \in {"lock", "waiting"}
        /\ rwlock_pc' = [rwlock_pc EXCEPT ![w] = "gettime"]
        /\ rwlock' = [rwlock EXCEPT !.writer = w]
        /\ UNCHANGED <<k, curtime, shared_data, seen, created>>
    BY <1>2 DEF Rwlock!wrlock
  <2>2. Rwlock!TypeOK'  BY <2>1 DEF Rwlock!TypeOK
  <2>3. Rwlock!LockHeld'  BY <1>2, <2>1 DEF Rwlock!LockHeld, Rwlock!TypeOK
  <2>4. Rwlock!SeenIsThere'  BY <2>1 DEF Rwlock!SeenIsThere, Rwlock!TypeOK
  <2>5. Rwlock!ItemsWhole'  BY <2>1 DEF Rwlock!ItemsWhole, Rwlock!TypeOK
  <2>6. QED  BY <2>2, <2>3, <2>4, <2>5
<1>3. QED  BY <1>1, <1>2

\* A thread gives the lock back: a reader forgets what it printed.
LEMMA RwlockUnlock ==
    ASSUME Rwlock!RwlockInv, NEW u \in Rwlock!Tids, Rwlock!unlock(u)
    PROVE  Rwlock!RwlockInv'
<1> USE ThreadKinds DEF Rwlock!RwlockInv, Rwlock!Reading, Rwlock!Writing
<1>1. /\ rwlock_pc[u] = "unlock" /\ rwlock_pc' = [rwlock_pc EXCEPT ![u] = "lock"]
      /\ rwlock' = [readers |-> rwlock.readers \ {u},
                    writer  |-> IF rwlock.writer = u THEN None ELSE rwlock.writer]
      /\ seen' = [r \in Rwlock!Readers |-> IF r = u THEN <<>> ELSE seen[r]]
      /\ UNCHANGED <<k, curtime, shared_data, created>>
  BY DEF Rwlock!unlock, Rwlock!Goto
<1>2. Rwlock!TypeOK'
  <2>1. seen' = [r \in Rwlock!Readers |-> seen'[r]]  BY <1>1
  <2>2. QED  BY <1>1, <2>1 DEF Rwlock!TypeOK
<1>3. Rwlock!LockHeld'  BY <1>1 DEF Rwlock!LockHeld, Rwlock!TypeOK
<1>4. Rwlock!SeenIsThere'
  <2> SUFFICES ASSUME NEW r \in Rwlock!Readers
               PROVE  /\ rwlock_pc'[r] \notin {"print", "unlock"} => seen'[r] = <<>>
                      /\ \A i \in DOMAIN seen'[r] :
                            i \in DOMAIN shared_data' /\ seen'[r][i] = shared_data'[i]
    BY DEF Rwlock!SeenIsThere
  <2>1. CASE r = u
    <3>1. seen'[r] = <<>> /\ DOMAIN seen'[r] = {}  BY <1>1, <2>1
    <3>2. QED  BY <3>1
  <2>2. CASE r # u  BY <1>1, <2>2 DEF Rwlock!SeenIsThere, Rwlock!TypeOK
  <2>3. QED  BY <2>1, <2>2
<1>5. Rwlock!ItemsWhole'  BY <1>1 DEF Rwlock!ItemsWhole, Rwlock!TypeOK
<1>6. QED  BY <1>2, <1>3, <1>4, <1>5

\* A reader begins to print, at the first item of its share.
LEMMA RwlockLockPrint ==
    ASSUME Rwlock!RwlockInv, NEW r \in Rwlock!Readers, Rwlock!LockPrint(r)
    PROVE  Rwlock!RwlockInv'
<1> USE ThreadKinds DEF Rwlock!RwlockInv, Rwlock!Reading, Rwlock!Writing
<1>1. PICK n \in Nat : n = Rwlock!First(r, arraysize, nreaders)  BY ShareInArray
<1>2. /\ rwlock_pc[r] = "print_lock" /\ rwlock_pc' = [rwlock_pc EXCEPT ![r] = "print"]
      /\ k' = [k EXCEPT ![r] = n]
      /\ UNCHANGED <<curtime, rwlock, shared_data, seen, created>>
  BY <1>1 DEF Rwlock!LockPrint, Rwlock!Goto
<1>3. Rwlock!TypeOK'  BY <1>2 DEF Rwlock!TypeOK
<1>4. Rwlock!LockHeld'  BY <1>2 DEF Rwlock!LockHeld, Rwlock!TypeOK
<1>5. Rwlock!SeenIsThere'  BY <1>2 DEF Rwlock!SeenIsThere, Rwlock!TypeOK
<1>6. Rwlock!ItemsWhole'  BY <1>2 DEF Rwlock!ItemsWhole, Rwlock!TypeOK
<1>7. QED  BY <1>3, <1>4, <1>5, <1>6

\* A reader prints an item of its share, which is in the array, or is done.
LEMMA RwlockPrintItem ==
    ASSUME Rwlock!RwlockInv, NEW r \in Rwlock!Readers, Rwlock!PrintItem(r)
    PROVE  Rwlock!RwlockInv'
<1> USE ThreadKinds DEF Rwlock!RwlockInv, Rwlock!Reading, Rwlock!Writing
<1>1. PICK last \in Int : last = Rwlock!Last(r, arraysize, nreaders) /\ last < arraysize
  BY ShareInArray
<1>2. CASE k[r] <= last
  <2>1. /\ rwlock_pc[r] = "print" /\ k' = [k EXCEPT ![r] = k[r] + 1]
        /\ seen' = [seen EXCEPT ![r] = [i \in DOMAIN seen[r] \cup {k[r]} |->
                        IF i = k[r] THEN shared_data[i] ELSE seen[r][i]]]
        /\ UNCHANGED <<rwlock_pc, curtime, rwlock, shared_data, created>>
    BY <1>1, <1>2 DEF Rwlock!PrintItem
  <2>2. k[r] \in Rwlock!Items /\ Rwlock!Items = DOMAIN shared_data
    <3>1. k[r] \in Int /\ k[r] >= 0  BY <2>1 DEF Rwlock!TypeOK
    <3>2. k[r] \in Rwlock!Items  BY <1>1, <1>2, <3>1 DEF Rwlock!Items
    <3>3. Rwlock!Items = DOMAIN shared_data  BY <2>1 DEF Rwlock!TypeOK
    <3>4. QED  BY <3>2, <3>3
  <2>3. Rwlock!TypeOK'
    <3>1. seen' = [u \in Rwlock!Readers |-> seen'[u]]  BY <2>1 DEF Rwlock!TypeOK
    <3>2. QED  BY <2>1, <3>1 DEF Rwlock!TypeOK
  <2>4. Rwlock!LockHeld'  BY <2>1 DEF Rwlock!LockHeld
  <2>5. Rwlock!SeenIsThere'
    <3> SUFFICES ASSUME NEW u \in Rwlock!Readers
                 PROVE  /\ rwlock_pc'[u] \notin {"print", "unlock"} => seen'[u] = <<>>
                        /\ \A i \in DOMAIN seen'[u] :
                              i \in DOMAIN shared_data' /\ seen'[u][i] = shared_data'[i]
      BY DEF Rwlock!SeenIsThere
    <3>1. CASE u = r
      <4>1. seen'[r] = [i \in DOMAIN seen[r] \cup {k[r]} |->
                          IF i = k[r] THEN shared_data[i] ELSE seen[r][i]]
        BY <2>1 DEF Rwlock!TypeOK
      <4>2. QED  BY <2>1, <2>2, <3>1, <4>1 DEF Rwlock!SeenIsThere
    <3>2. CASE u # r  BY <2>1, <3>2 DEF Rwlock!SeenIsThere, Rwlock!TypeOK
    <3>3. QED  BY <3>1, <3>2
  <2>6. Rwlock!ItemsWhole'  BY <2>1 DEF Rwlock!ItemsWhole, Rwlock!TypeOK
  <2>7. QED  BY <2>3, <2>4, <2>5, <2>6
<1>3. CASE ~(k[r] <= last)
  <2>1. /\ rwlock_pc[r] = "print" /\ rwlock_pc' = [rwlock_pc EXCEPT ![r] = "unlock"]
        /\ UNCHANGED <<k, curtime, rwlock, shared_data, seen, created>>
    BY <1>1, <1>3 DEF Rwlock!PrintItem, Rwlock!Goto
  <2>2. Rwlock!TypeOK'  BY <2>1 DEF Rwlock!TypeOK
  <2>3. Rwlock!LockHeld'  BY <2>1 DEF Rwlock!LockHeld, Rwlock!TypeOK
  <2>4. Rwlock!SeenIsThere'  BY <2>1 DEF Rwlock!SeenIsThere, Rwlock!TypeOK
  <2>5. Rwlock!ItemsWhole'  BY <2>1 DEF Rwlock!ItemsWhole, Rwlock!TypeOK
  <2>6. QED  BY <2>2, <2>3, <2>4, <2>5
<1>4. QED  BY <1>2, <1>3

\* A writer reads the time before its first store.
LEMMA RwlockGetTime ==
    ASSUME Rwlock!RwlockInv, NEW w \in Rwlock!Writers, Rwlock!GetTime(w)
    PROVE  Rwlock!RwlockInv'
<1> USE ThreadKinds DEF Rwlock!RwlockInv, Rwlock!Reading, Rwlock!Writing
<1>1. /\ rwlock_pc[w] = "gettime" /\ rwlock_pc' = [rwlock_pc EXCEPT ![w] = "choose"]
      /\ curtime' = [curtime EXCEPT ![w] = <<w, ~curtime[w][2]>>]
      /\ k' = [k EXCEPT ![w] = 0]
      /\ UNCHANGED <<rwlock, shared_data, seen, created>>
  BY DEF Rwlock!GetTime, Rwlock!Goto
<1>2. Rwlock!TypeOK'
  <2>1. <<w, ~curtime[w][2]>> \in Rwlock!Writers \X BOOLEAN  BY Zenon
  <2>2. curtime' \in [Rwlock!Writers -> Rwlock!Writers \X BOOLEAN]
    BY <1>1, <2>1 DEF Rwlock!TypeOK
  <2>3. \A v \in Rwlock!Writers : curtime'[v][1] = v  BY <1>1 DEF Rwlock!TypeOK
  <2>4. QED  BY <1>1, <2>2, <2>3 DEF Rwlock!TypeOK
<1>3. Rwlock!LockHeld'  BY <1>1 DEF Rwlock!LockHeld, Rwlock!TypeOK
<1>4. Rwlock!SeenIsThere'  BY <1>1 DEF Rwlock!SeenIsThere, Rwlock!TypeOK
<1>5. Rwlock!ItemsWhole'  BY <1>1 DEF Rwlock!ItemsWhole, Rwlock!TypeOK
<1>6. QED  BY <1>2, <1>3, <1>4, <1>5

\* While a writer has the lock, no reader has printed anything.
LEMMA NothingSeen ==
    ASSUME Rwlock!RwlockInv, NEW w \in Rwlock!Writers, rwlock_pc[w] \in Rwlock!Writing,
           NEW r \in Rwlock!Readers
    PROVE  rwlock_pc[r] \notin Rwlock!Reading /\ DOMAIN seen[r] = {} /\ seen[r] = <<>>
<1>1. rwlock.writer = w /\ w # None /\ rwlock.readers = {}
  BY ThreadKinds DEF Rwlock!RwlockInv, Rwlock!LockHeld
<1>2. rwlock_pc[r] \notin Rwlock!Reading
  BY <1>1 DEF Rwlock!RwlockInv, Rwlock!LockHeld
<1>3. seen[r] = <<>>
  BY <1>2 DEF Rwlock!RwlockInv, Rwlock!SeenIsThere, Rwlock!Reading
<1>4. QED  BY <1>2, <1>3

\* No other writer is between two stores.
LEMMA OneWriter ==
    ASSUME Rwlock!RwlockInv, NEW w \in Rwlock!Writers, rwlock_pc[w] \in Rwlock!Writing,
           NEW v \in Rwlock!Writers, v # w
    PROVE  rwlock_pc[v] \notin Rwlock!Writing
  BY DEF Rwlock!RwlockInv, Rwlock!LockHeld

\* A writer comes to an item: it goes on to the next, writes its identity, or
\* is at the end.
LEMMA RwlockChoose ==
    ASSUME Rwlock!RwlockInv, NEW w \in Rwlock!Writers, Rwlock!Choose(w)
    PROVE  Rwlock!RwlockInv'
<1> USE ThreadKinds DEF Rwlock!RwlockInv, Rwlock!Reading, Rwlock!Writing
<1>1. rwlock_pc[w] = "choose" /\ w \in Int /\ k[w] \in 0 .. arraysize
  BY DEF Rwlock!Choose, Rwlock!TypeOK
<1>2. CASE UNCHANGED k /\ rwlock_pc' = [rwlock_pc EXCEPT ![w] = "settime"] /\ k[w] < arraysize
           /\ shared_data' = [shared_data EXCEPT ![k[w]].wrid = -w]
           /\ UNCHANGED <<curtime, rwlock, seen, created>>
  <2>1. k[w] \in Rwlock!Items
        /\ shared_data \in [Rwlock!Items -> [wrid : Int, wrtime : Int \X BOOLEAN]]
    BY <1>1, <1>2 DEF Rwlock!TypeOK, Rwlock!Items
  <2>2. /\ shared_data' \in [Rwlock!Items -> [wrid : Int, wrtime : Int \X BOOLEAN]]
        /\ shared_data'[k[w]].wrid = -w
        /\ \A i \in Rwlock!Items : i # k[w] => shared_data'[i] = shared_data[i]
    <3> DEFINE item == [shared_data[k[w]] EXCEPT !.wrid = -w]
    <3>1. item \in [wrid : Int, wrtime : Int \X BOOLEAN] /\ item.wrid = -w
      BY <1>1, <2>1
    <3>2. shared_data' = [shared_data EXCEPT ![k[w]] = item]  BY <1>2
    <3>3. PICK x \in [wrid : Int, wrtime : Int \X BOOLEAN] :
            x.wrid = -w /\ shared_data' = [shared_data EXCEPT ![k[w]] = x]
      BY <3>1, <3>2
    <3>4. QED  BY <2>1, <3>3
  <2>3. Rwlock!TypeOK'
    <3>1. rwlock_pc' \in [Rwlock!Tids -> Statements]
      BY <1>2 DEF Rwlock!TypeOK, Statements, Quiet
    <3>2. \A v \in Rwlock!Writers : /\ rwlock_pc'[v] = "choose" => k'[v] \in 0 .. arraysize
                                    /\ rwlock_pc'[v] = "settime" => k'[v] \in Rwlock!Items
      BY <1>1, <1>2, <2>1 DEF Rwlock!TypeOK
    <3>3. \A r \in Rwlock!Readers : rwlock_pc'[r] = "print" => k'[r] >= 0
      BY <1>1, <1>2 DEF Rwlock!TypeOK
    <3>4. QED
      BY <1>2, <2>2, <3>1, <3>2, <3>3 DEF Rwlock!TypeOK, Statements, Quiet
  <2>4. Rwlock!LockHeld'  BY <1>1, <1>2 DEF Rwlock!LockHeld, Rwlock!TypeOK
  <2>5. Rwlock!SeenIsThere'
    BY <1>1, <1>2, NothingSeen DEF Rwlock!SeenIsThere, Rwlock!TypeOK
  <2>6. Rwlock!ItemsWhole'
    <3>1. /\ rwlock_pc'[w] = "settime" /\ k'[w] = k[w]
          /\ \A v \in Rwlock!Writers : rwlock_pc'[v] = "settime" => v = w
      BY <1>1, <1>2, OneWriter DEF Rwlock!TypeOK
    <3> SUFFICES ASSUME NEW i \in Rwlock!Items
                 PROVE  \/ shared_data'[i].wrid = -shared_data'[i].wrtime[1]
                        \/ \E v \in Rwlock!Writers : rwlock_pc'[v] = "settime" /\ k'[v] = i
      BY <2>2, <3>1 DEF Rwlock!ItemsWhole
    <3>2. CASE i = k[w]  BY <3>1, <3>2
    <3>3. CASE i # k[w]
      <4>1. shared_data'[i] = shared_data[i] /\ i \in DOMAIN shared_data
        BY <2>1, <2>2, <3>3
      <4>2. \A v \in Rwlock!Writers : rwlock_pc[v] # "settime"
        BY <1>1, OneWriter
      <4>3. QED  BY <4>1, <4>2 DEF Rwlock!ItemsWhole
    <3>4. QED  BY <3>2, <3>3
  <2>7. QED  BY <2>3, <2>4, <2>5, <2>6
<1>3. CASE UNCHANGED <<rwlock_pc, shared_data>> /\ k' = [k EXCEPT ![w] = k[w] + 1]
           /\ k[w] < arraysize /\ UNCHANGED <<curtime, rwlock, seen, created>>
  <2>1. Rwlock!TypeOK'  BY <1>1, <1>3 DEF Rwlock!TypeOK
  <2>2. Rwlock!LockHeld'  BY <1>3 DEF Rwlock!LockHeld
  <2>3. Rwlock!SeenIsThere'  BY <1>3 DEF Rwlock!SeenIsThere
  <2>4. Rwlock!ItemsWhole'  BY <1>1, <1>3 DEF Rwlock!ItemsWhole, Rwlock!TypeOK
  <2>5. QED  BY <2>1, <2>2, <2>3, <2>4
<1>4. CASE UNCHANGED <<k, shared_data>> /\ rwlock_pc' = [rwlock_pc EXCEPT ![w] = "unlock"]
           /\ UNCHANGED <<curtime, rwlock, seen, created>>
  <2>1. Rwlock!TypeOK'  BY <1>1, <1>4 DEF Rwlock!TypeOK
  <2>2. Rwlock!LockHeld'  BY <1>1, <1>4 DEF Rwlock!LockHeld, Rwlock!TypeOK
  <2>3. Rwlock!SeenIsThere'
    BY <1>1, <1>4, NothingSeen DEF Rwlock!SeenIsThere, Rwlock!TypeOK
  <2>4. Rwlock!ItemsWhole'  BY <1>1, <1>4 DEF Rwlock!ItemsWhole, Rwlock!TypeOK
  <2>5. QED  BY <2>1, <2>2, <2>3, <2>4
<1>5. QED  BY <1>2, <1>3, <1>4 DEF Rwlock!Choose, Rwlock!Goto

\* The second store makes the item whole again.
LEMMA RwlockSetTime ==
    ASSUME Rwlock!RwlockInv, NEW w \in Rwlock!Writers, Rwlock!SetTime(w)
    PROVE  Rwlock!RwlockInv'
<1> USE ThreadKinds DEF Rwlock!RwlockInv, Rwlock!Reading, Rwlock!Writing
<1>1. /\ rwlock_pc[w] = "settime" /\ rwlock_pc' = [rwlock_pc EXCEPT ![w] = "choose"]
      /\ shared_data' = [shared_data EXCEPT ![k[w]].wrtime = curtime[w]]
      /\ k' = [k EXCEPT ![w] = k[w] + 1]
      /\ UNCHANGED <<curtime, rwlock, seen, created>>
  BY DEF Rwlock!SetTime, Rwlock!Goto
<1>2. /\ k[w] \in Rwlock!Items /\ w \in Int /\ k[w] \in Int /\ k[w] + 1 \in 0 .. arraysize
      /\ shared_data \in [Rwlock!Items -> [wrid : Int, wrtime : Int \X BOOLEAN]]
      /\ curtime[w] \in Rwlock!Writers \X BOOLEAN /\ curtime[w][1] = w
  BY <1>1 DEF Rwlock!TypeOK, Rwlock!Items
<1>3. /\ shared_data' \in [Rwlock!Items -> [wrid : Int, wrtime : Int \X BOOLEAN]]
      /\ shared_data'[k[w]].wrid = shared_data[k[w]].wrid
      /\ shared_data'[k[w]].wrtime = curtime[w]
      /\ \A i \in Rwlock!Items : i # k[w] => shared_data'[i] = shared_data[i]
  <2> DEFINE item == [shared_data[k[w]] EXCEPT !.wrtime = curtime[w]]
  <2>1. curtime[w] \in Int \X BOOLEAN  BY <1>2
  <2>2. /\ item \in [wrid : Int, wrtime : Int \X BOOLEAN]
        /\ item.wrid = shared_data[k[w]].wrid /\ item.wrtime = curtime[w]
    BY <1>2, <2>1
  <2>3. shared_data' = [shared_data EXCEPT ![k[w]] = item]  BY <1>1
  <2>4. PICK x \in [wrid : Int, wrtime : Int \X BOOLEAN] :
          /\ x.wrid = shared_data[k[w]].wrid /\ x.wrtime = curtime[w]
          /\ shared_data' = [shared_data EXCEPT ![k[w]] = x]
    BY <2>2, <2>3
  <2>5. QED  BY <1>2, <2>4
<1>4. Rwlock!TypeOK'
  <2>1. rwlock_pc' \in [Rwlock!Tids -> Statements]
    BY <1>1 DEF Rwlock!TypeOK, Statements, Quiet
  <2>2. \A v \in Rwlock!Writers : /\ rwlock_pc'[v] = "choose" => k'[v] \in 0 .. arraysize
                                  /\ rwlock_pc'[v] = "settime" => k'[v] \in Rwlock!Items
    BY <1>1, <1>2 DEF Rwlock!TypeOK
  <2>3. \A r \in Rwlock!Readers : rwlock_pc'[r] = "print" => k'[r] >= 0
    BY <1>1 DEF Rwlock!TypeOK
  <2>4. k' \in [Rwlock!Tids -> Int]  BY <1>1, <1>2 DEF Rwlock!TypeOK
  <2>5. QED
    BY <1>1, <1>3, <2>1, <2>2, <2>3, <2>4 DEF Rwlock!TypeOK, Statements, Quiet
<1>5. Rwlock!LockHeld'  BY <1>1 DEF Rwlock!LockHeld, Rwlock!TypeOK
<1>6. Rwlock!SeenIsThere'
  BY <1>1, NothingSeen DEF Rwlock!SeenIsThere, Rwlock!TypeOK
<1>7. Rwlock!ItemsWhole'
  <2>1. \A v \in Rwlock!Writers : /\ rwlock_pc[v] = "settime" => v = w
                                  /\ rwlock_pc'[v] # "settime"
    BY <1>1, OneWriter DEF Rwlock!TypeOK
  <2> SUFFICES ASSUME NEW i \in Rwlock!Items
               PROVE  shared_data'[i].wrid = -shared_data'[i].wrtime[1]
    BY <1>3, <2>1 DEF Rwlock!ItemsWhole
  <2>2. i \in DOMAIN shared_data  BY <1>2
  <2>3. CASE i = k[w]
    <3>1. shared_data[i].wrid = -w  BY <1>1, <2>3 DEF Rwlock!ItemsWhole
    <3>2. QED  BY <1>2, <1>3, <2>3, <3>1
  <2>4. CASE i # k[w]
    <3>1. shared_data[i].wrid = -shared_data[i].wrtime[1]
      BY <2>1, <2>2, <2>4 DEF Rwlock!ItemsWhole
    <3>2. QED  BY <1>3, <2>4, <3>1
  <2>5. QED  BY <2>3, <2>4
<1>8. QED  BY <1>4, <1>5, <1>6, <1>7

\* When the process is gone there is nothing left to say.
LEMMA RwlockExit == Rwlock!RwlockInv /\ Rwlock!sighandler => Rwlock!RwlockInv'
<1> SUFFICES ASSUME Rwlock!RwlockInv, Rwlock!sighandler PROVE Rwlock!RwlockInv'  OBVIOUS
<1> USE ThreadKinds DEF Rwlock!sighandler
<1>1. Rwlock!TypeOK'
  <2>1. \A w \in Rwlock!Writers : curtime'[w] = <<w, FALSE>>  OBVIOUS
  <2>2. curtime' \in [Rwlock!Writers -> Rwlock!Writers \X BOOLEAN]  OBVIOUS
  <2>3. created' \in Int  BY DEF Rwlock!num_threads
  <2>4. shared_data' = <<>> /\ \A u \in Rwlock!Tids : rwlock_pc'[u] = "exited"  OBVIOUS
  <2>5. /\ rwlock_pc' \in [Rwlock!Tids -> {"exited"}] /\ k' \in [Rwlock!Tids -> Int]
        /\ rwlock' \in [readers : SUBSET Rwlock!Readers, writer : Rwlock!Writers \cup {None}]
        /\ seen' = [r \in Rwlock!Readers |-> seen'[r]]
    OBVIOUS
  <2>6. QED  BY <2>1, <2>2, <2>3, <2>4, <2>5 DEF Rwlock!TypeOK
<1>2. Rwlock!LockHeld'  BY DEF Rwlock!LockHeld, Rwlock!Reading, Rwlock!Writing
<1>3. Rwlock!SeenIsThere'  BY DEF Rwlock!SeenIsThere
<1>4. Rwlock!ItemsWhole'  BY DEF Rwlock!ItemsWhole
<1>5. QED  BY <1>1, <1>2, <1>3, <1>4 DEF Rwlock!RwlockInv

\* Every step of a reader, a writer or main() preserves the invariant.
LEMMA RwlockNext == Rwlock!RwlockInv /\ Rwlock!Next => Rwlock!RwlockInv'
<1> SUFFICES ASSUME Rwlock!RwlockInv, Rwlock!Next PROVE Rwlock!RwlockInv'  OBVIOUS
<1>1. CASE Rwlock!Create  BY <1>1, RwlockCreate
<1>2. CASE Rwlock!sighandler  BY <1>2, RwlockExit
<1>3. ASSUME NEW r \in Rwlock!Readers, Rwlock!reader(r) PROVE Rwlock!RwlockInv'
  BY <1>3, ThreadKinds, RwlockBarrier, RwlockReadLock, RwlockLockPrint, RwlockPrintItem,
     RwlockUnlock DEF Rwlock!reader
<1>4. ASSUME NEW w \in Rwlock!Writers, Rwlock!writer(w) PROVE Rwlock!RwlockInv'
  BY <1>4, ThreadKinds, RwlockBarrier, RwlockWriteLock, RwlockGetTime, RwlockChoose,
     RwlockSetTime, RwlockUnlock DEF Rwlock!writer
<1>5. QED  BY <1>1, <1>2, <1>3, <1>4 DEF Rwlock!Next, Rwlock!Thread

\* What a reader printed is still there, and it was whole when the reader took
\* the lock: no writer is at an item while a reader has it.
LEMMA RwlockImplied == Rwlock!RwlockInv => Rwlock!SnapshotWhileReading
<1> SUFFICES ASSUME Rwlock!RwlockInv, NEW r \in Rwlock!Readers, NEW i \in DOMAIN seen[r]
             PROVE  /\ seen[r][i] = shared_data[i]
                    /\ seen[r][i].wrid = -seen[r][i].wrtime[1]
  BY DEF Rwlock!SnapshotWhileReading
<1>1. i \in DOMAIN shared_data /\ seen[r][i] = shared_data[i]
  BY DEF Rwlock!RwlockInv, Rwlock!SeenIsThere
<1>2. \A w \in Rwlock!Writers : rwlock_pc[w] # "settime"
  BY NothingSeen DEF Rwlock!Writing
<1>3. shared_data[i].wrid = -shared_data[i].wrtime[1]
  BY <1>1, <1>2 DEF Rwlock!RwlockInv, Rwlock!ItemsWhole
<1>4. QED  BY <1>1, <1>3

------------------------------------------------------------------------------
(* threaded_progressbar.c: the fraction *)

\* What the fraction counts, thread by thread.
Counts == [u \in Threads |-> Bar!Counted(u)]

\* Sums are the same notion inside the instance.
LEMMA BarSum == ASSUME NEW f PROVE Bar!SumFunction(f) = SumFunction(f)
  BY Zenon DEF Bar!SumFunction, Bar!SumFunctionOnSet, Bar!FoldFunctionOnSet, Bar!MapThenFoldSet,
               SumFunction, SumFunctionOnSet, FoldFunctionOnSet, MapThenFoldSet

\* The assumptions, with the finiteness of this module.
LEMMA BarFacts ==
    /\ IsFiniteSet(Threads) /\ Threads # {} /\ None \notin Threads
    /\ FULL \in Nat /\ FULL > 0 /\ Works # {} /\ Works \subseteq Nat
<1>1. Bar!IsFiniteSet(Threads) <=> IsFiniteSet(Threads)
  BY Zenon DEF Bar!IsFiniteSet, IsFiniteSet
<1> QED BY <1>1, ThreadsAssumption DEF Bar!ProgressAssumption

\* They are integers.
LEMMA CountsAreInts == Bar!BarTypes => Counts \in [Threads -> Int]
  BY DEF Counts, Bar!Counted, Bar!BarTypes

\* Where one thread counts differently, the sum differs by as much.
LEMMA CountsMove ==
  ASSUME Bar!BarTypes, Bar!BarTypes', NEW u \in Threads,
         \A v \in Threads \ {u} : Bar!Counted(v)' = Bar!Counted(v)
  PROVE  SumFunction(Counts') = SumFunction(Counts) + (Bar!Counted(u)' - Bar!Counted(u))
<1>1. PICK f \in [Threads -> Int] : f = Counts
  BY CountsAreInts
<1>2. PICK g \in [Threads -> Int] : g = Counts'
  <2>1. (Bar!BarTypes => Counts \in [Threads -> Int])'
    BY CountsAreInts, PTL
  <2> QED BY <2>1
<1>3. \A v \in Threads : f[v] = Bar!Counted(v) /\ g[v] = Bar!Counted(v)'
  BY <1>1, <1>2 DEF Counts
<1>4. SumFunction(g) = SumFunction(f) + (g[u] - f[u])
  BY <1>3, SumAtPoint, BarFacts
<1> QED BY <1>1, <1>2, <1>3, <1>4

\* At the start nothing is counted.
LEMMA BarStart == Bar!Init => Bar!BarInv
<1> SUFFICES ASSUME Bar!Init PROVE Bar!BarInv  OBVIOUS
<1> USE BarFacts DEF Bar!Init
<1>1. Bar!BarTypes  BY DEF Bar!BarTypes
<1>2. PICK f \in [Threads -> Int] : f = Counts
  BY <1>1, CountsAreInts
<1>3. \A u \in Threads : f[u] = 0
  BY <1>2 DEF Counts, Bar!Counted
<1>4. SumFunction(f) = 0
  BY <1>3, SumOfZeros
<1>5. fraction_completed = Bar!SumFunction([u \in Threads |-> Bar!Counted(u)])
  BY <1>2, <1>4, BarSum DEF Counts
<1>6. Bar!OverdrawnByOne
  <2>1. PICK w \in Works : w \in Nat  OBVIOUS
  <2>2. bar <= FULL + w  BY <2>1
  <2> QED BY <2>2 DEF Bar!OverdrawnByOne
<1>7. ~(fraction_completed > FULL)
  OBVIOUS
<1> QED BY <1>1, <1>5, <1>6, <1>7 DEF Bar!BarInv

\* The parts of the invariant that do not add up.
BarRest ==
    /\ \A u \in Threads : bar_pc[u] \in {"add", "clamp", "unlock"} <=> frac_mutex = u
    /\ fraction_completed > FULL =>
           \E u \in Threads : /\ bar_pc[u] = "clamp" /\ work[u] \in Works
                              /\ fraction_completed <= FULL + work[u]
    /\ (\E u \in Threads : bar_pc[u] = "done") => fraction_completed >= FULL
    /\ main # "join" => \A u \in Threads : bar_pc[u] = "done"
    /\ Bar!OverdrawnByOne

\* The invariant in these words.
LEMMA InvParts ==
    Bar!BarInv <=> Bar!BarTypes /\ fraction_completed = SumFunction(Counts) /\ BarRest
  BY BarSum DEF Bar!BarInv, BarRest, Counts

\* The statements of long_running_task().
LEMMA TaskStep ==
  ASSUME Bar!BarInv, NEW u \in Threads, Bar!long_running_task(u)
  PROVE  Bar!BarInv'
<1> USE BarFacts DEF Bar!Goto, Bar!display
<1>0. Bar!BarTypes /\ fraction_completed = SumFunction(Counts) /\ BarRest
  BY InvParts
<1>1. PICK c \in Int : c = fraction_completed
  BY <1>0 DEF Bar!BarTypes
<1>2. SUFFICES /\ Bar!BarTypes' /\ BarRest'
               /\ \A v \in Threads \ {u} : Bar!Counted(v)' = Bar!Counted(v)
               /\ fraction_completed' = fraction_completed + (Bar!Counted(u)' - Bar!Counted(u))
  <2>1. ASSUME Bar!BarTypes', BarRest',
               \A v \in Threads \ {u} : Bar!Counted(v)' = Bar!Counted(v),
               fraction_completed' = fraction_completed + (Bar!Counted(u)' - Bar!Counted(u))
        PROVE  Bar!BarInv'
    <3>1. SumFunction(Counts') = SumFunction(Counts) + (Bar!Counted(u)' - Bar!Counted(u))
      BY <1>0, <2>1, CountsMove
    <3>2. fraction_completed' = SumFunction(Counts)'
      BY <1>0, <2>1, <3>1
    <3>3. (Bar!BarInv <=> Bar!BarTypes /\ fraction_completed = SumFunction(Counts) /\ BarRest)'
      BY InvParts, PTL
    <3> QED BY <2>1, <3>2, <3>3
  <2> QED BY <2>1
<1>3. CASE Bar!Check(u)
  <2> QED BY <1>0, <1>3 DEF Bar!Check, Bar!BarTypes, BarRest, Bar!Counted, Bar!OverdrawnByOne
<1>4. CASE Bar!Lock(u)
  BY <1>0, <1>4 DEF Bar!Lock, Bar!BarTypes, BarRest, Bar!Counted, Bar!OverdrawnByOne
<1>5. CASE Bar!Add(u)
  <2> USE DEF Bar!BarTypes
  <2>1. PICK w \in Works : /\ work' = [work EXCEPT ![u] = w]
                            /\ fraction_completed' = fraction_completed + w
    BY <1>5 DEF Bar!Add
  <2>2. w \in Nat /\ bar_pc[u] = "add" /\ bar_pc' = [bar_pc EXCEPT ![u] = "clamp"]
    BY <1>5 DEF Bar!Add
  <2>3. Bar!BarTypes'
    BY <1>0, <1>5, <2>1, <2>2 DEF Bar!Add
  <2>4. c <= FULL
    BY <1>0, <1>1, <2>2 DEF BarRest
  <2>5. bar_pc'[u] = "clamp" /\ work'[u] \in Works /\ fraction_completed' <= FULL + work'[u]
    BY <1>0, <1>1, <2>1, <2>2, <2>4
  <2>6. (\E v \in Threads : bar_pc[v] = "done")' => fraction_completed' >= FULL
    <3>1. (\E v \in Threads : bar_pc[v] = "done")' => \E v \in Threads : bar_pc[v] = "done"
      BY <1>0, <2>2
    <3> QED BY <1>0, <1>1, <2>1, <2>2, <3>1 DEF BarRest
  <2>7. BarRest'
    BY <1>0, <1>5, <2>2, <2>5, <2>6 DEF BarRest, Bar!Add, Bar!OverdrawnByOne
  <2>8. \A v \in Threads \ {u} : Bar!Counted(v)' = Bar!Counted(v)
    BY <1>0, <1>5, <2>1, <2>2 DEF Bar!Counted, Bar!Add
  <2>9. Bar!Counted(u)' = Bar!Counted(u) + w /\ Bar!Counted(u) \in Int
    BY <1>0, <1>5, <2>1, <2>2 DEF Bar!Counted, Bar!Add
  <2> QED BY <1>1, <2>1, <2>2, <2>3, <2>7, <2>8, <2>9
<1>6. CASE Bar!Clamp(u)
  BY <1>0, <1>6 DEF Bar!Clamp, Bar!BarTypes, BarRest, Bar!Counted, Bar!OverdrawnByOne
<1>7. CASE Bar!Unlock(u)
  BY <1>0, <1>7 DEF Bar!Unlock, Bar!BarTypes, BarRest, Bar!Counted, Bar!OverdrawnByOne
<1>8. CASE Bar!Record(u)
  BY <1>0, <1>8 DEF Bar!Record, Bar!BarTypes, BarRest, Bar!Counted, Bar!OverdrawnByOne
<1> QED BY <1>3, <1>4, <1>5, <1>6, <1>7, <1>8 DEF Bar!long_running_task

\* The other steps change neither the fraction nor what the threads have.
LEMMA BarSame ==
  ASSUME Bar!BarInv, UNCHANGED <<bar_pc, work, frac_mutex, fraction_completed, computedby>>,
         main' \in {"join", "reported", "exit"},
         main' # "join" => \A u \in Threads : bar_pc[u] = "done",
         bar' \in {bar, fraction_completed}
  PROVE  Bar!BarInv'
<1> USE BarFacts
<1>0. Bar!BarTypes /\ fraction_completed = SumFunction(Counts) /\ BarRest
  BY InvParts
<1>1. Bar!BarTypes'
  BY <1>0 DEF Bar!BarTypes
<1>2. \E w \in Works : fraction_completed <= FULL + w
  <2>1. CASE fraction_completed > FULL
    BY <1>0, <2>1 DEF BarRest
  <2>2. CASE ~(fraction_completed > FULL)
    <3>1. PICK w \in Works : w \in Nat  OBVIOUS
    <3>2. PICK c \in Int : c = fraction_completed
      BY <1>0 DEF Bar!BarTypes
    <3>3. c <= FULL + w
      BY <2>2, <3>1, <3>2
    <3> QED BY <3>2, <3>3
  <2> QED BY <2>1, <2>2
<1>3. Bar!OverdrawnByOne'
  BY <1>0, <1>2 DEF BarRest, Bar!OverdrawnByOne
<1>4. BarRest'
  BY <1>0, <1>3 DEF BarRest
<1>5. Counts' = Counts
  BY DEF Counts, Bar!Counted
<1>6. (Bar!BarInv <=> Bar!BarTypes /\ fraction_completed = SumFunction(Counts) /\ BarRest)'
  BY InvParts, PTL
<1> QED BY <1>0, <1>1, <1>4, <1>5, <1>6

\* Every step preserves the invariant.
LEMMA BarNext == Bar!BarInv /\ Bar!Next => Bar!BarInv'
<1> SUFFICES ASSUME Bar!BarInv, Bar!Next PROVE Bar!BarInv'  OBVIOUS
<1>1. main \in {"join", "reported", "exit"} /\ (main # "join" => \A u \in Threads : bar_pc[u] = "done")
  BY DEF Bar!BarInv, Bar!BarTypes
<1>2. CASE \E u \in Threads : Bar!long_running_task(u)
  BY <1>2, TaskStep
<1>3. CASE Bar!Ring
  BY <1>1, <1>3, BarSame DEF Bar!Ring, Bar!workers
<1>4. CASE Bar!refresh_progressbar
  BY <1>1, <1>4, BarSame DEF Bar!refresh_progressbar, Bar!workers
<1>5. CASE Bar!Quit
  BY <1>1, <1>5, BarSame DEF Bar!Quit, Bar!workers
<1>6. CASE Bar!Report
  BY <1>1, <1>6, BarSame DEF Bar!Report
<1> QED BY <1>2, <1>3, <1>4, <1>5, <1>6 DEF Bar!Next

\* The invariant gives the properties.
LEMMA BarImplied == Bar!BarInv => Bar!WorkAccounted /\ Bar!ReportAddsUp /\ Bar!OverdrawnByOne
<1> SUFFICES ASSUME Bar!BarInv PROVE Bar!WorkAccounted /\ Bar!ReportAddsUp
  BY DEF Bar!BarInv
<1> USE BarFacts
<1>0. Bar!BarTypes /\ fraction_completed = SumFunction(Counts) /\ BarRest
  BY InvParts
<1>1. Bar!WorkAccounted
  <2> SUFFICES ASSUME frac_mutex = None
               PROVE  fraction_completed =
                        Bar!SumFunction([u \in Threads |-> computedby[u] +
                                            (IF bar_pc[u] = "sleep" THEN work[u] ELSE 0)])
    BY DEF Bar!WorkAccounted
  <2>1. \A u \in Threads : bar_pc[u] \notin {"clamp", "unlock"}
    BY <1>0 DEF BarRest
  <2>2. Counts = [u \in Threads |-> computedby[u] + (IF bar_pc[u] = "sleep" THEN work[u] ELSE 0)]
    BY <2>1 DEF Counts, Bar!Counted
  <2> QED BY <1>0, <2>2, BarSum
<1>2. Bar!ReportAddsUp
  <2> SUFFICES ASSUME main # "join" PROVE Bar!SumFunction(computedby) = FULL
    BY DEF Bar!ReportAddsUp
  <2>1. \A u \in Threads : bar_pc[u] = "done"
    BY <1>0 DEF BarRest
  <2>2. Counts = computedby
    BY <1>0, <2>1 DEF Counts, Bar!Counted, Bar!BarTypes
  <2>3. PICK c \in Int : c = fraction_completed
    BY <1>0 DEF Bar!BarTypes
  <2>4. c >= FULL /\ ~(c > FULL)
    BY <1>0, <2>1, <2>3 DEF BarRest
  <2>5. c = FULL
    BY <2>3, <2>4
  <2> QED BY <1>0, <2>2, <2>3, <2>5, BarSum
<1> QED BY <1>1, <1>2

------------------------------------------------------------------------------
(* pthread_create_demo2.c: the sum of the parts *)

\* The notions of the instance are those of the lemmas.
LEMMA SumNotions ==
  /\ \A u, s, n : Sum!First(u, s, n) = First(u, s, n) /\ Sum!Last(u, s, n) = Last(u, s, n)
  /\ \A f : Sum!SumFunction(f) = SumFunction(f)
<1>1. ASSUME NEW u, NEW s, NEW n
      PROVE  Sum!First(u, s, n) = First(u, s, n) /\ Sum!Last(u, s, n) = Last(u, s, n)
  BY Zenon DEF Sum!First, Sum!Last, First, Last
<1>2. ASSUME NEW f PROVE Sum!SumFunction(f) = SumFunction(f)
  BY Zenon DEF Sum!SumFunction, Sum!SumFunctionOnSet, Sum!FoldFunctionOnSet, Sum!MapThenFoldSet,
               SumFunction, SumFunctionOnSet, FoldFunctionOnSet, MapThenFoldSet
<1> QED BY <1>1, <1>2

\* The invariant in the words of the lemmas.
SumState ==
    /\ sum_threads \in Nat /\ maxsize \in Nat /\ array_size \in Nat /\ array_size <= maxsize
    /\ array \in [Index(maxsize) -> Int]
    /\ sums \in [Index(sum_threads) -> Int] /\ sum_k \in [Index(sum_threads) -> Int]
    /\ main_t \in Nat /\ main_t <= sum_threads /\ total \in Int
    /\ main_pc \in {"read", "create", "join", "collect", "printed"}

\* What a thread has summed up of its part.
ThreadSum(u) ==
    IF sum_k[u] = -1 THEN sums[u] = 0
    ELSE /\ First(u, array_size, sum_threads) <= sum_k[u]
         /\ sum_k[u] <= First(u + 1, array_size, sum_threads)
         /\ sums[u] = Prefix(array, sum_k[u]) - Prefix(array, First(u, array_size, sum_threads))

\* The rest of it.
SumParts ==
    /\ \A x \in Index(maxsize) : x < array_size \/ array[x] = 0
    /\ \A u \in Index(sum_threads) : ThreadSum(u)
    /\ \A u \in Index(sum_threads) :
          sum_k[u] = -1 <=> main_pc = "read" \/ (main_pc = "create" /\ u >= main_t)
    /\ main_pc = "read" => main_t = 0
    /\ \A u \in Index(sum_threads) :
          main_pc \in {"collect", "printed"} \/ (main_pc = "join" /\ u < main_t)
             => sum_k[u] = First(u + 1, array_size, sum_threads)
    /\ main_pc \notin {"collect", "printed"} \/ sum_threads = 0 => total = 0
    /\ main_pc = "collect" /\ sum_threads # 0
         => total = Prefix(array, First(main_t, array_size, sum_threads))
    /\ main_pc = "printed" /\ sum_threads # 0 => total = Prefix(array, array_size)

\* The types are the same.
LEMMA SumTypesAre == Sum!SumTypes <=> SumState
  BY DEF Sum!SumTypes, SumState, Index, Sum!Tids

\* So are the prefixes.
LEMMA BeforeIs ==
  ASSUME SumState, NEW m PROVE Sum!Before(m) = Prefix(array, m)
<1>1. DOMAIN array = Index(maxsize) /\ maxsize \in Nat
  BY DEF SumState
<1>2. \A x \in DOMAIN array : 0 <= x
  BY <1>1, IndexIs
<1>3. [x \in DOMAIN array |-> IF x < m THEN array[x] ELSE 0]
        = [x \in DOMAIN array |-> IF 0 <= x /\ x < m THEN array[x] ELSE 0]
  BY <1>2
<1> QED BY <1>3, SumNotions DEF Sum!Before, Prefix

\* A thread's part lies in the array, and ends where the next one begins.
LEMMA PartFacts ==
  ASSUME SumState, NEW u \in Index(sum_threads)
  PROVE  /\ u \in Nat /\ u + 1 <= sum_threads
         /\ First(u, array_size, sum_threads) \in Nat
         /\ First(u + 1, array_size, sum_threads) \in Nat
         /\ First(u, array_size, sum_threads) <= First(u + 1, array_size, sum_threads)
         /\ First(u + 1, array_size, sum_threads) <= array_size
         /\ Last(u, array_size, sum_threads) = First(u + 1, array_size, sum_threads) - 1
<1>1. PICK n \in Nat : n = sum_threads  BY DEF SumState
<1>2. PICK s \in Nat : s = array_size  BY DEF SumState
<1>3. u \in 0 .. n - 1 /\ u \in 0 .. n /\ u + 1 \in 0 .. n /\ n # 0  BY <1>1 DEF Index
<1>4. /\ First(u, s, n) \in 0 .. s /\ First(u + 1, s, n) \in 0 .. s
      /\ First(u, s, n) <= First(u + 1, s, n) /\ Last(u, s, n) = First(u + 1, s, n) - 1
  BY <1>3, PartsMeet
<1> QED BY <1>1, <1>2, <1>3, <1>4

\* Both say the same.
LEMMA SumInvIs == Sum!SumInv <=> SumState /\ SumParts
<1>1. SUFFICES ASSUME SumState PROVE Sum!SumInv <=> SumParts
  BY SumTypesAre DEF Sum!SumInv
<1>2. Sum!Tids = Index(sum_threads) /\ DOMAIN array = Index(maxsize)
  BY <1>1 DEF Sum!Tids, Index, SumState
<1>3. ASSUME NEW u \in Index(sum_threads)
      PROVE  /\ Sum!PartSummed(u) <=> ThreadSum(u)
             /\ ThreadSum(u) => (Sum!Finished(u) <=> sum_k[u] = First(u + 1, array_size, sum_threads)
                                                     /\ sum_k[u] # -1)
  <2>1. PICK c \in Int : c = sum_k[u]  BY <1>1 DEF SumState
  <2>2. PICK a \in Nat : a = First(u, array_size, sum_threads)  BY <1>1, PartFacts
  <2>3. PICK b \in Nat : b = First(u + 1, array_size, sum_threads)  BY <1>1, PartFacts
  <2>4. Last(u, array_size, sum_threads) = b - 1  BY <1>1, <2>3, PartFacts
  <2>5. Sum!Before(c) = Prefix(array, c) /\ Sum!Before(a) = Prefix(array, a)
    BY <1>1, BeforeIs
  <2>6. (b - 1) + 1 = b /\ (c > b - 1 <=> c >= b)
    OBVIOUS
  <2>7. Sum!PartSummed(u) <=> ThreadSum(u)
    BY <2>1, <2>2, <2>3, <2>4, <2>5, <2>6, SumNotions DEF Sum!PartSummed, ThreadSum
  <2>8. Sum!Finished(u) <=> c >= b
    BY <2>1, <2>3, <2>4, <2>6, SumNotions DEF Sum!Finished
  <2>9. ThreadSum(u) => c = -1 \/ c <= b
    BY <2>1, <2>3 DEF ThreadSum
  <2> QED BY <2>1, <2>3, <2>7, <2>8, <2>9
<1>4. sum_threads # 0 => /\ Sum!Before(Sum!First(main_t, array_size, sum_threads))
                              = Prefix(array, First(main_t, array_size, sum_threads))
                         /\ Sum!Before(array_size) = Prefix(array, array_size)
  BY <1>1, SumNotions, BeforeIs
<1> QED BY <1>1, <1>2, <1>3, <1>4, SumTypesAre DEF Sum!SumInv, SumParts

\* The invariant holds at the start, when nothing has been read.
LEMMA SumStart == Sum!Init => Sum!SumInv
<1> SUFFICES ASSUME Sum!Init PROVE SumState /\ SumParts  BY SumInvIs
<1> USE DEF Sum!Init
<1>1. MaxThreads \in Nat  BY ThreadsAssumption DEF Sum!SumAssumption
<1>2. sum_threads \in Nat /\ maxsize \in Nat
  <2>1. SubSeq(ProcSizes, 1, 5) \in Seq(Int)
    BY ThreadsAssumption DEF Sum!SumAssumption
  <2>2. Len(SubSeq(ProcSizes, 1, 5)) \in Nat
    BY <2>1
  <2> QED BY <1>1, <2>2
<1>3. Sum!Tids = Index(sum_threads)
  BY DEF Sum!Tids, Index
<1>4. array = [x \in Index(maxsize) |-> 0]
  BY DEF Index
<1>5. SumState
  BY <1>2, <1>3, <1>4 DEF SumState
<1>6. SumParts
  BY <1>3, <1>4 DEF SumParts, ThreadSum
<1> QED BY <1>5, <1>6

\* get_data() fills the array before any thread has its part.
LEMMA SumGet == SumState /\ SumParts /\ Sum!get_data => SumState' /\ SumParts'
<1> SUFFICES ASSUME SumState, SumParts, Sum!get_data PROVE SumState' /\ SumParts'  OBVIOUS
<1> USE DEF Sum!get_data
<1>1. PICK N \in Seq(Int) : N = SubSeq(ProcSizes, 1, 5)
  BY ThreadsAssumption DEF Sum!SumAssumption
<1>2. Len(N) \in Nat /\ \A x \in 1 .. Len(N) : N[x] \in Int
  BY <1>1
<1>3. PICK s \in Nat : s = array_size' /\ s <= maxsize /\ s <= Len(N)
  BY <1>1, <1>2 DEF SumState
<1>4. DOMAIN array = Index(maxsize) /\ maxsize \in Nat
  BY DEF SumState
<1>5. array' = [x \in Index(maxsize) |-> IF x < s THEN N[x + 1] ELSE 0]
  BY <1>1, <1>3, <1>4
<1>6. \A x \in Index(maxsize) : (IF x < s THEN N[x + 1] ELSE 0) \in Int
  BY <1>2, <1>3, <1>4, IndexIs
<1>7. array' \in [Index(maxsize) -> Int]
  BY <1>5, <1>6
<1>8. \A x \in Index(maxsize) : x < s \/ array'[x] = 0
  BY <1>5
<1>9. SumState'
  BY <1>3, <1>7 DEF SumState
<1>10. \A u \in Index(sum_threads) : sum_k[u] = -1 /\ sums[u] = 0
  BY DEF SumParts, ThreadSum
<1>11. \A u \in Index(sum_threads) : ThreadSum(u)'
  BY <1>10 DEF ThreadSum
<1>12. main_pc' = "create" /\ main_t' = 0 /\ total' = 0
  BY DEF SumParts
<1>13. \A u \in Index(sum_threads) : u >= 0
  BY IndexIs DEF SumState
<1>14. SumParts'
  BY <1>3, <1>8, <1>10, <1>11, <1>12, <1>13 DEF SumParts
<1> QED BY <1>9, <1>14

\* The thread main() has come to exists.
LEMMA NextThread == SumState /\ main_t < sum_threads => main_t \in Index(sum_threads)
  BY IndexIs DEF SumState

\* A created thread is at the start of its part.
LEMMA SumCreate == SumState /\ SumParts /\ Sum!Create => SumState' /\ SumParts'
<1> SUFFICES ASSUME SumState, SumParts, Sum!Create PROVE SumState' /\ SumParts'  OBVIOUS
<1> USE DEF Sum!Create
<1>1. CASE main_t < sum_threads
  <2>1. main_t \in Index(sum_threads)
    BY <1>1, NextThread
  <2>2. PICK a \in Nat : a = First(main_t, array_size, sum_threads)
    BY <2>1, PartFacts
  <2>3. sum_k' = [sum_k EXCEPT ![main_t] = a] /\ main_t' = main_t + 1
    BY <1>1, <2>2, SumNotions
  <2>4. SumState'
    <3>1. main_t' \in Nat /\ main_t' <= sum_threads
      <4>1. main_t \in Nat /\ sum_threads \in Nat  BY DEF SumState
      <4> QED BY <1>1, <2>3, <4>1
    <3>2. sum_k' \in [Index(sum_threads) -> Int]
      <4>1. sum_k \in [Index(sum_threads) -> Int] /\ a \in Int  BY DEF SumState
      <4> QED BY <2>3, <4>1
    <3> QED BY <1>1, <3>1, <3>2 DEF SumState
  <2>5. ASSUME NEW u \in Index(sum_threads) PROVE ThreadSum(u)'
    <3>1. CASE u # main_t
      BY <2>3, <3>1 DEF SumParts, SumState, ThreadSum
    <3>2. CASE u = main_t
      <4>1. sums[u] = 0 /\ sums' = sums
        BY <3>2, <2>1 DEF SumParts, SumState, ThreadSum
      <4>2. sum_k'[u] = a /\ a # -1
        BY <2>1, <2>2, <2>3, <3>2 DEF SumState
      <4>3. Prefix(array, a) \in Int
        BY <2>2, PrefixIsInt DEF SumState
      <4>4. a <= First(u + 1, array_size, sum_threads)
        BY <2>1, <2>2, <3>2, PartFacts
      <4>5. 0 = Prefix(array, a) - Prefix(array, a)
        BY <4>3
      <4> QED BY <2>2, <3>2, <4>1, <4>2, <4>4, <4>5 DEF ThreadSum
    <3> QED BY <3>1, <3>2
  <2>6. SumParts'
    <3>1. \A u \in Index(sum_threads) : sum_k'[u] = -1 <=> u >= main_t'
      <4>1. \A u \in Index(sum_threads) : u \in Nat  BY PartFacts
      <4> QED BY <2>1, <2>2, <2>3, <4>1 DEF SumParts, SumState
    <3> QED BY <1>1, <2>5, <3>1 DEF SumParts, SumState
  <2> QED BY <2>4, <2>6
<1>2. CASE ~(main_t < sum_threads)
  <2>1. \A u \in Index(sum_threads) : u \in Nat /\ u < main_t
    BY <1>2, IndexIs DEF SumState
  <2>2. SumState' BY <1>2 DEF SumState
  <2>3. \A u \in Index(sum_threads) : ThreadSum(u)'
    BY <1>2 DEF SumParts, ThreadSum
  <2>4. SumParts'
    BY <1>2, <2>1, <2>3 DEF SumParts, SumState
  <2> QED BY <2>2, <2>4
<1> QED BY <1>1, <1>2

\* A joined thread is at the end of its part.
LEMMA SumJoin == SumState /\ SumParts /\ Sum!Join => SumState' /\ SumParts'
<1> SUFFICES ASSUME SumState, SumParts, Sum!Join PROVE SumState' /\ SumParts'  OBVIOUS
<1> USE DEF Sum!Join
<1>0. \A u \in Index(sum_threads) : ThreadSum(u)'
  BY DEF SumParts, ThreadSum
<1>1. CASE main_t < sum_threads
  <2>1. main_t \in Index(sum_threads)
    BY <1>1, NextThread
  <2>2. sum_k[main_t] = First(main_t + 1, array_size, sum_threads)
    <3>1. Sum!Finished(main_t) /\ sum_k[main_t] >= 0
      BY <1>1
    <3>2. PICK c \in Int : c = sum_k[main_t]  BY <2>1 DEF SumState
    <3>3. PICK b \in Nat : b = First(main_t + 1, array_size, sum_threads)  BY <2>1, PartFacts
    <3>4. c > b - 1
      BY <2>1, <3>1, <3>2, <3>3, SumNotions, PartFacts DEF Sum!Finished
    <3>5. c <= b
      BY <2>1, <3>1, <3>2, <3>3 DEF SumParts, ThreadSum
    <3> QED BY <3>2, <3>3, <3>4, <3>5
  <2>3. SumState'  BY <1>1 DEF SumState
  <2>4. \A u \in Index(sum_threads) : u < main_t + 1 => u < main_t \/ u = main_t
    BY IndexIs DEF SumState
  <2>5. SumParts'
    BY <1>0, <1>1, <2>2, <2>4 DEF SumParts, SumState
  <2> QED BY <2>3, <2>5
<1>2. CASE ~(main_t < sum_threads)
  <2>1. \A u \in Index(sum_threads) : u \in Nat /\ u < main_t
    BY <1>2, IndexIs DEF SumState
  <2>2. SumState'  BY <1>2 DEF SumState
  <2>3. sum_threads # 0 => Prefix(array, First(0, array_size, sum_threads)) = 0
    <3>1. sum_threads # 0 => First(0, array_size, sum_threads) = 0
      BY PartsMeet DEF SumState
    <3>2. Prefix(array, 0) = 0
      BY PrefixNone DEF SumState
    <3> QED BY <3>1, <3>2
  <2>4. SumParts'
    BY <1>0, <1>2, <2>1, <2>3 DEF SumParts, SumState
  <2> QED BY <2>2, <2>4
<1> QED BY <1>1, <1>2

\* main() adds up the parts' sums: a prefix of the array.
LEMMA SumCollect == SumState /\ SumParts /\ Sum!Collect => SumState' /\ SumParts'
<1> SUFFICES ASSUME SumState, SumParts, Sum!Collect PROVE SumState' /\ SumParts'  OBVIOUS
<1> USE DEF Sum!Collect
<1>0. \A u \in Index(sum_threads) : ThreadSum(u)'
  BY DEF SumParts, ThreadSum
<1>1. CASE main_t < sum_threads
  <2>1. main_t \in Index(sum_threads) /\ sum_threads # 0
    BY <1>1, IndexIs DEF SumState
  <2>2. PICK a \in Nat : a = First(main_t, array_size, sum_threads)  BY <2>1, PartFacts
  <2>3. PICK b \in Nat : b = First(main_t + 1, array_size, sum_threads)  BY <2>1, PartFacts
  <2>4. sum_k[main_t] = b
    BY <2>1, <2>3 DEF SumParts
  <2>5. PICK p \in Int : p = Prefix(array, a)  BY PrefixIsInt DEF SumState
  <2>6. PICK q \in Int : q = Prefix(array, b)  BY PrefixIsInt DEF SumState
  <2>7. sums[main_t] = q - p
    BY <2>1, <2>2, <2>3, <2>4, <2>5, <2>6 DEF SumParts, ThreadSum
  <2>8. total = p
    BY <2>1, <2>2, <2>5 DEF SumParts
  <2>9. total' = p + (q - p) /\ main_t' = main_t + 1
    BY <1>1, <2>7, <2>8
  <2>10. total' = q
    BY <2>9
  <2>11. SumState'  BY <1>1, <2>10 DEF SumState
  <2>12. SumParts'
    BY <1>0, <1>1, <2>1, <2>3, <2>6, <2>9, <2>10 DEF SumParts, SumState
  <2> QED BY <2>11, <2>12
<1>2. CASE ~(main_t < sum_threads)
  <2>1. main_t = sum_threads /\ main_pc' = "printed"
    BY <1>2 DEF SumState
  <2>2. sum_threads # 0 => First(sum_threads, array_size, sum_threads) = array_size
    BY PartsMeet DEF SumState
  <2>3. SumState'  BY <1>2 DEF SumState
  <2>4. SumParts'
    BY <1>0, <1>2, <2>1, <2>2 DEF SumParts, SumState
  <2> QED BY <2>3, <2>4
<1> QED BY <1>1, <1>2

\* A thread adds the next element of its part.
LEMMA SumAdd ==
  ASSUME SumState, SumParts, NEW u \in Index(sum_threads), Sum!add_array(u)
  PROVE  SumState' /\ SumParts'
<1> USE DEF Sum!add_array
<1>1. PICK c \in Nat : c = sum_k[u]  BY DEF SumState
<1>2. PICK a \in Nat : a = First(u, array_size, sum_threads)  BY PartFacts
<1>3. PICK b \in Nat : b = First(u + 1, array_size, sum_threads) /\ b <= array_size  BY PartFacts
<1>4. c < b /\ a <= c
  <2>1. ~(c > b - 1)
    BY <1>1, <1>3, SumNotions, PartFacts DEF Sum!Finished
  <2>2. a <= c
    BY <1>1, <1>2 DEF SumParts, ThreadSum
  <2> QED BY <2>1, <2>2
<1>5. c \in Index(maxsize)
  BY <1>3, <1>4, IndexIs DEF SumState
<1>6. PICK e \in Int : e = array[c]  BY <1>5 DEF SumState
<1>7. Prefix(array, c + 1) = Prefix(array, c) + e
  BY <1>5, <1>6, PrefixNext DEF SumState
<1>8. PICK p \in Int : p = Prefix(array, c)  BY PrefixIsInt DEF SumState
<1>9. PICK q \in Int : q = Prefix(array, a)  BY PrefixIsInt DEF SumState
<1>10. sums[u] = p - q
  BY <1>1, <1>2, <1>8, <1>9 DEF SumParts, ThreadSum
<1>11. sums' = [sums EXCEPT ![u] = (p - q) + e] /\ sum_k' = [sum_k EXCEPT ![u] = c + 1]
  BY <1>1, <1>6, <1>10
<1>12. SumState'
  BY <1>11 DEF SumState
<1>13. ASSUME NEW v \in Index(sum_threads) PROVE ThreadSum(v)'
  <2>1. CASE v # u
    BY <1>11, <2>1 DEF SumParts, SumState, ThreadSum
  <2>2. CASE v = u
    <3>1. sums'[v] = (p + e) - q /\ sum_k'[v] = c + 1
      BY <1>11, <2>2 DEF SumState
    <3>2. c + 1 # -1 /\ a <= c + 1 /\ c + 1 <= b
      BY <1>4
    <3> QED BY <1>2, <1>3, <1>7, <1>8, <1>9, <2>2, <3>1, <3>2 DEF ThreadSum
  <2> QED BY <2>1, <2>2
<1>14. \A v \in Index(sum_threads) : (sum_k'[v] = -1 <=> sum_k[v] = -1)
  BY <1>1, <1>11 DEF SumState
<1>15. \A v \in Index(sum_threads) :
          main_pc \in {"collect", "printed"} \/ (main_pc = "join" /\ v < main_t)
             => sum_k'[v] = First(v + 1, array_size, sum_threads)
  BY <1>1, <1>3, <1>4, <1>11 DEF SumParts, SumState
<1>16. SumParts'
  BY <1>13, <1>14, <1>15 DEF SumParts
<1> QED BY <1>12, <1>16

\* Every step preserves the invariant.
LEMMA SumNext == Sum!SumInv /\ Sum!Next => Sum!SumInv'
<1> SUFFICES ASSUME Sum!SumInv, Sum!Next PROVE SumState' /\ SumParts'
  <2>1. (Sum!SumInv <=> SumState /\ SumParts)'  BY SumInvIs, PTL
  <2> QED BY <2>1
<1>1. SumState /\ SumParts  BY SumInvIs
<1>2. CASE Sum!main
  BY <1>1, <1>2, SumGet, SumCreate, SumJoin, SumCollect DEF Sum!main
<1>3. ASSUME NEW u \in Sum!Tids, Sum!add_array(u) PROVE SumState' /\ SumParts'
  <2>1. u \in Index(sum_threads)  BY DEF Sum!Tids, Index
  <2> QED BY <1>1, <1>3, <2>1, SumAdd
<1> QED BY <1>2, <1>3 DEF Sum!Next

\* The total is the sum of the array.
LEMMA SumImplied == Sum!SumInv => Sum!TotalIsSum
<1> SUFFICES ASSUME Sum!SumInv, main_pc = "printed", sum_threads # 0
             PROVE  total = SumFunction(array)
  BY SumNotions, SumInvIs DEF Sum!TotalIsSum, SumParts
<1>1. SumState /\ SumParts  BY SumInvIs
<1>2. Prefix(array, array_size) = SumFunction(array)
  BY <1>1, PrefixAll DEF SumState, SumParts
<1> QED BY <1>1, <1>2 DEF SumParts

------------------------------------------------------------------------------
(* vmem_usage.c: the reduction *)

\* The notions of the instance are those of the lemmas.
LEMMA VmemNotions ==
  /\ \A u, s, n : Vmem!Share(u, s, n) = First(u, s, n) .. Last(u, s, n)
  /\ \A f : Vmem!SumFunction(f) = SumFunction(f)
  /\ \A f, S : Vmem!SumFunctionOnSet(f, S) = SumFunctionOnSet(f, S)
<1>1. ASSUME NEW u, NEW s, NEW n
      PROVE  Vmem!Share(u, s, n) = First(u, s, n) .. Last(u, s, n)
  BY Zenon DEF Vmem!Share, Vmem!First, Vmem!Last, First, Last
<1>2. ASSUME NEW f PROVE Vmem!SumFunction(f) = SumFunction(f)
  BY Zenon DEF Vmem!SumFunction, Vmem!SumFunctionOnSet, Vmem!FoldFunctionOnSet, Vmem!MapThenFoldSet,
               SumFunction, SumFunctionOnSet, FoldFunctionOnSet, MapThenFoldSet
<1>3. ASSUME NEW f, NEW S PROVE Vmem!SumFunctionOnSet(f, S) = SumFunctionOnSet(f, S)
  BY Zenon DEF Vmem!SumFunctionOnSet, Vmem!FoldFunctionOnSet, Vmem!MapThenFoldSet,
               SumFunctionOnSet, FoldFunctionOnSet, MapThenFoldSet
<1> QED BY <1>1, <1>2, <1>3

\* The array, as it is read.
LEMMA VmemData ==
  /\ Vmem!size \in Nat
  /\ Vmem!get_all_vmsizes \in [Index(Vmem!size) -> Int]
<1>1. PICK S \in Seq(Nat) : S = ProcSizes
  BY ThreadsAssumption DEF Vmem!VmemAssumption
<1>2. Vmem!size \in Nat /\ Len(S) = Vmem!size
  BY <1>1 DEF Vmem!size
<1>3. \A x \in Index(Vmem!size) : x < Vmem!size - 1 => S[x + 1] \in Int
  BY <1>1, <1>2, IndexIs
<1>4. Vmem!get_all_vmsizes = [x \in Index(Vmem!size) |-> IF x < Vmem!size - 1 THEN S[x + 1] ELSE 0]
  BY <1>1 DEF Vmem!get_all_vmsizes, Index
<1>5. \A x \in Index(Vmem!size) : (IF x < Vmem!size - 1 THEN S[x + 1] ELSE 0) \in Int
  BY <1>3
<1> QED BY <1>2, <1>4, <1>5

\* The shares of the first m threads are the elements before the next one's.
LEMMA ShareSums ==
  ASSUME NEW n \in Nat \ {0}, NEW s \in Nat, NEW f \in [Index(s) -> Int]
  PROVE  \E g \in [Index(n) -> Int] :
            /\ \A u \in Index(n) : g[u] = SumFunctionOnSet(f, First(u, s, n) .. Last(u, s, n))
            /\ SumFunction(g) = SumFunction(f)
<1> DEFINE at(u) == First(u, s, n)
           g == [u \in Index(n) |-> SumFunctionOnSet(f, First(u, s, n) .. Last(u, s, n))]
<1>1. ASSUME NEW u \in Index(n)
      PROVE  at(u) \in Nat /\ at(u + 1) \in Nat /\ g[u] = Prefix(f, at(u + 1)) - Prefix(f, at(u))
  <2>1. u \in 0 .. n - 1 /\ u \in 0 .. n /\ u + 1 \in 0 .. n
    BY DEF Index
  <2>2. at(u) \in 0 .. s /\ at(u + 1) \in at(u) .. s /\ Last(u, s, n) = at(u + 1) - 1
    BY <2>1, PartsMeet
  <2> HIDE DEF at
  <2>3. SumFunctionOnSet(f, at(u) .. at(u + 1) - 1) = Prefix(f, at(u + 1)) - Prefix(f, at(u))
    BY <2>2, SumOfInterval
  <2>4. g[u] = SumFunctionOnSet(f, at(u) .. at(u + 1) - 1)
    BY <2>2 DEF at
  <2> QED BY <2>2, <2>3, <2>4
<1>2. \A m \in Nat : Prefix(f, m) \in Int
  BY PrefixIsInt
<1>3. g \in [Index(n) -> Int]
  <2>1. \A u \in Index(n) : g[u] \in Int
    <3> HIDE DEF g, at
    <3> QED BY <1>1, <1>2
  <2>2. g = [u \in Index(n) |-> g[u]]
    OBVIOUS
  <2> HIDE DEF g
  <2> QED BY <2>1, <2>2
<1>5. \A u \in Index(n) : g[u] = SumFunctionOnSet(f, First(u, s, n) .. Last(u, s, n))
  OBVIOUS
<1> HIDE DEF g, at
<1> DEFINE Q == {m \in Nat : m <= n => Prefix(g, m) = Prefix(f, at(m))}
<1>6. 0 \in Q
  <2>1. at(0) = 0
    BY PartsMeet DEF at
  <2>2. Prefix(g, 0) = 0 /\ Prefix(f, 0) = 0
    BY <1>3, PrefixNone
  <2> QED BY <2>1, <2>2
<1>7. ASSUME NEW m \in Q PROVE m + 1 \in Q
  <2>0. m \in Nat  OBVIOUS
  <2> SUFFICES ASSUME m + 1 <= n PROVE Prefix(g, m + 1) = Prefix(f, at(m + 1))
    BY <2>0
  <2>1. m \in Index(n)
    BY <2>0, IndexIs
  <2>2. Prefix(g, m + 1) = Prefix(g, m) + g[m]
    BY <1>3, <2>1, PrefixNext
  <2>3. Prefix(g, m) = Prefix(f, at(m))
    BY <2>0
  <2>4. PICK a \in Int : a = Prefix(f, at(m))  BY <1>1, <1>2, <2>1
  <2>5. PICK b \in Int : b = Prefix(f, at(m + 1))  BY <1>1, <1>2, <2>1
  <2>6. g[m] = b - a
    BY <1>1, <2>1, <2>4, <2>5
  <2>7. Prefix(g, m + 1) = a + (b - a)
    BY <2>2, <2>3, <2>4, <2>6
  <2> QED BY <2>5, <2>7
<1>8. Q = Nat
  <2> HIDE DEF Q
  <2>1. Q \in SUBSET Nat BY DEF Q
  <2> QED BY <1>6, <1>7, <2>1, Induct
<1>9. Prefix(g, n) = Prefix(f, at(n))
  <2>1. n \in Q /\ n <= n  BY ONLY <1>8, n \in Nat \ {0}
  <2> QED BY <2>1
<1>10. Prefix(g, n) = SumFunction(g)
  BY <1>3, PrefixAll, IndexIs
<1>11. at(n) = s
  BY PartsMeet DEF at
<1>12. Prefix(f, s) = SumFunction(f)
  BY PrefixAll, IndexIs
<1> QED BY <1>3, <1>5, <1>9, <1>10, <1>11, <1>12

\* The invariant, for the round that halves to half and leaves odd over.
VmemState ==
    /\ num_threads \in Nat \ {0}
    /\ data = Vmem!get_all_vmsizes
    /\ partial_sum \in [Index(num_threads) -> Int] /\ sum \in Int
    /\ t \in [Index(num_threads) -> [pc : Vmem!Pcs, half : Int, cell : Int, loaded : Int]]
    /\ \A i \in arrived : i \in Index(num_threads) /\ t[i].pc = "barrier"

\* What a thread loaded is still in the cells.
VmemLoaded ==
    \A i \in Index(num_threads) :
        t[i].pc = "store" => t[i].loaded = partial_sum[i] + partial_sum[t[i].cell]

\* What the cells count for.
Portions(half, odd) == [j \in Index(num_threads) |-> Vmem!Part(j, half, odd)]

\* Every thread is somewhere in this round.
IsRound(half, odd) ==
    /\ half \in Nat /\ 1 <= half /\ half <= num_threads /\ odd \in {0, 1}
    /\ \A i \in Index(num_threads) : Vmem!InRound(i, half, odd)

\* The cells that count add up to the array.
AddsUp(half, odd) == SumFunction(Portions(half, odd)) = SumFunction(data)

\* The types are the same.
LEMMA VmemTypesAre == Vmem!VmemTypes <=> VmemState
  BY DEF Vmem!VmemTypes, VmemState, Index, Vmem!Tids

\* Both say the same.
LEMMA VmemInvIs ==
  Vmem!VmemInv <=> /\ VmemState /\ VmemLoaded
                   /\ \E half, odd : IsRound(half, odd) /\ AddsUp(half, odd)
                   /\ sum # -1 => sum = SumFunction(data)
<1>1. Vmem!Tids = Index(num_threads)
  BY DEF Vmem!Tids, Index
<1>2. SUFFICES ASSUME VmemState
      PROVE  Vmem!VmemInv <=> /\ VmemLoaded
                              /\ \E half, odd : IsRound(half, odd) /\ AddsUp(half, odd)
                              /\ sum # -1 => sum = SumFunction(data)
  BY VmemTypesAre DEF Vmem!VmemInv
<1>3. Vmem!SumOfArray <=> (sum # -1 => sum = SumFunction(data))
  BY VmemNotions DEF Vmem!SumOfArray, Vmem!NoSum
<1>4. num_threads \in Nat
  BY <1>2 DEF VmemState
<1>5. (\E half \in 1 .. num_threads, odd \in 0 .. 1 :
           /\ \A i \in Vmem!Tids : Vmem!InRound(i, half, odd)
           /\ Vmem!SumFunction([j \in Vmem!Tids |-> Vmem!Part(j, half, odd)]) = Vmem!SumFunction(data))
        <=> \E half, odd : IsRound(half, odd) /\ AddsUp(half, odd)
  <2>1. ASSUME NEW half, NEW odd
        PROVE  (/\ half \in 1 .. num_threads /\ odd \in 0 .. 1
                /\ \A i \in Vmem!Tids : Vmem!InRound(i, half, odd)
                /\ Vmem!SumFunction([j \in Vmem!Tids |-> Vmem!Part(j, half, odd)])
                     = Vmem!SumFunction(data))
               <=> IsRound(half, odd) /\ AddsUp(half, odd)
    <3>1. half \in 1 .. num_threads <=> half \in Nat /\ 1 <= half /\ half <= num_threads
      BY <1>4
    <3>2. odd \in 0 .. 1 <=> odd \in {0, 1}
      OBVIOUS
    <3>3. Vmem!SumFunction([j \in Vmem!Tids |-> Vmem!Part(j, half, odd)])
            = SumFunction(Portions(half, odd))
      BY <1>1, VmemNotions DEF Portions
    <3> QED BY <1>1, <3>1, <3>2, <3>3, VmemNotions DEF IsRound, AddsUp
  <2> QED BY <2>1
<1> QED BY <1>1, <1>2, <1>3, <1>5, VmemTypesAre DEF Vmem!VmemInv, VmemLoaded

\* The share of a thread is an integer.
LEMMA ShareIsInt ==
  ASSUME VmemState, NEW j \in Index(num_threads)
  PROVE  Vmem!SumFunctionOnSet(data, Vmem!Share(j, Vmem!size, num_threads)) \in Int
<1>1. PICK n \in Nat \ {0} : n = num_threads  BY DEF VmemState
<1>2. PICK s \in Nat : s = Vmem!size  BY VmemData
<1>3. PICK f \in [Index(s) -> Int] : f = data  BY <1>2, VmemData DEF VmemState
<1>4. PICK g \in [Index(n) -> Int] :
         \A u \in Index(n) : g[u] = SumFunctionOnSet(f, First(u, s, n) .. Last(u, s, n))
  BY ShareSums
<1> QED BY <1>1, <1>2, <1>3, <1>4, VmemNotions

\* What the cells count for are integers.
LEMMA PortionsAreInts ==
  ASSUME VmemState, NEW half, NEW odd
  PROVE  Portions(half, odd) \in [Index(num_threads) -> Int]
<1>1. \A j \in Index(num_threads) : Vmem!Part(j, half, odd) \in Int
  BY ShareIsInt DEF Vmem!Part, VmemState
<1> QED BY <1>1 DEF Portions

\* There is a first thread, and there are finitely many.
LEMMA Threads0 == VmemState => 0 \in Index(num_threads) /\ IsFiniteSet(Index(num_threads))
  BY IndexIs DEF VmemState

\* At the start every thread has its share before it.
LEMMA VmemStart == Vmem!Init => Vmem!VmemInv
<1> SUFFICES ASSUME Vmem!Init
             PROVE  /\ VmemState /\ VmemLoaded
                    /\ \E half, odd : IsRound(half, odd) /\ AddsUp(half, odd)
                    /\ sum # -1 => sum = SumFunction(data)
  BY VmemInvIs
<1>1. PICK n \in Nat \ {0} : n = num_threads
  BY ThreadsAssumption DEF Vmem!Init, Vmem!VmemAssumption
<1>2. Vmem!Tids = Index(n)
  BY <1>1 DEF Vmem!Tids, Index
<1>3. \A j \in Index(n) : t[j].pc = "sum" /\ t[j].half = n
  BY <1>1, <1>2 DEF Vmem!Init
<1>4. VmemState
  BY <1>1, <1>2 DEF VmemState, Vmem!Init, Vmem!NoSum, Vmem!Pcs
<1>5. VmemLoaded /\ sum = -1
  BY <1>1, <1>3 DEF VmemLoaded, Vmem!Init, Vmem!NoSum
<1>6. IsRound(n, 0)
  BY <1>1, <1>3 DEF IsRound, Vmem!InRound
<1>7. AddsUp(n, 0)
  <2>1. PICK s \in Nat : s = Vmem!size  BY VmemData
  <2>2. PICK f \in [Index(s) -> Int] : f = data  BY <2>1, VmemData, <1>4 DEF VmemState
  <2>3. PICK g \in [Index(n) -> Int] :
           /\ \A u \in Index(n) : g[u] = SumFunctionOnSet(f, First(u, s, n) .. Last(u, s, n))
           /\ SumFunction(g) = SumFunction(f)
    BY ShareSums
  <2>4. \A u \in Index(n) : Vmem!Part(u, n, 0) = g[u]
    BY <1>1, <1>3, <2>1, <2>2, <2>3, VmemNotions DEF Vmem!Part
  <2>5. Portions(n, 0) = g
    BY <1>1, <2>3, <2>4 DEF Portions
  <2> QED BY <2>2, <2>3, <2>5 DEF AddsUp
<1> QED BY <1>4, <1>5, <1>6, <1>7

\* What a step that moves no sum keeps.
VmemKeeps(half, odd) == IsRound(half, odd)' /\ Portions(half, odd)' = Portions(half, odd)

\* What a thread makes of its half.
LEMMA Halves ==
  ASSUME NEW h \in Nat, NEW o \in {0, 1}
  PROVE  (2 * h + o) % 2 = o /\ (2 * h + o) \div 2 = h
  BY Z3

\* The threads are the numbers below num_threads.
LEMMA TidIs ==
  ASSUME VmemState
  PROVE  /\ \A j \in Index(num_threads) : j \in Nat /\ j < num_threads
         /\ \A j \in Nat : j < num_threads => j \in Index(num_threads)
<1>1. PICK n \in Nat : n = num_threads  BY DEF VmemState
<1> QED BY <1>1 DEF Index

\* A thread has summed its share: what it counted for before as its share, its cell
\* does now.
LEMMA VmemShare ==
  ASSUME VmemState, VmemLoaded, NEW h \in Nat, NEW o \in {0, 1}, IsRound(h, o),
         NEW i \in Index(num_threads), Vmem!SumShare(i)
  PROVE  VmemState' /\ VmemLoaded' /\ VmemKeeps(h, o)
<1> USE DEF Vmem!SumShare, Vmem!Round, Vmem!Become
<1>1. t[i].pc = "sum" /\ t[i].half = h /\ h = num_threads
  BY DEF IsRound, Vmem!InRound, VmemState, Vmem!Adding
<1>2. PICK c \in Int : c = Vmem!SumFunctionOnSet(data, Vmem!Share(i, Vmem!size, num_threads))
  BY ShareIsInt
<1>3. partial_sum' = [partial_sum EXCEPT ![i] = c]
  BY <1>2
<1>4. PICK p \in {"barrier", "done"} :
         /\ p = (IF h > 1 THEN "barrier" ELSE "done")
         /\ t' = [t EXCEPT ![i] = [pc |-> p, half |-> h, cell |-> 0, loaded |-> 0]]
  BY <1>1
<1>5. VmemState'
  BY <1>1, <1>3, <1>4 DEF VmemState, Vmem!Pcs
<1>6. /\ t'[i] = [pc |-> p, half |-> h, cell |-> 0, loaded |-> 0] /\ partial_sum'[i] = c
      /\ \A j \in Index(num_threads) : j # i => t'[j] = t[j] /\ partial_sum'[j] = partial_sum[j]
  BY <1>3, <1>4 DEF VmemState
<1>7. \A j \in Index(num_threads) : j < h /\ (t[j].pc = "sum" \/ t[j].pc \in {"barrier", "done"})
  <2>1. \A j \in Index(num_threads) : j < h
    BY <1>1, TidIs
  <2>2. \A j \in Index(num_threads) : t[j].pc = "sum" \/ t[j].pc \in {"barrier", "done"}
    BY <1>1 DEF IsRound, Vmem!InRound
  <2> QED BY <2>1, <2>2
<1>8. VmemLoaded'
  BY <1>6, <1>7 DEF VmemLoaded
<1>9. IsRound(h, o)'
  BY <1>4, <1>6 DEF IsRound, Vmem!InRound
<1>10. ASSUME NEW j \in Index(num_threads) PROVE Vmem!Part(j, h, o)' = Vmem!Part(j, h, o)
  BY <1>2, <1>4, <1>6, <1>7, <1>1 DEF Vmem!Part, Vmem!Counts
<1>11. Portions(h, o)' = Portions(h, o)
  BY <1>10 DEF Portions
<1> QED BY <1>5, <1>8, <1>9, <1>11 DEF VmemKeeps

\* The test for an odd element moves no sum.
LEMMA VmemOdd ==
  ASSUME VmemState, VmemLoaded, NEW h \in Nat, NEW o \in {0, 1}, IsRound(h, o),
         NEW i \in Index(num_threads), Vmem!Odd(i)
  PROVE  VmemState' /\ VmemLoaded' /\ VmemKeeps(h, o)
<1> USE DEF Vmem!Odd, Vmem!Become
<1>1. t[i].pc = "odd" /\ t[i].half = 2 * h + o /\ 2 * h + o <= num_threads /\ h >= 1
  BY DEF IsRound, Vmem!InRound, VmemState, Vmem!Adding
<1>2. PICK p \in {"load", "halve"}, c \in Nat :
         /\ t' = [t EXCEPT ![i] = [pc |-> p, half |-> 2 * h + o, cell |-> c, loaded |-> 0]]
         /\ p = "load" => c = 2 * h /\ i = 0 /\ o = 1
         /\ p = "halve" => i # 0 \/ o # 1
  <2>1. (2 * h + o) % 2 = o
    BY Halves
  <2>2. CASE o = 1 /\ i = 0
    <3>1. (2 * h + o) - 1 = 2 * h /\ 2 * h \in Nat
      BY <2>2
    <3> QED BY <1>1, <2>1, <2>2, <3>1
  <2>3. CASE ~(o = 1 /\ i = 0)
    BY <1>1, <2>1, <2>3
  <2> QED BY <2>2, <2>3
<1>3. VmemState'
  BY <1>1, <1>2 DEF VmemState, Vmem!Pcs, Vmem!Adding
<1>4. /\ t'[i] = [pc |-> p, half |-> 2 * h + o, cell |-> c, loaded |-> 0]
      /\ \A j \in Index(num_threads) : j # i => t'[j] = t[j]
  BY <1>2 DEF VmemState
<1>5. VmemLoaded'
  BY <1>4 DEF VmemLoaded
<1>6. IsRound(h, o)'
  BY <1>1, <1>2, <1>4 DEF IsRound, Vmem!InRound, Vmem!Adding
<1>7. ASSUME NEW j \in Index(num_threads) PROVE Vmem!Part(j, h, o)' = Vmem!Part(j, h, o)
  <2>1. j \in Nat
    BY TidIs
  <2>2. t'[j].pc = "sum" <=> t[j].pc = "sum"
    BY <1>1, <1>4
  <2>3. j >= h => j - h \in Index(num_threads) /\ j - h \in Nat
    <3>1. num_threads \in Nat /\ j < num_threads  BY TidIs DEF VmemState
    <3>2. j >= h => j - h \in Nat /\ j - h < num_threads  BY <2>1, <3>1
    <3> QED BY <3>2, TidIs
  <2>4. 0 \in Index(num_threads)
    BY Threads0
  <2>5. \A m \in Index(num_threads) :
           t'[m].pc \in {"odd", "halve"} \cup Vmem!Adding
             <=> t[m].pc \in {"odd", "halve"} \cup Vmem!Adding
    BY <1>1, <1>4 DEF Vmem!Adding
  <2>6. o = 1 => (t'[0].pc = "odd" \/ (t'[0].pc \in Vmem!Adding /\ t'[0].half = 2 * h + o)
                   <=> t[0].pc = "odd" \/ (t[0].pc \in Vmem!Adding /\ t[0].half = 2 * h + o))
    BY <1>1, <1>2, <1>4, <2>4 DEF Vmem!Adding
  <2>7. Vmem!Counts(j, h, o)' <=> Vmem!Counts(j, h, o)
    BY <2>3, <2>5, <2>6 DEF Vmem!Counts
  <2> QED BY <2>2, <2>7 DEF Vmem!Part
<1>8. Portions(h, o)' = Portions(h, o)
  BY <1>7 DEF Portions
<1> QED BY <1>3, <1>5, <1>6, <1>8 DEF VmemKeeps

\* Nor does the halving.
LEMMA VmemHalve ==
  ASSUME VmemState, VmemLoaded, NEW h \in Nat, NEW o \in {0, 1}, IsRound(h, o),
         NEW i \in Index(num_threads), Vmem!Halve(i)
  PROVE  VmemState' /\ VmemLoaded' /\ VmemKeeps(h, o)
<1> USE DEF Vmem!Halve, Vmem!Round, Vmem!Become
<1>0. i \in Nat  BY IndexIs DEF VmemState
<1>1. t[i].pc = "halve" /\ t[i].half = 2 * h + o /\ 2 * h + o <= num_threads /\ h >= 1
  BY DEF IsRound, Vmem!InRound, VmemState, Vmem!Adding
<1>2. PICK p \in {"load", "barrier", "done"}, c \in Nat :
         /\ t' = [t EXCEPT ![i] = [pc |-> p, half |-> h, cell |-> c, loaded |-> 0]]
         /\ p = "load" => c = i + h /\ i < h
         /\ p # "load" => ~(i < h) /\ p = (IF h > 1 THEN "barrier" ELSE "done")
  <2>1. t[i].half \div 2 = h
    BY <1>1, Halves
  <2>2. CASE i < h
    BY <1>0, <2>1, <2>2
  <2>3. CASE ~(i < h)
    BY <2>1, <2>3
  <2> QED BY <2>2, <2>3
<1>3. VmemState'
  BY <1>1, <1>2 DEF VmemState, Vmem!Pcs, Vmem!Adding
<1>4. /\ t'[i] = [pc |-> p, half |-> h, cell |-> c, loaded |-> 0]
      /\ \A j \in Index(num_threads) : j # i => t'[j] = t[j]
  BY <1>2 DEF VmemState
<1>5. VmemLoaded'
  BY <1>4 DEF VmemLoaded
<1>6. IsRound(h, o)'
  BY <1>1, <1>2, <1>4 DEF IsRound, Vmem!InRound, Vmem!Adding
<1>7. ASSUME NEW j \in Index(num_threads) PROVE Vmem!Part(j, h, o)' = Vmem!Part(j, h, o)
  <2>1. j \in Nat
    BY TidIs
  <2>2. t'[j].pc = "sum" <=> t[j].pc = "sum"
    BY <1>1, <1>4
  <2>3. j >= h => j - h \in Index(num_threads) /\ j - h \in Nat
    <3>1. num_threads \in Nat /\ j < num_threads  BY TidIs DEF VmemState
    <3>2. j >= h => j - h \in Nat /\ j - h < num_threads  BY <2>1, <3>1
    <3> QED BY <3>2, TidIs
  <2>4. 0 \in Index(num_threads)
    BY Threads0
  <2>5. Vmem!Counts(j, h, o)' <=> Vmem!Counts(j, h, o)
    BY <1>0, <1>1, <1>2, <1>4, <2>1, <2>3, <2>4 DEF Vmem!Counts, Vmem!Adding
  <2> QED BY <2>2, <2>5 DEF Vmem!Part
<1>8. Portions(h, o)' = Portions(h, o)
  BY <1>7 DEF Portions
<1> QED BY <1>3, <1>5, <1>6, <1>8 DEF VmemKeeps

\* Nor does a load.
LEMMA VmemLoad ==
  ASSUME VmemState, VmemLoaded, NEW h \in Nat, NEW o \in {0, 1}, IsRound(h, o),
         NEW i \in Index(num_threads), Vmem!Load(i)
  PROVE  VmemState' /\ VmemLoaded' /\ VmemKeeps(h, o)
<1> USE DEF Vmem!Load
<1>0. i \in Nat  BY IndexIs DEF VmemState
<1>1. /\ t[i].pc = "load" /\ 2 * h + o <= num_threads /\ h >= 1
      /\ \/ t[i].half = 2 * h + o /\ t[i].cell = 2 * h /\ i = 0 /\ o = 1
         \/ t[i].half = h /\ t[i].cell = i + h /\ i < h
  BY DEF IsRound, Vmem!InRound, VmemState, Vmem!Adding
<1>2. t[i].cell \in Index(num_threads)
  <2>1. num_threads \in Nat  BY DEF VmemState
  <2>2. t[i].cell \in Nat /\ t[i].cell < num_threads  BY <1>0, <1>1, <2>1
  <2> QED BY <2>2, TidIs
<1>3. PICK l \in Int : l = partial_sum[i] + partial_sum[t[i].cell]
  BY <1>2 DEF VmemState
<1>4. /\ t'[i] = [t[i] EXCEPT !.pc = "store", !.loaded = l]
      /\ \A j \in Index(num_threads) : j # i => t'[j] = t[j]
      /\ t' \in [Index(num_threads) -> [pc : Vmem!Pcs, half : Int, cell : Int, loaded : Int]]
  BY <1>3 DEF VmemState, Vmem!Pcs, Vmem!Adding
<1>5. t'[i].pc = "store" /\ t'[i].half = t[i].half /\ t'[i].cell = t[i].cell /\ t'[i].loaded = l
  BY <1>4 DEF VmemState
<1>6. VmemState'
  BY <1>1, <1>4 DEF VmemState
<1>7. VmemLoaded'
  BY <1>3, <1>4, <1>5 DEF VmemLoaded
<1>8. IsRound(h, o)'
  BY <1>1, <1>4, <1>5 DEF IsRound, Vmem!InRound, Vmem!Adding
<1>9. ASSUME NEW j \in Index(num_threads) PROVE Vmem!Part(j, h, o)' = Vmem!Part(j, h, o)
  <2>1. j \in Nat
    BY TidIs
  <2>2. t'[j].pc = "sum" <=> t[j].pc = "sum"
    BY <1>1, <1>4, <1>5
  <2>3. j >= h => j - h \in Index(num_threads) /\ j - h \in Nat
    <3>1. num_threads \in Nat /\ j < num_threads  BY TidIs DEF VmemState
    <3>2. j >= h => j - h \in Nat /\ j - h < num_threads  BY <2>1, <3>1
    <3> QED BY <3>2, TidIs
  <2>4. 0 \in Index(num_threads)
    BY Threads0
  <2>5. Vmem!Counts(j, h, o)' <=> Vmem!Counts(j, h, o)
    BY <1>0, <1>1, <1>4, <1>5, <2>1, <2>3, <2>4 DEF Vmem!Counts, Vmem!Adding
  <2> QED BY <2>2, <2>5 DEF Vmem!Part
<1>10. Portions(h, o)' = Portions(h, o)
  BY <1>9 DEF Portions
<1> QED BY <1>6, <1>7, <1>8, <1>10 DEF VmemKeeps

\* What one round leaves over is what the next one takes up.
LEMMA VmemArrive ==
  ASSUME VmemState, VmemLoaded, NEW h \in Nat, NEW o \in {0, 1}, IsRound(h, o),
         NEW i \in Index(num_threads), Vmem!Arrive(i)
  PROVE  /\ VmemState' /\ VmemLoaded'
         /\ \E half, odd : IsRound(half, odd)' /\ Portions(half, odd)' = Portions(h, o)
<1> USE DEF Vmem!Arrive
<1>1. Vmem!Tids = Index(num_threads)
  BY DEF Vmem!Tids, Index
<1>2. CASE arrived \cup {i} # Index(num_threads)
  <2>1. t' = t /\ arrived' = arrived \cup {i}
    BY <1>1, <1>2
  <2>2. VmemState' /\ VmemLoaded' /\ IsRound(h, o)'
    BY <2>1 DEF VmemState, VmemLoaded, IsRound, Vmem!InRound
  <2>3. Portions(h, o)' = Portions(h, o)
    BY <2>1 DEF Portions, Vmem!Part, Vmem!Counts
  <2> QED BY <2>2, <2>3
<1>3. CASE arrived \cup {i} = Index(num_threads)
  <2>1. \A j \in Index(num_threads) : t[j].pc = "barrier" /\ t[j].half = h
    <3>1. \A j \in Index(num_threads) : t[j].pc = "barrier"
      BY <1>3 DEF VmemState
    <3> QED BY <3>1 DEF IsRound, Vmem!InRound, Vmem!Adding
  <2>2. h > 1 /\ h <= num_threads
    BY <2>1 DEF IsRound, Vmem!InRound, Vmem!Adding
  <2>3. arrived' = {} /\ t' = [j \in Index(num_threads) |-> [t[j] EXCEPT !.pc = "odd"]]
    BY <1>1, <1>3
  <2>4. \A j \in Index(num_threads) : t'[j] = [t[j] EXCEPT !.pc = "odd"]
    BY <2>3
  <2>5. \A j \in Index(num_threads) : t'[j].pc = "odd" /\ t'[j].half = h
    <3> TAKE j \in Index(num_threads)
    <3>1. PICK r \in [pc : Vmem!Pcs, half : Int, cell : Int, loaded : Int] : r = t[j]
      BY DEF VmemState
    <3>2. [r EXCEPT !.pc = "odd"].pc = "odd" /\ [r EXCEPT !.pc = "odd"].half = r.half
      OBVIOUS
    <3> QED BY <2>1, <2>4, <3>1, <3>2
  <2>6. VmemState'
    BY <2>3 DEF VmemState, Vmem!Pcs
  <2>7. VmemLoaded'
    BY <2>5 DEF VmemLoaded
  <2>8. PICK m \in Nat, d \in {0, 1} : h = 2 * m + d /\ m >= 1
    <3>1. h = 2 * (h \div 2) + (h % 2) /\ h \div 2 \in Nat /\ h % 2 \in {0, 1} /\ h \div 2 >= 1
      BY <2>2, Z3
    <3> QED BY <3>1
  <2>9. m <= num_threads
    BY <2>2, <2>8 DEF VmemState
  <2>10. IsRound(m, d)'
    BY <2>2, <2>5, <2>8, <2>9 DEF IsRound, Vmem!InRound
  <2>11. ASSUME NEW j \in Index(num_threads) PROVE Vmem!Part(j, m, d)' = Vmem!Part(j, h, o)
    <3>1. j \in Nat /\ 0 \in Index(num_threads)
      BY TidIs, Threads0
    <3>2. \A x \in Nat : j >= x => j - x \in Index(num_threads)
      <4>1. num_threads \in Nat /\ j < num_threads  BY TidIs DEF VmemState
      <4>2. \A x \in Nat : j >= x => j - x \in Nat /\ j - x < num_threads  BY <3>1, <4>1
      <4> QED BY <4>2, TidIs
    <3>3. Vmem!Counts(j, h, o) <=> j < h
      BY <2>1, <3>1, <3>2 DEF Vmem!Counts, Vmem!Adding
    <3>4. Vmem!Counts(j, m, d)' <=> j < m \/ (j >= m /\ j < 2 * m) \/ (j = 2 * m /\ d = 1)
      BY <2>5, <3>1, <3>2 DEF Vmem!Counts, Vmem!Adding
    <3>5. Vmem!Counts(j, m, d)' <=> Vmem!Counts(j, h, o)
      BY <2>8, <3>1, <3>3, <3>4
    <3> QED BY <2>1, <2>5, <3>5 DEF Vmem!Part
  <2>12. Portions(m, d)' = Portions(h, o)
    BY <2>11 DEF Portions
  <2> QED BY <2>6, <2>7, <2>10, <2>12
<1> QED BY <1>2, <1>3

\* A cell that counts is added to another one: the two change places, as it were.
LEMMA SumMoves ==
  ASSUME NEW S, IsFiniteSet(S), NEW f \in [S -> Int], NEW g \in [S -> Int],
         NEW a \in S, NEW b \in S, a # b, \A x \in S : x # a /\ x # b => g[x] = f[x],
         g[a] = f[a] + f[b], g[b] = 0
  PROVE  SumFunction(g) = SumFunction(f)
<1> DEFINE m == [f EXCEPT ![a] = g[a]]
<1>1. m \in [S -> Int] /\ m[a] = g[a] /\ \A x \in S : x # a => m[x] = f[x]
  OBVIOUS
<1> HIDE DEF m
<1>2. SumFunction(m) = SumFunction(f) + (m[a] - f[a])
  <2>1. \A x \in S \ {a} : m[x] = f[x]  BY <1>1
  <2> QED BY <1>1, <2>1, SumAtPoint
<1>3. SumFunction(g) = SumFunction(m) + (g[b] - m[b])
  <2>1. \A x \in S \ {b} : g[x] = m[x]  BY <1>1
  <2> QED BY <1>1, <2>1, SumAtPoint
<1>4. PICK c \in Int : c = SumFunction(f)
  BY SumIsInt
<1>5. PICK p \in Int, q \in Int : p = f[a] /\ q = f[b]
  OBVIOUS
<1>6. m[b] = q /\ m[a] = p + q
  BY <1>1, <1>5
<1>7. SumFunction(m) = c + ((p + q) - p)
  BY <1>2, <1>4, <1>5, <1>6
<1>8. SumFunction(m) = c + q
  BY <1>7
<1>9. SumFunction(g) = (c + q) + (0 - q)
  BY <1>3, <1>6, <1>8
<1> QED BY <1>4, <1>9

\* The same, as a formula.
LEMMA PortionsTyped ==
  VmemState => \A half, odd : Portions(half, odd) \in [Index(num_threads) -> Int]
  BY PortionsAreInts

\* A store takes a cell over into another, so that one counts for both.
LEMMA VmemStore ==
  ASSUME VmemState, VmemLoaded, NEW h \in Nat, NEW o \in {0, 1}, IsRound(h, o),
         NEW i \in Index(num_threads), Vmem!Store(i)
  PROVE  VmemState' /\ VmemLoaded' /\ IsRound(h, o)'
         /\ SumFunction(Portions(h, o)') = SumFunction(Portions(h, o))
<1>0. i \in Nat /\ 0 \in Index(num_threads)  BY TidIs, Threads0
<1>1. /\ t[i].pc = "store" /\ 2 * h + o <= num_threads /\ h >= 1 /\ i < h
      /\ \/ t[i].half = 2 * h + o /\ t[i].cell = 2 * h /\ i = 0 /\ o = 1
         \/ t[i].half = h /\ t[i].cell = i + h
  <2>1. t[i].pc = "store"  BY DEF Vmem!Store
  <2>2. h >= 1 /\ Vmem!InRound(i, h, o)  BY DEF IsRound
  <2> QED BY <1>0, <2>1, <2>2 DEF Vmem!InRound, Vmem!Adding
<1> USE DEF Vmem!Store, Vmem!Round, Vmem!Become
<1>2. PICK c \in Index(num_threads) : c = t[i].cell /\ c >= h /\ c # i
  <2>1. num_threads \in Nat  BY DEF VmemState
  <2>2. t[i].cell \in Nat /\ t[i].cell < num_threads /\ t[i].cell >= h /\ t[i].cell # i
    BY <1>0, <1>1, <2>1
  <2> QED BY <2>2, TidIs
<1>3. PICK l \in Int : /\ l = partial_sum[i] + partial_sum[c]
                        /\ partial_sum' = [partial_sum EXCEPT ![i] = l]
  BY <1>1, <1>2 DEF VmemState, VmemLoaded
<1>4. PICK p \in {"halve", "barrier", "done"}, v \in Nat :
         /\ t' = [t EXCEPT ![i] = [pc |-> p, half |-> v, cell |-> 0, loaded |-> 0]]
         /\ \/ p = "halve" /\ v = 2 * h + o /\ c = 2 * h /\ i = 0 /\ o = 1 /\ t[i].half = 2 * h + o
            \/ p = (IF h > 1 THEN "barrier" ELSE "done") /\ v = h /\ c = i + h /\ t[i].half = h
  <2>1. CASE t[i].half = 2 * h + o /\ t[i].cell = 2 * h /\ i = 0 /\ o = 1
    BY <1>2, <2>1
  <2>2. CASE t[i].half = h /\ t[i].cell = i + h
    <3>1. i + h # h - 1  BY <1>0
    <3> QED BY <1>2, <2>2, <3>1
  <2> QED BY <1>1, <2>1, <2>2
<1>5. /\ t'[i] = [pc |-> p, half |-> v, cell |-> 0, loaded |-> 0] /\ partial_sum'[i] = l
      /\ \A j \in Index(num_threads) : j # i => t'[j] = t[j] /\ partial_sum'[j] = partial_sum[j]
  BY <1>3, <1>4 DEF VmemState
<1>6. VmemState'
  BY <1>1, <1>3, <1>4 DEF VmemState, Vmem!Pcs
<1>7. VmemLoaded'
  <2> SUFFICES ASSUME NEW j \in Index(num_threads), t'[j].pc = "store"
               PROVE  t'[j].loaded = partial_sum'[j] + partial_sum'[t'[j].cell]
    BY DEF VmemLoaded, Vmem!Store
  <2>1. j # i /\ t'[j] = t[j] /\ t[j].pc = "store" /\ partial_sum'[j] = partial_sum[j]
    BY <1>5
  <2>2. j \in Nat  BY TidIs
  <2>3. t[j].cell = 2 * h \/ (t[j].cell = j + h /\ j < h)
    BY <2>1 DEF IsRound, Vmem!InRound, Vmem!Adding
  <2>4. t[j].cell \in Index(num_threads) /\ t[j].cell # i
    <3>1. num_threads \in Nat  BY DEF VmemState
    <3>2. 2 * h + o <= num_threads /\ (t[j].cell = 2 * h => o = 1)
      BY <2>1, <2>2, <1>1 DEF IsRound, Vmem!InRound, Vmem!Adding
    <3>3. t[j].cell \in Nat /\ t[j].cell < num_threads /\ t[j].cell # i
      BY <1>0, <1>1, <2>2, <2>3, <3>1, <3>2
    <3> QED BY <3>3, TidIs
  <2>5. partial_sum'[t[j].cell] = partial_sum[t[j].cell]
    BY <1>5, <2>4
  <2> QED BY <2>1, <2>5 DEF VmemLoaded
<1>8. IsRound(h, o)'
  BY <1>0, <1>1, <1>4, <1>5 DEF IsRound, Vmem!InRound, Vmem!Adding
<1>9. \A j \in Index(num_threads) : t[j].pc # "sum" /\ t'[j].pc # "sum"
  <2>1. h # num_threads
    <3>1. PICK n \in Nat : n = num_threads  BY DEF VmemState
    <3>2. 2 * h + o <= n /\ h >= 1  BY <1>1, <3>1
    <3> QED BY <3>1, <3>2
  <2>2. \A j \in Index(num_threads) : t[j].pc # "sum"
    BY <2>1 DEF IsRound, Vmem!InRound, Vmem!Adding
  <2>3. t'[i].pc # "sum"
    BY <1>5
  <2> QED BY <1>5, <2>2, <2>3
<1>10. ASSUME NEW j \in Index(num_threads)
       PROVE  /\ j # c => (Vmem!Counts(j, h, o)' <=> Vmem!Counts(j, h, o))
              /\ j = c => Vmem!Counts(j, h, o) /\ ~Vmem!Counts(j, h, o)'
  <2>1. j \in Nat  BY TidIs
  <2>2. j >= h => j - h \in Index(num_threads) /\ j - h \in Nat
    <3>1. num_threads \in Nat /\ j < num_threads  BY TidIs DEF VmemState
    <3>2. j >= h => j - h \in Nat /\ j - h < num_threads  BY <2>1, <3>1
    <3> QED BY <3>2, TidIs
  <2>3. CASE p = "halve" /\ v = 2 * h + o /\ c = 2 * h /\ i = 0 /\ o = 1 /\ t[i].half = 2 * h + o
    <3>1. \A m \in Index(num_threads) :
             t'[m].pc \in {"odd", "halve"} \cup Vmem!Adding
               <=> t[m].pc \in {"odd", "halve"} \cup Vmem!Adding
      BY <1>1, <1>5, <2>3 DEF Vmem!Adding
    <3>2. t[0].pc = "store" /\ t[0].half = 2 * h + o /\ t'[0].pc = "halve"
      BY <1>1, <1>5, <2>3
    <3>3. ~(j < h) /\ ~(j < 2 * h) <=> j >= 2 * h
      BY <1>1, <2>1
    <3> QED BY <2>1, <2>2, <2>3, <3>1, <3>2, <3>3 DEF Vmem!Counts, Vmem!Adding
  <2>4. CASE p = (IF h > 1 THEN "barrier" ELSE "done") /\ v = h /\ c = i + h /\ t[i].half = h
    <3>1. j - h = i <=> j = c
      BY <1>0, <2>1, <2>4
    <3>2. i = 0 => t[0].half # 2 * h + o /\ t'[0].half # 2 * h + o
      BY <1>1, <1>5, <2>4
    <3>3. p \notin {"odd", "halve"} \cup Vmem!Adding
      BY <2>4 DEF Vmem!Adding
    <3>4. /\ t[i].pc \in {"odd", "halve"} \cup Vmem!Adding
          /\ t'[i].pc \notin {"odd", "halve"} \cup Vmem!Adding
      BY <1>1, <1>5, <3>3 DEF Vmem!Adding
    <3>5. t'[0].pc = "odd" \/ (t'[0].pc \in Vmem!Adding /\ t'[0].half = 2 * h + o)
            <=> t[0].pc = "odd" \/ (t[0].pc \in Vmem!Adding /\ t[0].half = 2 * h + o)
      BY <1>0, <1>1, <1>5, <3>2, <3>3
    <3>6. CASE j = c
      <4>1. j >= h /\ j < 2 * h /\ j # 2 * h /\ ~(j < h)
        BY <1>0, <1>1, <2>4, <3>6
      <4> QED BY <3>1, <3>4, <3>6, <4>1 DEF Vmem!Counts
    <3>7. CASE j # c
      <4>1. j >= h => t'[j - h] = t[j - h]
        BY <1>5, <2>2, <3>1, <3>7
      <4> QED BY <3>5, <3>7, <4>1 DEF Vmem!Counts
    <3> QED BY <3>6, <3>7
  <2> QED BY <1>4, <2>3, <2>4
<1>11. PICK f \in [Index(num_threads) -> Int] : f = Portions(h, o)
  BY PortionsAreInts
<1>12. PICK g \in [Index(num_threads) -> Int] : g = Portions(h, o)'
  <2>1. (VmemState => \A half, odd : Portions(half, odd) \in [Index(num_threads) -> Int])'
    BY PortionsTyped, PTL
  <2> QED BY <1>6, <2>1 DEF Vmem!Store
<1>13. \A j \in Index(num_threads) :
          /\ f[j] = (IF Vmem!Counts(j, h, o) THEN partial_sum[j] ELSE 0)
          /\ g[j] = (IF Vmem!Counts(j, h, o)' THEN partial_sum'[j] ELSE 0)
  BY <1>9, <1>11, <1>12 DEF Portions, Vmem!Part
<1>14. Vmem!Counts(i, h, o)
  BY <1>1 DEF Vmem!Counts
<1>15. g[i] = f[i] + f[c] /\ g[c] = 0 /\ \A j \in Index(num_threads) : j # i /\ j # c => g[j] = f[j]
  BY <1>2, <1>3, <1>5, <1>10, <1>13, <1>14
<1>16. SumFunction(g) = SumFunction(f)
  BY <1>2, <1>15, Threads0, SumMoves
<1> QED BY <1>6, <1>7, <1>8, <1>11, <1>12, <1>16

\* When all are done, one partial sum is left, and it is the first.
LEMMA VmemPrinted ==
  ASSUME VmemState, NEW h \in Nat, NEW o \in {0, 1}, IsRound(h, o), AddsUp(h, o),
         Vmem!compute_sum
  PROVE  sum' = SumFunction(data)
<1> USE DEF Vmem!compute_sum
<1>0. 0 \in Index(num_threads) /\ IsFiniteSet(Index(num_threads))  BY Threads0
<1>1. \A j \in Index(num_threads) : t[j].pc = "done"
  BY DEF Vmem!Tids, Index
<1>2. h = 1
  <2>1. h >= 1 /\ ~(h > 1)
    BY <1>0, <1>1 DEF IsRound, Vmem!InRound, Vmem!Adding
  <2> QED BY <2>1
<1>3. ASSUME NEW j \in Index(num_threads) PROVE Vmem!Counts(j, h, o) <=> j = 0
  <2>1. j \in Nat /\ (j >= h => j - h \in Index(num_threads))
    <3>1. num_threads \in Nat /\ j < num_threads /\ j \in Nat  BY TidIs DEF VmemState
    <3>2. j >= h => j - h \in Nat /\ j - h < num_threads  BY <3>1
    <3> QED BY <3>1, <3>2, TidIs
  <2> QED BY <1>0, <1>1, <1>2, <2>1 DEF Vmem!Counts, Vmem!Adding
<1>4. PICK f \in [Index(num_threads) -> Int] : f = Portions(h, o)
  BY PortionsAreInts
<1>5. \A j \in Index(num_threads) : f[j] = IF j = 0 THEN partial_sum[0] ELSE 0
  BY <1>1, <1>3, <1>4 DEF Portions, Vmem!Part
<1> DEFINE z == [j \in Index(num_threads) |-> 0]
<1>6. z \in [Index(num_threads) -> Int] /\ \A j \in Index(num_threads) : z[j] = 0
  OBVIOUS
<1> HIDE DEF z
<1>7. SumFunction(z) = 0
  BY <1>0, <1>6, SumOfZeros
<1>8. SumFunction(f) = SumFunction(z) + (f[0] - z[0])
  <2>1. \A j \in Index(num_threads) \ {0} : f[j] = z[j]  BY <1>5, <1>6
  <2> QED BY <1>0, <1>6, <2>1, SumAtPoint
<1>9. PICK c \in Int : c = partial_sum[0]
  BY <1>0 DEF VmemState
<1>10. SumFunction(f) = 0 + (c - 0)
  BY <1>0, <1>5, <1>6, <1>7, <1>8, <1>9
<1>11. SumFunction(f) = c
  BY <1>10
<1> QED BY <1>4, <1>9, <1>11 DEF AddsUp

\* Every step preserves the invariant.
LEMMA VmemNext == Vmem!VmemInv /\ Vmem!Next => Vmem!VmemInv'
<1> SUFFICES ASSUME Vmem!VmemInv, Vmem!Next PROVE Vmem!VmemInv'  OBVIOUS
<1>1. VmemState /\ VmemLoaded /\ (sum # -1 => sum = SumFunction(data))
  BY VmemInvIs
<1>2. PICK h, o : IsRound(h, o) /\ AddsUp(h, o)
  BY VmemInvIs
<1>3. h \in Nat /\ o \in {0, 1}
  BY <1>2 DEF IsRound
<1>4. SUFFICES /\ VmemState' /\ VmemLoaded'
               /\ \E half, odd : IsRound(half, odd)' /\ AddsUp(half, odd)'
               /\ (sum # -1 => sum = SumFunction(data))'
  <2>1. (Vmem!VmemInv <=> /\ VmemState /\ VmemLoaded
                          /\ \E half, odd : IsRound(half, odd) /\ AddsUp(half, odd)
                          /\ sum # -1 => sum = SumFunction(data))'
    BY VmemInvIs, PTL
  <2> QED BY <2>1
<1>5. CASE \E i \in Vmem!Tids : Vmem!sum_reduce(i)
  <2>1. PICK i \in Index(num_threads) : Vmem!sum_reduce(i)
    BY <1>5 DEF Vmem!Tids, Index
  <2>2. UNCHANGED <<data, sum>>
    BY <2>1 DEF Vmem!sum_reduce, Vmem!SumShare, Vmem!Arrive, Vmem!Odd, Vmem!Halve, Vmem!Load,
                Vmem!Store
  <2>3. SUFFICES /\ VmemState' /\ VmemLoaded'
                 /\ \E half, odd : IsRound(half, odd)'
                                   /\ SumFunction(Portions(half, odd)') = SumFunction(Portions(h, o))
    BY <1>1, <1>2, <2>2 DEF AddsUp
  <2>4. CASE Vmem!SumShare(i)
    BY <1>1, <1>2, <1>3, <2>4, VmemShare DEF VmemKeeps
  <2>5. CASE Vmem!Arrive(i)
    <3>1. VmemState' /\ VmemLoaded'
      BY <1>1, <1>2, <1>3, <2>5, VmemArrive
    <3>2. PICK half, odd : IsRound(half, odd)' /\ Portions(half, odd)' = Portions(h, o)
      BY <1>1, <1>2, <1>3, <2>5, VmemArrive
    <3> QED BY <3>1, <3>2
  <2>6. CASE Vmem!Odd(i)
    BY <1>1, <1>2, <1>3, <2>6, VmemOdd DEF VmemKeeps
  <2>7. CASE Vmem!Halve(i)
    BY <1>1, <1>2, <1>3, <2>7, VmemHalve DEF VmemKeeps
  <2>8. CASE Vmem!Load(i)
    BY <1>1, <1>2, <1>3, <2>8, VmemLoad DEF VmemKeeps
  <2>9. CASE Vmem!Store(i)
    BY <1>1, <1>2, <1>3, <2>9, VmemStore
  <2> QED BY <2>1, <2>4, <2>5, <2>6, <2>7, <2>8, <2>9 DEF Vmem!sum_reduce
<1>6. CASE Vmem!compute_sum
  <2>1. sum' = SumFunction(data) /\ UNCHANGED <<num_threads, data, partial_sum, t, arrived>>
    BY <1>1, <1>2, <1>3, <1>6, VmemPrinted DEF Vmem!compute_sum
  <2>2. sum' \in Int
    <3>1. 0 \in Index(num_threads)  BY <1>1, Threads0
    <3> QED BY <1>1, <1>6, <3>1 DEF VmemState, Vmem!compute_sum
  <2>3. VmemState' /\ VmemLoaded'
    BY <1>1, <2>1, <2>2 DEF VmemState, VmemLoaded
  <2>4. IsRound(h, o)' /\ AddsUp(h, o)'
    BY <1>2, <2>1 DEF IsRound, AddsUp, Portions, Vmem!InRound, Vmem!Part, Vmem!Counts
  <2> QED BY <2>1, <2>3, <2>4
<1> QED BY <1>5, <1>6 DEF Vmem!Next

\* The sum is that of the array, and the cells written are apart from those read.
LEMMA VmemImplied == Vmem!VmemInv => Vmem!SumOfArray /\ Vmem!NoDataRace
<1> SUFFICES ASSUME Vmem!VmemInv PROVE Vmem!NoDataRace
  BY DEF Vmem!VmemInv
<1>1. VmemState  BY VmemInvIs
<1>2. PICK h, o : IsRound(h, o)  BY VmemInvIs
<1>3. h \in Nat /\ 1 <= h  BY <1>2 DEF IsRound
<1>4. ASSUME NEW i \in Index(num_threads), t[i].pc \in {"load", "store"}
      PROVE  i \in Nat /\ i < h /\ t[i].cell \in Nat /\ t[i].cell >= h
  <2>1. i \in Nat  BY <1>1, TidIs
  <2> QED BY <1>2, <1>3, <1>4, <2>1 DEF IsRound, Vmem!InRound, Vmem!Adding
<1>5. \A i, j \in Index(num_threads) :
         i # j /\ t[i].pc \in {"load", "store"} /\ t[j].pc \in {"load", "store"} => t[i].cell # j
  BY <1>3, <1>4
<1> QED BY <1>5 DEF Vmem!NoDataRace, Vmem!Tids, Index

------------------------------------------------------------------------------
(* The behaviours of MCThreads *)

\* Whoever is past a barrier has all others that far, and each recursive count
\* is made undisturbed: for every number of threads and every bound.
THEOREM BarriersKept == Spec => []BarriersHold
<1> DEFINE Inv == Barrier!BarrierInv /\ Rec!MutexInv
<1>1. Init => Inv  BY BarrierStart, RecStart DEF Init
<1>2. Inv /\ [Next]_vars => Inv'
  <2> SUFFICES ASSUME Inv, [Next]_vars PROVE Inv'  OBVIOUS
  <2>1. Barrier!BarrierInv'
    <3>1. CASE BarrierStep(Barrier!Next)  BY <3>1, BarrierNext DEF BarrierStep
    <3>2. CASE UNCHANGED barrier_vars
      BY <3>2 DEF barrier_vars, Barrier!BarrierInv, Barrier!Counted
    <3>3. QED
      BY <3>1, <3>2 DEF Next, BarStep, RwlockStep, VmemStep, SumStep, RecStep, vars, First_four
  <2>2. Rec!MutexInv'
    <3>1. CASE RecStep(Rec!Next)  BY <3>1, RecNext DEF RecStep
    <3>2. CASE UNCHANGED rec_vars
      BY <3>2 DEF rec_vars, Rec!MutexInv, Rec!Inside, Rec!Outside
    <3>3. QED
      BY <3>1, <3>2 DEF Next, BarrierStep, BarStep, RwlockStep, VmemStep, SumStep, vars,
                        more_vars
  <2>3. QED  BY <2>1, <2>2
<1>3. Inv => BarriersHold  BY BarrierImplied, RecImplied DEF BarriersHold
<1>4. QED  BY <1>1, <1>2, <1>3, PTL DEF Spec

\* What a reader has printed since it took the lock is a snapshot of the array,
\* for every number of readers, writers and items and both kinds of the lock.
THEOREM SnapshotKept == Spec => []SnapshotWhileReading
<1>1. Init => Rwlock!RwlockInv  BY RwlockStart DEF Init
<1>2. Rwlock!RwlockInv /\ [Next]_vars => Rwlock!RwlockInv'
  <2> SUFFICES ASSUME Rwlock!RwlockInv, [Next]_vars PROVE Rwlock!RwlockInv'  OBVIOUS
  <2>1. CASE RwlockStep(Rwlock!Next)  BY <2>1, RwlockNext DEF RwlockStep
  <2>2. CASE UNCHANGED rwlock_vars
    BY <2>2 DEF rwlock_vars, Rwlock!RwlockInv, Rwlock!TypeOK, Rwlock!LockHeld,
                Rwlock!SeenIsThere, Rwlock!ItemsWhole
  <2>3. QED
    BY <2>1, <2>2 DEF Next, BarrierStep, BarStep, VmemStep, SumStep, RecStep, vars, First_four
<1>3. Rwlock!RwlockInv => SnapshotWhileReading
  BY RwlockImplied DEF SnapshotWhileReading
<1>4. QED  BY <1>1, <1>2, <1>3, PTL DEF Spec

\* The fraction of the progress bar is the work of the threads, and their report adds up
\* to it: WorkAccounted, for any finite set of threads and any amounts of work.
THEOREM WorkIsAccounted == Spec => []WorkAccounted
<1>1. Init => Bar!BarInv  BY BarStart DEF Init
<1>2. Bar!BarInv /\ [Next]_vars => Bar!BarInv'
  <2> SUFFICES ASSUME Bar!BarInv, [Next]_vars PROVE Bar!BarInv'  OBVIOUS
  <2>1. CASE BarStep(Bar!Next)  BY <2>1, BarNext DEF BarStep
  <2>2. CASE UNCHANGED bar_vars
    <3>1. Bar!BarTypes /\ (main # "join" => \A u \in Threads : bar_pc[u] = "done")
      BY DEF Bar!BarInv
    <3> QED BY <2>2, <3>1, BarSame DEF bar_vars, Bar!BarTypes
  <2>3. QED
    BY <2>1, <2>2 DEF Next, BarrierStep, RwlockStep, VmemStep, SumStep, RecStep, vars, First_four
<1>3. Bar!BarInv => WorkAccounted  BY BarImplied DEF WorkAccounted
<1>4. QED  BY <1>1, <1>2, <1>3, PTL DEF Spec

\* Both programs that sum an array up in threads print its sum.
THEOREM ArraysAreSummed == Spec => []SumOfArray
<1>1. Init => Vmem!VmemInv /\ Sum!SumInv  BY VmemStart, SumStart DEF Init
<1>2. Vmem!VmemInv /\ [Next]_vars => Vmem!VmemInv'
  <2> SUFFICES ASSUME Vmem!VmemInv, [Next]_vars PROVE Vmem!VmemInv'  OBVIOUS
  <2>1. CASE VmemStep(Vmem!Next)  BY <2>1, VmemNext DEF VmemStep
  <2>2. CASE UNCHANGED vmem_vars
    <3>1. VmemState' /\ VmemLoaded' /\ (sum # -1 => sum = SumFunction(data))'
      BY <2>2, VmemInvIs DEF vmem_vars, VmemState, VmemLoaded
    <3>2. PICK h, o : IsRound(h, o) /\ AddsUp(h, o)
      BY VmemInvIs
    <3>3. Portions(h, o)' = Portions(h, o)
      BY <2>2 DEF vmem_vars, Portions, Vmem!Part, Vmem!Counts
    <3>4. IsRound(h, o)' /\ AddsUp(h, o)'
      BY <2>2, <3>2, <3>3 DEF vmem_vars, IsRound, AddsUp, Vmem!InRound
    <3>5. (Vmem!VmemInv <=> /\ VmemState /\ VmemLoaded
                            /\ \E half, odd : IsRound(half, odd) /\ AddsUp(half, odd)
                            /\ sum # -1 => sum = SumFunction(data))'
      BY VmemInvIs, PTL
    <3> QED BY <3>1, <3>4, <3>5
  <2>3. QED
    BY <2>1, <2>2 DEF Next, BarrierStep, BarStep, RwlockStep, SumStep, RecStep, vars, First_four
<1>3. Sum!SumInv /\ [Next]_vars => Sum!SumInv'
  <2> SUFFICES ASSUME Sum!SumInv, [Next]_vars PROVE Sum!SumInv'  OBVIOUS
  <2>1. CASE SumStep(Sum!Next)  BY <2>1, SumNext DEF SumStep
  <2>2. CASE UNCHANGED sum_vars
    <3>1. SumState' /\ SumParts'
      <4>1. SumState /\ SumParts  BY SumInvIs
      <4> QED BY <2>2, <4>1 DEF sum_vars, SumState, SumParts, ThreadSum
    <3>2. (Sum!SumInv <=> SumState /\ SumParts)'
      BY SumInvIs, PTL
    <3> QED BY <3>1, <3>2
  <2>3. QED
    BY <2>1, <2>2 DEF Next, BarrierStep, BarStep, RwlockStep, VmemStep, RecStep, vars, more_vars
<1>4. Vmem!VmemInv /\ Sum!SumInv => SumOfArray
  BY VmemImplied, SumImplied DEF SumOfArray
<1>5. QED  BY <1>1, <1>2, <1>3, <1>4, PTL DEF Spec
==============================================================================
