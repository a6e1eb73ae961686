------------------------------ MODULE GridsProofs ------------------------------
(***************************************************************************)
(* Proofs about Grids, for every number of threads, nodes and grids, every *)
(* sequence of calls with any parameters and with every size of the        *)
(* communicator.                                                           *)
(***************************************************************************)
EXTENDS Grids, FiniteSetTheorems, WellFoundedInduction, TLAPS

-----------------------------------------------------------------------------
(* Sums over finite sets.                                                  *)

(* Induction: a set of numbers with 0 and all successors has all numbers,  *)
(* since the intervals below those it lacks have a least one.              *)
LEMMA AllNumbers ==
  ASSUME NEW S \in SUBSET Nat, 0 \in S, \A n \in S : n + 1 \in S
  PROVE  S = Nat
<1> SUFFICES ASSUME S # Nat PROVE FALSE
  OBVIOUS
<1> DEFINE T == { 0 .. n - 1 : n \in Nat \ S }
<1>1. T \subseteq FiniteSubsetsOf(Nat) /\ T # {}
  <2>1. \A n \in Nat : 0 .. n - 1 \in SUBSET Nat
    OBVIOUS
  <2>2. \A n \in Nat : IsFiniteSet(0 .. n - 1)
    BY FS_Interval
  <2> QED
    BY <2>1, <2>2 DEF FiniteSubsetsOf
<1>2. \E X \in T : \A Y \in T : <<Y, X>> \notin StrictSubsetOrdering(Nat)
  <2> HIDE DEF T
  <2> QED
    BY <1>1, FS_StrictSubsetOrderingWellFounded, WFMin
<1>3. PICK n \in Nat \ S : \A Y \in T : <<Y, 0 .. n - 1>> \notin StrictSubsetOrdering(Nat)
  BY <1>2
<1>4. n - 1 \in Nat \ S
  OBVIOUS
<1>5. 0 .. (n - 1) - 1 \in T
  BY <1>4
<1>6. /\ 0 .. (n - 1) - 1 \in SUBSET Nat /\ 0 .. n - 1 \in SUBSET Nat
      /\ 0 .. (n - 1) - 1 \subseteq 0 .. n - 1
      /\ n - 1 \in 0 .. n - 1 /\ n - 1 \notin 0 .. (n - 1) - 1
  BY <1>4
<1> QED
  BY <1>3, <1>5, <1>6 DEF StrictSubsetOrdering

(* The sums of a function over the subsets of a set, which the fold of the *)
(* community modules takes one chosen element after the other: in any      *)
(* order it comes to the same.                                             *)
IsSum(F, f, T) ==
    /\ F \in [SUBSET T -> Int] /\ F[{}] = 0
    /\ \A s \in SUBSET T : \A x \in s : F[s] = f[x] + F[s \ {x}]

(* They exist, by induction on the size of the set.                        *)
LEMMA SumExists ==
  ASSUME NEW T, IsFiniteSet(T), NEW f, \A x \in T : f[x] \in Int
  PROVE  \E F : IsSum(F, f, T)
<1> DEFINE Sums(U) == \E F : IsSum(F, f, U)
           N == { n \in Nat : \A U \in SUBSET T : Cardinality(U) = n => Sums(U) }
<1>1. 0 \in N
  <2> SUFFICES ASSUME NEW U \in SUBSET T, Cardinality(U) = 0 PROVE Sums(U)
    OBVIOUS
  <2>1. U = {}
    BY FS_Subset, FS_EmptySet
  <2> DEFINE F == [s \in SUBSET U |-> 0]
  <2>2. IsSum(F, f, U)
    BY <2>1 DEF IsSum
  <2> QED
    BY <2>2
<1>2. ASSUME NEW n \in N PROVE n + 1 \in N
  <2> SUFFICES ASSUME NEW U \in SUBSET T, Cardinality(U) = n + 1 PROVE Sums(U)
    OBVIOUS
  <2>1. IsFiniteSet(U) /\ U # {}
    BY FS_Subset, FS_EmptySet
  <2>2. PICK x \in U : TRUE
    BY <2>1
  <2>3. U \ {x} \in SUBSET T /\ Cardinality(U \ {x}) = n
    <3>1. Cardinality(U \ {x}) = Cardinality(U) - 1
      BY <2>1, FS_RemoveElement
    <3> QED
      BY <3>1
  <2>4. Sums(U \ {x})
    BY <2>3
  <2>5. PICK G : IsSum(G, f, U \ {x})
    BY <2>4
  <2>6. /\ G \in [SUBSET (U \ {x}) -> Int] /\ G[{}] = 0
        /\ \A s \in SUBSET (U \ {x}) : \A y \in s : G[s] = f[y] + G[s \ {y}]
    BY <2>5 DEF IsSum
  <2>7. f[x] \in Int /\ \A y \in U : f[y] \in Int
    OBVIOUS
  <2> DEFINE F == [s \in SUBSET U |-> IF x \in s THEN f[x] + G[s \ {x}] ELSE G[s]]
  <2>8. F \in [SUBSET U -> Int] /\ F[{}] = 0
    <3>1. ASSUME NEW s \in SUBSET U
          PROVE  (IF x \in s THEN f[x] + G[s \ {x}] ELSE G[s]) \in Int
      <4>1. s \ {x} \in SUBSET (U \ {x}) /\ (x \notin s => s \in SUBSET (U \ {x}))
        OBVIOUS
      <4>2. G[s \ {x}] \in Int /\ (x \notin s => G[s] \in Int)
        BY <2>6, <4>1
      <4> QED
        BY <2>7, <4>2
    <3> QED
      BY <2>6, <3>1
  <2>9. ASSUME NEW s \in SUBSET U, NEW y \in s PROVE F[s] = f[y] + F[s \ {y}]
    <3>1. s \ {y} \in SUBSET U
      OBVIOUS
    <3>2. CASE y = x
      <4>1. F[s] = f[x] + G[s \ {x}] /\ F[s \ {x}] = G[s \ {x}]
        BY <3>2
      <4> QED
        BY <3>2, <4>1
    <3>3. CASE y # x /\ x \in s
      <4>1. F[s] = f[x] + G[s \ {x}] /\ F[s \ {y}] = f[x] + G[(s \ {y}) \ {x}]
        BY <3>1, <3>3
      <4>2. s \ {x} \in SUBSET (U \ {x}) /\ y \in s \ {x} /\ (s \ {x}) \ {y} = (s \ {y}) \ {x}
            /\ (s \ {y}) \ {x} \in SUBSET (U \ {x})
        BY <3>3
      <4>3. G[s \ {x}] = f[y] + G[(s \ {y}) \ {x}]
        <5>1. \A z \in s \ {x} : G[s \ {x}] = f[z] + G[(s \ {x}) \ {z}]
          BY <2>6, <4>2
        <5> QED
          BY <4>2, <5>1
      <4>4. PICK a \in Int, b \in Int, c \in Int : a = f[x] /\ b = f[y] /\ c = G[(s \ {y}) \ {x}]
        BY <2>6, <2>7, <4>2
      <4> HIDE DEF F
      <4> QED
        BY <4>1, <4>3, <4>4
    <3>4. CASE x \notin s
      <4>1. s \in SUBSET (U \ {x}) /\ F[s] = G[s] /\ F[s \ {y}] = G[s \ {y}]
        BY <3>1, <3>4
      <4> QED
        BY <2>6, <4>1
    <3> QED
      BY <3>2, <3>3, <3>4
  <2>10. IsSum(F, f, U)
    <3> HIDE DEF F
    <3> QED
      BY <2>8, <2>9 DEF IsSum
  <2> QED
    BY <2>10
<1>3. N = Nat
  <2>1. N \in SUBSET Nat
    OBVIOUS
  <2> HIDE DEF N
  <2> QED
    BY <1>1, <1>2, <2>1, AllNumbers
<1>4. Cardinality(T) \in Nat
  BY FS_CardinalityType
<1>5. Sums(T)
  <2> HIDE DEF Sums
  <2> QED
    BY <1>3, <1>4
<1> QED
  BY <1>5

(* A function that takes one chosen element after the other is the sum.    *)
Chosen(s) == CHOOSE x \in s : TRUE

TakesChosen(i, f, T) ==
    i = [s \in SUBSET T |-> IF s = {} THEN 0 ELSE f[Chosen(s)] + i[s \ {Chosen(s)}]]

(* There is no other such function.                                       *)
LEMMA SumUnique ==
  ASSUME NEW T, IsFiniteSet(T), NEW f, NEW F, IsSum(F, f, T),
         NEW i, TakesChosen(i, f, T)
  PROVE  i = F
<1> DEFINE N == { n \in Nat : \A s \in SUBSET T : Cardinality(s) = n => i[s] = F[s] }
<1>1. /\ F \in [SUBSET T -> Int] /\ F[{}] = 0
      /\ \A s \in SUBSET T : \A x \in s : F[s] = f[x] + F[s \ {x}]
  BY DEF IsSum
<1>2. ASSUME NEW s \in SUBSET T
      PROVE  /\ s = {} => i[s] = 0
             /\ s # {} => Chosen(s) \in s /\ i[s] = f[Chosen(s)] + i[s \ {Chosen(s)}]
  BY DEF Chosen, TakesChosen
<1>3. 0 \in N
  <2> SUFFICES ASSUME NEW s \in SUBSET T, Cardinality(s) = 0 PROVE i[s] = F[s]
    OBVIOUS
  <2>1. s = {}
    BY FS_Subset, FS_EmptySet
  <2> QED
    BY <1>1, <1>2, <2>1
<1>4. ASSUME NEW n \in N PROVE n + 1 \in N
  <2>0. n \in Nat
    OBVIOUS
  <2> SUFFICES ASSUME NEW s \in SUBSET T, Cardinality(s) = n + 1 PROVE i[s] = F[s]
    BY <2>0
  <2>1. IsFiniteSet(s) /\ s # {}
    BY FS_Subset, FS_EmptySet
  <2>2. PICK x \in s : x = Chosen(s)
    BY <1>2, <2>1
  <2>3. s \ {x} \in SUBSET T /\ Cardinality(s \ {x}) = n
    <3>1. Cardinality(s \ {x}) = Cardinality(s) - 1
      BY <2>1, FS_RemoveElement
    <3> QED
      BY <3>1
  <2>4. i[s \ {x}] = F[s \ {x}]
    BY <2>3
  <2> QED
    BY <1>1, <1>2, <2>1, <2>2, <2>4
<1>5. N = Nat
  <2>1. N \in SUBSET Nat
    OBVIOUS
  <2> HIDE DEF N
  <2> QED
    BY <1>3, <1>4, <2>1, AllNumbers
<1>6. ASSUME NEW s \in SUBSET T PROVE i[s] = F[s]
  <2>1. Cardinality(s) \in Nat
    BY FS_Subset, FS_CardinalityType
  <2> QED
    BY <1>5, <2>1
<1>7. i = [s \in SUBSET T |-> i[s]]
  BY DEF TakesChosen
<1> QED
  BY <1>1, <1>6, <1>7

(* The sum of the community modules, of a function.                        *)
SumOf(f, S) == MapThenSumSet(LAMBDA x : f[x], S)

LEMMA SumIs ==
  ASSUME NEW T, IsFiniteSet(T), NEW f, NEW F, IsSum(F, f, T)
  PROVE  SumOf(f, T) = F[T]
<1> DEFINE it == CHOOSE i : TakesChosen(i, f, T)
<1>1. TakesChosen(F, f, T)
  <2>1. \A s \in SUBSET T : F[s] = IF s = {} THEN 0 ELSE f[Chosen(s)] + F[s \ {Chosen(s)}]
    BY DEF IsSum, Chosen
  <2>2. F = [s \in SUBSET T |-> F[s]]
    BY DEF IsSum
  <2> QED
    BY <2>1, <2>2 DEF TakesChosen
<1>2. TakesChosen(it, f, T)
  BY <1>1
<1>3. SumOf(f, T) = it[T]
  BY DEF SumOf, MapThenSumSet, MapThenFoldSet, TakesChosen, Chosen
<1> HIDE DEF it
<1>4. it = F
  BY <1>2, SumUnique
<1> QED
  BY <1>3, <1>4

(* It is an integer, and any element can be taken first.                   *)
LEMMA SumFacts ==
  ASSUME NEW T, IsFiniteSet(T), NEW f, \A x \in T : f[x] \in Int
  PROVE  /\ SumOf(f, T) \in Int
         /\ T = {} => SumOf(f, T) = 0
         /\ \A x \in T : SumOf(f, T) = f[x] + SumOf(f, T \ {x})
<1>1. PICK F : IsSum(F, f, T)
  BY SumExists
<1>2. SumOf(f, T) = F[T]
  BY <1>1, SumIs
<1>3. ASSUME NEW x \in T PROVE SumOf(f, T \ {x}) = F[T \ {x}]
  <2>1. IsFiniteSet(T \ {x}) /\ \A y \in T \ {x} : f[y] \in Int
    BY FS_RemoveElement
  <2> DEFINE G == [s \in SUBSET (T \ {x}) |-> F[s]]
  <2>2. IsSum(G, f, T \ {x})
    <3>1. G \in [SUBSET (T \ {x}) -> Int] /\ G[{}] = 0
      BY <1>1 DEF IsSum
    <3>2. ASSUME NEW s \in SUBSET (T \ {x}), NEW y \in s PROVE G[s] = f[y] + G[s \ {y}]
      <4>1. s \in SUBSET T /\ s \ {y} \in SUBSET (T \ {x})
        OBVIOUS
      <4>2. F[s] = f[y] + F[s \ {y}]
        BY <1>1, <4>1 DEF IsSum
      <4> QED
        BY <4>1, <4>2
    <3> HIDE DEF G
    <3> QED
      BY <3>1, <3>2 DEF IsSum
  <2>3. SumOf(f, T \ {x}) = G[T \ {x}]
    <3> HIDE DEF G
    <3> QED
      BY <2>1, <2>2, SumIs
  <2> QED
    BY <2>3
<1> QED
  BY <1>1, <1>2, <1>3 DEF IsSum

(* It depends on the values over the set only ...                          *)
LEMMA SumSame ==
  ASSUME NEW T, IsFiniteSet(T), NEW f, NEW h,
         \A x \in T : f[x] \in Int /\ h[x] = f[x]
  PROVE  SumOf(h, T) = SumOf(f, T)
<1>1. PICK F : IsSum(F, f, T)
  BY SumExists
<1>2. IsSum(F, h, T)
  <2>1. \A s \in SUBSET T : \A x \in s : F[s] = h[x] + F[s \ {x}]
    <3>1. ASSUME NEW s \in SUBSET T, NEW x \in s PROVE F[s] = h[x] + F[s \ {x}]
      <4>1. F[s] = f[x] + F[s \ {x}] /\ h[x] = f[x]
        BY <1>1 DEF IsSum
      <4> QED
        BY <4>1
    <3> QED
      BY <3>1
  <2> QED
    BY <1>1, <2>1 DEF IsSum
<1> QED
  BY <1>1, <1>2, SumIs

(* ... and changes with one of them as that one does.                      *)
LEMMA SumChange ==
  ASSUME NEW T, IsFiniteSet(T), NEW f, NEW h, NEW x \in T,
         \A y \in T : f[y] \in Int /\ h[y] \in Int,
         \A y \in T \ {x} : h[y] = f[y]
  PROVE  SumOf(h, T) = SumOf(f, T) + h[x] - f[x]
<1>1. IsFiniteSet(T \ {x})
  BY FS_RemoveElement
<1>2. SumOf(h, T \ {x}) = SumOf(f, T \ {x})
  BY <1>1, SumSame
<1>3. /\ SumOf(f, T) = f[x] + SumOf(f, T \ {x})
      /\ SumOf(h, T) = h[x] + SumOf(h, T \ {x})
  BY SumFacts
<1>4. SumOf(f, T \ {x}) \in Int
  BY <1>1, SumFacts
<1>5. PICK a \in Int, b \in Int, c \in Int : a = f[x] /\ b = h[x] /\ c = SumOf(f, T \ {x})
  BY <1>4
<1> QED
  BY <1>2, <1>3, <1>5

(* The sum of differences is the difference of the sums, and so for sums.  *)
LEMMA SumLinear ==
  ASSUME NEW T, IsFiniteSet(T), NEW f, NEW g, NEW h,
         \A x \in T : f[x] \in Int /\ g[x] \in Int
  PROVE  /\ (\A x \in T : h[x] = f[x] - g[x]) => SumOf(h, T) = SumOf(f, T) - SumOf(g, T)
         /\ (\A x \in T : h[x] = f[x] + g[x]) => SumOf(h, T) = SumOf(f, T) + SumOf(g, T)
<1>1. PICK F : IsSum(F, f, T)
  BY SumExists
<1>2. PICK G : IsSum(G, g, T)
  BY SumExists
<1>3. /\ F \in [SUBSET T -> Int] /\ F[{}] = 0 /\ SumOf(f, T) = F[T]
      /\ G \in [SUBSET T -> Int] /\ G[{}] = 0 /\ SumOf(g, T) = G[T]
  <2>1. SumOf(f, T) = F[T]
    BY <1>1, SumIs
  <2>2. SumOf(g, T) = G[T]
    BY <1>2, SumIs
  <2> QED
    BY <1>1, <1>2, <2>1, <2>2 DEF IsSum
<1>4. ASSUME NEW s \in SUBSET T, NEW x \in s
      PROVE  /\ F[s] = f[x] + F[s \ {x}] /\ G[s] = g[x] + G[s \ {x}]
             /\ f[x] \in Int /\ g[x] \in Int
             /\ F[s \ {x}] \in Int /\ G[s \ {x}] \in Int
             /\ F[s] \in Int /\ G[s] \in Int /\ s \ {x} \in SUBSET T
  <2>1. s \ {x} \in SUBSET T
    OBVIOUS
  <2> QED
    BY <1>1, <1>2, <1>3, <2>1 DEF IsSum
<1>5. ASSUME \A x \in T : h[x] = f[x] - g[x]
      PROVE  SumOf(h, T) = SumOf(f, T) - SumOf(g, T)
  <2> DEFINE H == [s \in SUBSET T |-> F[s] - G[s]]
  <2>1. H \in [SUBSET T -> Int] /\ H[{}] = 0
    BY <1>3
  <2>2. ASSUME NEW s \in SUBSET T, NEW x \in s PROVE H[s] = h[x] + H[s \ {x}]
    <3>1. H[s] = F[s] - G[s] /\ H[s \ {x}] = F[s \ {x}] - G[s \ {x}] /\ h[x] = f[x] - g[x]
      BY <1>4, <1>5
    <3>2. PICK a \in Int, b \in Int, c \in Int, d \in Int :
             a = f[x] /\ b = g[x] /\ c = F[s \ {x}] /\ d = G[s \ {x}]
      BY <1>4
    <3>3. F[s] = a + c /\ G[s] = b + d
      BY <1>4, <3>2
    <3> HIDE DEF H
    <3> QED
      BY <3>1, <3>2, <3>3
  <2>3. H[T] = F[T] - G[T]
    OBVIOUS
  <2> HIDE DEF H
  <2>4. IsSum(H, h, T)
    BY <2>1, <2>2 DEF IsSum
  <2> QED
    BY <1>3, <2>3, <2>4, SumIs
<1>6. ASSUME \A x \in T : h[x] = f[x] + g[x]
      PROVE  SumOf(h, T) = SumOf(f, T) + SumOf(g, T)
  <2> DEFINE H == [s \in SUBSET T |-> F[s] + G[s]]
  <2>1. H \in [SUBSET T -> Int] /\ H[{}] = 0
    BY <1>3
  <2>2. ASSUME NEW s \in SUBSET T, NEW x \in s PROVE H[s] = h[x] + H[s \ {x}]
    <3>1. H[s] = F[s] + G[s] /\ H[s \ {x}] = F[s \ {x}] + G[s \ {x}] /\ h[x] = f[x] + g[x]
      BY <1>4, <1>6
    <3>2. PICK a \in Int, b \in Int, c \in Int, d \in Int :
             a = f[x] /\ b = g[x] /\ c = F[s \ {x}] /\ d = G[s \ {x}]
      BY <1>4
    <3>3. F[s] = a + c /\ G[s] = b + d
      BY <1>4, <3>2
    <3> HIDE DEF H
    <3> QED
      BY <3>1, <3>2, <3>3
  <2>3. H[T] = F[T] + G[T]
    OBVIOUS
  <2> HIDE DEF H
  <2>4. IsSum(H, h, T)
    BY <2>1, <2>2 DEF IsSum
  <2> QED
    BY <1>3, <2>3, <2>4, SumIs
<1> QED
  BY <1>5, <1>6

(* The sum over the domains that getCounter returns.                       *)
ByDomain(g, type) == [d \in 0 .. domains[g] - 1 |-> Get(counter[g][d], type)]

(* The counter that getCounter selects by a name.                          *)
TypeOf(name) == IF name \in DOMAIN Name2Type THEN Name2Type[name] ELSE "INVALID"

(* What getCounter returns is the sum of that counter over the domains.    *)
LEMMA CounterIs ==
  ASSUME NEW g \in Grid, NEW name, domains[g] \in Nat,
         \A d \in 0 .. domains[g] - 1 : Get(counter[g][d], TypeOf(name)) \in Int
  PROVE  GetCounter(g, name) = SumOf(ByDomain(g, TypeOf(name)), 0 .. domains[g] - 1)
<1> DEFINE T == 0 .. domains[g] - 1
           f == ByDomain(g, TypeOf(name))
           Takes(i) == i = [s \in SUBSET T |->
                              IF s = {} THEN 0
                              ELSE Get(counter[g][Chosen(s)], TypeOf(name)) + i[s \ {Chosen(s)}]]
           it == CHOOSE i : Takes(i)
<1>1. IsFiniteSet(T)
  BY FS_Interval
<1>2. \A x \in T : f[x] \in Int /\ f[x] = Get(counter[g][x], TypeOf(name))
  BY DEF ByDomain
<1> HIDE DEF f
<1>3. PICK F : IsSum(F, f, T)
  BY <1>1, <1>2, SumExists
<1>4. \A s \in SUBSET T : s # {} => /\ Chosen(s) \in s
                                    /\ f[Chosen(s)] = Get(counter[g][Chosen(s)], TypeOf(name))
  BY <1>2 DEF Chosen
<1>5. Takes(F)
  <2>1. \A s \in SUBSET T : F[s] = IF s = {} THEN 0
                                  ELSE Get(counter[g][Chosen(s)], TypeOf(name)) + F[s \ {Chosen(s)}]
    <3> SUFFICES ASSUME NEW s \in SUBSET T
                 PROVE  F[s] = IF s = {} THEN 0
                               ELSE Get(counter[g][Chosen(s)], TypeOf(name)) + F[s \ {Chosen(s)}]
      OBVIOUS
    <3>1. CASE s = {}
      BY <1>3, <3>1 DEF IsSum
    <3>2. CASE s # {}
      <4>1. Chosen(s) \in s /\ f[Chosen(s)] = Get(counter[g][Chosen(s)], TypeOf(name))
        BY <1>4, <3>2
      <4>2. F[s] = f[Chosen(s)] + F[s \ {Chosen(s)}]
        BY <1>3, <4>1 DEF IsSum
      <4> QED
        BY <3>2, <4>1, <4>2
    <3> QED
      BY <3>1, <3>2
  <2>2. F = [s \in SUBSET T |-> F[s]]
    BY <1>3 DEF IsSum
  <2> QED
    BY <2>1, <2>2
<1>6. Takes(it)
  BY <1>5
<1>7. TakesChosen(it, f, T)
  <2> HIDE DEF it
  <2>1. \A s \in SUBSET T : it[s] = IF s = {} THEN 0 ELSE f[Chosen(s)] + it[s \ {Chosen(s)}]
    BY <1>4, <1>6
  <2>2. it = [s \in SUBSET T |-> it[s]]
    BY <1>6
  <2> QED
    BY <2>1, <2>2 DEF TakesChosen
<1>8. GetCounter(g, name) = it[T]
  BY DEF GetCounter, TypeOf, MapThenSumSet, MapThenFoldSet, Chosen
<1>9. it = F
  <2> HIDE DEF it
  <2> QED
    BY <1>1, <1>3, <1>7, SumUnique
<1>10. SumOf(f, T) = F[T]
  BY <1>1, <1>3, SumIs
<1> HIDE DEF it
<1> QED
  BY <1>8, <1>9, <1>10 DEF f

-----------------------------------------------------------------------------
(* The inductive invariant: what the variables hold ...                    *)
Phase == {"none", "adding", "created", "open", "closed"}

Types ==
    /\ setup \in Setup
    /\ pointers \in Seq(Grid \cup {NoGrid})
    /\ handle \in [Grid -> Int]
    /\ phase \in [Grid -> Phase]
    /\ done \in [Grid -> Nat]
    /\ params = [g \in Grid |-> params[g]]
    /\ comm \in [Grid -> [size : Nat, duplicate : BOOLEAN]]
    /\ containerType = [g \in Grid |-> containerType[g]]
    /\ domains \in [Grid -> Nat]
    /\ counter \in [Grid -> [Node -> [Native -> Int]]]
    /\ mutex \in [Grid -> [Node -> [Native -> Thread \cup {NoThread}]]]
    /\ commThread \in BOOLEAN
    /\ communicators \in Int
    /\ pc \in [Thread -> {"idle", "add", "count", "store"}]
    /\ using \in [Thread -> Grid \cup {NoGrid}]
    /\ found \in [Thread -> Outcome]
    /\ todo = [t \in Thread |-> todo[t]]
    /\ loaded \in [Thread -> Int]
    /\ served \in [Grid -> [Outcome -> Nat]]

(* ... handles are numbers of the table, no two the same; the thread that  *)
(* adds a grid has entered it last and holds the lock ...                  *)
Numbered == { g \in Grid : phase[g] \in {"created", "open", "closed"} }

HandlesRight ==
    /\ \A g \in Numbered :
          /\ handle[g] \in 0 .. Len(pointers) - 1
          /\ pointers[handle[g] + 1] = IF phase[g] = "closed" THEN NoGrid ELSE g
    /\ \A g, h \in Numbered : handle[g] = handle[h] => g = h

AddsRight ==
    \A t \in Thread : pc[t] = "add" =>
        /\ lock = t
        /\ using[t] \in Grid /\ phase[using[t]] = "adding"
        /\ Len(pointers) \in Nat \ {0} /\ pointers[Len(pointers)] = using[t]
        /\ \A g \in Numbered : handle[g] # Len(pointers) - 1

(* ... the duplicates of communicators are those of the grids ...          *)
Duplicated == { g \in Grid : Alive(g) /\ comm[g].duplicate }

DuplicatesRight ==
    /\ IsFiniteSet(Duplicated)
    /\ communicators = Cardinality(Duplicated) + (IF commThread THEN 1 ELSE 0)
    /\ \A g \in Grid : phase[g] \in {"none", "adding"} => ~comm[g].duplicate

(* ... a communicator of more than one process has been given, and the     *)
(* classes of an open grid suit its parameters ...                         *)
Given(g) == \E i \in 1 .. done[g] : setup.calls[i].call = "setComm"

SizesRight ==
    \A g \in Grid : comm[g].size = 1 \/ (comm[g].size = setup.size /\ Given(g))

Suits(g) ==
    LET level == ClassesOf[containerType[g]][1]
        mpi == ClassesOf[containerType[g]][2]
        numa == ClassesOf[containerType[g]][3]
        Type == Param(g, "GRID", "FULL", 0)
    IN  /\ containerType[g] \in DOMAIN ClassesOf
        /\ domains[g] = TotalDomains(g)
        /\ level = "Full" => comm[g].size = 1 /\ domains[g] = 1
        /\ level = "FullDist" /\ mpi = "MPINo" => comm[g].size = 1 /\ numa = "NumaFull"
        /\ mpi # "MPINo" =>
              comm[g].size # 1 /\ Param(g, "MPI_COMMUNICATION", "WINDOW", 0) # "OFF"
        /\ level = "FullDist" /\ numa # "NumaNo" => domains[g] # 1
        /\ level \in {"Cache", "CacheDist"} => Type = "CACHE"
        /\ level = "PassThrough" => Type = "PASS_THROUGH"
        /\ level \in {"Full", "FullDist"} => Type \notin {"CACHE", "PASS_THROUGH"}

ClassesRight == \A g \in Grid : phase[g] = "open" => Suits(g)

(* ... values came and come from where the parameters let them ...         *)
Fits(g, o) ==
    LET Type == Param(g, "GRID", "FULL", 0)
    IN  /\ o # "stray"
        /\ o = "file" => Type \in {"CACHE", "PASS_THROUGH"}
        /\ Type = "PASS_THROUGH" => o = "file"
        /\ o = "mpi" =>
              Given(g) /\ setup.size > 1 /\ Param(g, "MPI_COMMUNICATION", "WINDOW", 0) # "OFF"
        /\ o = "numa" =>
              Cardinality(Node) > 1 /\ Param(g, "NUMA_COMMUNICATION", "ON", 0) # "OFF"

Busy == { t \in Thread : pc[t] \in {"count", "store"} }

CallsRight ==
    \A t \in Busy :
        /\ using[t] \in Grid /\ phase[using[t]] = "open"
        /\ Fits(using[t], found[t])
        /\ \/ todo[t] = Counted(found[t])
           \/ Len(Counted(found[t])) = 2 /\ todo[t] = <<Counted(found[t])[2]>>

ServedRight ==
    \A g \in Grid : \A o \in Outcome :
        served[g][o] > 0 => Fits(g, o) /\ phase[g] \in {"open", "closed"}

(* ... and with the mutexes the counters are the sums of what was served   *)
(* and of what is under way.                                               *)
StoresRight ==
    \A t \in Thread : pc[t] = "store" =>
        LET d == DomainOf(using[t], t)
            c == Head(todo[t])
        IN  mutex[using[t]][d][c] = t /\ loaded[t] = counter[using[t]][d][c]

Half(g) == { t \in Busy : using[t] = g /\ todo[t] # Counted(found[t]) }

Total(g, c) == SumOf(ByDomain(g, c), 0 .. domains[g] - 1)

CountsRight ==
    /\ \A g \in Grid : phase[g] \in {"none", "adding", "created"} =>
          \A d \in Node : \A c \in Native : counter[g][d][c] = 0
    /\ \A g \in Grid : phase[g] = "open" =>
          /\ Total(g, "ACCESS") = SumOf(served[g], Outcome) + Cardinality(Half(g))
          /\ Total(g, "NUMA") = served[g]["numa"]
          /\ Total(g, "MPI") = served[g]["mpi"]
          /\ Total(g, "FILE") = served[g]["file"]

Inv ==
    /\ Types /\ HandlesRight /\ AddsRight /\ DuplicatesRight
    /\ SizesRight /\ ClassesRight /\ CallsRight /\ ServedRight
    /\ ThreadsafeCounter => StoresRight /\ CountsRight

-----------------------------------------------------------------------------
(* A grid that is there is reached by its variable.                        *)
LEMMA TargetIs ==
  ASSUME Types, HandlesRight, NEW g \in Grid, Alive(g)
  PROVE  Target(g) = g
<1>1. phase[g] # "closed" /\ g \in Numbered
  BY DEF Alive, Numbered
<1>2. FortranTarget(g) = g
  BY <1>1 DEF HandlesRight, FortranTarget
<1> QED
  BY <1>2 DEF Target, PointerTarget

(* What the calls do, once the variable has led to its grid.               *)
LEMMA SetThreadsIs ==
  ASSUME Types, HandlesRight, NEW t \in Thread, NEW g \in Grid, SetThreads(t, g)
  PROVE  /\ phase[g] = "created" /\ done' = [done EXCEPT ![g] = @ + 1]
         /\ UNCHANGED <<tableVars, setup, phase, params, comm, containerVars, counterVars,
                        commVars, callVars>>
BY DEF SetThreads, NextCall

LEMMA SetCommIs ==
  ASSUME Types, HandlesRight, NEW t \in Thread, NEW g \in Grid, SetComm(t, g)
  PROVE  /\ phase[g] = "created" /\ done' = [done EXCEPT ![g] = @ + 1]
         /\ setup.calls[done[g] + 1].call = "setComm"
         /\ comm' = [comm EXCEPT ![g] = [size |-> setup.size, duplicate |-> TRUE]]
         /\ communicators' = AfterInit(g)
         /\ UNCHANGED <<tableVars, setup, phase, params, threads, containerVars, counterVars,
                        commThread, starts, callVars>>
<1>1. phase[g] = "created"
  BY DEF SetComm, NextCall
<1>2. Target(g) = g
  BY <1>1, TargetIs DEF Alive
<1> QED
  BY <1>1, <1>2 DEF SetComm, NextCall, InitComm

LEMMA SetParamIs ==
  ASSUME Types, HandlesRight, NEW t \in Thread, NEW g \in Grid, SetParam(t, g)
  PROVE  /\ phase[g] = "created" /\ done' = [done EXCEPT ![g] = @ + 1]
         /\ \E p : params' = [params EXCEPT ![g] = p]
         /\ UNCHANGED <<tableVars, setup, phase, threads, comm, containerVars, counterVars,
                        commVars, callVars>>
<1>1. phase[g] = "created"
  BY DEF SetParam, NextCall
<1>2. Target(g) = g
  BY <1>1, TargetIs DEF Alive
<1> QED
  BY <1>1, <1>2 DEF SetParam, NextCall

LEMMA OpenIs ==
  ASSUME Types, HandlesRight, NEW g \in Grid, Open(g)
  PROVE  /\ \A t \in Thread : pc[t] = "idle"
         /\ phase[g] = "created" /\ threads[g] = Cardinality(Thread)
         /\ containerType' = [containerType EXCEPT ![g] = ContainerType(g)]
         /\ domains' = [domains EXCEPT ![g] = TotalDomains(g)]
         /\ IF Reset(g)
            THEN /\ comm' = [comm EXCEPT ![g] = [size |-> 1, duplicate |-> TRUE]]
                 /\ communicators' = AfterInit(g)
            ELSE UNCHANGED <<comm, communicators>>
         /\ phase' = [phase EXCEPT ![g] = "open"]
         /\ UNCHANGED <<tableVars, setup, done, params, threads, counterVars, commThread,
                        starts, callVars>>
<1>1. phase[g] = "created"
  BY DEF Open
<1>2. Target(g) = g
  BY <1>1, TargetIs DEF Alive
<1> QED
  BY <1>1, <1>2 DEF Open, InitComm

LEMMA GetAtIs ==
  ASSUME Types, HandlesRight, NEW t \in Thread, NEW g \in Grid, GetAt(t, g)
  PROVE  /\ pc[t] = "idle" /\ phase[g] = "open"
         /\ \E outcome \in Results(g, t) :
               /\ found' = [found EXCEPT ![t] = outcome]
               /\ todo' = [todo EXCEPT ![t] = Counted(outcome)]
         /\ using' = [using EXCEPT ![t] = g]
         /\ pc' = [pc EXCEPT ![t] = "count"]
         /\ UNCHANGED <<tableVars, configVars, containerVars, counterVars, commVars, served>>
<1>1. phase[g] = "open"
  BY DEF GetAt
<1>2. Target(g) = g
  BY <1>1, TargetIs DEF Alive
<1> QED
  BY <1>1, <1>2 DEF GetAt

LEMMA CloseIs ==
  ASSUME Types, HandlesRight, NEW t \in Thread, NEW g \in Grid, Close(t, g)
  PROVE  /\ pc[t] = "idle" /\ Alive(g)
         /\ \A u \in Busy : using[u] # g
         /\ pointers' = [pointers EXCEPT ![handle[g] + 1] = NoGrid]
         /\ communicators' = communicators - (IF comm[g].duplicate THEN 1 ELSE 0)
         /\ phase' = [phase EXCEPT ![g] = "closed"]
         /\ UNCHANGED <<lock, handle, setup, done, params, threads, comm, containerVars,
                        counterVars, commThread, starts, callVars>>
<1>1. Alive(g)
  BY DEF Close
<1>2. Target(g) = g
  BY <1>1, TargetIs
<1> QED
  BY <1>1, <1>2 DEF Close, Busy

-----------------------------------------------------------------------------
(* Handles.                                                                *)
LEMMA HandlesStep ==
  ASSUME Types, HandlesRight, AddsRight, Next
  PROVE  HandlesRight' /\ AddsRight'
<1>1. CASE UNCHANGED <<pointers, handle, phase, lock>> /\ \A t \in Thread : pc'[t] = "add" => pc[t] = "add" /\ using'[t] = using[t]
  <2>1. Numbered' = Numbered
    BY <1>1 DEF Numbered
  <2> QED
    BY <1>1, <2>1 DEF HandlesRight, AddsRight
<1>2. ASSUME NEW t \in Thread, NEW g \in Grid, Create(t, g) PROVE HandlesRight' /\ AddsRight'
  <2>1. /\ phase' = [phase EXCEPT ![g] = "adding"] /\ phase[g] = "none" /\ lock = NoThread /\ lock' = t
        /\ pointers' = Append(pointers, g) /\ handle' = handle
        /\ pc' = [pc EXCEPT ![t] = "add"] /\ using' = [using EXCEPT ![t] = g]
    BY <1>2 DEF Create
  <2>2. Numbered' = Numbered /\ g \notin Numbered /\ \A h \in Numbered : phase'[h] = phase[h]
    BY <2>1 DEF Numbered, Types, Phase
  <2>3. /\ Len(pointers) \in Nat /\ Len(pointers') = Len(pointers) + 1 /\ pointers'[Len(pointers')] = g
        /\ \A i \in 1 .. Len(pointers) : pointers'[i] = pointers[i]
    BY <2>1 DEF Types
  <2>4. \A u \in Thread : pc[u] # "add"
    BY <2>1, GridsAssumption DEF AddsRight
  <2>5. HandlesRight'
    BY <2>1, <2>2, <2>3 DEF HandlesRight
  <2>6. AddsRight'
    <3> SUFFICES ASSUME NEW u \in Thread, pc'[u] = "add"
                 PROVE  /\ lock' = u
                        /\ using'[u] \in Grid /\ phase'[using'[u]] = "adding"
                        /\ Len(pointers') \in Nat \ {0} /\ pointers'[Len(pointers')] = using'[u]
                        /\ \A h \in Numbered' : handle'[h] # Len(pointers') - 1
      BY DEF AddsRight
    <3>1. u = t
      BY <2>1, <2>4 DEF Types
    <3>2. \A h \in Numbered' : handle'[h] # Len(pointers') - 1
      BY <2>1, <2>2, <2>3 DEF HandlesRight
    <3> QED
      BY <2>1, <2>3, <3>1, <3>2 DEF Types
  <2> QED
    BY <2>5, <2>6
<1>3. ASSUME NEW t \in Thread, CreateDone(t) PROVE HandlesRight' /\ AddsRight'
  <2>1. /\ pc[t] = "add" /\ phase' = [phase EXCEPT ![using[t]] = "created"] /\ pointers' = pointers
        /\ handle' = [handle EXCEPT ![using[t]] = Len(pointers) - 1]
        /\ pc' = [pc EXCEPT ![t] = "idle"] /\ using' = [using EXCEPT ![t] = NoGrid]
    BY <1>3 DEF CreateDone
  <2> DEFINE g == using[t]
  <2>2. /\ g \in Grid /\ phase[g] = "adding" /\ Len(pointers) \in Nat \ {0} /\ pointers[Len(pointers)] = g
        /\ \A h \in Numbered : handle[h] # Len(pointers) - 1
        /\ \A u \in Thread : pc[u] = "add" => u = t
    BY <2>1, GridsAssumption DEF AddsRight
  <2> HIDE DEF g
  <2>3. /\ Numbered' = Numbered \cup {g} /\ g \notin Numbered
        /\ \A h \in Numbered : phase'[h] = phase[h] /\ handle'[h] = handle[h]
        /\ phase'[g] = "created" /\ handle'[g] = Len(pointers) - 1
    BY <2>1, <2>2 DEF Numbered, Types, Phase, g
  <2>4. HandlesRight'
    BY <2>1, <2>2, <2>3 DEF HandlesRight
  <2>5. AddsRight'
    BY <2>1, <2>2 DEF AddsRight, Types
  <2> QED
    BY <2>4, <2>5
<1>4. ASSUME NEW t \in Thread, NEW g \in Grid, Close(t, g) PROVE HandlesRight' /\ AddsRight'
  <2>1. /\ Alive(g) /\ pointers' = [pointers EXCEPT ![handle[g] + 1] = NoGrid]
        /\ phase' = [phase EXCEPT ![g] = "closed"]
        /\ UNCHANGED <<lock, handle, pc, using>>
    BY <1>4, CloseIs DEF callVars
  <2>2. /\ g \in Numbered /\ Numbered' = Numbered /\ phase[g] # "closed" /\ phase'[g] = "closed"
        /\ \A h \in Numbered \ {g} : phase'[h] = phase[h]
    BY <2>1 DEF Numbered, Types, Phase, Alive
  <2>3. handle[g] \in 0 .. Len(pointers) - 1 /\ Len(pointers) \in Nat
    BY <2>2 DEF HandlesRight, Types
  <2>4. /\ Len(pointers') = Len(pointers) /\ pointers'[handle[g] + 1] = NoGrid
        /\ \A i \in 1 .. Len(pointers) : i # handle[g] + 1 => pointers'[i] = pointers[i]
    BY <2>1, <2>3 DEF Types
  <2>5. HandlesRight'
    BY <2>1, <2>2, <2>3, <2>4 DEF HandlesRight
  <2>6. AddsRight'
    <3> SUFFICES ASSUME NEW u \in Thread, pc[u] = "add"
                 PROVE  /\ lock = u
                        /\ using[u] \in Grid /\ phase'[using[u]] = "adding"
                        /\ Len(pointers') \in Nat \ {0} /\ pointers'[Len(pointers')] = using[u]
                        /\ \A h \in Numbered' : handle[h] # Len(pointers') - 1
      BY <2>1 DEF AddsRight
    <3>1. /\ lock = u /\ using[u] \in Grid /\ phase[using[u]] = "adding"
          /\ Len(pointers) \in Nat \ {0} /\ pointers[Len(pointers)] = using[u]
          /\ \A h \in Numbered : handle[h] # Len(pointers) - 1
      BY DEF AddsRight
    <3>2. handle[g] + 1 # Len(pointers)
      <4>1. handle[g] # Len(pointers) - 1
        BY <2>2, <3>1
      <4>2. handle[g] \in Int /\ Len(pointers) \in Int
        BY <2>3
      <4> QED
        BY <4>1, <4>2
    <3>3. using[u] # g
      BY <2>1, <3>1 DEF Alive
    <3> QED
      BY <2>1, <2>2, <2>4, <3>1, <3>2, <3>3 DEF Types
  <2> QED
    BY <2>5, <2>6
<1>5. ASSUME NEW g \in Grid, Open(g) PROVE HandlesRight' /\ AddsRight'
  <2>1. /\ phase[g] = "created" /\ phase' = [phase EXCEPT ![g] = "open"]
        /\ UNCHANGED <<pointers, lock, handle, pc, using>> /\ \A t \in Thread : pc[t] = "idle"
    BY <1>5, OpenIs DEF tableVars, callVars
  <2>2. /\ Numbered' = Numbered /\ \A h \in Numbered : phase'[h] = "closed" <=> phase[h] = "closed"
    BY <2>1 DEF Numbered, Types, Phase
  <2> QED
    BY <2>1, <2>2 DEF HandlesRight, AddsRight
<1>6. ASSUME NEW t \in Thread, NEW g \in Grid,
             SetThreads(t, g) \/ SetComm(t, g) \/ SetParam(t, g)
      PROVE  HandlesRight' /\ AddsRight'
  BY <1>1, <1>6 DEF SetThreads, SetComm, SetParam, NextCall, tableVars, callVars
<1>7. ASSUME NEW t \in Thread, NEW g \in Grid, GetAt(t, g) PROVE HandlesRight' /\ AddsRight'
  BY <1>1, <1>7, GetAtIs DEF tableVars, configVars, Types
<1>8. ASSUME NEW t \in Thread, Inc(t) \/ IncDone(t) PROVE HandlesRight' /\ AddsRight'
  BY <1>1, <1>8 DEF Inc, IncDone, tableVars, configVars, Types
<1>9. ASSUME NEW t \in Thread, StartCommThread(t) \/ StopCommThread(t)
      PROVE  HandlesRight' /\ AddsRight'
  BY <1>1, <1>9 DEF StartCommThread, StopCommThread, tableVars, configVars, callVars
<1> QED
  BY <1>2, <1>3, <1>4, <1>5, <1>6, <1>7, <1>8, <1>9 DEF Next, Step

-----------------------------------------------------------------------------
(* The duplicates of communicators.                                        *)
LEMMA DuplicatesSame ==
  ASSUME DuplicatesRight, Duplicated' = Duplicated, commThread' \in BOOLEAN,
         communicators' = communicators - (IF commThread THEN 1 ELSE 0)
                              + (IF commThread' THEN 1 ELSE 0),
         \A g \in Grid : phase'[g] \in {"none", "adding"} => ~comm'[g].duplicate
  PROVE  DuplicatesRight'
<1>1. Cardinality(Duplicated) \in Nat
  BY FS_CardinalityType DEF DuplicatesRight
<1>2. communicators' = Cardinality(Duplicated) + (IF commThread' THEN 1 ELSE 0)
  BY <1>1 DEF DuplicatesRight
<1> QED
  BY <1>2 DEF DuplicatesRight

(* A grid duplicates a communicator: it has one afterwards, and only one.  *)
LEMMA DuplicatesMore ==
  ASSUME Types, DuplicatesRight, NEW g \in Grid, phase[g] = "created",
         NEW n, comm' = [comm EXCEPT ![g] = [size |-> n, duplicate |-> TRUE]],
         communicators' = AfterInit(g), commThread' = commThread,
         \A h \in Grid : phase'[h] = phase[h] \/ (h = g /\ phase'[h] = "open")
  PROVE  DuplicatesRight'
<1>1. comm'[g].duplicate /\ \A h \in Grid \ {g} : comm'[h] = comm[h]
  BY DEF Types
<1>2. Duplicated' = Duplicated \cup {g}
  BY <1>1 DEF Duplicated, Alive
<1>3. g \in Duplicated <=> comm[g].duplicate
  BY DEF Duplicated, Alive
<1>4. Cardinality(Duplicated) \in Nat
  BY FS_CardinalityType DEF DuplicatesRight
<1>5. IsFiniteSet(Duplicated) /\ communicators = Cardinality(Duplicated) + (IF commThread THEN 1 ELSE 0)
  BY DEF DuplicatesRight
<1>6. /\ IsFiniteSet(Duplicated')
      /\ Cardinality(Duplicated') = Cardinality(Duplicated) + (IF g \in Duplicated THEN 0 ELSE 1)
  BY <1>2, <1>4, <1>5, FS_AddElement
<1>7. AfterInit(g) = Cardinality(Duplicated') + (IF commThread THEN 1 ELSE 0)
  <2>1. CASE g \in Duplicated
    BY <1>3, <1>4, <1>5, <1>6, <2>1 DEF AfterInit
  <2>2. CASE g \notin Duplicated
    BY <1>3, <1>4, <1>5, <1>6, <2>2 DEF AfterInit
  <2> QED
    BY <2>1, <2>2
<1>8. \A h \in Grid : phase'[h] \in {"none", "adding"} => h # g /\ phase'[h] = phase[h]
  OBVIOUS
<1>9. \A h \in Grid : phase'[h] \in {"none", "adding"} => ~comm'[h].duplicate
  BY <1>1, <1>8 DEF DuplicatesRight
<1> QED
  BY <1>6, <1>7, <1>9 DEF DuplicatesRight

(* What may become of a grid that is not closed.                           *)
Moves(g) ==
    \/ phase'[g] = phase[g]
    \/ phase[g] = "none" /\ phase'[g] = "adding"
    \/ phase[g] = "adding" /\ phase'[g] = "created"
    \/ phase[g] = "created" /\ phase'[g] = "open"

(* Every duplicate has its grid, or belongs to the communication thread.   *)
LEMMA DuplicatesStep ==
  ASSUME Types, HandlesRight, AddsRight, DuplicatesRight, Next
  PROVE  DuplicatesRight'
<1>0. commThread \in BOOLEAN /\ communicators \in Int /\ phase \in [Grid -> Phase]
  BY DEF Types
<1>1. CASE /\ UNCHANGED <<comm, commThread, communicators>> /\ \A g \in Grid : Moves(g)
  <2>1. ASSUME NEW g \in Grid PROVE g \in Duplicated' <=> g \in Duplicated
    <3>1. Moves(g) /\ comm'[g].duplicate = comm[g].duplicate
      BY <1>1
    <3>2. phase[g] = "adding" => ~comm[g].duplicate
      BY DEF DuplicatesRight
    <3> QED
      BY <3>1, <3>2 DEF Duplicated, Alive, Moves
  <2>2. Duplicated' = Duplicated
    BY <2>1 DEF Duplicated
  <2>3. \A g \in Grid : phase'[g] \in {"none", "adding"} => ~comm'[g].duplicate
    BY <1>1 DEF DuplicatesRight, Moves
  <2>4. communicators' = communicators - (IF commThread THEN 1 ELSE 0) + (IF commThread' THEN 1 ELSE 0)
    BY <1>0, <1>1
  <2> QED
    BY <1>0, <1>1, <2>2, <2>3, <2>4, DuplicatesSame
<1>2. ASSUME NEW t \in Thread, NEW g \in Grid, Create(t, g) PROVE DuplicatesRight'
  <2>1. phase[g] = "none" /\ phase' = [phase EXCEPT ![g] = "adding"]
        /\ UNCHANGED <<comm, commThread, communicators>>
    BY <1>2 DEF Create, commVars
  <2> QED
    BY <1>0, <1>1, <2>1 DEF Moves
<1>3. ASSUME NEW t \in Thread, CreateDone(t) PROVE DuplicatesRight'
  <2>1. pc[t] = "add" /\ phase' = [phase EXCEPT ![using[t]] = "created"]
        /\ UNCHANGED <<comm, commThread, communicators>>
    BY <1>3 DEF CreateDone, commVars
  <2>2. phase[using[t]] = "adding" /\ using[t] \in Grid
    BY <2>1 DEF AddsRight
  <2> QED
    BY <1>0, <1>1, <2>1, <2>2 DEF Moves
<1>4. ASSUME NEW t \in Thread, NEW g \in Grid, SetComm(t, g) PROVE DuplicatesRight'
  <2>1. /\ phase[g] = "created" /\ UNCHANGED <<phase, commThread>> /\ communicators' = AfterInit(g)
        /\ comm' = [comm EXCEPT ![g] = [size |-> setup.size, duplicate |-> TRUE]]
    BY <1>4, SetCommIs
  <2>2. PICK n : n = setup.size
    OBVIOUS
  <2>3. comm' = [comm EXCEPT ![g] = [size |-> n, duplicate |-> TRUE]]
    BY <2>1, <2>2
  <2>4. \A h \in Grid : phase'[h] = phase[h] \/ (h = g /\ phase'[h] = "open")
    BY <2>1
  <2>5. communicators' = AfterInit(g) /\ commThread' = commThread /\ phase[g] = "created"
    BY <2>1
  <2> QED
    BY <2>3, <2>4, <2>5, DuplicatesMore
<1>5. ASSUME NEW t \in Thread, NEW g \in Grid, SetThreads(t, g) \/ SetParam(t, g)
      PROVE  DuplicatesRight'
  <2>1. UNCHANGED <<phase, comm, commThread, communicators>>
    BY <1>5 DEF SetThreads, SetParam, commVars
  <2> QED
    BY <1>1, <2>1 DEF Moves
<1>6. ASSUME NEW g \in Grid, Open(g) PROVE DuplicatesRight'
  <2>1. /\ phase[g] = "created" /\ phase' = [phase EXCEPT ![g] = "open"] /\ commThread' = commThread
        /\ IF Reset(g)
           THEN /\ comm' = [comm EXCEPT ![g] = [size |-> 1, duplicate |-> TRUE]]
                /\ communicators' = AfterInit(g)
           ELSE UNCHANGED <<comm, communicators>>
    BY <1>6, OpenIs
  <2>2. \A h \in Grid : phase'[h] = phase[h] \/ (h = g /\ phase'[h] = "open")
    BY <1>0, <2>1
  <2>3. CASE Reset(g)
    <3>1. /\ comm' = [comm EXCEPT ![g] = [size |-> 1, duplicate |-> TRUE]]
          /\ communicators' = AfterInit(g)
      BY <2>1, <2>3
    <3> QED
      BY <2>1, <2>2, <3>1, DuplicatesMore
  <2>4. CASE ~Reset(g)
    <3>1. UNCHANGED <<comm, communicators>>
      BY <2>1, <2>4
    <3> QED
      BY <1>0, <1>1, <2>1, <3>1 DEF Moves
  <2> QED
    BY <2>3, <2>4
<1>7. ASSUME NEW t \in Thread, NEW g \in Grid, Close(t, g) PROVE DuplicatesRight'
  <2>1. /\ Alive(g) /\ phase' = [phase EXCEPT ![g] = "closed"]
        /\ communicators' = communicators - (IF comm[g].duplicate THEN 1 ELSE 0)
        /\ UNCHANGED <<comm, commThread>>
    BY <1>7, CloseIs
  <2>2. Duplicated' = Duplicated \ {g}
    BY <2>1 DEF Duplicated, Alive, Types
  <2>3. g \in Duplicated <=> comm[g].duplicate
    BY <2>1 DEF Duplicated
  <2>4. IsFiniteSet(Duplicated) /\ communicators = Cardinality(Duplicated) + (IF commThread THEN 1 ELSE 0)
    BY DEF DuplicatesRight
  <2>5. Cardinality(Duplicated) \in Nat
    BY <2>4, FS_CardinalityType
  <2>6. /\ IsFiniteSet(Duplicated')
        /\ Cardinality(Duplicated') = Cardinality(Duplicated) - (IF g \in Duplicated THEN 1 ELSE 0)
    BY <2>2, <2>4, <2>5, FS_RemoveElement
  <2>7. communicators' = Cardinality(Duplicated') + (IF commThread' THEN 1 ELSE 0)
    <3>1. CASE g \in Duplicated
      BY <2>1, <2>3, <2>4, <2>5, <2>6, <3>1
    <3>2. CASE g \notin Duplicated
      BY <2>1, <2>3, <2>4, <2>5, <2>6, <3>2
    <3> QED
      BY <3>1, <3>2
  <2>8. \A h \in Grid : phase'[h] \in {"none", "adding"} => phase'[h] = phase[h]
    BY <2>1 DEF Types
  <2> QED
    BY <2>1, <2>6, <2>7, <2>8 DEF DuplicatesRight
<1>8. ASSUME NEW t \in Thread,
             (\E g \in Grid : GetAt(t, g)) \/ Inc(t) \/ IncDone(t)
      PROVE  DuplicatesRight'
  <2>1. UNCHANGED <<phase, comm, commThread, communicators>>
    BY <1>8 DEF GetAt, Inc, IncDone, commVars, configVars
  <2> QED
    BY <1>1, <2>1 DEF Moves
<1>9. ASSUME NEW t \in Thread, StartCommThread(t) \/ StopCommThread(t)
      PROVE  DuplicatesRight'
  <2>1. UNCHANGED <<phase, comm>>
    BY <1>9 DEF StartCommThread, StopCommThread, configVars
  <2>2. Duplicated' = Duplicated
    BY <2>1 DEF Duplicated, Alive
  <2>3. CASE StartCommThread(t)
    <3>1. commThread' = TRUE /\ communicators' = communicators + (IF commThread THEN 0 ELSE 1)
      BY <2>3 DEF StartCommThread
    <3>2. communicators' = communicators - (IF commThread THEN 1 ELSE 0) + (IF commThread' THEN 1 ELSE 0)
      BY <1>0, <3>1
    <3> QED
      BY <2>1, <2>2, <3>1, <3>2, DuplicatesSame DEF DuplicatesRight
  <2>4. CASE StopCommThread(t)
    <3>1. commThread /\ commThread' = FALSE /\ communicators' = communicators - 1
      BY <2>4 DEF StopCommThread
    <3>2. communicators' = communicators - (IF commThread THEN 1 ELSE 0) + (IF commThread' THEN 1 ELSE 0)
      BY <1>0, <3>1
    <3> QED
      BY <2>1, <2>2, <3>1, <3>2, DuplicatesSame DEF DuplicatesRight
  <2> QED
    BY <1>9, <2>3, <2>4
<1> QED
  BY <1>2, <1>3, <1>4, <1>5, <1>6, <1>7, <1>8, <1>9 DEF Next, Step

-----------------------------------------------------------------------------
(* Where values come from.  The nodes are numbered from 0.                 *)
LEMMA NodeFacts ==
  /\ IsFiniteSet(Node) /\ Cardinality(Node) \in Nat /\ Node = 0 .. Cardinality(Node) - 1
  /\ \A t \in Thread : NodeOf[t] \in Node /\ 0 \in Node
<1>1. IsFiniteSet(Node)
  <2>1. PICK S : S = Thread
    OBVIOUS
  <2>2. NodeOf \in [Thread -> Nat] /\ IsFiniteSet(Thread)
    BY GridsAssumption
  <2>3. NodeOf \in Surjection(Thread, { NodeOf[t] : t \in Thread })
    BY <2>2 DEF Surjection
  <2> QED
    BY <2>2, <2>3, FS_Surjection DEF Node
<1>2. Cardinality(Node) \in Nat
  BY <1>1, FS_CardinalityType
<1>3. Node = 0 .. Cardinality(Node) - 1
  BY GridsAssumption DEF Node
<1>4. \A t \in Thread : NodeOf[t] \in Node
  BY DEF Node
<1> QED
  BY <1>1, <1>2, <1>3, <1>4

(* There is one domain, or one for every node.                             *)
LEMMA TotalDomainsFacts ==
  ASSUME NEW g
  PROVE  /\ TotalDomains(g) \in Nat
         /\ TotalDomains(g) # 1 => /\ TotalDomains(g) = Cardinality(Node)
                                   /\ Param(g, "NUMA_COMMUNICATION", "ON", 0) # "OFF"
BY NodeFacts DEF TotalDomains

(* The class of a grid that is opened.                                     *)
LEMMA ContainerFacts ==
  ASSUME NEW g
  PROVE  /\ ContainerType(g) \in DOMAIN ClassesOf
         /\ LET level == ClassesOf[ContainerType(g)][1]
                mpi == ClassesOf[ContainerType(g)][2]
                numa == ClassesOf[ContainerType(g)][3]
                Type == Param(g, "GRID", "FULL", 0)
            IN  /\ level = "Full" => MpiType(g) = "OFF" /\ NumaType(g) = "OFF"
                /\ level = "FullDist" /\ mpi = "MPINo" => MpiType(g) = "OFF" /\ numa = "NumaFull"
                /\ mpi # "MPINo" => MpiType(g) # "OFF"
                /\ level = "FullDist" /\ numa # "NumaNo" => NumaType(g) # "OFF"
                /\ level \in {"Cache", "CacheDist"} => Type = "CACHE"
                /\ level = "PassThrough" => Type = "PASS_THROUGH"
                /\ level \in {"Full", "FullDist"} => Type \notin {"CACHE", "PASS_THROUGH"}
<1>1. PICK type : type = Param(g, "GRID", "FULL", 0)
  OBVIOUS
<1>2. PICK m : m = MpiType(g)
  OBVIOUS
<1>3. PICK n : n = NumaType(g)
  OBVIOUS
<1>4. CASE type = "CACHE"
  <2>1. ContainerType(g) =
            CASE m = "OFF" -> IF n = "OFF" THEN "CACHE_NUMA" ELSE "CACHE"
              [] m = "THREAD" -> IF n = "OFF" THEN "CACHE_MPITHREAD" ELSE "CACHE_MPITHREAD_NUMA"
              [] OTHER -> IF n = "OFF" THEN "CACHE_MPIWIN" ELSE "CACHE_MPIWIN_NUMA"
    BY <1>1, <1>2, <1>3, <1>4 DEF ContainerType, ByMpi, ByNuma
  <2> QED
    BY <1>1, <1>2, <1>3, <1>4, <2>1 DEF ClassesOf
<1>5. CASE type = "PASS_THROUGH"
  <2>1. ContainerType(g) = "PASS_THROUGH"
    BY <1>1, <1>5 DEF ContainerType
  <2> QED
    BY <1>1, <1>2, <1>3, <1>5, <2>1 DEF ClassesOf
<1>6. CASE type \notin {"CACHE", "PASS_THROUGH"}
  <2>1. ContainerType(g) =
            CASE m = "OFF" -> IF n = "OFF" THEN "FULL" ELSE "FULL_NUMA"
              [] m = "THREAD" -> IF n = "OFF" THEN "FULL_MPITHREAD"
                                 ELSE IF n = "CACHE" THEN "FULL_MPITHREAD_NUMACACHE"
                                 ELSE "FULL_MPITHREAD_NUMA"
              [] OTHER -> IF n = "OFF" THEN "FULL_MPIWIN"
                          ELSE IF n = "CACHE" THEN "FULL_MPIWIN_NUMACACHE"
                          ELSE "FULL_MPIWIN_NUMA"
    BY <1>1, <1>2, <1>3, <1>6 DEF ContainerType, ByMpi, ByNuma
  <2> QED
    BY <1>1, <1>2, <1>3, <1>6, <2>1 DEF ClassesOf
<1> QED
  BY <1>4, <1>5, <1>6

(* It suits the parameters, after the communicator has been reset.         *)
LEMMA SuitsOpened ==
  ASSUME Types, HandlesRight, NEW g \in Grid, Open(g)
  PROVE  Suits(g)'
<1>1. /\ phase[g] = "created"
      /\ containerType' = [containerType EXCEPT ![g] = ContainerType(g)]
      /\ domains' = [domains EXCEPT ![g] = TotalDomains(g)]
      /\ IF Reset(g)
         THEN /\ comm' = [comm EXCEPT ![g] = [size |-> 1, duplicate |-> TRUE]]
              /\ communicators' = AfterInit(g)
         ELSE UNCHANGED <<comm, communicators>>
      /\ UNCHANGED <<params, threads>> /\ threads[g] = Cardinality(Thread)
  BY OpenIs
<1>2. /\ containerType'[g] = ContainerType(g) /\ domains'[g] = TotalDomains(g)
      /\ comm'[g].size = IF Reset(g) THEN 1 ELSE comm[g].size
  BY <1>1 DEF Types
<1>3. /\ \A name, default : Param(g, name, default, 0)' = Param(g, name, default, 0)
      /\ TotalDomains(g)' = TotalDomains(g)
  BY <1>1 DEF Param, TotalDomains
<1>4. MpiType(g) = "OFF" => comm'[g].size = 1
  BY <1>2 DEF MpiType, Reset
<1>5. MpiType(g) # "OFF" =>
        comm'[g].size # 1 /\ Param(g, "MPI_COMMUNICATION", "WINDOW", 0) # "OFF"
  BY <1>2 DEF MpiType, Reset, MpiParam
<1>6. NumaType(g) = "OFF" => TotalDomains(g) = 1
  BY DEF NumaType, TotalDomains
<1>7. NumaType(g) # "OFF" =>
        TotalDomains(g) # 1 /\ Param(g, "NUMA_COMMUNICATION", "ON", 0) # "OFF"
  BY DEF NumaType
<1>8. /\ ContainerType(g) \in DOMAIN ClassesOf
      /\ LET level == ClassesOf[ContainerType(g)][1]
             mpi == ClassesOf[ContainerType(g)][2]
             numa == ClassesOf[ContainerType(g)][3]
             Type == Param(g, "GRID", "FULL", 0)
         IN  /\ level = "Full" => MpiType(g) = "OFF" /\ NumaType(g) = "OFF"
             /\ level = "FullDist" /\ mpi = "MPINo" => MpiType(g) = "OFF" /\ numa = "NumaFull"
             /\ mpi # "MPINo" => MpiType(g) # "OFF"
             /\ level = "FullDist" /\ numa # "NumaNo" => NumaType(g) # "OFF"
             /\ level \in {"Cache", "CacheDist"} => Type = "CACHE"
             /\ level = "PassThrough" => Type = "PASS_THROUGH"
             /\ level \in {"Full", "FullDist"} => Type \notin {"CACHE", "PASS_THROUGH"}
  BY ContainerFacts
<1>9. PICK level, mpi, numa, type, k, size, n :
         /\ k = ContainerType(g) /\ size = comm'[g].size /\ n = TotalDomains(g)
         /\ level = ClassesOf[k][1] /\ mpi = ClassesOf[k][2]
         /\ numa = ClassesOf[k][3] /\ type = Param(g, "GRID", "FULL", 0)
  OBVIOUS
<1>10. /\ k \in DOMAIN ClassesOf
       /\ level = "Full" => size = 1 /\ n = 1
       /\ level = "FullDist" /\ mpi = "MPINo" => size = 1 /\ numa = "NumaFull"
       /\ mpi # "MPINo" => size # 1 /\ Param(g, "MPI_COMMUNICATION", "WINDOW", 0) # "OFF"
       /\ level = "FullDist" /\ numa # "NumaNo" => n # 1
       /\ level \in {"Cache", "CacheDist"} => type = "CACHE"
       /\ level = "PassThrough" => type = "PASS_THROUGH"
       /\ level \in {"Full", "FullDist"} => type \notin {"CACHE", "PASS_THROUGH"}
  BY <1>4, <1>5, <1>6, <1>7, <1>8, <1>9
<1> QED
  BY <1>2, <1>3, <1>9, <1>10 DEF Suits

(* What a class of a grid that suits can fetch, the grid may use.          *)
LEMMA ResultsFit ==
  ASSUME Types, SizesRight, NEW g \in Grid, Suits(g), NEW t \in Thread, NEW o \in Results(g, t)
  PROVE  o \in Outcome /\ Fits(g, o)
<1>1. PICK level, mpi, numa, type, here :
         /\ level = ClassesOf[containerType[g]][1] /\ mpi = ClassesOf[containerType[g]][2]
         /\ numa = ClassesOf[containerType[g]][3] /\ type = Param(g, "GRID", "FULL", 0)
         /\ here = DomainOf(g, t)
  OBVIOUS
<1>2. PICK n \in Nat, size \in Nat : n = domains[g] /\ size = comm[g].size
  BY DEF Types
<1>3. /\ level \in {"Full", "FullDist", "Cache", "CacheDist", "PassThrough"}
      /\ level = "Full" => size = 1 /\ n = 1
      /\ level = "FullDist" /\ mpi = "MPINo" => size = 1 /\ numa = "NumaFull"
      /\ mpi # "MPINo" => size # 1 /\ Param(g, "MPI_COMMUNICATION", "WINDOW", 0) # "OFF"
      /\ level = "FullDist" /\ numa # "NumaNo" => n # 1
      /\ level \in {"Cache", "CacheDist"} => type = "CACHE"
      /\ level = "PassThrough" => type = "PASS_THROUGH"
      /\ level \in {"Full", "FullDist"} => type \notin {"CACHE", "PASS_THROUGH"}
  <2>1. level \in {"Full", "FullDist", "Cache", "CacheDist", "PassThrough"}
    BY <1>1 DEF Suits, ClassesOf
  <2> QED
    BY <1>1, <1>2, <2>1 DEF Suits
<1>4. size # 1 /\ size > 0 => Given(g) /\ setup.size > 1
  <2>1. setup.size \in Nat \ {0}
    BY GridsAssumption DEF Types
  <2> QED
    BY <1>2, <2>1 DEF SizesRight
<1>5. n # 1 => n > 1 /\ Cardinality(Node) > 1 /\ Param(g, "NUMA_COMMUNICATION", "ON", 0) # "OFF"
  <2>1. domains[g] = TotalDomains(g)
    BY DEF Suits
  <2>2. 0 \in Node
    BY NodeFacts
  <2> QED
    BY <1>2, <2>1, <2>2, NodeFacts, TotalDomainsFacts
<1>6. n = 1 => here = 0
  BY <1>1, <1>2 DEF DomainOf
<1>7. /\ o \in {"own", "cached", "numa", "mpi", "file"}
      /\ o = "file" => type \in {"CACHE", "PASS_THROUGH"}
      /\ type = "PASS_THROUGH" => o = "file"
      /\ o = "mpi" => size # 1 /\ mpi # "MPINo" /\ size > 0
      /\ o = "numa" => n # 1
  <2>1. CASE level = "Full"
    <3>1. PICK p \in (0 .. size - 1) \X (0 .. n - 1) : o = FullAt(p[1], p[2], here)
      BY <1>1, <1>2, <2>1 DEF Results
    <3>2. p[1] = 0 /\ p[2] = 0
      BY <1>3, <2>1, <3>1
    <3> QED
      BY <1>3, <1>6, <2>1, <3>1, <3>2 DEF FullAt
  <2>2. CASE level = "FullDist"
    <3>0. PICK In : In = IF n > 1 THEN BOOLEAN ELSE {FALSE}
      OBVIOUS
    <3>1. \E p \in (0 .. size - 1) \X (0 .. n - 1), cached \in BOOLEAN, inCache \in In :
             o = FullDistAt(mpi, numa, p[1], p[2], here, cached, inCache)
      <4>1. Results(g, t) =
                { FullDistAt(mpi, numa, p[1], p[2], here, cached, inCache) :
                    p \in (0 .. size - 1) \X (0 .. n - 1), cached \in BOOLEAN, inCache \in In }
        BY <1>1, <1>2, <2>2, <3>0 DEF Results
      <4> QED
        BY <4>1
    <3>2. PICK p \in (0 .. size - 1) \X (0 .. n - 1) :
             \E cached \in BOOLEAN, inCache \in In :
                o = FullDistAt(mpi, numa, p[1], p[2], here, cached, inCache)
      BY <3>1
    <3>3. p[1] \in 0 .. size - 1 /\ size > 0
      OBVIOUS
    <3>4. CASE mpi = "MPINo"
      <4>1. p[1] = 0 /\ numa = "NumaFull"
        BY <1>3, <2>2, <3>3, <3>4
      <4>2. ASSUME NEW cached \in BOOLEAN, NEW inCache \in In
            PROVE  FullDistAt(mpi, numa, p[1], p[2], here, cached, inCache)
                      \in {"own", "cached", "numa"}
        <5>1. NumaFinds(numa, p[1], inCache)
          BY <4>1 DEF NumaFinds
        <5> QED
          BY <5>1 DEF FullDistAt
      <4>3. \A cached \in BOOLEAN, inCache \in In :
               FullDistAt(mpi, numa, p[1], p[2], here, cached, inCache)
                  \in {"own", "cached", "numa"}
        BY <4>2
      <4>4. o \in {"own", "cached", "numa"}
        BY <3>2, <4>3
      <4> QED
        BY <1>3, <2>2, <4>1, <4>4
    <3>5. CASE mpi # "MPINo"
      <4>1. \A inCache \in In : numa = "NumaNo" => ~NumaFinds(numa, p[1], inCache)
        BY DEF NumaFinds
      <4>2. \A cached \in BOOLEAN, inCache \in In :
               FullDistAt(mpi, numa, p[1], p[2], here, cached, inCache)
                  \in {"own", "cached", "mpi"} \cup (IF numa = "NumaNo" THEN {} ELSE {"numa"})
        BY <3>5, <4>1 DEF FullDistAt
      <4>3. o \in {"own", "cached", "mpi"} \cup (IF numa = "NumaNo" THEN {} ELSE {"numa"})
        BY <3>2, <4>2
      <4> QED
        BY <1>3, <2>2, <3>3, <3>5, <4>3
    <3> QED
      BY <3>4, <3>5
  <2>3. CASE level = "Cache"
    <3>1. o \in {"cached", "file"}
      BY <1>1, <2>3 DEF Results, CacheAt
    <3> QED
      BY <1>3, <2>3, <3>1
  <2>4. CASE level = "CacheDist"
    <3>0. PICK In, Out : /\ In = IF n > 1 THEN BOOLEAN ELSE {FALSE}
                         /\ Out = IF size > 1 THEN BOOLEAN ELSE {FALSE}
      OBVIOUS
    <3>1. \E cached \in BOOLEAN, inCache \in In, elsewhere \in Out :
             o = CacheDistAt(mpi, numa, cached, inCache, elsewhere)
      <4>1. Results(g, t) =
                { CacheDistAt(mpi, numa, cached, inCache, elsewhere) :
                    cached \in BOOLEAN, inCache \in In, elsewhere \in Out }
        BY <1>1, <1>2, <2>4, <3>0 DEF Results
      <4> QED
        BY <4>1
    <3>2. \A cached \in BOOLEAN, inCache \in In, elsewhere \in Out :
             LET x == CacheDistAt(mpi, numa, cached, inCache, elsewhere)
             IN  /\ x \in {"cached", "numa", "mpi", "file"}
                 /\ x = "numa" => inCache
                 /\ x = "mpi" => mpi # "MPINo" /\ elsewhere
      BY DEF CacheDistAt
    <3>3. /\ \A inCache \in In : inCache => n > 1
          /\ \A elsewhere \in Out : elsewhere => size > 1
      BY <3>0
    <3>4. /\ o \in {"cached", "numa", "mpi", "file"}
          /\ o = "numa" => n > 1
          /\ o = "mpi" => mpi # "MPINo" /\ size > 1
      BY <3>1, <3>2, <3>3
    <3> QED
      BY <1>3, <2>4, <3>4
  <2>5. CASE level = "PassThrough"
    <3>1. o = "file"
      BY <1>1, <2>5 DEF Results
    <3> QED
      BY <1>3, <2>5, <3>1
  <2> QED
    BY <1>3, <2>1, <2>2, <2>3, <2>4, <2>5
<1> QED
  BY <1>1, <1>3, <1>4, <1>5, <1>7 DEF Fits, Outcome

-----------------------------------------------------------------------------
(* What is said of a grid before it is opened is not changed afterwards.   *)
Configured(g) ==
    /\ params'[g] = params[g] /\ done'[g] = done[g] /\ comm'[g] = comm[g]
    /\ containerType'[g] = containerType[g] /\ domains'[g] = domains[g]

(* Only created grids are configured; nothing goes back to being one.      *)
LEMMA ConfigKept ==
  ASSUME Types, HandlesRight, AddsRight, Next
  PROVE  /\ setup' = setup
         /\ \A g \in Grid :
               /\ phase[g] # "created" => Configured(g)
               /\ phase[g] # "open" /\ phase'[g] = "open" => Open(g)
               /\ phase'[g] = "open" => phase[g] \in {"created", "open"}
               /\ phase[g] \in {"open", "closed"} => phase'[g] \in {"open", "closed"}
               /\ phase'[g] \in {"none", "adding", "created"} =>
                     phase[g] \in {"none", "adding", "created"} /\ domains'[g] = domains[g]
<1> USE DEF Configured
<1>0. /\ phase \in [Grid -> Phase] /\ done \in [Grid -> Nat] /\ params = [g \in Grid |-> params[g]]
      /\ comm \in [Grid -> [size : Nat, duplicate : BOOLEAN]]
      /\ containerType = [g \in Grid |-> containerType[g]] /\ domains \in [Grid -> Nat]
  BY DEF Types
<1> DEFINE Goal == /\ setup' = setup
                   /\ \A g \in Grid :
                         /\ phase[g] # "created" => Configured(g)
                         /\ phase[g] # "open" /\ phase'[g] = "open" => Open(g)
                         /\ phase'[g] = "open" => phase[g] \in {"created", "open"}
                         /\ phase[g] \in {"open", "closed"} => phase'[g] \in {"open", "closed"}
                         /\ phase'[g] \in {"none", "adding", "created"} =>
                               /\ phase[g] \in {"none", "adding", "created"}
                               /\ domains'[g] = domains[g]
<1>1. ASSUME NEW t \in Thread, NEW h \in Grid, Create(t, h) PROVE Goal
  <2>1. /\ phase[h] = "none" /\ phase' = [phase EXCEPT ![h] = "adding"]
        /\ UNCHANGED <<setup, done, params, comm, containerType, domains>>
    BY <1>1 DEF Create, containerVars
  <2> QED
    BY <1>0, <2>1
<1>2. ASSUME NEW t \in Thread, CreateDone(t) PROVE Goal
  <2>1. /\ pc[t] = "add" /\ phase' = [phase EXCEPT ![using[t]] = "created"]
        /\ UNCHANGED <<setup, done, params, comm, containerType, domains>>
    BY <1>2 DEF CreateDone, containerVars
  <2>2. using[t] \in Grid /\ phase[using[t]] = "adding"
    BY <2>1 DEF AddsRight
  <2> QED
    BY <1>0, <2>1, <2>2
<1>3. ASSUME NEW t \in Thread, NEW h \in Grid, SetThreads(t, h) PROVE Goal
  <2>1. /\ phase[h] = "created" /\ done' = [done EXCEPT ![h] = @ + 1]
        /\ UNCHANGED <<setup, phase, params, comm, containerType, domains>>
    BY <1>3, SetThreadsIs DEF containerVars
  <2> QED
    BY <1>0, <2>1
<1>4. ASSUME NEW t \in Thread, NEW h \in Grid, SetComm(t, h) PROVE Goal
  <2>1. /\ phase[h] = "created" /\ done' = [done EXCEPT ![h] = @ + 1]
        /\ comm' = [comm EXCEPT ![h] = [size |-> setup.size, duplicate |-> TRUE]]
        /\ UNCHANGED <<setup, phase, params, containerType, domains>>
    BY <1>4, SetCommIs DEF containerVars
  <2> QED
    BY <1>0, <2>1
<1>5. ASSUME NEW t \in Thread, NEW h \in Grid, SetParam(t, h) PROVE Goal
  <2>1. /\ phase[h] = "created" /\ done' = [done EXCEPT ![h] = @ + 1]
        /\ \E p : params' = [params EXCEPT ![h] = p]
        /\ UNCHANGED <<setup, phase, comm, containerType, domains>>
    BY <1>5, SetParamIs DEF containerVars
  <2> QED
    BY <1>0, <2>1
<1>6. ASSUME NEW h \in Grid, Open(h) PROVE Goal
  <2>1. /\ phase[h] = "created" /\ phase' = [phase EXCEPT ![h] = "open"]
        /\ containerType' = [containerType EXCEPT ![h] = ContainerType(h)]
        /\ domains' = [domains EXCEPT ![h] = TotalDomains(h)]
        /\ UNCHANGED <<setup, done, params>>
        /\ IF Reset(h)
           THEN /\ comm' = [comm EXCEPT ![h] = [size |-> 1, duplicate |-> TRUE]]
                /\ communicators' = AfterInit(h)
           ELSE UNCHANGED <<comm, communicators>>
    BY <1>6, OpenIs
  <2>2. \A g \in Grid \ {h} : comm'[g] = comm[g]
    BY <1>0, <2>1
  <2> QED
    BY <1>0, <1>6, <2>1, <2>2
<1>7. ASSUME NEW t \in Thread, NEW h \in Grid, Close(t, h) PROVE Goal
  <2>1. /\ Alive(h) /\ phase' = [phase EXCEPT ![h] = "closed"]
        /\ UNCHANGED <<setup, done, params, comm, containerType, domains>>
    BY <1>7, CloseIs DEF containerVars
  <2> QED
    BY <1>0, <2>1 DEF Alive
<1>8. ASSUME NEW t \in Thread,
             \/ (\E g \in Grid : GetAt(t, g)) \/ Inc(t) \/ IncDone(t)
             \/ StartCommThread(t) \/ StopCommThread(t)
      PROVE  Goal
  <2>1. UNCHANGED <<setup, phase, done, params, comm, containerType, domains>>
    BY <1>8 DEF GetAt, Inc, IncDone, StartCommThread, StopCommThread, configVars, containerVars
  <2> QED
    BY <1>0, <2>1
<1> HIDE DEF Goal
<1>9. Goal
  BY <1>1, <1>2, <1>3, <1>4, <1>5, <1>6, <1>7, <1>8 DEF Next, Step
<1> QED
  BY <1>9 DEF Goal

(* So where values may come from stays as it is, and so do the classes.    *)
LEMMA FitsKept ==
  ASSUME setup' = setup, NEW g, Configured(g), NEW o, Fits(g, o)
  PROVE  Fits(g, o)'
<1>1. \A name, default : Param(g, name, default, 0)' = Param(g, name, default, 0)
  BY DEF Param, Configured
<1>2. Given(g)' <=> Given(g)
  BY DEF Given, Configured
<1> QED
  BY <1>1, <1>2 DEF Fits

LEMMA SuitsKept ==
  ASSUME NEW g, Configured(g), Suits(g)
  PROVE  Suits(g)'
<1>1. \A name, default : Param(g, name, default, 0)' = Param(g, name, default, 0)
  BY DEF Param, Configured
<1>2. TotalDomains(g)' = TotalDomains(g)
  BY <1>1 DEF TotalDomains
<1> QED
  BY <1>1, <1>2 DEF Suits, Configured

(* Classes and sizes are right when they are set.                          *)
LEMMA ClassesStep ==
  ASSUME Types, HandlesRight, AddsRight, ClassesRight, Next
  PROVE  ClassesRight'
<1> SUFFICES ASSUME NEW g \in Grid, phase'[g] = "open" PROVE Suits(g)'
  BY DEF ClassesRight
<1>1. CASE phase[g] = "open"
  BY <1>1, ConfigKept, SuitsKept DEF ClassesRight
<1>2. CASE phase[g] # "open"
  BY <1>2, ConfigKept, SuitsOpened
<1> QED
  BY <1>1, <1>2

LEMMA SizesStep ==
  ASSUME Types, HandlesRight, AddsRight, SizesRight, Next
  PROVE  SizesRight'
<1> SUFFICES ASSUME NEW g \in Grid
             PROVE  comm'[g].size = 1 \/ (comm'[g].size = setup'.size /\ Given(g)')
  BY DEF SizesRight
<1>0. /\ done \in [Grid -> Nat] /\ comm \in [Grid -> [size : Nat, duplicate : BOOLEAN]]
      /\ setup' = setup
  BY ConfigKept DEF Types
<1>1. CASE comm'[g] = comm[g] /\ (done'[g] = done[g] \/ done'[g] = done[g] + 1)
  <2>1. Given(g) => Given(g)'
    BY <1>0, <1>1 DEF Given
  <2> QED
    BY <1>0, <1>1, <2>1 DEF SizesRight
<1>2. CASE phase[g] # "created"
  BY <1>1, <1>2, ConfigKept DEF Configured
<1>3. ASSUME NEW t \in Thread, NEW h \in Grid, SetThreads(t, h) \/ SetParam(t, h)
      PROVE  comm'[g] = comm[g] /\ (done'[g] = done[g] \/ done'[g] = done[g] + 1)
  BY <1>0, <1>3, SetThreadsIs, SetParamIs
<1>4. ASSUME NEW t \in Thread, NEW h \in Grid, SetComm(t, h)
      PROVE  comm'[g].size = 1 \/ (comm'[g].size = setup'.size /\ Given(g)')
  <2>1. /\ done' = [done EXCEPT ![h] = @ + 1] /\ setup.calls[done[h] + 1].call = "setComm"
        /\ comm' = [comm EXCEPT ![h] = [size |-> setup.size, duplicate |-> TRUE]]
    BY <1>4, SetCommIs
  <2>2. CASE g = h
    BY <1>0, <2>1, <2>2 DEF Given
  <2>3. CASE g # h
    BY <1>0, <1>1, <2>1, <2>3
  <2> QED
    BY <2>2, <2>3
<1>5. ASSUME NEW h \in Grid, Open(h)
      PROVE  comm'[g].size = 1 \/ (comm'[g].size = setup'.size /\ Given(g)')
  <2>1. /\ done' = done
        /\ IF Reset(h)
           THEN /\ comm' = [comm EXCEPT ![h] = [size |-> 1, duplicate |-> TRUE]]
                /\ communicators' = AfterInit(h)
           ELSE UNCHANGED <<comm, communicators>>
    BY <1>5, OpenIs
  <2>2. comm'[g].size = 1 \/ comm'[g] = comm[g]
    BY <1>0, <2>1
  <2> QED
    BY <1>1, <2>1, <2>2
<1>6. ASSUME NEW t \in Thread,
             \/ \E h \in Grid : Create(t, h) \/ GetAt(t, h) \/ Close(t, h)
             \/ CreateDone(t) \/ Inc(t) \/ IncDone(t) \/ StartCommThread(t) \/ StopCommThread(t)
      PROVE  comm'[g] = comm[g] /\ done'[g] = done[g]
  BY <1>6 DEF Create, GetAt, Close, CreateDone, Inc, IncDone, StartCommThread, StopCommThread,
              configVars
<1> QED
  BY <1>1, <1>3, <1>4, <1>5, <1>6 DEF Next, Step

-----------------------------------------------------------------------------
(* The counters an access increments.                                      *)
LEMMA CountedFacts ==
  ASSUME NEW o \in Outcome
  PROVE  \/ /\ o \in {"own", "cached"} /\ Counted(o) = <<"ACCESS">>
         \/ \E c \in {"NUMA", "MPI", "FILE"} :
               /\ o \in {"numa", "file", "mpi", "stray"} /\ Counted(o) = <<"ACCESS", c>>
               /\ (c = "NUMA" <=> o = "numa") /\ (c = "FILE" <=> o = "file")
BY DEF Counted, Outcome

(* A thread that counts an access is at one of its counters: the only one, *)
(* the first of two, or the second.                                        *)
LEMMA CallFacts ==
  ASSUME Types, ClassesRight, CallsRight, NEW t \in Busy
  PROVE  /\ using[t] \in Grid /\ phase[using[t]] = "open" /\ t \in Thread /\ found[t] \in Outcome
         /\ DomainOf(using[t], t) \in Node
         /\ DomainOf(using[t], t) \in 0 .. domains[using[t]] - 1
         /\ Head(todo[t]) \in Native
         /\ \/ /\ found[t] \in {"own", "cached"}
               /\ Counted(found[t]) = <<"ACCESS">> /\ todo[t] = <<"ACCESS">>
            \/ \E c \in {"NUMA", "MPI", "FILE"} :
                  /\ found[t] \in {"numa", "file", "mpi"} /\ Counted(found[t]) = <<"ACCESS", c>>
                  /\ (c = "NUMA" <=> found[t] = "numa") /\ (c = "FILE" <=> found[t] = "file")
                  /\ todo[t] \in {<<"ACCESS", c>>, <<c>>}
<1>1. /\ t \in Thread /\ using[t] \in Grid /\ phase[using[t]] = "open" /\ found[t] \in Outcome
      /\ Fits(using[t], found[t])
      /\ \/ todo[t] = Counted(found[t])
         \/ Len(Counted(found[t])) = 2 /\ todo[t] = <<Counted(found[t])[2]>>
  BY DEF CallsRight, Busy, Types
<1>2. found[t] # "stray"
  BY <1>1 DEF Fits
<1>3. \/ /\ found[t] \in {"own", "cached"}
         /\ Counted(found[t]) = <<"ACCESS">> /\ todo[t] = <<"ACCESS">>
      \/ \E c \in {"NUMA", "MPI", "FILE"} :
            /\ found[t] \in {"numa", "file", "mpi"} /\ Counted(found[t]) = <<"ACCESS", c>>
            /\ (c = "NUMA" <=> found[t] = "numa") /\ (c = "FILE" <=> found[t] = "file")
            /\ todo[t] \in {<<"ACCESS", c>>, <<c>>}
  <2>1. CASE found[t] \in {"own", "cached"} /\ Counted(found[t]) = <<"ACCESS">>
    BY <1>1, <2>1
  <2>2. ASSUME NEW c \in {"NUMA", "MPI", "FILE"},
               found[t] \in {"numa", "file", "mpi", "stray"}, Counted(found[t]) = <<"ACCESS", c>>,
               (c = "NUMA" <=> found[t] = "numa") /\ (c = "FILE" <=> found[t] = "file")
        PROVE  /\ found[t] \in {"numa", "file", "mpi"} /\ Counted(found[t]) = <<"ACCESS", c>>
               /\ (c = "NUMA" <=> found[t] = "numa") /\ (c = "FILE" <=> found[t] = "file")
               /\ todo[t] \in {<<"ACCESS", c>>, <<c>>}
    BY <1>1, <1>2, <2>2
  <2> QED
    BY <1>1, <2>1, <2>2, CountedFacts
<1>4. Head(todo[t]) \in Native
  BY <1>3 DEF Native
<1>5. DomainOf(using[t], t) \in Node /\ DomainOf(using[t], t) \in 0 .. domains[using[t]] - 1
  <2>1. domains[using[t]] = TotalDomains(using[t]) /\ domains[using[t]] \in Nat
    BY <1>1 DEF ClassesRight, Suits, Types
  <2>2. NodeOf[t] \in Node /\ 0 \in Node
    BY <1>1, NodeFacts
  <2>3. CASE domains[using[t]] = 1
    BY <2>2, <2>3 DEF DomainOf
  <2>4. CASE domains[using[t]] # 1
    <3>1. domains[using[t]] = Cardinality(Node)
      BY <2>1, <2>4, TotalDomainsFacts
    <3> QED
      BY <2>2, <2>4, <3>1, NodeFacts DEF DomainOf
  <2> QED
    BY <2>3, <2>4
<1> QED
  BY <1>1, <1>3, <1>4, <1>5

(* What the end of an increment does.                                      *)
LEMMA IncDoneIs ==
  ASSUME Types, ClassesRight, CallsRight, NEW t \in Thread, IncDone(t)
  PROVE  /\ t \in Busy /\ pc[t] = "store"
         /\ todo' = [todo EXCEPT ![t] = Tail(@)]
         /\ loaded' = [loaded EXCEPT ![t] = 0]
         /\ UNCHANGED <<tableVars, configVars, containerVars, commVars>>
         /\ \/ /\ Len(todo[t]) = 1
               /\ served' = [served EXCEPT ![using[t]][found[t]] = @ + 1]
               /\ pc' = [pc EXCEPT ![t] = "idle"] /\ using' = [using EXCEPT ![t] = NoGrid]
               /\ found' = [found EXCEPT ![t] = "own"]
            \/ /\ Len(todo[t]) = 2 /\ Len(Counted(found[t])) = 2 /\ todo[t] = Counted(found[t])
               /\ Tail(todo[t]) = <<Counted(found[t])[2]>>
               /\ pc' = [pc EXCEPT ![t] = "count"] /\ UNCHANGED <<served, using, found>>
<1>1. t \in Busy /\ pc[t] = "store"
  BY DEF IncDone, Busy
<1>2. /\ todo' = [todo EXCEPT ![t] = Tail(@)] /\ loaded' = [loaded EXCEPT ![t] = 0]
      /\ UNCHANGED <<tableVars, configVars, containerVars, commVars>>
  BY DEF IncDone
<1>3. CASE Len(todo[t]) = 1
  BY <1>1, <1>2, <1>3 DEF IncDone
<1>4. CASE Len(todo[t]) # 1
  <2>1. PICK c \in {"NUMA", "MPI", "FILE"} :
           Counted(found[t]) = <<"ACCESS", c>> /\ todo[t] = <<"ACCESS", c>>
    BY <1>1, <1>4, CallFacts
  <2>2. /\ pc' = [pc EXCEPT ![t] = "count"] /\ UNCHANGED <<served, using>>
        /\ found' = [found EXCEPT ![t] = IF Len(todo[t]) = 1 THEN "own" ELSE @]
    BY <1>4 DEF IncDone
  <2>3. found' = found
    BY <1>4, <2>2 DEF Types
  <2>4. Len(todo[t]) = 2 /\ Len(Counted(found[t])) = 2 /\ todo[t] = Counted(found[t])
        /\ Tail(todo[t]) = <<Counted(found[t])[2]>>
    BY <2>1
  <2> QED
    BY <1>1, <1>2, <2>2, <2>3, <2>4
<1> QED
  BY <1>3, <1>4

(* Threads that use no grid come and go; those that do stay at it.         *)
LEMMA CallsStep ==
  ASSUME Types, HandlesRight, AddsRight, SizesRight, ClassesRight, CallsRight, Next
  PROVE  CallsRight'
<1> DEFINE Good(u) == /\ using[u] \in Grid /\ phase[using[u]] = "open"
                      /\ Fits(using[u], found[u])
                      /\ \/ todo[u] = Counted(found[u])
                         \/ Len(Counted(found[u])) = 2 /\ todo[u] = <<Counted(found[u])[2]>>
<1>0. /\ pc \in [Thread -> {"idle", "add", "count", "store"}] /\ found \in [Thread -> Outcome]
      /\ using \in [Thread -> Grid \cup {NoGrid}] /\ todo = [u \in Thread |-> todo[u]]
      /\ phase \in [Grid -> Phase]
  BY DEF Types
<1>1. ASSUME NEW u \in Thread, u \in Busy, phase'[using[u]] = "open",
             using'[u] = using[u], found'[u] = found[u], todo'[u] = todo[u]
      PROVE  Good(u)'
  <2>1. Good(u)
    BY <1>1 DEF CallsRight
  <2>2. setup' = setup /\ Configured(using[u])
    BY <2>1, ConfigKept
  <2>3. PICK g, o : g = using[u] /\ o = found[u]
    OBVIOUS
  <2>4. Fits(g, o) /\ Configured(g)
    BY <2>1, <2>2, <2>3
  <2>5. Fits(g, o)'
    BY <2>2, <2>4, FitsKept
  <2>6. using'[u] = g /\ found'[u] = o
    BY <1>1, <2>3
  <2> QED
    BY <1>1, <2>1, <2>5, <2>6
<1> SUFFICES ASSUME NEW u \in Thread, pc'[u] \in {"count", "store"} PROVE Good(u)'
  BY DEF CallsRight, Busy
<1>2. ASSUME UNCHANGED <<pc, using, found, todo>>, u \in Busy => phase'[using[u]] = "open"
      PROVE  Good(u)'
  BY <1>1, <1>2 DEF Busy
<1>3. ASSUME NEW t \in Thread, NEW g \in Grid, Create(t, g) PROVE Good(u)'
  <2>1. /\ phase[g] = "none" /\ phase' = [phase EXCEPT ![g] = "adding"]
        /\ pc' = [pc EXCEPT ![t] = "add"] /\ using' = [using EXCEPT ![t] = g]
        /\ UNCHANGED <<found, todo>>
    BY <1>3 DEF Create
  <2>2. u # t /\ u \in Busy /\ using'[u] = using[u]
    BY <1>0, <2>1 DEF Busy
  <2>3. phase'[using[u]] = "open"
    BY <1>0, <2>1, <2>2 DEF CallsRight
  <2> QED
    BY <1>1, <2>1, <2>2, <2>3
<1>4. ASSUME NEW t \in Thread, CreateDone(t) PROVE Good(u)'
  <2>1. /\ pc[t] = "add" /\ phase' = [phase EXCEPT ![using[t]] = "created"]
        /\ pc' = [pc EXCEPT ![t] = "idle"] /\ using' = [using EXCEPT ![t] = NoGrid]
        /\ UNCHANGED <<found, todo>>
    BY <1>4 DEF CreateDone
  <2>2. u # t /\ u \in Busy /\ using'[u] = using[u]
    BY <1>0, <2>1 DEF Busy
  <2>3. phase'[using[u]] = "open"
    BY <1>0, <2>1, <2>2 DEF CallsRight, AddsRight
  <2> QED
    BY <1>1, <2>1, <2>2, <2>3
<1>5. ASSUME NEW t \in Thread, NEW g \in Grid, SetThreads(t, g) \/ SetComm(t, g) \/ SetParam(t, g)
      PROVE  Good(u)'
  <2>1. UNCHANGED <<phase, pc, using, found, todo>>
    BY <1>5 DEF SetThreads, SetComm, SetParam, callVars
  <2> QED
    BY <1>2, <2>1 DEF CallsRight
<1>6. ASSUME NEW g \in Grid, Open(g) PROVE Good(u)'
  <2>1. UNCHANGED pc /\ \A t \in Thread : pc[t] = "idle"
    BY <1>6 DEF Open, callVars
  <2> QED
    BY <2>1
<1>7. ASSUME NEW t \in Thread, NEW g \in Grid, GetAt(t, g) PROVE Good(u)'
  <2>1. /\ phase[g] = "open" /\ using' = [using EXCEPT ![t] = g] /\ pc' = [pc EXCEPT ![t] = "count"]
        /\ \E outcome \in Results(g, t) :
              /\ found' = [found EXCEPT ![t] = outcome]
              /\ todo' = [todo EXCEPT ![t] = Counted(outcome)]
        /\ UNCHANGED <<tableVars, configVars, containerVars, counterVars, commVars, served>>
    BY <1>7, GetAtIs
  <2>2. PICK outcome \in Results(g, t) :
           /\ found' = [found EXCEPT ![t] = outcome]
           /\ todo' = [todo EXCEPT ![t] = Counted(outcome)]
    BY <2>1
  <2>3. phase' = phase
    BY <2>1 DEF configVars
  <2>4. CASE u # t
    <3>1. u \in Busy
      BY <1>0, <2>1, <2>4 DEF Busy
    <3>2. using'[u] = using[u] /\ found'[u] = found[u] /\ todo'[u] = todo[u]
      BY <1>0, <2>1, <2>2, <2>4
    <3> QED
      BY <1>1, <2>3, <3>1, <3>2 DEF CallsRight
  <2>5. CASE u = t
    <3>1. Suits(g)
      BY <2>1 DEF ClassesRight
    <3>2. outcome \in Outcome /\ Fits(g, outcome)
      BY <3>1, ResultsFit
    <3>3. setup' = setup /\ Configured(g)
      BY <2>1, ConfigKept
    <3>4. Fits(g, outcome)'
      BY <3>2, <3>3, FitsKept
    <3>5. using'[u] = g /\ found'[u] = outcome /\ todo'[u] = Counted(outcome)
      BY <1>0, <2>1, <2>2, <2>5
    <3> QED
      BY <2>1, <2>3, <3>4, <3>5
  <2> QED
    BY <2>4, <2>5
<1>8. ASSUME NEW t \in Thread, Inc(t) PROVE Good(u)'
  <2>1. /\ pc[t] = "count" /\ pc' = [pc EXCEPT ![t] = "store"]
        /\ UNCHANGED <<phase, using, found, todo>>
    BY <1>8 DEF Inc, configVars
  <2>2. u \in Busy
    BY <1>0, <2>1 DEF Busy
  <2> QED
    BY <1>1, <2>1, <2>2 DEF CallsRight
<1>9. ASSUME NEW t \in Thread, IncDone(t) PROVE Good(u)'
  <2>1. /\ t \in Busy /\ todo' = [todo EXCEPT ![t] = Tail(@)]
        /\ UNCHANGED <<tableVars, configVars, containerVars, commVars>>
        /\ \/ /\ Len(todo[t]) = 1
              /\ served' = [served EXCEPT ![using[t]][found[t]] = @ + 1]
              /\ pc' = [pc EXCEPT ![t] = "idle"] /\ using' = [using EXCEPT ![t] = NoGrid]
              /\ found' = [found EXCEPT ![t] = "own"]
           \/ /\ Len(todo[t]) = 2 /\ Len(Counted(found[t])) = 2 /\ todo[t] = Counted(found[t])
              /\ Tail(todo[t]) = <<Counted(found[t])[2]>>
              /\ pc' = [pc EXCEPT ![t] = "count"] /\ UNCHANGED <<served, using, found>>
    BY <1>9, IncDoneIs
  <2>2. phase' = phase
    BY <2>1 DEF configVars
  <2>3. CASE u # t
    <3>1. u \in Busy /\ using'[u] = using[u] /\ found'[u] = found[u] /\ todo'[u] = todo[u]
      BY <1>0, <2>1, <2>3 DEF Busy
    <3> QED
      BY <1>1, <2>2, <3>1 DEF CallsRight
  <2>4. CASE u = t
    <3>1. /\ Len(Counted(found[t])) = 2 /\ Tail(todo[t]) = <<Counted(found[t])[2]>>
          /\ UNCHANGED <<using, found>>
      BY <1>0, <2>1, <2>4
    <3>2. /\ using[t] \in Grid /\ phase[using[t]] = "open" /\ Fits(using[t], found[t])
      BY <2>1 DEF CallsRight
    <3>3. setup' = setup /\ Configured(using[t])
      BY <3>2, ConfigKept
    <3>4. Fits(using[t], found[t])'
      BY <3>1, <3>2, <3>3, FitsKept
    <3>5. todo'[t] = Tail(todo[t])
      BY <1>0, <2>1
    <3> QED
      BY <2>2, <2>4, <3>1, <3>2, <3>4, <3>5
  <2> QED
    BY <2>3, <2>4
<1>10. ASSUME NEW t \in Thread, NEW g \in Grid, Close(t, g) PROVE Good(u)'
  <2>1. /\ \A v \in Busy : using[v] # g
        /\ phase' = [phase EXCEPT ![g] = "closed"] /\ UNCHANGED <<pc, using, found, todo>>
    BY <1>10, CloseIs DEF callVars
  <2> QED
    BY <1>0, <1>2, <2>1 DEF CallsRight
<1>11. ASSUME NEW t \in Thread, StartCommThread(t) \/ StopCommThread(t) PROVE Good(u)'
  <2>1. UNCHANGED <<phase, pc, using, found, todo>>
    BY <1>11 DEF StartCommThread, StopCommThread, callVars, configVars
  <2> QED
    BY <1>2, <2>1 DEF CallsRight
<1> HIDE DEF Good
<1> QED
  BY <1>3, <1>4, <1>5, <1>6, <1>7, <1>8, <1>9, <1>10, <1>11 DEF Next, Step

(* What a thread has found is served at the end of its last increment.     *)
LEMMA ServedStep ==
  ASSUME Types, HandlesRight, AddsRight, ClassesRight, CallsRight, ServedRight, Next
  PROVE  ServedRight'
<1> SUFFICES ASSUME NEW g \in Grid, NEW o \in Outcome, served'[g][o] > 0
             PROVE  Fits(g, o)' /\ phase'[g] \in {"open", "closed"}
  BY DEF ServedRight
<1>0. served \in [Grid -> [Outcome -> Nat]] /\ setup' = setup
  BY ConfigKept DEF Types
<1>1. CASE Fits(g, o) /\ phase[g] \in {"open", "closed"}
  <2>1. Configured(g) /\ phase'[g] \in {"open", "closed"}
    BY <1>1, ConfigKept
  <2> QED
    BY <1>0, <1>1, <2>1, FitsKept
<1>2. CASE served' = served
  BY <1>1, <1>2 DEF ServedRight
<1>3. ASSUME NEW t \in Thread, IncDone(t)
      PROVE  Fits(g, o)' /\ phase'[g] \in {"open", "closed"}
  <2>1. /\ t \in Busy
        /\ served' = [served EXCEPT ![using[t]][found[t]] = @ + 1] \/ served' = served
    BY <1>3, IncDoneIs
  <2>2. using[t] \in Grid /\ phase[using[t]] = "open" /\ Fits(using[t], found[t])
    BY <2>1 DEF CallsRight
  <2>3. CASE g = using[t] /\ o = found[t]
    BY <1>1, <2>2, <2>3
  <2>4. CASE ~(g = using[t] /\ o = found[t])
    <3>1. served'[g][o] = served[g][o]
      BY <1>0, <2>1, <2>2, <2>4
    <3> QED
      BY <1>1, <3>1 DEF ServedRight
  <2> QED
    BY <2>3, <2>4
<1>4. ASSUME NEW t \in Thread,
             \/ \E h \in Grid : Create(t, h) \/ SetThreads(t, h) \/ SetComm(t, h)
                                   \/ SetParam(t, h) \/ GetAt(t, h) \/ Close(t, h)
             \/ CreateDone(t) \/ Inc(t) \/ StartCommThread(t) \/ StopCommThread(t)
      PROVE  served' = served
  BY <1>4 DEF Create, SetThreads, SetComm, SetParam, GetAt, Close, CreateDone, Inc,
              StartCommThread, StopCommThread, callVars
<1>5. ASSUME NEW h \in Grid, Open(h) PROVE served' = served
  BY <1>5 DEF Open, callVars
<1> QED
  BY <1>2, <1>3, <1>4, <1>5 DEF Next, Step

-----------------------------------------------------------------------------
(* The types.                                                              *)
LEMMA AfterInitType ==
  ASSUME Types, NEW g
  PROVE  AfterInit(g) \in Int
BY DEF Types, AfterInit

LEMMA TypesStep ==
  ASSUME Types, HandlesRight, AddsRight, SizesRight, ClassesRight, CallsRight, Next
  PROVE  Types'
<1>1. ASSUME NEW t \in Thread, NEW g \in Grid, Create(t, g) PROVE Types'
  BY <1>1 DEF Create, Types, Phase, containerVars, counterVars, commVars
<1>2. ASSUME NEW t \in Thread, CreateDone(t) PROVE Types'
  <2>1. using[t] \in Grid /\ Len(pointers) - 1 \in Int
    BY <1>2 DEF CreateDone, AddsRight
  <2> QED
    BY <1>2, <2>1 DEF CreateDone, Types, Phase, containerVars, counterVars, commVars
<1>3. ASSUME NEW t \in Thread, NEW g \in Grid, SetThreads(t, g) PROVE Types'
  <2>1. /\ done' = [done EXCEPT ![g] = @ + 1]
        /\ UNCHANGED <<tableVars, setup, phase, params, comm, containerVars, counterVars,
                       commVars, callVars>>
    BY <1>3, SetThreadsIs
  <2>2. done' \in [Grid -> Nat]
    BY <2>1 DEF Types
  <2> QED
    BY <2>1, <2>2 DEF Types, tableVars, containerVars, counterVars, commVars, callVars
<1>4. ASSUME NEW t \in Thread, NEW g \in Grid, SetComm(t, g) PROVE Types'
  <2>1. AfterInit(g) \in Int /\ setup.size \in Nat
    BY AfterInitType, GridsAssumption DEF Types
  <2>2. /\ done' = [done EXCEPT ![g] = @ + 1]
        /\ comm' = [comm EXCEPT ![g] = [size |-> setup.size, duplicate |-> TRUE]]
        /\ communicators' = AfterInit(g)
        /\ UNCHANGED <<tableVars, setup, phase, params, threads, containerVars, counterVars,
                       commThread, starts, callVars>>
    BY <1>4, SetCommIs
  <2>3. comm' \in [Grid -> [size : Nat, duplicate : BOOLEAN]]
    BY <2>1, <2>2 DEF Types
  <2> QED
    BY <2>1, <2>2, <2>3 DEF Types, tableVars, containerVars, counterVars, callVars
<1>5. ASSUME NEW t \in Thread, NEW g \in Grid, SetParam(t, g) PROVE Types'
  <2>1. PICK p : params' = [params EXCEPT ![g] = p]
    BY <1>5, SetParamIs
  <2>2. /\ done' = [done EXCEPT ![g] = @ + 1]
        /\ UNCHANGED <<tableVars, setup, phase, threads, comm, containerVars, counterVars,
                       commVars, callVars>>
    BY <1>5, SetParamIs
  <2>3. done' \in [Grid -> Nat] /\ params' = [h \in Grid |-> params'[h]]
    <3>1. done \in [Grid -> Nat] /\ params = [h \in Grid |-> params[h]]
      BY DEF Types
    <3>2. done' \in [Grid -> Nat]
      BY <2>2, <3>1
    <3>3. params' = [h \in Grid |-> IF h = g THEN p ELSE params[h]]
      BY <2>1, <3>1
    <3> QED
      BY <3>2, <3>3
  <2> QED
    BY <2>2, <2>3 DEF Types, tableVars, containerVars, counterVars, commVars, callVars
<1>6. ASSUME NEW g \in Grid, Open(g) PROVE Types'
  <2>1. AfterInit(g) \in Int /\ TotalDomains(g) \in Nat
    BY AfterInitType, TotalDomainsFacts
  <2>2. /\ containerType' = [containerType EXCEPT ![g] = ContainerType(g)]
        /\ domains' = [domains EXCEPT ![g] = TotalDomains(g)]
        /\ IF Reset(g)
           THEN /\ comm' = [comm EXCEPT ![g] = [size |-> 1, duplicate |-> TRUE]]
                /\ communicators' = AfterInit(g)
           ELSE UNCHANGED <<comm, communicators>>
        /\ phase' = [phase EXCEPT ![g] = "open"]
        /\ UNCHANGED <<tableVars, setup, done, params, threads, counterVars, commThread,
                       starts, callVars>>
    BY <1>6, OpenIs
  <2>3. comm' \in [Grid -> [size : Nat, duplicate : BOOLEAN]] /\ communicators' \in Int
    <3>1. comm \in [Grid -> [size : Nat, duplicate : BOOLEAN]] /\ communicators \in Int
      BY DEF Types
    <3>2. CASE Reset(g)
      <4>1. comm' = [comm EXCEPT ![g] = [size |-> 1, duplicate |-> TRUE]]
            /\ communicators' = AfterInit(g)
        BY <2>2, <3>2
      <4>2. comm' \in [Grid -> [size : Nat, duplicate : BOOLEAN]]
        BY <3>1, <4>1
      <4> QED
        BY <2>1, <4>1, <4>2
    <3>3. CASE ~Reset(g)
      BY <2>2, <3>1, <3>3
    <3> QED
      BY <3>2, <3>3
  <2> QED
    BY <2>1, <2>2, <2>3 DEF Types, Phase, tableVars, counterVars, callVars
<1>7. ASSUME NEW t \in Thread, NEW g \in Grid, GetAt(t, g) PROVE Types'
  <2>1. /\ phase[g] = "open" /\ using' = [using EXCEPT ![t] = g] /\ pc' = [pc EXCEPT ![t] = "count"]
        /\ UNCHANGED <<tableVars, configVars, containerVars, counterVars, commVars, served>>
        /\ \E outcome \in Results(g, t) :
              /\ found' = [found EXCEPT ![t] = outcome]
              /\ todo' = [todo EXCEPT ![t] = Counted(outcome)]
    BY <1>7, GetAtIs
  <2>2. PICK outcome \in Results(g, t) :
           /\ found' = [found EXCEPT ![t] = outcome]
           /\ todo' = [todo EXCEPT ![t] = Counted(outcome)]
    BY <2>1
  <2>3. outcome \in Outcome
    BY <2>1, ResultsFit DEF ClassesRight
  <2> QED
    BY <2>1, <2>2, <2>3
       DEF Types, tableVars, configVars, containerVars, counterVars, commVars
<1>8. ASSUME NEW t \in Thread, Inc(t) PROVE Types'
  <2>1. t \in Busy
    BY <1>8 DEF Inc, Busy
  <2>2. PICK g \in Grid, d \in Node, c \in Native :
           g = using[t] /\ d = DomainOf(using[t], t) /\ c = Head(todo[t])
    BY <2>1, CallFacts
  <2>3. /\ mutex' = mutex \/ mutex' = [mutex EXCEPT ![g][d][c] = t]
        /\ loaded' = [loaded EXCEPT ![t] = counter[g][d][c]]
        /\ pc' = [pc EXCEPT ![t] = "store"]
        /\ UNCHANGED <<tableVars, configVars, containerVars, counter, commVars, using, found, todo,
                       served>>
    BY <1>8, <2>2 DEF Inc
  <2>4. mutex' \in [Grid -> [Node -> [Native -> Thread \cup {NoThread}]]]
    <3>1. mutex \in [Grid -> [Node -> [Native -> Thread \cup {NoThread}]]]
      BY DEF Types
    <3>2. [mutex EXCEPT ![g][d][c] = t] \in [Grid -> [Node -> [Native -> Thread \cup {NoThread}]]]
      <4>1. [mutex[g] EXCEPT ![d][c] = t] \in [Node -> [Native -> Thread \cup {NoThread}]]
        <5>1. [mutex[g][d] EXCEPT ![c] = t] \in [Native -> Thread \cup {NoThread}]
          BY <3>1
        <5> QED
          BY <3>1, <5>1
      <4> QED
        BY <3>1, <4>1
    <3> QED
      BY <2>3, <3>1, <3>2
  <2>5. loaded' \in [Thread -> Int]
    BY <2>3 DEF Types
  <2> QED
    BY <2>3, <2>4, <2>5 DEF Types, tableVars, configVars, containerVars, commVars
<1>9. ASSUME NEW t \in Thread, IncDone(t) PROVE Types'
  <2>1. /\ t \in Busy /\ todo' = [todo EXCEPT ![t] = Tail(@)]
        /\ loaded' = [loaded EXCEPT ![t] = 0]
        /\ UNCHANGED <<tableVars, configVars, containerVars, commVars>>
        /\ \/ /\ served' = [served EXCEPT ![using[t]][found[t]] = @ + 1]
              /\ pc' = [pc EXCEPT ![t] = "idle"] /\ using' = [using EXCEPT ![t] = NoGrid]
              /\ found' = [found EXCEPT ![t] = "own"]
           \/ pc' = [pc EXCEPT ![t] = "count"] /\ UNCHANGED <<served, using, found>>
    BY <1>9, IncDoneIs
  <2>2. PICK g \in Grid, d \in Node, c \in Native, o \in Outcome :
           g = using[t] /\ d = DomainOf(using[t], t) /\ c = Head(todo[t]) /\ o = found[t]
    BY <2>1, CallFacts
  <2>3. /\ counter' = [counter EXCEPT ![g][d][c] = loaded[t] + 1]
        /\ mutex' = [mutex EXCEPT ![g][d][c] = NoThread]
    BY <1>9, <2>2 DEF IncDone
  <2>4. mutex' \in [Grid -> [Node -> [Native -> Thread \cup {NoThread}]]]
    <3>1. mutex \in [Grid -> [Node -> [Native -> Thread \cup {NoThread}]]]
      BY DEF Types
    <3> QED
      BY <2>3, <3>1
  <2>5. counter' \in [Grid -> [Node -> [Native -> Int]]]
    <3>1. counter \in [Grid -> [Node -> [Native -> Int]]] /\ loaded[t] + 1 \in Int
      BY DEF Types
    <3> QED
      BY <2>3, <3>1
  <2>6. served' \in [Grid -> [Outcome -> Nat]]
    <3>1. served \in [Grid -> [Outcome -> Nat]]
      BY DEF Types
    <3>2. CASE served' = [served EXCEPT ![g][o] = @ + 1]
      <4>1. served[g][o] + 1 \in Nat
        BY <3>1
      <4> QED
        BY <3>1, <3>2, <4>1
    <3> QED
      BY <2>1, <2>2, <3>1, <3>2
  <2>7. found' \in [Thread -> Outcome] /\ using' \in [Thread -> Grid \cup {NoGrid}]
        /\ pc' \in [Thread -> {"idle", "add", "count", "store"}]
    BY <2>1 DEF Types, Outcome
  <2>8. todo' = [u \in Thread |-> todo'[u]] /\ loaded' \in [Thread -> Int]
    <3>1. todo = [u \in Thread |-> todo[u]] /\ loaded \in [Thread -> Int]
      BY DEF Types
    <3>2. loaded' \in [Thread -> Int]
      BY <2>1, <3>1
    <3>3. todo' = [u \in Thread |-> IF u = t THEN Tail(todo[t]) ELSE todo[u]]
      BY <2>1, <3>1
    <3> QED
      BY <3>2, <3>3
  <2>9. UNCHANGED <<setup, pointers, handle, phase, done, params, comm, containerType, domains,
                    commThread, communicators>>
    BY <2>1 DEF tableVars, configVars, containerVars, commVars
  <2> QED
    BY <2>4, <2>5, <2>6, <2>7, <2>8, <2>9 DEF Types
<1>10. ASSUME NEW t \in Thread, NEW g \in Grid, Close(t, g) PROVE Types'
  <2>1. /\ Alive(g) /\ pointers' = [pointers EXCEPT ![handle[g] + 1] = NoGrid]
        /\ communicators' = communicators - (IF comm[g].duplicate THEN 1 ELSE 0)
        /\ phase' = [phase EXCEPT ![g] = "closed"]
        /\ UNCHANGED <<lock, handle, setup, done, params, threads, comm, containerVars,
                       counterVars, commThread, starts, callVars>>
    BY <1>10, CloseIs
  <2>2. communicators' \in Int
    BY <2>1 DEF Types
  <2>3. pointers' \in Seq(Grid \cup {NoGrid})
    <3>1. Len(pointers) \in Nat /\ pointers \in [1 .. Len(pointers) -> Grid \cup {NoGrid}]
      BY DEF Types
    <3>2. pointers' \in [1 .. Len(pointers) -> Grid \cup {NoGrid}]
      BY <2>1, <3>1
    <3> QED
      BY <3>1, <3>2
  <2> QED
    BY <2>1, <2>2, <2>3 DEF Types, Phase, containerVars, counterVars, callVars
<1>11. ASSUME NEW t \in Thread, StartCommThread(t) \/ StopCommThread(t) PROVE Types'
  <2>1. commThread' \in BOOLEAN /\ communicators' \in Int
    <3>1. communicators \in Int
      BY DEF Types
    <3>2. CASE StartCommThread(t)
      <4>1. commThread' = TRUE /\ communicators' = communicators + (IF commThread THEN 0 ELSE 1)
        BY <3>2 DEF StartCommThread
      <4> QED
        BY <3>1, <4>1
    <3>3. CASE StopCommThread(t)
      <4>1. commThread' = FALSE /\ communicators' = communicators - 1
        BY <3>3 DEF StopCommThread
      <4>2. commThread' \in BOOLEAN
        BY <4>1
      <4>3. communicators' \in Int
        BY <3>1, <4>1
      <4> QED
        BY <4>2, <4>3
    <3> QED
      BY <1>11, <3>2, <3>3
  <2>2. UNCHANGED <<tableVars, configVars, containerVars, counterVars, callVars>>
    BY <1>11 DEF StartCommThread, StopCommThread
  <2> QED
    BY <2>1, <2>2 DEF Types, tableVars, configVars, containerVars, counterVars, callVars
<1> QED
  BY <1>1, <1>2, <1>3, <1>4, <1>5, <1>6, <1>7, <1>8, <1>9, <1>10, <1>11 DEF Next, Step

(* Whoever is between the load and the store of an increment holds the     *)
(* mutex of the counter, so that the counter is what was loaded.           *)
LEMMA StoresStep ==
  ASSUME Types, HandlesRight, AddsRight, ClassesRight, CallsRight, StoresRight,
         ThreadsafeCounter, Next
  PROVE  StoresRight'
<1> DEFINE Good(u) == LET d == DomainOf(using[u], u)
                          c == Head(todo[u])
                      IN  mutex[using[u]][d][c] = u /\ loaded[u] = counter[using[u]][d][c]
<1>0. /\ pc \in [Thread -> {"idle", "add", "count", "store"}]
      /\ using \in [Thread -> Grid \cup {NoGrid}] /\ todo = [u \in Thread |-> todo[u]]
      /\ loaded \in [Thread -> Int]
      /\ counter \in [Grid -> [Node -> [Native -> Int]]]
      /\ mutex \in [Grid -> [Node -> [Native -> Thread \cup {NoThread}]]]
  BY DEF Types
<1> SUFFICES ASSUME NEW u \in Thread, pc'[u] = "store" PROVE Good(u)'
  BY DEF StoresRight
<1>1. ASSUME pc[u] = "store", using'[u] = using[u], todo'[u] = todo[u], loaded'[u] = loaded[u],
             mutex'[using[u]][DomainOf(using[u], u)][Head(todo[u])]
                = mutex[using[u]][DomainOf(using[u], u)][Head(todo[u])],
             counter'[using[u]][DomainOf(using[u], u)][Head(todo[u])]
                = counter[using[u]][DomainOf(using[u], u)][Head(todo[u])]
      PROVE  Good(u)'
  <2>1. Good(u)
    BY <1>1 DEF StoresRight
  <2>2. u \in Busy
    BY <1>1 DEF Busy
  <2>3. using[u] \in Grid /\ phase[using[u]] # "created"
    BY <2>2, CallFacts
  <2>4. domains'[using[u]] = domains[using[u]]
    BY <2>3, ConfigKept DEF Configured
  <2>5. DomainOf(using[u], u)' = DomainOf(using[u], u)
    BY <1>1, <2>4 DEF DomainOf
  <2> QED
    BY <1>1, <2>1, <2>5
<1>2. ASSUME u \in Thread, pc[u] = "store", using'[u] = using[u], todo'[u] = todo[u],
             UNCHANGED counterVars
      PROVE  Good(u)'
  BY <1>1, <1>2 DEF counterVars
<1>3. ASSUME NEW t \in Thread, NEW g \in Grid, Create(t, g) PROVE Good(u)'
  <2>1. /\ pc' = [pc EXCEPT ![t] = "add"] /\ using' = [using EXCEPT ![t] = g]
        /\ UNCHANGED <<todo, counterVars>>
    BY <1>3 DEF Create
  <2> QED
    BY <1>0, <1>2, <2>1
<1>4. ASSUME NEW t \in Thread, CreateDone(t) PROVE Good(u)'
  <2>1. /\ pc' = [pc EXCEPT ![t] = "idle"] /\ using' = [using EXCEPT ![t] = NoGrid]
        /\ UNCHANGED <<todo, counterVars>>
    BY <1>4 DEF CreateDone
  <2> QED
    BY <1>0, <1>2, <2>1
<1>5. ASSUME NEW t \in Thread,
             \/ \E g \in Grid : SetThreads(t, g) \/ SetComm(t, g) \/ SetParam(t, g) \/ Close(t, g)
             \/ StartCommThread(t) \/ StopCommThread(t)
      PROVE  Good(u)'
  <2>1. UNCHANGED <<pc, using, todo, counterVars>>
    BY <1>5 DEF SetThreads, SetComm, SetParam, Close, StartCommThread, StopCommThread, callVars
  <2> QED
    BY <1>0, <1>2, <2>1
<1>6. ASSUME NEW g \in Grid, Open(g) PROVE Good(u)'
  <2>1. UNCHANGED pc /\ \A t \in Thread : pc[t] = "idle"
    BY <1>6 DEF Open, callVars
  <2> QED
    BY <2>1
<1>7. ASSUME NEW t \in Thread, NEW g \in Grid, GetAt(t, g) PROVE Good(u)'
  <2>1. /\ using' = [using EXCEPT ![t] = g] /\ pc' = [pc EXCEPT ![t] = "count"]
        /\ \E outcome \in Results(g, t) : todo' = [todo EXCEPT ![t] = Counted(outcome)]
        /\ UNCHANGED counterVars
    BY <1>7, GetAtIs
  <2>2. PICK outcome \in Results(g, t) : todo' = [todo EXCEPT ![t] = Counted(outcome)]
    BY <2>1
  <2>3. u # t
    BY <1>0, <2>1
  <2>4. pc[u] = "store" /\ using'[u] = using[u] /\ todo'[u] = todo[u]
    BY <1>0, <2>1, <2>2, <2>3
  <2> QED
    BY <1>2, <2>1, <2>4
<1>8. ASSUME NEW t \in Thread, Inc(t) PROVE Good(u)'
  <2>1. t \in Busy
    BY <1>8 DEF Inc, Busy
  <2>2. PICK g \in Grid, d \in Node, c \in Native :
           g = using[t] /\ d = DomainOf(using[t], t) /\ c = Head(todo[t])
    BY <2>1, CallFacts
  <2>3. /\ mutex[g][d][c] = NoThread /\ mutex' = [mutex EXCEPT ![g][d][c] = t]
        /\ loaded' = [loaded EXCEPT ![t] = counter[g][d][c]]
        /\ pc' = [pc EXCEPT ![t] = "store"]
        /\ UNCHANGED <<domains, counter, using, todo>>
    BY <1>8, <2>2 DEF Inc, containerVars
  <2>4. CASE u = t
    <3>1. DomainOf(using[t], t)' = d /\ using'[t] = g /\ Head(todo'[t]) = c
      BY <2>2, <2>3 DEF DomainOf
    <3>2. mutex'[g][d][c] = t /\ loaded'[t] = counter'[g][d][c]
      BY <1>0, <2>3
    <3> QED
      BY <2>4, <3>1, <3>2
  <2>5. CASE u # t
    <3>1. pc[u] = "store" /\ using'[u] = using[u] /\ todo'[u] = todo[u] /\ loaded'[u] = loaded[u]
      BY <1>0, <2>3, <2>5
    <3>2. u \in Busy
      BY <3>1 DEF Busy
    <3>3. PICK h \in Grid, e \in Node, b \in Native :
             h = using[u] /\ e = DomainOf(using[u], u) /\ b = Head(todo[u])
      BY <3>2, CallFacts
    <3>4. mutex[h][e][b] = u /\ u # NoThread
      BY <3>1, <3>3, GridsAssumption DEF StoresRight
    <3>5. mutex'[h][e][b] = mutex[h][e][b]
      BY <1>0, <2>3, <3>4
    <3> QED
      BY <1>1, <2>3, <3>1, <3>3, <3>5
  <2> QED
    BY <2>4, <2>5
<1>9. ASSUME NEW t \in Thread, IncDone(t) PROVE Good(u)'
  <2>1. /\ t \in Busy /\ pc[t] = "store" /\ todo' = [todo EXCEPT ![t] = Tail(@)]
        /\ loaded' = [loaded EXCEPT ![t] = 0]
        /\ \/ pc' = [pc EXCEPT ![t] = "idle"] /\ using' = [using EXCEPT ![t] = NoGrid]
           \/ pc' = [pc EXCEPT ![t] = "count"] /\ UNCHANGED using
    BY <1>9, IncDoneIs
  <2>2. PICK g \in Grid, d \in Node, c \in Native :
           g = using[t] /\ d = DomainOf(using[t], t) /\ c = Head(todo[t])
    BY <2>1, CallFacts
  <2>3. /\ counter' = [counter EXCEPT ![g][d][c] = loaded[t] + 1]
        /\ mutex' = [mutex EXCEPT ![g][d][c] = NoThread]
    BY <1>9, <2>2 DEF IncDone
  <2>4. u # t
    BY <1>0, <2>1
  <2>5. pc[u] = "store" /\ using'[u] = using[u] /\ todo'[u] = todo[u] /\ loaded'[u] = loaded[u]
    BY <1>0, <2>1, <2>4
  <2>6. u \in Busy
    BY <2>5 DEF Busy
  <2>7. PICK h \in Grid, e \in Node, b \in Native :
           h = using[u] /\ e = DomainOf(using[u], u) /\ b = Head(todo[u])
    BY <2>6, CallFacts
  <2>8. mutex[h][e][b] = u /\ mutex[g][d][c] = t
    BY <2>1, <2>2, <2>5, <2>7 DEF StoresRight
  <2>9. ~(h = g /\ e = d /\ b = c)
    BY <2>4, <2>8
  <2>10. mutex'[h][e][b] = mutex[h][e][b] /\ counter'[h][e][b] = counter[h][e][b]
    BY <1>0, <2>3, <2>9
  <2> QED
    BY <1>1, <2>5, <2>7, <2>10
<1> HIDE DEF Good
<1> QED
  BY <1>3, <1>4, <1>5, <1>6, <1>7, <1>8, <1>9 DEF Next, Step

(* The sum of a counter over the domains stays if the counters stay, and   *)
(* grows by one if one of them does.                                       *)
LEMMA TotalFacts ==
  ASSUME Types, NEW g \in Grid, NEW c \in Native, 0 .. domains[g] - 1 \subseteq Node,
         domains'[g] = domains[g]
  PROVE  /\ Total(g, c) \in Int
         /\ (\A d \in Node : counter'[g][d][c] = counter[g][d][c]) =>
               Total(g, c)' = Total(g, c)
         /\ \A x \in 0 .. domains[g] - 1 :
               counter'[g] = [counter[g] EXCEPT ![x][c] = @ + 1] =>
                  Total(g, c)' = Total(g, c) + 1
<1> DEFINE T == 0 .. domains[g] - 1
           f == ByDomain(g, c)
           h == ByDomain(g, c)'
<1>1. IsFiniteSet(T)
  <2>1. 0 \in Int /\ domains[g] - 1 \in Int
    BY DEF Types
  <2> QED
    BY <2>1, FS_Interval
<1>2. \A x : Get(x, c) = x[c]
  BY DEF Get, Native
<1>3. \A d \in Node : counter[g][d][c] \in Int
  BY DEF Types
<1>4. \A d \in T : f[d] = counter[g][d][c] /\ f[d] \in Int
  BY <1>2, <1>3 DEF ByDomain
<1>5. \A d \in T : h[d] = counter'[g][d][c]
  BY <1>2 DEF ByDomain
<1>6. Total(g, c) = SumOf(f, T) /\ Total(g, c)' = SumOf(h, T)
  BY DEF Total
<1> HIDE DEF f, h
<1>7. Total(g, c) \in Int
  BY <1>1, <1>4, <1>6, SumFacts
<1>8. ASSUME \A d \in Node : counter'[g][d][c] = counter[g][d][c]
      PROVE  Total(g, c)' = Total(g, c)
  <2>1. \A d \in T : f[d] \in Int /\ h[d] = f[d]
    BY <1>4, <1>5, <1>8
  <2> QED
    BY <1>1, <1>6, <2>1, SumSame
<1>9. ASSUME NEW x \in T, counter'[g] = [counter[g] EXCEPT ![x][c] = @ + 1]
      PROVE  Total(g, c)' = Total(g, c) + 1
  <2>1. counter[g] \in [Node -> [Native -> Int]] /\ x \in Node
    BY DEF Types
  <2>2. /\ counter'[g][x][c] = counter[g][x][c] + 1
        /\ \A d \in Node \ {x} : counter'[g][d][c] = counter[g][d][c]
    BY <1>9, <2>1
  <2>3. h[x] = f[x] + 1 /\ \A d \in T \ {x} : h[d] = f[d]
    BY <1>4, <1>5, <2>2
  <2>4. \A d \in T : f[d] \in Int /\ h[d] \in Int
    BY <1>4, <2>3
  <2>5. SumOf(h, T) = SumOf(f, T) + h[x] - f[x]
    <3>1. x \in T
      OBVIOUS
    <3>2. \A y \in T \ {x} : h[y] = f[y]
      BY <2>3
    <3> HIDE DEF T
    <3>3. PICK U, p, q : U = T /\ p = f /\ q = h
      OBVIOUS
    <3>4. /\ IsFiniteSet(U) /\ x \in U /\ \A y \in U : p[y] \in Int /\ q[y] \in Int
          /\ \A y \in U \ {x} : q[y] = p[y]
      BY <1>1, <2>4, <3>1, <3>2, <3>3
    <3>5. SumOf(q, U) = SumOf(p, U) + q[x] - p[x]
      BY <3>4, SumChange
    <3> QED
      BY <3>3, <3>5
  <2>6. PICK a \in Int, b \in Int : a = f[x] /\ b = SumOf(f, T)
    BY <1>4, <1>6, <1>7
  <2> QED
    BY <1>6, <2>3, <2>5, <2>6
<1> QED
  BY <1>7, <1>8, <1>9

(* Sums of nothing but zeros.                                              *)
LEMMA SumZero ==
  ASSUME NEW T, IsFiniteSet(T), NEW f, \A x \in T : f[x] = 0
  PROVE  SumOf(f, T) = 0
<1>1. SumOf(f, T) \in Int /\ SumOf(f, T) = SumOf(f, T) - SumOf(f, T)
  <2>1. \A x \in T : f[x] \in Int /\ f[x] = f[x] - f[x]
    OBVIOUS
  <2>2. SumOf(f, T) \in Int
    BY <2>1, SumFacts
  <2>3. SumOf(f, T) = SumOf(f, T) - SumOf(f, T)
    BY <2>1, SumLinear
  <2> QED
    BY <2>2, <2>3
<1> QED
  BY <1>1

(* The outcomes of an access.                                              *)
LEMMA OutcomeFinite == IsFiniteSet(Outcome)
<1>1. IsFiniteSet({}) 
  BY FS_EmptySet
<1>2. Outcome = ((((({} \cup {"own"}) \cup {"cached"}) \cup {"numa"}) \cup {"mpi"}) \cup {"file"})
                   \cup {"stray"}
  BY DEF Outcome
<1> QED
  BY <1>1, <1>2, FS_AddElement

(* Those of one grid.                                                      *)
LEMMA HalfFacts ==
  ASSUME Types, NEW g
  PROVE  IsFiniteSet(Half(g)) /\ Cardinality(Half(g)) \in Nat
<1>1. IsFiniteSet(Thread) /\ Half(g) \subseteq Thread
  BY GridsAssumption DEF Half, Busy
<1> QED
  BY <1>1, FS_Subset, FS_CardinalityType

(* The domains of an open grid are nodes.                                  *)
LEMMA DomainsOpen ==
  ASSUME Types, ClassesRight, NEW t \in Thread, NEW g \in Grid, phase[g] = "open"
  PROVE  0 .. domains[g] - 1 \subseteq Node
<1>1. domains[g] = TotalDomains(g)
  BY DEF ClassesRight, Suits
<1>2. CASE domains[g] = 1
  BY <1>2, NodeFacts
<1>3. CASE domains[g] # 1
  BY <1>1, <1>3, TotalDomainsFacts, NodeFacts
<1> QED
  BY <1>2, <1>3

(* What is counted and served of a grid.                                   *)
CountsOf(g) ==
    /\ Total(g, "ACCESS") = SumOf(served[g], Outcome) + Cardinality(Half(g))
    /\ Total(g, "NUMA") = served[g]["numa"]
    /\ Total(g, "MPI") = served[g]["mpi"]
    /\ Total(g, "FILE") = served[g]["file"]

(* Nothing is when it is opened ...                                        *)
LEMMA CountsOpened ==
  ASSUME Types, HandlesRight, ServedRight, CountsRight,
         NEW g \in Grid, Open(g), 0 .. domains'[g] - 1 \subseteq Node
  PROVE  CountsOf(g)'
<1>1. /\ phase[g] = "created" /\ \A t \in Thread : pc[t] = "idle"
      /\ domains' = [domains EXCEPT ![g] = TotalDomains(g)] /\ UNCHANGED <<counterVars, callVars>>
  BY OpenIs
<1>2. UNCHANGED <<counter, served, pc>>
  BY <1>1 DEF counterVars, callVars
<1>3. \A o \in Outcome : served'[g][o] = 0
  <2>1. served \in [Grid -> [Outcome -> Nat]]
    BY DEF Types
  <2> QED
    BY <1>1, <1>2, <2>1 DEF ServedRight
<1>4. SumOf(served'[g], Outcome) = 0
  BY <1>3, OutcomeFinite, SumZero
<1>5. Half(g)' = {}
  BY <1>1, <1>2 DEF Half, Busy
<1>6. ASSUME NEW c \in Native PROVE Total(g, c)' = 0
  <2> DEFINE T == 0 .. domains'[g] - 1
             h == ByDomain(g, c)'
  <2>1. IsFiniteSet(T)
    <3>1. domains'[g] - 1 \in Int
      BY <1>1, TotalDomainsFacts DEF Types
    <3> QED
      BY <3>1, FS_Interval
  <2>2. \A d \in T : h[d] = 0
    <3>1. \A d \in Node : counter[g][d][c] = 0
      BY <1>1 DEF CountsRight
    <3>2. \A d \in T : h[d] = counter[g][d][c]
      BY <1>2 DEF ByDomain, Get, Native
    <3> QED
      BY <3>1, <3>2
  <2>3. Total(g, c)' = SumOf(h, T)
    BY DEF Total
  <2> HIDE DEF T, h
  <2> QED
    BY <2>1, <2>2, <2>3, SumZero
<1>7. Cardinality(Half(g)') = 0
  BY <1>5, FS_EmptySet
<1>8. "numa" \in Outcome /\ "mpi" \in Outcome /\ "file" \in Outcome
      /\ "ACCESS" \in Native /\ "NUMA" \in Native /\ "MPI" \in Native /\ "FILE" \in Native
  BY DEF Outcome, Native
<1> QED
  BY <1>3, <1>4, <1>6, <1>7, <1>8 DEF CountsOf

(* ... it stays as it is if the grid is not used ...                       *)
LEMMA CountsKept ==
  ASSUME Types, NEW g \in Grid, CountsOf(g), 0 .. domains[g] - 1 \subseteq Node,
         domains'[g] = domains[g], counter'[g] = counter[g], served'[g] = served[g],
         Half(g)' = Half(g)
  PROVE  CountsOf(g)'
<1>1. ASSUME NEW c \in Native PROVE Total(g, c)' = Total(g, c)
  BY TotalFacts
<1>2. "ACCESS" \in Native /\ "NUMA" \in Native /\ "MPI" \in Native /\ "FILE" \in Native
  BY DEF Native
<1> QED
  BY <1>1, <1>2 DEF CountsOf

(* ... or changes with the end of an increment: an access with one counter *)
(* is served, one with two is half counted or was and is served.           *)
LEMMA CountsIncremented ==
  ASSUME Types, ClassesRight, CallsRight, StoresRight, ThreadsafeCounter,
         HandlesRight, AddsRight, Next,
         NEW t \in Thread, IncDone(t), NEW g \in Grid, g = using[t], CountsOf(g)
  PROVE  CountsOf(g)'
<1>1. /\ t \in Busy /\ pc[t] = "store" /\ todo' = [todo EXCEPT ![t] = Tail(@)]
      /\ \/ /\ Len(todo[t]) = 1
            /\ served' = [served EXCEPT ![using[t]][found[t]] = @ + 1]
            /\ pc' = [pc EXCEPT ![t] = "idle"] /\ using' = [using EXCEPT ![t] = NoGrid]
            /\ found' = [found EXCEPT ![t] = "own"]
         \/ /\ Len(todo[t]) = 2 /\ Len(Counted(found[t])) = 2 /\ todo[t] = Counted(found[t])
            /\ Tail(todo[t]) = <<Counted(found[t])[2]>>
            /\ pc' = [pc EXCEPT ![t] = "count"] /\ UNCHANGED <<served, using, found>>
  BY IncDoneIs
<1>2. /\ using[t] \in Grid /\ phase[using[t]] = "open" /\ found[t] \in Outcome
      /\ DomainOf(using[t], t) \in Node
      /\ DomainOf(using[t], t) \in 0 .. domains[using[t]] - 1
      /\ Head(todo[t]) \in Native
      /\ \/ /\ found[t] \in {"own", "cached"}
            /\ Counted(found[t]) = <<"ACCESS">> /\ todo[t] = <<"ACCESS">>
         \/ \E c \in {"NUMA", "MPI", "FILE"} :
               /\ found[t] \in {"numa", "file", "mpi"} /\ Counted(found[t]) = <<"ACCESS", c>>
               /\ (c = "NUMA" <=> found[t] = "numa") /\ (c = "FILE" <=> found[t] = "file")
               /\ todo[t] \in {<<"ACCESS", c>>, <<c>>}
  BY <1>1, CallFacts
<1>3. PICK d \in Node, c \in Native, o \in Outcome :
         d = DomainOf(using[t], t) /\ c = Head(todo[t]) /\ o = found[t]
  BY <1>2
<1>4. counter'[g] = [counter[g] EXCEPT ![d][c] = @ + 1]
  <2>1. counter' = [counter EXCEPT ![g][d][c] = loaded[t] + 1]
    BY <1>3 DEF IncDone
  <2>2. loaded[t] = counter[g][d][c]
    BY <1>1, <1>3 DEF StoresRight
  <2>3. counter \in [Grid -> [Node -> [Native -> Int]]]
    BY DEF Types
  <2> QED
    BY <2>1, <2>2, <2>3
<1>5. domains'[g] = domains[g]
  BY <1>2, <1>3, ConfigKept DEF Configured
<1>6. 0 .. domains[g] - 1 \subseteq Node /\ d \in 0 .. domains[g] - 1
  BY <1>2, <1>3, DomainsOpen
<1>7. Total(g, c)' = Total(g, c) + 1 /\ Total(g, c) \in Int
  BY <1>4, <1>5, <1>6, TotalFacts
<1>8. ASSUME NEW b \in Native \ {c} PROVE Total(g, b)' = Total(g, b) /\ Total(g, b) \in Int
  <2>1. \A x \in Node : counter'[g][x][b] = counter[g][x][b]
    <3>1. counter[g] \in [Node -> [Native -> Int]]
      BY DEF Types
    <3> QED
      BY <1>4, <3>1
  <2> QED
    BY <1>5, <1>6, <2>1, TotalFacts
<1>9. /\ pc \in [Thread -> {"idle", "add", "count", "store"}] /\ found \in [Thread -> Outcome]
      /\ using \in [Thread -> Grid \cup {NoGrid}] /\ todo = [u \in Thread |-> todo[u]]
      /\ served \in [Grid -> [Outcome -> Nat]]
  BY DEF Types
<1>10. IsFiniteSet(Half(g)) /\ Cardinality(Half(g)) \in Nat
  BY HalfFacts
<1>11. ASSUME NEW u \in Thread \ {t} PROVE u \in Half(g)' <=> u \in Half(g)
  <2>1. /\ pc'[u] = pc[u] /\ using'[u] = using[u] /\ todo'[u] = todo[u] /\ found'[u] = found[u]
    BY <1>1, <1>9
  <2> QED
    BY <2>1 DEF Half, Busy
<1>12. Half(g) \subseteq Thread /\ Half(g)' \subseteq Thread
  BY DEF Half, Busy
<1>13. SumOf(served[g], Outcome) \in Int
  BY <1>9, OutcomeFinite, SumFacts
<1>14. ASSUME served' = [served EXCEPT ![g][o] = @ + 1]
       PROVE  /\ SumOf(served'[g], Outcome) = SumOf(served[g], Outcome) + 1
              /\ served'[g][o] = served[g][o] + 1
              /\ \A p \in Outcome \ {o} : served'[g][p] = served[g][p]
  <2>1. /\ served'[g][o] = served[g][o] + 1 /\ served[g][o] \in Nat
        /\ \A p \in Outcome \ {o} : served'[g][p] = served[g][p]
        /\ \A p \in Outcome : served[g][p] \in Int /\ served'[g][p] \in Int
    BY <1>9, <1>14
  <2>2. PICK a, b : a = served[g] /\ b = served'[g]
    OBVIOUS
  <2>3. SumOf(b, Outcome) = SumOf(a, Outcome) + b[o] - a[o]
    <3>1. /\ \A p \in Outcome : a[p] \in Int /\ b[p] \in Int
          /\ \A p \in Outcome \ {o} : b[p] = a[p]
      BY <2>1, <2>2
    <3> QED
      BY <3>1, OutcomeFinite, SumChange
  <2>4. SumOf(served'[g], Outcome) = SumOf(served[g], Outcome) + served'[g][o] - served[g][o]
    BY <2>2, <2>3
  <2>5. PICK i \in Int, j \in Int : i = served[g][o] /\ j = SumOf(served[g], Outcome)
    BY <1>13, <2>1
  <2> QED
    BY <2>1, <2>4, <2>5
<1>15. /\ Total(g, "ACCESS") = SumOf(served[g], Outcome) + Cardinality(Half(g))
       /\ Total(g, "NUMA") = served[g]["numa"]
       /\ Total(g, "MPI") = served[g]["mpi"]
       /\ Total(g, "FILE") = served[g]["file"]
  BY <1>3 DEF CountsOf
<1>16. "numa" \in Outcome /\ "mpi" \in Outcome /\ "file" \in Outcome
       /\ "ACCESS" \in Native /\ "NUMA" \in Native /\ "MPI" \in Native /\ "FILE" \in Native
  BY DEF Outcome, Native
<1>17. CASE o \in {"own", "cached"} /\ Counted(o) = <<"ACCESS">> /\ todo[t] = <<"ACCESS">>
  <2>1. c = "ACCESS" /\ Len(todo[t]) = 1
    BY <1>3, <1>17
  <2>2. served' = [served EXCEPT ![g][o] = @ + 1] /\ pc'[t] = "idle"
    BY <1>1, <1>3, <1>9, <2>1
  <2>3. t \notin Half(g) /\ t \notin Half(g)'
    BY <1>3, <1>17, <2>2 DEF Half, Busy
  <2>4. Half(g)' = Half(g)
    BY <1>11, <1>12, <2>3
  <2>5. Total(g, "ACCESS")' = SumOf(served'[g], Outcome) + Cardinality(Half(g)')
    <3>1. SumOf(served'[g], Outcome) = SumOf(served[g], Outcome) + 1
      BY <1>14, <2>2
    <3>2. Cardinality(Half(g)') = Cardinality(Half(g))
      BY <2>4
    <3>3. Total(g, "ACCESS")' = Total(g, "ACCESS") + 1
      BY <1>7, <2>1
    <3> QED
      BY <1>10, <1>13, <1>15, <3>1, <3>2, <3>3
  <2>6. Total(g, "NUMA")' = served'[g]["numa"] /\ Total(g, "MPI")' = served'[g]["mpi"]
        /\ Total(g, "FILE")' = served'[g]["file"]
    BY <1>8, <1>14, <1>15, <1>16, <1>17, <2>1, <2>2
  <2> QED
    BY <2>5, <2>6 DEF CountsOf
<1>18. ASSUME NEW k \in {"NUMA", "MPI", "FILE"}, o \in {"numa", "file", "mpi"},
              Counted(o) = <<"ACCESS", k>>,
              (k = "NUMA" <=> o = "numa") /\ (k = "FILE" <=> o = "file"),
              todo[t] = <<"ACCESS", k>>
       PROVE  CountsOf(g)'
  <2>1. c = "ACCESS" /\ Len(todo[t]) = 2 /\ Tail(todo[t]) = <<k>>
    BY <1>3, <1>18
  <2>2. served' = served /\ pc'[t] = "count" /\ using'[t] = g /\ found'[t] = o /\ todo'[t] = <<k>>
    <3>1. /\ pc' = [pc EXCEPT ![t] = "count"] /\ UNCHANGED <<served, using, found>>
          /\ todo' = [todo EXCEPT ![t] = Tail(@)]
      BY <1>1, <2>1
    <3>2. todo'[t] = <<k>>
      BY <1>9, <2>1, <3>1
    <3> QED
      BY <1>3, <1>9, <3>1, <3>2
  <2>3. t \notin Half(g) /\ t \in Half(g)'
    <3>1. <<k>> # <<"ACCESS", k>>
      OBVIOUS
    <3> QED
      BY <1>3, <1>18, <2>2, <3>1 DEF Half, Busy
  <2>4. Half(g)' = Half(g) \cup {t}
    BY <1>11, <1>12, <2>3
  <2>5. Total(g, "ACCESS")' = SumOf(served'[g], Outcome) + Cardinality(Half(g)')
    <3>1. SumOf(served'[g], Outcome) = SumOf(served[g], Outcome)
      BY <2>2
    <3>2. Cardinality(Half(g) \cup {t}) = Cardinality(Half(g)) + 1
      BY <1>10, <2>3, FS_AddElement
    <3>3. Total(g, "ACCESS")' = Total(g, "ACCESS") + 1
      BY <1>7, <2>1
    <3>4. Cardinality(Half(g)') = Cardinality(Half(g)) + 1
      BY <2>4, <3>2
    <3> QED
      BY <1>10, <1>13, <1>15, <3>1, <3>3, <3>4
  <2>6. Total(g, "NUMA")' = served'[g]["numa"] /\ Total(g, "MPI")' = served'[g]["mpi"]
        /\ Total(g, "FILE")' = served'[g]["file"]
    BY <1>8, <1>15, <1>16, <2>1, <2>2
  <2> QED
    BY <2>5, <2>6 DEF CountsOf
<1>19. ASSUME NEW k \in {"NUMA", "MPI", "FILE"}, o \in {"numa", "file", "mpi"},
              Counted(o) = <<"ACCESS", k>>,
              (k = "NUMA" <=> o = "numa") /\ (k = "FILE" <=> o = "file"),
              todo[t] = <<k>>
       PROVE  CountsOf(g)'
  <2>1. c = k /\ Len(todo[t]) = 1
    BY <1>3, <1>19
  <2>2. served' = [served EXCEPT ![g][o] = @ + 1] /\ pc'[t] = "idle"
    BY <1>1, <1>3, <1>9, <2>1
  <2>3. t \in Half(g) /\ t \notin Half(g)'
    <3>1. <<k>> # <<"ACCESS", k>>
      OBVIOUS
    <3> QED
      BY <1>1, <1>3, <1>19, <2>2, <3>1 DEF Half, Busy
  <2>4. Half(g)' = Half(g) \ {t}
    BY <1>11, <1>12, <2>3
  <2>5. Total(g, "ACCESS")' = SumOf(served'[g], Outcome) + Cardinality(Half(g)')
    <3>1. SumOf(served'[g], Outcome) = SumOf(served[g], Outcome) + 1
      BY <1>14, <2>2
    <3>2. Cardinality(Half(g) \ {t}) = Cardinality(Half(g)) - 1
      BY <1>10, <2>3, FS_RemoveElement
    <3>3. Total(g, "ACCESS")' = Total(g, "ACCESS")
      BY <1>8, <1>16, <2>1
    <3>4. Cardinality(Half(g)') = Cardinality(Half(g)) - 1
      BY <2>4, <3>2
    <3> QED
      BY <1>10, <1>13, <1>15, <3>1, <3>3, <3>4
  <2>6. /\ \A p \in Outcome \ {o} : served'[g][p] = served[g][p]
        /\ served'[g][o] = served[g][o] + 1
    BY <1>14, <2>2
  <2>7. CASE k = "NUMA"
    BY <1>7, <1>8, <1>15, <1>16, <1>19, <2>1, <2>5, <2>6, <2>7 DEF CountsOf
  <2>8. CASE k = "FILE"
    BY <1>7, <1>8, <1>15, <1>16, <1>19, <2>1, <2>5, <2>6, <2>8 DEF CountsOf
  <2>9. CASE k = "MPI"
    BY <1>7, <1>8, <1>15, <1>16, <1>19, <2>1, <2>5, <2>6, <2>9 DEF CountsOf
  <2> QED
    BY <2>7, <2>8, <2>9
<1> QED
  BY <1>2, <1>3, <1>17, <1>18, <1>19

(* The counters are right after every step.                                *)
LEMMA CountsStep ==
  ASSUME Types, HandlesRight, AddsRight, ClassesRight, CallsRight, ServedRight, StoresRight,
         CountsRight, ThreadsafeCounter, Next
  PROVE  CountsRight'
<1>0. /\ pc \in [Thread -> {"idle", "add", "count", "store"}] /\ found \in [Thread -> Outcome]
      /\ using \in [Thread -> Grid \cup {NoGrid}] /\ todo = [u \in Thread |-> todo[u]]
      /\ counter \in [Grid -> [Node -> [Native -> Int]]]
      /\ served \in [Grid -> [Outcome -> Nat]]
  BY DEF Types
<1> SUFFICES ASSUME NEW g \in Grid
             PROVE  /\ phase'[g] \in {"none", "adding", "created"} =>
                          \A d \in Node : \A c \in Native : counter'[g][d][c] = 0
                    /\ phase'[g] = "open" => CountsOf(g)'
  BY DEF CountsRight, CountsOf
<1>1. /\ phase'[g] \in {"none", "adding", "created"} => phase[g] \in {"none", "adding", "created"}
      /\ phase[g] # "open" /\ phase'[g] = "open" => Open(g)
      /\ phase[g] = "open" => domains'[g] = domains[g]
  BY ConfigKept DEF Configured
<1>2. ASSUME NEW t \in Thread, IncDone(t)
      PROVE  /\ using[t] \in Grid /\ phase[using[t]] = "open"
             /\ g # using[t] => counter'[g] = counter[g] /\ served'[g] = served[g]
                                /\ Half(g)' = Half(g)
  <2>1. /\ t \in Busy /\ todo' = [todo EXCEPT ![t] = Tail(@)]
        /\ \/ /\ served' = [served EXCEPT ![using[t]][found[t]] = @ + 1]
              /\ pc' = [pc EXCEPT ![t] = "idle"] /\ using' = [using EXCEPT ![t] = NoGrid]
              /\ found' = [found EXCEPT ![t] = "own"]
           \/ pc' = [pc EXCEPT ![t] = "count"] /\ UNCHANGED <<served, using, found>>
    BY <1>2, IncDoneIs
  <2>2. using[t] \in Grid /\ phase[using[t]] = "open"
    BY <2>1, CallFacts
  <2>3. ASSUME g # using[t] PROVE counter'[g] = counter[g]
    <3>1. counter' = [counter EXCEPT ![using[t]][DomainOf(using[t], t)][Head(todo[t])]
                                        = loaded[t] + 1]
      BY <1>2 DEF IncDone
    <3> QED
      BY <1>0, <2>3, <3>1
  <2>4. ASSUME g # using[t] PROVE served'[g] = served[g]
    BY <1>0, <2>1, <2>4
  <2>5. ASSUME g # using[t] PROVE Half(g)' = Half(g)
    <3>1. t \notin Half(g) /\ t \notin Half(g)'
      BY <1>0, <2>1, <2>5, GridsAssumption DEF Half
    <3>2. ASSUME NEW u \in Thread \ {t} PROVE u \in Half(g)' <=> u \in Half(g)
      <4>1. /\ pc'[u] = pc[u] /\ using'[u] = using[u] /\ todo'[u] = todo[u]
            /\ found'[u] = found[u]
        BY <1>0, <2>1
      <4> QED
        BY <4>1 DEF Half, Busy
    <3>3. Half(g) \subseteq Thread /\ Half(g)' \subseteq Thread
      BY DEF Half, Busy
    <3> QED
      BY <3>1, <3>2, <3>3
  <2> QED
    BY <2>2, <2>3, <2>4, <2>5
<1>3. ASSUME NEW t \in Thread,
             \/ \E h \in Grid : Create(t, h) \/ SetThreads(t, h) \/ SetComm(t, h)
                                   \/ SetParam(t, h) \/ GetAt(t, h) \/ Close(t, h)
             \/ CreateDone(t) \/ Inc(t) \/ StartCommThread(t) \/ StopCommThread(t)
      PROVE  /\ UNCHANGED <<counter, served>>
             /\ Half(g)' = Half(g)
  <2>1. UNCHANGED <<counter, served>>
    BY <1>3 DEF Create, SetThreads, SetComm, SetParam, GetAt, Close, CreateDone, Inc,
                StartCommThread, StopCommThread, callVars, counterVars
  <2>2. ASSUME UNCHANGED <<pc, using, found, todo>> PROVE Half(g)' = Half(g)
    <3>1. Busy' = Busy
      BY <2>2 DEF Busy
    <3> QED
      BY <2>2, <3>1 DEF Half
  <2>3. ASSUME \A u \in Thread \ {t} : /\ pc'[u] = pc[u] /\ using'[u] = using[u]
                                      /\ todo'[u] = todo[u] /\ found'[u] = found[u],
               t \in Half(g)' <=> t \in Half(g)
        PROVE  Half(g)' = Half(g)
    <3>1. \A u \in Thread \ {t} : u \in Half(g)' <=> u \in Half(g)
      BY <2>3 DEF Half, Busy
    <3>2. Half(g) \subseteq Thread /\ Half(g)' \subseteq Thread
      BY DEF Half, Busy
    <3> QED
      BY <2>3, <3>1, <3>2
  <2>4. ASSUME NEW h \in Grid, Create(t, h) PROVE Half(g)' = Half(g)
    <3>1. /\ pc[t] = "idle" /\ pc' = [pc EXCEPT ![t] = "add"] /\ using' = [using EXCEPT ![t] = h]
          /\ UNCHANGED <<found, todo>>
      BY <2>4 DEF Create
    <3>2. t \notin Half(g) /\ t \notin Half(g)'
      BY <1>0, <3>1 DEF Half, Busy
    <3> QED
      BY <1>0, <2>3, <3>1, <3>2
  <2>5. ASSUME CreateDone(t) PROVE Half(g)' = Half(g)
    <3>1. /\ pc[t] = "add" /\ pc' = [pc EXCEPT ![t] = "idle"]
          /\ using' = [using EXCEPT ![t] = NoGrid] /\ UNCHANGED <<found, todo>>
      BY <2>5 DEF CreateDone
    <3>2. t \notin Half(g) /\ t \notin Half(g)'
      BY <1>0, <3>1 DEF Half, Busy
    <3> QED
      BY <1>0, <2>3, <3>1, <3>2
  <2>6. ASSUME NEW h \in Grid, GetAt(t, h) PROVE Half(g)' = Half(g)
    <3>1. /\ pc[t] = "idle" /\ using' = [using EXCEPT ![t] = h] /\ pc' = [pc EXCEPT ![t] = "count"]
          /\ \E outcome \in Results(h, t) :
                /\ found' = [found EXCEPT ![t] = outcome]
                /\ todo' = [todo EXCEPT ![t] = Counted(outcome)]
      BY <2>6, GetAtIs
    <3>2. PICK outcome \in Results(h, t) :
             /\ found' = [found EXCEPT ![t] = outcome]
             /\ todo' = [todo EXCEPT ![t] = Counted(outcome)]
      BY <3>1
    <3>3. todo'[t] = Counted(found'[t])
      BY <1>0, <3>2
    <3>4. t \notin Half(g) /\ t \notin Half(g)'
      BY <1>0, <3>1, <3>3 DEF Half, Busy
    <3>5. \A u \in Thread \ {t} : /\ pc'[u] = pc[u] /\ using'[u] = using[u]
                                  /\ todo'[u] = todo[u] /\ found'[u] = found[u]
      BY <1>0, <3>1, <3>2
    <3> QED
      BY <2>3, <3>4, <3>5
  <2>7. ASSUME Inc(t) PROVE Half(g)' = Half(g)
    <3>1. /\ pc[t] = "count" /\ pc' = [pc EXCEPT ![t] = "store"]
          /\ UNCHANGED <<using, found, todo>>
      BY <2>7 DEF Inc
    <3>2. Busy' = Busy
      BY <1>0, <3>1 DEF Busy
    <3> QED
      BY <3>1, <3>2 DEF Half
  <2>8. ASSUME \/ \E h \in Grid : SetThreads(t, h) \/ SetComm(t, h) \/ SetParam(t, h) \/ Close(t, h)
               \/ StartCommThread(t) \/ StopCommThread(t)
        PROVE  UNCHANGED <<pc, using, found, todo>>
    BY <2>8 DEF SetThreads, SetComm, SetParam, Close, StartCommThread, StopCommThread, callVars
  <2>9. Half(g)' = Half(g)
    BY <1>3, <2>2, <2>4, <2>5, <2>6, <2>7, <2>8
  <2> QED
    BY <2>1, <2>9
<1>4. ASSUME NEW h \in Grid, Open(h) PROVE UNCHANGED <<counter, served>> /\ Half(g)' = Half(g)
  BY <1>4 DEF Open, callVars, counterVars, Half, Busy
<1>5. \/ \E t \in Thread : IncDone(t) /\ using[t] = g
      \/ counter'[g] = counter[g] /\ served'[g] = served[g] /\ Half(g)' = Half(g)
  BY <1>2, <1>3, <1>4 DEF Next, Step
<1>6. ASSUME phase'[g] \in {"none", "adding", "created"}
      PROVE  \A d \in Node : \A c \in Native : counter'[g][d][c] = 0
  <2>1. phase[g] \in {"none", "adding", "created"}
    BY <1>1, <1>6
  <2>2. counter'[g] = counter[g]
    BY <1>2, <1>5, <2>1
  <2> QED
    BY <2>1, <2>2 DEF CountsRight
<1>7. ASSUME phase'[g] = "open" PROVE CountsOf(g)'
  <2>0. PICK t \in Thread : TRUE
    BY GridsAssumption
  <2>1. CASE phase[g] # "open"
    <3>1. Open(g)
      BY <1>1, <1>7, <2>1
    <3>2. domains'[g] = TotalDomains(g)
      BY <3>1, OpenIs DEF Types
    <3>3. 0 .. domains'[g] - 1 \subseteq Node
      BY <2>0, <3>2, TotalDomainsFacts, NodeFacts
    <3> QED
      BY <3>1, <3>3, CountsOpened
  <2>2. CASE phase[g] = "open"
    <3>1. CountsOf(g) /\ domains'[g] = domains[g] /\ 0 .. domains[g] - 1 \subseteq Node
      BY <1>1, <2>0, <2>2, DomainsOpen DEF CountsRight, CountsOf
    <3> QED
      BY <1>5, <3>1, CountsKept, CountsIncremented
  <2> QED
    BY <2>1, <2>2
<1> QED
  BY <1>6, <1>7

-----------------------------------------------------------------------------
(* The invariant holds at the start and is kept.                           *)
LEMMA InvInit == Init => Inv
<1> SUFFICES ASSUME Init PROVE Inv
  OBVIOUS
<1>1. /\ setup \in Setup /\ pointers = << >> /\ lock = NoThread
      /\ handle = [g \in Grid |-> -1] /\ phase = [g \in Grid |-> "none"]
      /\ done = [g \in Grid |-> 0] /\ params = [g \in Grid |-> << >>]
      /\ comm = [g \in Grid |-> [size |-> 1, duplicate |-> FALSE]]
      /\ containerType = [g \in Grid |-> "UNKNOWN"] /\ domains = [g \in Grid |-> 0]
      /\ counter = [g \in Grid |-> [d \in Node |-> [c \in Native |-> 0]]]
      /\ mutex = [g \in Grid |-> [d \in Node |-> [c \in Native |-> NoThread]]]
      /\ commThread = FALSE /\ communicators = 0
      /\ pc = [t \in Thread |-> "idle"] /\ using = [t \in Thread |-> NoGrid]
      /\ found = [t \in Thread |-> "own"] /\ todo = [t \in Thread |-> << >>]
      /\ loaded = [t \in Thread |-> 0]
      /\ served = [g \in Grid |-> [o \in Outcome |-> 0]]
  BY DEF Init
<1>2. Types
  <2>1. "none" \in Phase /\ "own" \in Outcome
    BY DEF Phase, Outcome
  <2>2. setup \in Setup /\ pointers \in Seq(Grid \cup {NoGrid}) /\ handle \in [Grid -> Int]
        /\ phase \in [Grid -> Phase] /\ done \in [Grid -> Nat]
    BY <1>1, <2>1
  <2>3. /\ comm \in [Grid -> [size : Nat, duplicate : BOOLEAN]] /\ domains \in [Grid -> Nat]
        /\ commThread \in BOOLEAN
    BY <1>1
  <2>4. communicators \in Int /\ loaded \in [Thread -> Int]
    BY <1>1
  <2>5. counter \in [Grid -> [Node -> [Native -> Int]]]
    BY <1>1
  <2>6. mutex \in [Grid -> [Node -> [Native -> Thread \cup {NoThread}]]]
    BY <1>1
  <2>7. /\ pc \in [Thread -> {"idle", "add", "count", "store"}]
        /\ using \in [Thread -> Grid \cup {NoGrid}] /\ found \in [Thread -> Outcome]
    BY <1>1, <2>1
  <2>8. served \in [Grid -> [Outcome -> Nat]]
    BY <1>1
  <2>9. /\ params = [g \in Grid |-> params[g]] /\ todo = [t \in Thread |-> todo[t]]
        /\ containerType = [g \in Grid |-> containerType[g]]
    BY <1>1
  <2> QED
    BY <2>2, <2>3, <2>4, <2>5, <2>6, <2>7, <2>8, <2>9 DEF Types
<1>3. HandlesRight /\ AddsRight
  BY <1>1 DEF HandlesRight, AddsRight, Numbered
<1>4. DuplicatesRight
  <2>1. Duplicated = {}
    BY <1>1 DEF Duplicated, Alive
  <2>2. IsFiniteSet(Duplicated) /\ Cardinality(Duplicated) = 0
    BY <2>1, FS_EmptySet
  <2> QED
    BY <1>1, <2>2 DEF DuplicatesRight
<1>5. SizesRight /\ ClassesRight
  BY <1>1 DEF SizesRight, ClassesRight
<1>6. Busy = {}
  BY <1>1 DEF Busy
<1>7. CallsRight /\ ServedRight
  BY <1>1, <1>6 DEF CallsRight, ServedRight
<1>8. StoresRight /\ CountsRight
  BY <1>1 DEF StoresRight, CountsRight
<1> QED
  BY <1>2, <1>3, <1>4, <1>5, <1>7, <1>8 DEF Inv

LEMMA InvStep == Inv /\ [Next]_vars => Inv'
<1>1. ASSUME Inv, Next PROVE Inv'
  <2>1. /\ Types /\ HandlesRight /\ AddsRight /\ DuplicatesRight
        /\ SizesRight /\ ClassesRight /\ CallsRight /\ ServedRight
    BY <1>1 DEF Inv
  <2>2. Types'
    BY <1>1, <2>1, TypesStep
  <2>3. HandlesRight' /\ AddsRight'
    BY <1>1, <2>1, HandlesStep
  <2>4. DuplicatesRight'
    BY <1>1, <2>1, DuplicatesStep
  <2>5. SizesRight' /\ ClassesRight'
    BY <1>1, <2>1, SizesStep, ClassesStep
  <2>6. CallsRight' /\ ServedRight'
    BY <1>1, <2>1, CallsStep, ServedStep
  <2>7. ThreadsafeCounter => StoresRight' /\ CountsRight'
    BY <1>1, <2>1, StoresStep, CountsStep DEF Inv
  <2> QED
    BY <2>2, <2>3, <2>4, <2>5, <2>6, <2>7 DEF Inv
<1>2. ASSUME Inv, UNCHANGED vars PROVE Inv'
  <2>1. UNCHANGED <<tableVars, configVars, containerVars, counterVars, commVars, callVars>>
    BY <1>2 DEF vars
  <2>2. /\ UNCHANGED <<pointers, lock, handle, setup, phase, done, params, threads, comm>>
        /\ UNCHANGED <<containerType, domains, counter, mutex, loaded>>
        /\ UNCHANGED <<commThread, starts, communicators, pc, using, found, todo, served>>
    BY <2>1 DEF tableVars, configVars, containerVars, counterVars, commVars, callVars
  <2>3. Types'
    BY <1>2, <2>2 DEF Inv, Types
  <2>4. HandlesRight' /\ AddsRight'
    BY <1>2, <2>2 DEF Inv, HandlesRight, AddsRight, Numbered
  <2>5. DuplicatesRight'
    <3>1. Duplicated' = Duplicated
      BY <2>2 DEF Duplicated, Alive
    <3> QED
      BY <1>2, <2>2, <3>1 DEF Inv, DuplicatesRight
  <2>6. \A g : Configured(g)
    BY <2>2 DEF Configured
  <2>7. \A g : (Given(g)' <=> Given(g))
    BY <2>2 DEF Given
  <2>8. SizesRight' /\ ClassesRight'
    <3>1. SizesRight'
      BY <1>2, <2>2, <2>7 DEF Inv, SizesRight
    <3>2. ClassesRight'
      BY <1>2, <2>2, <2>6, SuitsKept DEF Inv, ClassesRight
    <3> QED
      BY <3>1, <3>2
  <2>9. \A g, o : Fits(g, o) => Fits(g, o)'
    BY <2>2, <2>6, FitsKept
  <2>10. Busy' = Busy
    BY <2>2 DEF Busy
  <2>11. CallsRight' /\ ServedRight'
    <3>1. CallsRight'
      <4> SUFFICES ASSUME NEW t \in Busy
                   PROVE  /\ using'[t] \in Grid /\ phase'[using'[t]] = "open"
                          /\ Fits(using[t], found[t])'
                          /\ \/ todo'[t] = Counted(found'[t])
                             \/ /\ Len(Counted(found'[t])) = 2
                                /\ todo'[t] = <<Counted(found'[t])[2]>>
        BY <2>10 DEF CallsRight
      <4>1. /\ using[t] \in Grid /\ phase[using[t]] = "open" /\ Fits(using[t], found[t])
            /\ \/ todo[t] = Counted(found[t])
               \/ Len(Counted(found[t])) = 2 /\ todo[t] = <<Counted(found[t])[2]>>
        BY <1>2 DEF Inv, CallsRight
      <4>2. PICK g, o : g = using[t] /\ o = found[t]
        OBVIOUS
      <4>3. Fits(g, o)'
        BY <2>9, <4>1, <4>2
      <4>4. using'[t] = g /\ found'[t] = o
        BY <2>2, <4>2
      <4> QED
        BY <2>2, <4>1, <4>3, <4>4
    <3>2. ServedRight'
      BY <1>2, <2>2, <2>9 DEF Inv, ServedRight
    <3> QED
      BY <3>1, <3>2
  <2>12. ThreadsafeCounter => StoresRight'
    BY <1>2, <2>2 DEF Inv, StoresRight, DomainOf
  <2>13. ThreadsafeCounter => CountsRight'
    <3>1. \A g : Half(g)' = Half(g)
      BY <2>2, <2>10 DEF Half
    <3>2. \A g, c : Total(g, c)' = Total(g, c)
      <4>1. \A g, c : ByDomain(g, c)' = ByDomain(g, c)
        BY <2>2 DEF ByDomain
      <4> QED
        BY <2>2, <4>1 DEF Total
    <3> QED
      BY <1>2, <2>2, <3>1, <3>2 DEF Inv, CountsRight
  <2> QED
    BY <2>3, <2>4, <2>5, <2>8, <2>11, <2>12, <2>13 DEF Inv
<1> QED
  BY <1>1, <1>2

LEMMA Invariance == Spec => []Inv
<1> QED
  BY InvInit, InvStep, PTL DEF Spec

(* Every access, whichever grid type and parameters an application chooses *)
(* and however many threads, nodes and grids it has, gets its value from   *)
(* where the manual says.                                                  *)
THEOREM TransfersMatchParametersHolds == Spec => []TransfersMatchParameters
<1>1. ASSUME Inv PROVE TransfersMatchParameters
  <2> SUFFICES ASSUME NEW g \in Grid
               PROVE  LET Came(o) == served[g][o] > 0 \/ (~Quiet(g) /\ \E t \in Thread :
                                  pc[t] \in {"count", "store"} /\ using[t] = g /\ found[t] = o)
                          Type == Param(g, "GRID", "FULL", 0)
                          Known == \E i \in 1 .. done[g] : setup.calls[i].call = "setComm"
                      IN  /\ ~Came("stray")
                          /\ Came("file") => Type \in {"CACHE", "PASS_THROUGH"}
                          /\ Type = "PASS_THROUGH" => \A o \in Outcome \ {"file"} : ~Came(o)
                          /\ Came("mpi") =>
                                /\ Known /\ setup.size > 1
                                /\ Param(g, "MPI_COMMUNICATION", "WINDOW", 0) # "OFF"
                          /\ Came("numa") =>
                                /\ Cardinality(Node) > 1
                                /\ Param(g, "NUMA_COMMUNICATION", "ON", 0) # "OFF"
    BY DEF TransfersMatchParameters
  <2>1. ASSUME NEW o \in Outcome,
               served[g][o] > 0 \/ (\E t \in Thread :
                   pc[t] \in {"count", "store"} /\ using[t] = g /\ found[t] = o)
        PROVE  Fits(g, o)
    BY <1>1, <2>1 DEF Inv, ServedRight, CallsRight, Busy
  <2>2. "stray" \in Outcome /\ "file" \in Outcome /\ "mpi" \in Outcome /\ "numa" \in Outcome
    BY DEF Outcome
  <2> QED
    BY <2>1, <2>2 DEF Fits, Given
<1> QED
  BY <1>1, Invariance, PTL

(* Handles lead to their grids and communicators are freed, however grids  *)
(* are created and closed.                                                 *)
THEOREM GridsAccountedForHolds == Spec => []GridsAccountedFor
<1>1. ASSUME Inv PROVE GridsAccountedFor
  <2>1. ASSUME NEW g \in Grid, Alive(g) PROVE FortranTarget(g) = g
    <3>1. g \in Numbered /\ phase[g] # "closed"
      BY <2>1 DEF Numbered, Alive
    <3> QED
      BY <1>1, <3>1 DEF Inv, HandlesRight, FortranTarget
  <2>2. ASSUME NEW g \in Grid, phase[g] = "closed" PROVE FortranTarget(g) = NoGrid
    <3>1. g \in Numbered
      BY <2>2 DEF Numbered
    <3> QED
      BY <1>1, <2>2, <3>1 DEF Inv, HandlesRight, FortranTarget
  <2> QED
    BY <1>1, <2>1, <2>2 DEF GridsAccountedFor, Inv, DuplicatesRight, Duplicated
<1> QED
  BY <1>1, Invariance, PTL

(* What the counters make of the four that are counted.                    *)
LEMMA CountersAre ==
  ASSUME Types, NEW g \in Grid, 0 .. domains[g] - 1 \subseteq Node
  PROVE  /\ Total(g, "ACCESS") \in Int /\ Total(g, "NUMA") \in Int
         /\ Total(g, "MPI") \in Int /\ Total(g, "FILE") \in Int
         /\ GetCounter(g, "accesses") = Total(g, "ACCESS")
         /\ GetCounter(g, "numa_transfers") = Total(g, "NUMA")
         /\ GetCounter(g, "mpi_transfers") = Total(g, "MPI")
         /\ GetCounter(g, "file_loads") = Total(g, "FILE")
         /\ GetCounter(g, "local_hits")
               = Total(g, "ACCESS") - Total(g, "NUMA") - Total(g, "MPI") - Total(g, "FILE")
         /\ GetCounter(g, "node_hits") = Total(g, "ACCESS") - Total(g, "MPI") - Total(g, "FILE")
         /\ GetCounter(g, "local_misses")
               = Total(g, "NUMA") + Total(g, "MPI") + Total(g, "FILE")
         /\ GetCounter(g, "hits") = 0
<1>0. PICK T : T = 0 .. domains[g] - 1
  OBVIOUS
<1>1. domains[g] \in Nat /\ IsFiniteSet(T) /\ T \subseteq Node
  <2>1. domains[g] \in Nat /\ 0 \in Int /\ domains[g] - 1 \in Int
    BY DEF Types
  <2> QED
    BY <1>0, <2>1, FS_Interval
<1>2. \A d \in T : \A c \in Native : counter[g][d][c] \in Int
  BY <1>1 DEF Types
<1>3. "ACCESS" \in Native /\ "NUMA" \in Native /\ "MPI" \in Native /\ "FILE" \in Native
  BY DEF Native
<1>4. PICK a, n, m, f :
         /\ a = [d \in T |-> counter[g][d]["ACCESS"]] /\ n = [d \in T |-> counter[g][d]["NUMA"]]
         /\ m = [d \in T |-> counter[g][d]["MPI"]] /\ f = [d \in T |-> counter[g][d]["FILE"]]
  OBVIOUS
<1>5. \A d \in T : a[d] \in Int /\ n[d] \in Int /\ m[d] \in Int /\ f[d] \in Int
  BY <1>2, <1>3, <1>4
<1>6. /\ TypeOf("accesses") = "ACCESS" /\ TypeOf("numa_transfers") = "NUMA"
      /\ TypeOf("mpi_transfers") = "MPI" /\ TypeOf("file_loads") = "FILE"
      /\ TypeOf("local_hits") = "HIT" /\ TypeOf("node_hits") = "NODE_HIT"
      /\ TypeOf("local_misses") = "MISS" /\ TypeOf("hits") = "INVALID"
  BY DEF TypeOf, Name2Type
<1>7. /\ ByDomain(g, "ACCESS") = a /\ ByDomain(g, "NUMA") = n
      /\ ByDomain(g, "MPI") = m /\ ByDomain(g, "FILE") = f
  BY <1>0, <1>4 DEF ByDomain, Get
<1>8. /\ Total(g, "ACCESS") = SumOf(a, T) /\ Total(g, "NUMA") = SumOf(n, T)
      /\ Total(g, "MPI") = SumOf(m, T) /\ Total(g, "FILE") = SumOf(f, T)
  BY <1>0, <1>7 DEF Total
<1>9. SumOf(a, T) \in Int /\ SumOf(n, T) \in Int /\ SumOf(m, T) \in Int /\ SumOf(f, T) \in Int
  BY <1>1, <1>5, SumFacts
<1>10. ASSUME NEW name, \A d \in T : Get(counter[g][d], TypeOf(name)) \in Int
       PROVE  GetCounter(g, name) = SumOf(ByDomain(g, TypeOf(name)), T)
  BY <1>0, <1>1, <1>10, CounterIs
<1>11. \A c \in Native : \A d \in T : Get(counter[g][d], c) \in Int
  BY <1>2 DEF Get, Native
<1>12. /\ GetCounter(g, "accesses") = SumOf(a, T)
       /\ GetCounter(g, "numa_transfers") = SumOf(n, T)
       /\ GetCounter(g, "mpi_transfers") = SumOf(m, T)
       /\ GetCounter(g, "file_loads") = SumOf(f, T)
  BY <1>3, <1>6, <1>7, <1>10, <1>11
<1>13. PICK x, y : /\ x = [d \in T |-> a[d] - m[d]] /\ y = [d \in T |-> x[d] - f[d]]
  <2>1. PICK x : x = [d \in T |-> a[d] - m[d]]
    OBVIOUS
  <2>2. PICK y : y = [d \in T |-> x[d] - f[d]]
    OBVIOUS
  <2> QED
    BY <2>1, <2>2
<1>14. SumOf(y, T) = SumOf(a, T) - SumOf(m, T) - SumOf(f, T)
  <2>1. SumOf(x, T) = SumOf(a, T) - SumOf(m, T)
    BY <1>1, <1>5, <1>13, SumLinear
  <2>2. \A d \in T : x[d] \in Int /\ y[d] = x[d] - f[d]
    BY <1>5, <1>13
  <2>3. SumOf(y, T) = SumOf(x, T) - SumOf(f, T)
    BY <1>1, <1>5, <2>2, SumLinear
  <2> QED
    BY <2>1, <2>3
<1>15. \A d \in T : y[d] \in Int /\ y[d] = a[d] - m[d] - f[d]
  BY <1>5, <1>13
<1>16. GetCounter(g, "node_hits") = SumOf(y, T)
  <2>1. \A d \in T : Get(counter[g][d], "NODE_HIT") = y[d]
    BY <1>4, <1>15 DEF Get
  <2>2. GetCounter(g, "node_hits") = SumOf(ByDomain(g, "NODE_HIT"), T)
    BY <1>6, <1>10, <1>15, <2>1
  <2>3. PICK h : h = ByDomain(g, "NODE_HIT")
    OBVIOUS
  <2>4. \A d \in T : h[d] = y[d]
    BY <1>0, <2>1, <2>3 DEF ByDomain
  <2> QED
    BY <1>1, <1>15, <2>2, <2>3, <2>4, SumSame
<1>17. GetCounter(g, "local_hits")
          = SumOf(a, T) - SumOf(n, T) - SumOf(m, T) - SumOf(f, T)
  <2>1. \A d \in T : Get(counter[g][d], "HIT") = y[d] - n[d]
    <3> SUFFICES ASSUME NEW d \in T PROVE Get(counter[g][d], "HIT") = y[d] - n[d]
      OBVIOUS
    <3>1. Get(counter[g][d], "HIT") = a[d] - n[d] - m[d] - f[d]
      BY <1>4 DEF Get
    <3>2. PICK i \in Int, j \in Int, k \in Int, l \in Int :
             i = a[d] /\ j = n[d] /\ k = m[d] /\ l = f[d]
      BY <1>5
    <3> QED
      BY <1>15, <3>1, <3>2
  <2>2. \A d \in T : Get(counter[g][d], "HIT") \in Int
    BY <1>5, <1>15, <2>1
  <2>3. GetCounter(g, "local_hits") = SumOf(ByDomain(g, "HIT"), T)
    BY <1>6, <1>10, <2>2
  <2>4. PICK h : h = ByDomain(g, "HIT")
    OBVIOUS
  <2>5. \A d \in T : h[d] = y[d] - n[d]
    BY <1>0, <2>1, <2>4 DEF ByDomain
  <2>6. SumOf(h, T) = SumOf(y, T) - SumOf(n, T)
    BY <1>1, <1>5, <1>15, <2>5, SumLinear
  <2> QED
    BY <1>9, <1>14, <2>3, <2>4, <2>6
<1>18. GetCounter(g, "local_misses") = SumOf(n, T) + SumOf(m, T) + SumOf(f, T)
  <2>1. PICK z : z = [d \in T |-> n[d] + m[d]]
    OBVIOUS
  <2>2. \A d \in T : z[d] \in Int /\ z[d] = n[d] + m[d]
    BY <1>5, <2>1
  <2>3. SumOf(z, T) = SumOf(n, T) + SumOf(m, T)
    BY <1>1, <1>5, <2>2, SumLinear
  <2>4. \A d \in T : Get(counter[g][d], "MISS") = z[d] + f[d]
    BY <1>4, <2>2 DEF Get
  <2>5. \A d \in T : Get(counter[g][d], "MISS") \in Int
    BY <1>5, <2>2, <2>4
  <2>6. GetCounter(g, "local_misses") = SumOf(ByDomain(g, "MISS"), T)
    BY <1>6, <1>10, <2>5
  <2>7. PICK h : h = ByDomain(g, "MISS")
    OBVIOUS
  <2>8. \A d \in T : h[d] = z[d] + f[d]
    BY <1>0, <2>4, <2>7 DEF ByDomain
  <2>9. SumOf(h, T) = SumOf(z, T) + SumOf(f, T)
    BY <1>1, <1>5, <2>2, <2>8, SumLinear
  <2> QED
    BY <2>3, <2>6, <2>7, <2>9
<1>19. GetCounter(g, "hits") = 0
  <2>1. \A d \in T : Get(counter[g][d], "INVALID") = 0
    BY DEF Get
  <2>2. GetCounter(g, "hits") = SumOf(ByDomain(g, "INVALID"), T)
    BY <1>6, <1>10, <2>1
  <2>3. PICK h : h = ByDomain(g, "INVALID")
    OBVIOUS
  <2>4. \A d \in T : h[d] = 0
    BY <1>0, <2>1, <2>3 DEF ByDomain
  <2> QED
    BY <1>1, <2>2, <2>3, <2>4, SumZero
<1> QED
  BY <1>8, <1>9, <1>12, <1>14, <1>16, <1>17, <1>18, <1>19

(* Sums over a few outcomes.                                               *)
LEMMA SumAdd ==
  ASSUME NEW S, IsFiniteSet(S), NEW x, x \notin S, NEW f, \A y \in S \cup {x} : f[y] \in Int
  PROVE  /\ IsFiniteSet(S \cup {x}) /\ SumOf(f, S) \in Int
         /\ SumOf(f, S \cup {x}) = f[x] + SumOf(f, S)
<1>1. IsFiniteSet(S \cup {x}) /\ x \in S \cup {x} /\ (S \cup {x}) \ {x} = S
  BY FS_AddElement
<1>2. SumOf(f, S) \in Int
  BY SumFacts
<1>3. SumOf(f, S \cup {x}) = f[x] + SumOf(f, (S \cup {x}) \ {x})
  BY <1>1, SumFacts
<1> QED
  BY <1>1, <1>2, <1>3

(* Those the property speaks of.                                           *)
LEMMA OutcomeSums ==
  ASSUME NEW w, \A o \in Outcome : w[o] \in Int
  PROVE  /\ SumOf(w, {"numa"}) = w["numa"] /\ SumOf(w, {"mpi"}) = w["mpi"]
         /\ SumOf(w, {"file"}) = w["file"]
         /\ SumOf(w, {"own", "cached"}) = w["own"] + w["cached"]
         /\ SumOf(w, {"own", "cached", "numa"}) = w["own"] + w["cached"] + w["numa"]
         /\ SumOf(w, {"numa", "mpi", "file"}) = w["numa"] + w["mpi"] + w["file"]
         /\ SumOf(w, Outcome) = w["own"] + w["cached"] + w["numa"] + w["mpi"] + w["file"]
                                   + w["stray"]
<1>0. PICK own \in Int, cached \in Int, numa \in Int, mpi \in Int, file \in Int, stray \in Int :
         /\ own = w["own"] /\ cached = w["cached"] /\ numa = w["numa"]
         /\ mpi = w["mpi"] /\ file = w["file"] /\ stray = w["stray"]
  BY DEF Outcome
<1>1. ASSUME NEW x \in Outcome PROVE SumOf(w, {x}) = w[x] /\ IsFiniteSet({x})
  <2>1. IsFiniteSet({}) /\ x \notin {} /\ {x} = {} \cup {x} /\ \A y \in {} \cup {x} : w[y] \in Int
    BY FS_EmptySet
  <2>2. SumOf(w, {}) = 0
    BY <2>1, SumZero
  <2>3. IsFiniteSet({} \cup {x}) /\ SumOf(w, {} \cup {x}) = w[x] + SumOf(w, {})
    BY <2>1, SumAdd
  <2> QED
    BY <2>1, <2>2, <2>3
<1>2. ASSUME NEW S \in SUBSET Outcome, IsFiniteSet(S), NEW x \in Outcome \ S
      PROVE  IsFiniteSet(S \cup {x}) /\ SumOf(w, S \cup {x}) = w[x] + SumOf(w, S)
  <2>1. \A y \in S \cup {x} : w[y] \in Int
    OBVIOUS
  <2> QED
    BY <1>2, <2>1, SumAdd
<1>3. /\ "own" \in Outcome /\ "cached" \in Outcome /\ "numa" \in Outcome
      /\ "mpi" \in Outcome /\ "file" \in Outcome /\ "stray" \in Outcome
  BY DEF Outcome
<1>4. IsFiniteSet({"own"}) /\ SumOf(w, {"own"}) = own
  BY <1>0, <1>1, <1>3
<1>5. IsFiniteSet({"own", "cached"}) /\ SumOf(w, {"own", "cached"}) = cached + own
  <2>1. {"own"} \in SUBSET Outcome /\ "cached" \in Outcome \ {"own"}
        /\ {"own", "cached"} = {"own"} \cup {"cached"}
    BY <1>3
  <2> QED
    BY <1>0, <1>2, <1>4, <2>1
<1>6. IsFiniteSet({"own", "cached", "numa"})
      /\ SumOf(w, {"own", "cached", "numa"}) = numa + (cached + own)
  <2>1. {"own", "cached"} \in SUBSET Outcome /\ "numa" \in Outcome \ {"own", "cached"}
        /\ {"own", "cached", "numa"} = {"own", "cached"} \cup {"numa"}
    BY <1>3
  <2> QED
    BY <1>0, <1>2, <1>5, <2>1
<1>7. IsFiniteSet({"own", "cached", "numa", "mpi"})
      /\ SumOf(w, {"own", "cached", "numa", "mpi"}) = mpi + (numa + (cached + own))
  <2>1. {"own", "cached", "numa"} \in SUBSET Outcome /\ "mpi" \in Outcome \ {"own", "cached", "numa"}
        /\ {"own", "cached", "numa", "mpi"} = {"own", "cached", "numa"} \cup {"mpi"}
    BY <1>3
  <2> QED
    BY <1>0, <1>2, <1>6, <2>1
<1>8. IsFiniteSet({"own", "cached", "numa", "mpi", "file"})
      /\ SumOf(w, {"own", "cached", "numa", "mpi", "file"})
            = file + (mpi + (numa + (cached + own)))
  <2>1. /\ {"own", "cached", "numa", "mpi"} \in SUBSET Outcome
        /\ "file" \in Outcome \ {"own", "cached", "numa", "mpi"}
        /\ {"own", "cached", "numa", "mpi", "file"} = {"own", "cached", "numa", "mpi"} \cup {"file"}
    BY <1>3
  <2> QED
    BY <1>0, <1>2, <1>7, <2>1
<1>9. SumOf(w, Outcome) = stray + (file + (mpi + (numa + (cached + own))))
  <2>1. /\ {"own", "cached", "numa", "mpi", "file"} \in SUBSET Outcome
        /\ "stray" \in Outcome \ {"own", "cached", "numa", "mpi", "file"}
        /\ Outcome = {"own", "cached", "numa", "mpi", "file"} \cup {"stray"}
    BY DEF Outcome
  <2> QED
    BY <1>0, <1>2, <1>8, <2>1
<1>10. IsFiniteSet({"numa"}) /\ SumOf(w, {"numa"}) = numa /\ SumOf(w, {"mpi"}) = mpi
       /\ SumOf(w, {"file"}) = file
  BY <1>0, <1>1, <1>3
<1>11. IsFiniteSet({"numa", "mpi"}) /\ SumOf(w, {"numa", "mpi"}) = mpi + numa
  <2>1. {"numa"} \in SUBSET Outcome /\ "mpi" \in Outcome \ {"numa"}
        /\ {"numa", "mpi"} = {"numa"} \cup {"mpi"}
    BY <1>3
  <2> QED
    BY <1>0, <1>2, <1>10, <2>1
<1>12. SumOf(w, {"numa", "mpi", "file"}) = file + (mpi + numa)
  <2>1. {"numa", "mpi"} \in SUBSET Outcome /\ "file" \in Outcome \ {"numa", "mpi"}
        /\ {"numa", "mpi", "file"} = {"numa", "mpi"} \cup {"file"}
    BY <1>3
  <2> QED
    BY <1>0, <1>2, <1>11, <2>1
<1> QED
  BY <1>0, <1>5, <1>6, <1>9, <1>10, <1>12

(* With THREADSAFE_COUNTER, the counters tell where the values came from.  *)
THEOREM CountersAddUpHolds == ThreadsafeCounter => (Spec => []CountersAddUp)
<1> SUFFICES ASSUME ThreadsafeCounter PROVE Spec => []CountersAddUp
  OBVIOUS
<1>1. ASSUME Inv PROVE CountersAddUp
  <2>0. /\ Types /\ ClassesRight /\ CallsRight /\ ServedRight /\ CountsRight
    BY <1>1 DEF Inv
  <2> SUFFICES ASSUME NEW g \in Grid, phase[g] = "open", Quiet(g)
               PROVE  /\ GetCounter(g, "accesses") = SumOf(served[g], Outcome)
                      /\ GetCounter(g, "numa_transfers") = SumOf(served[g], {"numa"})
                      /\ GetCounter(g, "mpi_transfers") = SumOf(served[g], {"mpi"})
                      /\ GetCounter(g, "file_loads") = SumOf(served[g], {"file"})
                      /\ GetCounter(g, "local_hits") = SumOf(served[g], {"own", "cached"})
                      /\ GetCounter(g, "node_hits") = SumOf(served[g], {"own", "cached", "numa"})
                      /\ GetCounter(g, "local_misses") = SumOf(served[g], {"numa", "mpi", "file"})
                      /\ GetCounter(g, "hits") = 0
    BY DEF CountersAddUp, SumOf
  <2>2. 0 .. domains[g] - 1 \subseteq Node
    <3>1. PICK t \in Thread : TRUE
      BY GridsAssumption
    <3> QED
      BY <2>0, <3>1, DomainsOpen
  <2>3. Half(g) = {}
    BY DEF Half, Busy, Quiet
  <2>4. Cardinality(Half(g)) = 0
    BY <2>3, FS_EmptySet
  <2>5. \A o \in Outcome : served[g][o] \in Nat
    BY <2>0 DEF Types
  <2>6. served[g]["stray"] = 0
    BY <2>0, <2>5 DEF ServedRight, Fits, Outcome
  <2>7. PICK own \in Int, cached \in Int, numa \in Int, mpi \in Int, file \in Int :
           /\ own = served[g]["own"] /\ cached = served[g]["cached"] /\ numa = served[g]["numa"]
           /\ mpi = served[g]["mpi"] /\ file = served[g]["file"]
    <3>1. /\ served[g]["own"] \in Int /\ served[g]["cached"] \in Int /\ served[g]["numa"] \in Int
          /\ served[g]["mpi"] \in Int /\ served[g]["file"] \in Int
      BY <2>5 DEF Outcome
    <3> QED
      BY <3>1
  <2>8. /\ SumOf(served[g], {"numa"}) = numa /\ SumOf(served[g], {"mpi"}) = mpi
        /\ SumOf(served[g], {"file"}) = file
        /\ SumOf(served[g], {"own", "cached"}) = own + cached
        /\ SumOf(served[g], {"own", "cached", "numa"}) = own + cached + numa
        /\ SumOf(served[g], {"numa", "mpi", "file"}) = numa + mpi + file
        /\ SumOf(served[g], Outcome) = own + cached + numa + mpi + file
    <3>1. PICK w : w = served[g]
      OBVIOUS
    <3>2. \A o \in Outcome : w[o] \in Int
      BY <2>5, <3>1
    <3>3. /\ SumOf(w, {"numa"}) = w["numa"] /\ SumOf(w, {"mpi"}) = w["mpi"]
          /\ SumOf(w, {"file"}) = w["file"]
          /\ SumOf(w, {"own", "cached"}) = w["own"] + w["cached"]
          /\ SumOf(w, {"own", "cached", "numa"}) = w["own"] + w["cached"] + w["numa"]
          /\ SumOf(w, {"numa", "mpi", "file"}) = w["numa"] + w["mpi"] + w["file"]
          /\ SumOf(w, Outcome) = w["own"] + w["cached"] + w["numa"] + w["mpi"] + w["file"]
                                    + w["stray"]
      BY <3>2, OutcomeSums
    <3> QED
      BY <2>6, <2>7, <3>1, <3>3
  <2>9. /\ Total(g, "ACCESS") = own + cached + numa + mpi + file
        /\ Total(g, "NUMA") = numa /\ Total(g, "MPI") = mpi /\ Total(g, "FILE") = file
    BY <2>0, <2>4, <2>7, <2>8 DEF CountsRight
  <2> QED
    BY <2>0, <2>2, <2>8, <2>9, CountersAre
<1> QED
  BY <1>1, Invariance, PTL
=============================================================================
