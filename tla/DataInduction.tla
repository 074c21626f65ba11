---------------------------- MODULE DataInduction ----------------------------
(***************************************************************************)
(* Induction over natural numbers and over finite sets, for a property     *)
(* that is given as the set of those that have it, and what follows from   *)
(* it about sums: MapThenSumSet is well defined, equal summands have equal *)
(* sums, and any element can be taken out.                                 *)
(***************************************************************************)
EXTENDS Integers, FiniteSets, FiniteSetsExt, FiniteSetTheorems, NaturalsInduction,
        WellFoundedInduction, TLAPS

(* Some numbers have a smallest one. *)
LEMMA Smallest ==
    ASSUME NEW T, T \subseteq Nat, T # {}
    PROVE  \E m \in T : \A y \in T : m <= y
<1>1. PICK m \in T : \A y \in T : ~(<<y, m>> \in OpToRel(<, Nat))
  BY NatLessThanWellFounded, WFMin
<1>2. ASSUME NEW y \in T PROVE m <= y
  <2>1. y \in Nat /\ m \in Nat
    OBVIOUS
  <2>2. ~(<<y, m>> \in OpToRel(<, Nat))
    BY <1>1
  <2>3. <<y, m>> \in Nat \X Nat /\ <<y, m>>[1] = y /\ <<y, m>>[2] = m
    BY <2>1
  <2>4. ~(y < m)
    BY <2>2, <2>3, Zenon DEF OpToRel
  <2> QED BY <2>1, <2>4
<1> QED BY <1>2

(* The largest of some numbers up to n is the one that Max chooses. *)
LEMMA Largest ==
    ASSUME NEW n \in Nat, NEW S, S \subseteq 1..n, S # {}
    PROVE  Max(S) \in S /\ \A y \in S : Max(S) >= y
<1> DEFINE T == {m \in Nat : n - m \in S}
<1>1. T \subseteq Nat /\ T # {}
  <2>1. PICK y \in S : TRUE
    OBVIOUS
  <2>2. n - y \in T
    BY <2>1
  <2> QED BY <2>2
<1>2. PICK m \in T : \A y \in T : m <= y
  <2> HIDE DEF T
  <2> QED BY <1>1, Smallest
<1>3. ASSUME NEW y \in S PROVE n - m >= y
  <2>1. y \in 1..n /\ n - y \in Nat /\ n - (n - y) = y
    OBVIOUS
  <2>2. n - y \in T
    BY <2>1
  <2> QED BY <1>2, <2>1, <2>2
<1>4. n - m \in S
  BY <1>2
<1> HIDE DEF T
<1> QED BY <1>3, <1>4 DEF Max

(* An interval without its largest element is the shorter interval. *)
LEMMA Interval ==
    ASSUME NEW k \in Nat
    PROVE  Max(1..(k + 1)) = k + 1 /\ (1..(k + 1)) \ {k + 1} = 1..k /\ 1..(k + 1) # {}
<1>1. k + 1 \in 1..(k + 1) /\ (1..(k + 1)) \ {k + 1} = 1..k
  OBVIOUS
<1>2. PICK n, S : n \in Nat /\ n = k + 1 /\ S = 1..n
  OBVIOUS
<1>3. Max(S) \in S /\ \A y \in S : Max(S) >= y
  BY <1>1, <1>2, Largest
<1> QED BY <1>1, <1>2, <1>3

(* What holds of 0, and of n + 1 with n, holds of all numbers. *)
LEMMA Numbers ==
    ASSUME NEW Q, 0 \in Q, \A n \in Nat : n \in Q => n + 1 \in Q
    PROVE  Nat \subseteq Q
<1> SUFFICES ASSUME ~ (Nat \subseteq Q) PROVE FALSE
  OBVIOUS
<1>1. PICK m \in Nat \ Q : \A y \in Nat \ Q : m <= y
  BY Smallest
<1>2. m # 0 /\ m - 1 \in Nat
  BY <1>1
<1>3. m - 1 \in Q
  BY <1>1, <1>2
<1>4. (m - 1) + 1 \in Q
  BY <1>2, <1>3
<1> QED BY <1>1, <1>2, <1>4

(* What holds of the empty set, and of a part of S as soon as it holds without one of its
   elements, holds of all parts of S. *)
LEMMA Parts ==
    ASSUME NEW S, IsFiniteSet(S), NEW Q, {} \in Q,
           \A T \in SUBSET S : T # {} => \E x \in T : T \ {x} \in Q => T \in Q
    PROVE  SUBSET S \subseteq Q
<1> DEFINE P == {n \in Nat : \A T \in SUBSET S : Cardinality(T) = n => T \in Q}
<1>1. \A T \in SUBSET S : IsFiniteSet(T) /\ Cardinality(T) \in Nat
  BY FS_Subset, FS_CardinalityType
<1>2. 0 \in P
  BY <1>1, FS_EmptySet
<1>3. ASSUME NEW n \in Nat, n \in P PROVE n + 1 \in P
  <2> SUFFICES ASSUME NEW T \in SUBSET S, Cardinality(T) = n + 1 PROVE T \in Q
    OBVIOUS
  <2> HIDE DEF P
  <2>1. Cardinality(T) # 0 /\ IsFiniteSet(T) /\ Cardinality(T) - 1 = n
    BY <1>1
  <2>2. T # {}
    BY <2>1, FS_EmptySet
  <2>3. PICK x \in T : T \ {x} \in Q => T \in Q
    BY <2>2
  <2>4. Cardinality(T \ {x}) = n
    BY <2>1, <2>3, FS_RemoveElement
  <2>5. T \ {x} \in Q
    BY <1>3, <2>4 DEF P
  <2> QED BY <2>3, <2>5
<1>4. Nat \subseteq P
  <2> HIDE DEF P
  <2> QED BY <1>2, <1>3, Numbers
<1> QED BY <1>1, <1>4

-----------------------------------------------------------------------------
(* Sums over finite sets. *)

(* The sum of f over S, as MapThenSumSet computes it: element by element, in the order
   in which Pick chooses them. *)
SumOf(f, S) == MapThenSumSet(LAMBDA r : f[r], S)

Pick(s) == CHOOSE x \in s : TRUE

(* it holds the sum of f over each set of D; for D = SUBSET S it is the function that
   MapThenFoldSet defines. *)
Adds(f, D, it) == it = [s \in D |-> IF s = {} THEN 0 ELSE f[Pick(s)] + it[s \ {Pick(s)}]]

Totals(f, S, it) == Adds(f, SUBSET S, it)

(* The definition, with the function that MapThenFoldSet chooses. *)
LEMMA SumIs == ASSUME NEW f, NEW S PROVE SumOf(f, S) = (CHOOSE it : Totals(f, S, it))[S]
BY DEF SumOf, MapThenSumSet, MapThenFoldSet, Totals, Adds, Pick

(* A set that has elements has the one that is picked. *)
LEMMA Picks == ASSUME NEW s, s # {} PROVE Pick(s) \in s
BY DEF Pick

(* There is such a function: it is built set by set, the smaller ones first. *)
LEMMA AddsExists ==
    ASSUME NEW f, NEW S, IsFiniteSet(S)
    PROVE  \E it : Totals(f, S, it)
<1> DEFINE D(n) == {s \in SUBSET S : Cardinality(s) <= n}
           Q == {n \in Nat : \E it : Adds(f, D(n), it)}
<1>1. \A s \in SUBSET S : IsFiniteSet(s) /\ Cardinality(s) \in Nat /\ Cardinality(s) <= Cardinality(S)
  BY FS_Subset, FS_CardinalityType
<1>2. 0 \in Q
  <2>1. \A s \in D(0) : s = {}
    BY <1>1, FS_EmptySet
  <2>2. Adds(f, D(0), [s \in D(0) |-> 0])
    BY <2>1 DEF Adds
  <2> QED BY <2>2
<1>3. ASSUME NEW n \in Nat, n \in Q PROVE n + 1 \in Q
  <2>1. PICK it : Adds(f, D(n), it)
    BY <1>3
  <2> DEFINE h == [s \in D(n + 1) |-> IF s = {} THEN 0 ELSE f[Pick(s)] + it[s \ {Pick(s)}]]
  <2>2. ASSUME NEW s \in D(n + 1), s # {} PROVE s \ {Pick(s)} \in D(n)
    <3>1. Pick(s) \in s
      BY <2>2, Picks
    <3>2. Cardinality(s \ {Pick(s)}) = Cardinality(s) - 1
      BY <3>1, <1>1, FS_RemoveElement
    <3> QED BY <3>2, <1>1
  <2>3. ASSUME NEW s \in D(n) PROVE s \in D(n + 1) /\ h[s] = it[s]
    <3>1. s \in D(n + 1)
      BY <1>1
    <3>2. it[s] = IF s = {} THEN 0 ELSE f[Pick(s)] + it[s \ {Pick(s)}]
      BY <2>1 DEF Adds
    <3> HIDE DEF D
    <3> QED BY <3>1, <3>2
  <2>4. Adds(f, D(n + 1), h)
    <3> HIDE DEF D
    <3>1. h = [s \in D(n + 1) |-> IF s = {} THEN 0 ELSE f[Pick(s)] + h[s \ {Pick(s)}]]
      BY <2>2, <2>3
    <3> QED BY <3>1 DEF Adds
  <2> HIDE DEF h
  <2> QED BY <2>4
<1>4. Cardinality(S) \in Q
  <2>1. Nat \subseteq Q
    <3> HIDE DEF Q
    <3> QED BY <1>2, <1>3, Numbers
  <2> QED BY <2>1, FS_CardinalityType
<1>5. D(Cardinality(S)) = SUBSET S
  BY <1>1
<1> QED BY <1>4, <1>5 DEF Totals

(* Two of them, for equal summands, agree on the sets they share. *)
LEMMA AddsAgree ==
    ASSUME NEW f, NEW g, NEW S, NEW U, IsFiniteSet(U), U \subseteq S, \A x \in U : f[x] = g[x],
           NEW it, Totals(f, S, it), NEW jt, Totals(g, U, jt)
    PROVE  it[U] = jt[U]
<1> DEFINE Q == {V \in SUBSET U : it[V] = jt[V]}
<1>1. \A V \in SUBSET U : /\ it[V] = IF V = {} THEN 0 ELSE f[Pick(V)] + it[V \ {Pick(V)}]
                          /\ jt[V] = IF V = {} THEN 0 ELSE g[Pick(V)] + jt[V \ {Pick(V)}]
  BY DEF Totals, Adds
<1>2. {} \in Q
  BY <1>1
<1>3. ASSUME NEW V \in SUBSET U, V # {} PROVE \E x \in V : V \ {x} \in Q => V \in Q
  <2>1. Pick(V) \in V
    BY <1>3, Picks
  <2> QED BY <1>1, <1>3, <2>1
<1>4. SUBSET U \subseteq Q
  <2> HIDE DEF Q
  <2> QED BY <1>2, <1>3, Parts
<1> QED BY <1>4

(* So the sum is a value of one. *)
LEMMA SumAdds ==
    ASSUME NEW f, NEW S, IsFiniteSet(S)
    PROVE  \E it : Totals(f, S, it) /\ SumOf(f, S) = it[S]
BY SumIs, AddsExists

(* The empty sum. *)
LEMMA SumEmpty == ASSUME NEW f PROVE SumOf(f, {}) = 0
<1>1. PICK it : Totals(f, {}, it) /\ SumOf(f, {}) = it[{}]
  BY SumAdds, FS_EmptySet
<1> QED BY <1>1 DEF Totals, Adds

(* Equal summands have equal sums. *)
LEMMA SumAgree ==
    ASSUME NEW f, NEW g, NEW S, IsFiniteSet(S), \A x \in S : f[x] = g[x]
    PROVE  SumOf(f, S) = SumOf(g, S)
<1>1. PICK it : Totals(f, S, it) /\ SumOf(f, S) = it[S]
  BY SumAdds
<1>2. PICK jt : Totals(g, S, jt) /\ SumOf(g, S) = jt[S]
  BY SumAdds
<1>3. S \subseteq S
  OBVIOUS
<1>4. it[S] = jt[S]
  BY <1>1, <1>2, <1>3, AddsAgree
<1> QED BY <1>1, <1>2, <1>4

(* The element that is picked can be taken out. *)
LEMMA SumPick ==
    ASSUME NEW f, NEW S, IsFiniteSet(S), S # {}
    PROVE  SumOf(f, S) = f[Pick(S)] + SumOf(f, S \ {Pick(S)})
<1> DEFINE T == S \ {Pick(S)}
<1>1. T \subseteq S /\ IsFiniteSet(T)
  BY FS_RemoveElement
<1>2. PICK it : Totals(f, S, it) /\ SumOf(f, S) = it[S]
  BY SumAdds
<1>3. PICK jt : Totals(f, T, jt) /\ SumOf(f, T) = jt[T]
  BY SumAdds, <1>1
<1>4. it[T] = jt[T]
  <2> HIDE DEF T
  <2>1. \A x \in T : f[x] = f[x]
    OBVIOUS
  <2> QED BY <1>1, <1>2, <1>3, <2>1, AddsAgree
<1>5. it[S] = f[Pick(S)] + it[T]
  BY <1>2 DEF Totals, Adds
<1> QED BY <1>2, <1>3, <1>4, <1>5

(* A sum of natural numbers is one. *)
LEMMA SumNat ==
    ASSUME NEW f, NEW S, IsFiniteSet(S), \A x \in S : f[x] \in Nat
    PROVE  SumOf(f, S) \in Nat
<1> DEFINE Q == {T \in SUBSET S : SumOf(f, T) \in Nat}
<1>1. {} \in Q
  BY SumEmpty
<1>2. ASSUME NEW T \in SUBSET S, T # {} PROVE \E x \in T : T \ {x} \in Q => T \in Q
  <2>1. Pick(T) \in T /\ f[Pick(T)] \in Nat
    BY <1>2, Picks
  <2>2. SumOf(f, T) = f[Pick(T)] + SumOf(f, T \ {Pick(T)})
    BY <1>2, SumPick, FS_Subset
  <2> QED BY <2>1, <2>2
<1>3. SUBSET S \subseteq Q
  <2> HIDE DEF Q
  <2> QED BY <1>1, <1>2, Parts
<1> QED BY <1>3

(* A sum of integers is one. *)
LEMMA SumInt ==
    ASSUME NEW f, NEW S, IsFiniteSet(S), \A x \in S : f[x] \in Int
    PROVE  SumOf(f, S) \in Int
<1> DEFINE Q == {T \in SUBSET S : SumOf(f, T) \in Int}
<1>1. {} \in Q
  BY SumEmpty
<1>2. ASSUME NEW T \in SUBSET S, T # {} PROVE \E x \in T : T \ {x} \in Q => T \in Q
  <2>1. Pick(T) \in T /\ f[Pick(T)] \in Int
    BY <1>2, Picks
  <2>2. SumOf(f, T) = f[Pick(T)] + SumOf(f, T \ {Pick(T)})
    BY <1>2, SumPick, FS_Subset
  <2>3. ASSUME T \ {Pick(T)} \in Q PROVE T \in Q
    <3>1. PICK u \in Int, v \in Int : u = f[Pick(T)] /\ v = SumOf(f, T \ {Pick(T)})
      BY <2>1, <2>3
    <3>2. SumOf(f, T) \in Int
      BY <2>2, <3>1
    <3> QED BY <3>2
  <2> QED BY <2>1, <2>3
<1>3. SUBSET S \subseteq Q
  <2> HIDE DEF Q
  <2> QED BY <1>1, <1>2, Parts
<1> QED BY <1>3

(* A sum of zeros. *)
LEMMA SumZero ==
    ASSUME NEW f, NEW S, IsFiniteSet(S), \A x \in S : f[x] = 0
    PROVE  SumOf(f, S) = 0
<1> DEFINE Q == {T \in SUBSET S : SumOf(f, T) = 0}
<1>1. {} \in Q
  BY SumEmpty
<1>2. ASSUME NEW T \in SUBSET S, T # {} PROVE \E x \in T : T \ {x} \in Q => T \in Q
  <2>1. Pick(T) \in T /\ f[Pick(T)] = 0
    BY <1>2, Picks
  <2>2. SumOf(f, T) = f[Pick(T)] + SumOf(f, T \ {Pick(T)})
    BY <1>2, SumPick, FS_Subset
  <2> QED BY <2>1, <2>2
<1>3. SUBSET S \subseteq Q
  <2> HIDE DEF Q
  <2> QED BY <1>1, <1>2, Parts
<1> QED BY <1>3

(* Any element can be taken out of a sum. *)
LEMMA SumWithout ==
    ASSUME NEW f, NEW S, IsFiniteSet(S), \A x \in S : f[x] \in Int, NEW a \in S
    PROVE  SumOf(f, S) = f[a] + SumOf(f, S \ {a})
<1> DEFINE Q == {n \in Nat : \A T \in SUBSET S : Cardinality(T) = n =>
                    \A x \in T : SumOf(f, T) = f[x] + SumOf(f, T \ {x})}
<1>1. \A T \in SUBSET S : IsFiniteSet(T) /\ Cardinality(T) \in Nat
  BY FS_Subset, FS_CardinalityType
<1>2. 0 \in Q
  BY <1>1, FS_EmptySet
<1>3. ASSUME NEW n \in Nat, n \in Q PROVE n + 1 \in Q
  <2> SUFFICES ASSUME NEW T \in SUBSET S, Cardinality(T) = n + 1, NEW x \in T
               PROVE  SumOf(f, T) = f[x] + SumOf(f, T \ {x})
    OBVIOUS
  <2> DEFINE p == Pick(T)
  <2>1. p \in T /\ SumOf(f, T) = f[p] + SumOf(f, T \ {p})
    BY <1>1, SumPick, Picks
  <2>2. CASE x = p
    BY <2>1, <2>2
  <2>3. CASE x # p
    <3> HIDE DEF p
    <3>1. Cardinality(T \ {p}) = n /\ Cardinality(T \ {x}) = n
      <4>1. Cardinality(T) - 1 = n /\ IsFiniteSet(T)
        BY <1>1
      <4> QED BY <2>1, <4>1, FS_RemoveElement
    <3>2. SumOf(f, T \ {p}) = f[x] + SumOf(f, (T \ {p}) \ {x})
      BY <1>3, <2>1, <2>3, <3>1
    <3>3. SumOf(f, T \ {x}) = f[p] + SumOf(f, (T \ {x}) \ {p})
      BY <1>3, <2>1, <2>3, <3>1
    <3>4. (T \ {x}) \ {p} = (T \ {p}) \ {x}
      OBVIOUS
    <3>5. f[x] \in Int /\ f[p] \in Int /\ SumOf(f, (T \ {p}) \ {x}) \in Int
      <4>1. (T \ {p}) \ {x} \in SUBSET S
        OBVIOUS
      <4> QED BY <2>1, <4>1, <1>1, SumInt
    <3>6. PICK u \in Int, v \in Int, w \in Int : u = f[x] /\ v = f[p] /\ w = SumOf(f, (T \ {p}) \ {x})
      BY <3>5
    <3>7. SumOf(f, T) = v + (u + w) /\ SumOf(f, T \ {x}) = v + w
      BY <2>1, <3>2, <3>3, <3>4, <3>6
    <3> QED BY <3>6, <3>7
  <2> QED BY <2>2, <2>3
<1>4. Nat \subseteq Q
  <2> HIDE DEF Q
  <2> QED BY <1>2, <1>3, Numbers
<1> QED BY <1>1, <1>4
=============================================================================
