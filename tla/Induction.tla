------------------------------ MODULE Induction ------------------------------
(***************************************************************************)
(* Induction on the natural numbers for sets of numbers.  The induction    *)
(* theorems of the library are about any predicate, an operator parameter, *)
(* which the provers cannot instantiate; a set is an ordinary value.  It   *)
(* follows from the well-foundedness of the order of the natural numbers.  *)
(*                                                                         *)
(* By induction, what SumFunctionOnSet of the community modules computes   *)
(* for a finite set: it is defined by a recursion over the subsets.  And   *)
(* that a function given by its first value and a step exists, with its    *)
(* type; recursive functions of the models are of this form.  At the end   *)
(* the two facts about quotient and rest that the proofs about counting    *)
(* need.                                                                   *)
(***************************************************************************)
EXTENDS Integers, Functions, FiniteSetTheorems, WellFoundedInduction, TLAPS

\* A set of natural numbers that is not empty has a least element.
LEMMA LeastElement ==
    ASSUME NEW S \in SUBSET Nat, S # {}
    PROVE  \E n \in S : \A m \in S : n <= m
<1> DEFINE R == OpToRel(<, Nat)
<1>1. IsWellFoundedOn(R, Nat)
  BY NatLessThanWellFounded, Zenon
<1>2. \A a, b \in Nat : <<a, b>> \in R <=> a < b
  BY DEF OpToRel
<1> HIDE DEF R
<1>3. PICK n \in S : \A m \in S : <<m, n>> \notin R
  <2>1. S \subseteq Nat
    OBVIOUS
  <2> QED BY <1>1, <2>1, WFMin
<1>4. ASSUME NEW m \in S PROVE n <= m
  <2>1. m \in Nat /\ n \in Nat
    OBVIOUS
  <2>2. ~(m < n)
    BY <1>2, <1>3, <2>1, Zenon
  <2> QED BY <2>1, <2>2
<1> QED BY <1>4

\* A set of natural numbers that holds 0 and with n also n + 1 holds them all.
LEMMA SetInduction ==
    ASSUME NEW S \in SUBSET Nat, 0 \in S, \A n \in S : n + 1 \in S
    PROVE  S = Nat
<1> SUFFICES ASSUME NEW k \in Nat, k \notin S PROVE FALSE
  OBVIOUS
<1> DEFINE T == Nat \ S
<1>1. PICK n \in T : \A m \in T : n <= m
  <2>1. T \in SUBSET Nat /\ T # {}
    OBVIOUS
  <2> HIDE DEF T
  <2> QED BY <2>1, LeastElement
<1>2. n \in Nat /\ n # 0
  BY <1>1
<1>3. n - 1 \in Nat /\ n - 1 \in S
  BY <1>1, <1>2
<1>4. n - 1 + 1 \in S
  BY <1>3
<1> QED BY <1>1, <1>2, <1>4

\* The same from a up to n.
LEMMA UpTo ==
    ASSUME NEW a \in Nat, NEW n \in Nat, NEW S,
           a \in S, \A i \in (a + 1)..n : i - 1 \in S => i \in S
    PROVE  \A i \in a..n : i \in S
<1> DEFINE T == {k \in Nat : a + k <= n => a + k \in S}
<1>1. 0 \in T
  OBVIOUS
<1>2. ASSUME NEW k \in T PROVE k + 1 \in T
  <2> SUFFICES ASSUME a + (k + 1) <= n PROVE a + (k + 1) \in S
    OBVIOUS
  <2>1. k \in Nat /\ a + k \in S
    OBVIOUS
  <2>2. a + (k + 1) \in (a + 1)..n /\ (a + (k + 1)) - 1 = a + k
    BY <2>1
  <2> QED BY <2>1, <2>2
<1> HIDE DEF T
<1>3. T = Nat
  <2>1. T \in SUBSET Nat
    BY DEF T
  <2> QED BY <1>1, <1>2, <2>1, SetInduction
<1>4. ASSUME NEW i \in a..n PROVE i \in S
  <2>1. i - a \in T /\ a + (i - a) = i /\ i <= n
    BY <1>3
  <2> QED BY <2>1 DEF T
<1> QED BY <1>4

\* f solves the recursion from a up to n in which step[i] makes the value at i
\* from the one before.
Recursion(f, S, base, a, n, step) ==
    /\ f \in [a..n -> S] /\ f[a] = base
    /\ \A i \in a..n : i # a => f[i] = step[i][f[i - 1]]

\* Every recursion has a solution.
LEMMA RecursionExists ==
    ASSUME NEW S, NEW base \in S, NEW a \in Nat, NEW n \in Nat, a <= n,
           NEW step \in [Nat -> [S -> S]]
    PROVE  \E f : Recursion(f, S, base, a, n, step)
<1> DEFINE Steps(f, k) == /\ f \in [a..k -> S] /\ f[a] = base
                          /\ \A i \in (a + 1)..k : f[i] = step[i][f[i - 1]]
           T == {k \in Nat : \E f : Steps(f, k)}
<1>1. a \in T
  <2>1. Steps([i \in a..a |-> base], a)
    OBVIOUS
  <2> QED BY <2>1
<1>2. ASSUME NEW k \in (a + 1)..n, k - 1 \in T PROVE k \in T
  <2>1. PICK f : Steps(f, k - 1)
    BY <1>2
  <2> DEFINE g == [i \in a..k |-> IF i = k THEN step[k][f[k - 1]] ELSE f[i]]
  <2>2. k \in Nat /\ k - 1 \in a..(k - 1) /\ f[k - 1] \in S /\ step[k][f[k - 1]] \in S
    BY <2>1
  <2>3. g \in [a..k -> S] /\ g[a] = base
    BY <2>1, <2>2
  <2>4. ASSUME NEW i \in (a + 1)..k PROVE g[i] = step[i][g[i - 1]]
    <3>1. g[i - 1] = f[i - 1]
      OBVIOUS
    <3>2. CASE i = k
      BY <3>1, <3>2
    <3>3. CASE i # k
      <4>1. i \in (a + 1)..(k - 1) /\ g[i] = f[i]
        BY <3>3
      <4> QED BY <2>1, <3>1, <4>1
    <3> QED BY <3>2, <3>3
  <2>5. Steps(g, k)
    BY <2>3, <2>4
  <2> QED BY <2>2, <2>5
<1>3. n \in T
  <2> HIDE DEF T
  <2>1. \A i \in a..n : i \in T
    BY <1>1, <1>2, UpTo
  <2> QED BY <2>1
<1>4. PICK f : Steps(f, n)
  BY <1>3
<1>5. \A i \in a..n : i # a => i \in (a + 1)..n
  OBVIOUS
<1> QED BY <1>4, <1>5 DEF Recursion

-----------------------------------------------------------------------------
(* Sums.                                                                   *)

\* The element the fold takes first.
SomeOf(s) == CHOOSE x \in s : TRUE

\* it[s] is the sum of f over s, for the subsets of at most n elements.
SumsUp(it, f, S, n) ==
    /\ it \in [SUBSET S -> Int]
    /\ \A s \in SUBSET S : Cardinality(s) <= n =>
          it[s] = IF s = {} THEN 0 ELSE f[SomeOf(s)] + it[s \ {SomeOf(s)}]

\* Taking an element away makes a finite set smaller.
LEMMA Smaller ==
    ASSUME NEW S, IsFiniteSet(S), NEW s \in SUBSET S
    PROVE  /\ IsFiniteSet(s) /\ Cardinality(s) \in Nat /\ Cardinality(s) <= Cardinality(S)
           /\ Cardinality(s) = 0 <=> s = {}
           /\ \A x \in s : s \ {x} \in SUBSET S /\ Cardinality(s \ {x}) = Cardinality(s) - 1
           /\ s # {} => SomeOf(s) \in s
<1>1. IsFiniteSet(s) /\ Cardinality(s) <= Cardinality(S) /\ Cardinality(s) \in Nat
  BY FS_Subset, FS_CardinalityType
<1>2. Cardinality(s) = 0 <=> s = {}
  BY <1>1, FS_EmptySet
<1>3. \A x \in s : s \ {x} \in SUBSET S /\ Cardinality(s \ {x}) = Cardinality(s) - 1
  BY <1>1, FS_RemoveElement
<1>4. s # {} => SomeOf(s) \in s
  BY DEF SomeOf
<1> QED BY <1>1, <1>2, <1>3, <1>4

\* The recursion has a solution, for a finite set.
LEMMA SumExists ==
    ASSUME NEW S, IsFiniteSet(S), NEW f, \A x \in S : f[x] \in Int
    PROVE  \E it : SumsUp(it, f, S, Cardinality(S))
<1> DEFINE Q == {n \in Nat : \E it : SumsUp(it, f, S, n)}
<1>1. 0 \in Q
  <2> DEFINE it == [s \in SUBSET S |-> 0]
  <2>1. it \in [SUBSET S -> Int]
    OBVIOUS
  <2>2. ASSUME NEW s \in SUBSET S, Cardinality(s) <= 0
        PROVE  it[s] = IF s = {} THEN 0 ELSE f[SomeOf(s)] + it[s \ {SomeOf(s)}]
    <3>1. s = {}
      BY <2>2, Smaller
    <3> QED BY <3>1
  <2>3. SumsUp(it, f, S, 0)
    BY <2>1, <2>2 DEF SumsUp
  <2> QED BY <2>3
<1>2. ASSUME NEW n \in Q PROVE n + 1 \in Q
  <2>1. PICK g : SumsUp(g, f, S, n)
    OBVIOUS
  <2> DEFINE it == [s \in SUBSET S |->
                      IF Cardinality(s) = n + 1 THEN f[SomeOf(s)] + g[s \ {SomeOf(s)}] ELSE g[s]]
  <2>2. n \in Nat
    OBVIOUS
  <2>3. ASSUME NEW s \in SUBSET S, s # {}
        PROVE  f[SomeOf(s)] \in Int /\ s \ {SomeOf(s)} \in SUBSET S /\ g[s \ {SomeOf(s)}] \in Int
    <3>1. SomeOf(s) \in S /\ s \ {SomeOf(s)} \in SUBSET S
      BY <2>3, Smaller
    <3> QED BY <2>1, <3>1 DEF SumsUp
  <2>4. it \in [SUBSET S -> Int]
    <3>1. ASSUME NEW s \in SUBSET S PROVE it[s] \in Int
      <4>1. CASE Cardinality(s) = n + 1
        <5>1. s # {}
          BY <2>2, <4>1, Smaller
        <5>2. f[SomeOf(s)] \in Int /\ g[s \ {SomeOf(s)}] \in Int
          BY <2>3, <5>1
        <5> QED BY <4>1, <5>2
      <4>2. CASE Cardinality(s) # n + 1
        BY <2>1, <4>2 DEF SumsUp
      <4> QED BY <4>1, <4>2
    <3> QED BY <3>1
  <2>5. ASSUME NEW s \in SUBSET S, Cardinality(s) <= n + 1
        PROVE  it[s] = IF s = {} THEN 0 ELSE f[SomeOf(s)] + it[s \ {SomeOf(s)}]
    <3>1. /\ Cardinality(s) \in Nat /\ (Cardinality(s) = 0 <=> s = {})
          /\ s # {} => /\ s \ {SomeOf(s)} \in SUBSET S
                       /\ Cardinality(s \ {SomeOf(s)}) = Cardinality(s) - 1
      BY Smaller
    <3>2. s # {} => it[s \ {SomeOf(s)}] = g[s \ {SomeOf(s)}]
      BY <2>2, <2>5, <3>1
    <3>3. CASE Cardinality(s) = n + 1
      BY <2>2, <3>1, <3>2, <3>3
    <3>4. CASE Cardinality(s) # n + 1
      <4>1. Cardinality(s) <= n
        BY <2>2, <2>5, <3>1, <3>4
      <4>2. g[s] = IF s = {} THEN 0 ELSE f[SomeOf(s)] + g[s \ {SomeOf(s)}]
        BY <2>1, <4>1 DEF SumsUp
      <4> QED BY <3>2, <3>4, <4>2
    <3> QED BY <3>3, <3>4
  <2> HIDE DEF it
  <2>6. SumsUp(it, f, S, n + 1)
    BY <2>4, <2>5 DEF SumsUp
  <2> QED BY <2>2, <2>6
<1> HIDE DEF Q
<1>3. Q = Nat
  <2>1. Q \in SUBSET Nat
    BY DEF Q
  <2> QED BY <1>1, <1>2, <2>1, SetInduction
<1>4. Cardinality(S) \in Q
  BY <1>3, Smaller
<1> QED BY <1>4 DEF Q

\* it solves the recursion of SumFunctionOnSet.
Solves(it, f, S) ==
    \A s \in SUBSET S : it[s] = IF s = {} THEN 0 ELSE f[SomeOf(s)] + it[s \ {SomeOf(s)}]

Sums(it, f, S) == it \in [SUBSET S -> Int] /\ Solves(it, f, S)

\* Solutions for functions that agree are the same.
LEMMA SolutionsAgree ==
    ASSUME NEW S, IsFiniteSet(S), NEW T, S \subseteq T, NEW f, NEW g, \A x \in S : f[x] = g[x],
           NEW a, Solves(a, f, S), NEW b, Solves(b, g, T)
    PROVE  \A s \in SUBSET S : a[s] = b[s]
<1> DEFINE Q == {n \in Nat : \A s \in SUBSET S : Cardinality(s) <= n => a[s] = b[s]}
<1>0. ASSUME NEW s \in SUBSET S
      PROVE  /\ a[s] = IF s = {} THEN 0 ELSE f[SomeOf(s)] + a[s \ {SomeOf(s)}]
             /\ b[s] = IF s = {} THEN 0 ELSE g[SomeOf(s)] + b[s \ {SomeOf(s)}]
  BY DEF Solves
<1>1. 0 \in Q
  <2>1. ASSUME NEW s \in SUBSET S, Cardinality(s) <= 0 PROVE a[s] = b[s]
    <3>1. s = {}
      BY <2>1, Smaller
    <3> QED BY <1>0, <3>1
  <2> QED BY <2>1
<1>2. ASSUME NEW n \in Q PROVE n + 1 \in Q
  <2>1. ASSUME NEW s \in SUBSET S, Cardinality(s) <= n + 1 PROVE a[s] = b[s]
    <3>1. CASE s = {}
      BY <1>0, <3>1
    <3>2. CASE s # {}
      <4>1. /\ SomeOf(s) \in S /\ Cardinality(s) \in Nat /\ s \ {SomeOf(s)} \in SUBSET S
            /\ Cardinality(s \ {SomeOf(s)}) = Cardinality(s) - 1
        BY <3>2, Smaller
      <4>2. a[s \ {SomeOf(s)}] = b[s \ {SomeOf(s)}]
        BY <2>1, <4>1
      <4>3. a[s] = f[SomeOf(s)] + a[s \ {SomeOf(s)}] /\ b[s] = g[SomeOf(s)] + b[s \ {SomeOf(s)}]
        BY <1>0, <3>2
      <4> QED BY <4>1, <4>2, <4>3
    <3> QED BY <3>1, <3>2
  <2>2. n + 1 \in Nat
    OBVIOUS
  <2> QED BY <2>1, <2>2
<1> HIDE DEF Q
<1>3. Q = Nat
  <2>1. Q \in SUBSET Nat
    BY DEF Q
  <2> QED BY <1>1, <1>2, <2>1, SetInduction
<1>4. ASSUME NEW s \in SUBSET S PROVE a[s] = b[s]
  <2>1. Cardinality(s) \in Q
    BY <1>3, Smaller
  <2>2. Cardinality(s) <= Cardinality(s)
    BY Smaller
  <2> QED BY <2>1, <2>2 DEF Q
<1> QED BY <1>4

\* The sum of a function over a finite set is what solves the recursion.
LEMMA SumIsSolution ==
    ASSUME NEW S, IsFiniteSet(S), NEW f, \A x \in S : f[x] \in Int
    PROVE  \E it : Sums(it, f, S) /\ SumFunctionOnSet(f, S) = it[S]
<1> DEFINE Fcn(i) == [s \in SUBSET S |-> IF s = {} THEN 0 ELSE f[SomeOf(s)] + i[s \ {SomeOf(s)}]]
           c == CHOOSE i : i = Fcn(i)
<1>1. SumFunctionOnSet(f, S) = c[S]
  BY DEF SumFunctionOnSet, FoldFunctionOnSet, MapThenFoldSet, SomeOf
<1>2. PICK g : SumsUp(g, f, S, Cardinality(S))
  BY SumExists
<1>3. Solves(g, f, S) /\ g \in [SUBSET S -> Int]
  <2>1. \A s \in SUBSET S : Cardinality(s) <= Cardinality(S)
    BY Smaller
  <2> QED BY <1>2, <2>1 DEF SumsUp, Solves
<1>4. g = Fcn(g)
  BY <1>3 DEF Solves
<1>5. c = Fcn(c)
  BY <1>4
<1> HIDE DEF c
<1>6. Solves(c, f, S)
  BY <1>5 DEF Solves
<1>7. c[S] = g[S]
  BY <1>3, <1>6, SolutionsAgree
<1> QED BY <1>1, <1>3, <1>7 DEF Sums

\* Any element may be taken first.
AnyOrder(it, f, S) == \A s \in SUBSET S : \A x \in s : it[s] = f[x] + it[s \ {x}]

\* The sum does not depend on the order in which the elements are taken.
LEMMA AnyElementFirst ==
    ASSUME NEW S, IsFiniteSet(S), NEW f, \A x \in S : f[x] \in Int,
           NEW it, Sums(it, f, S)
    PROVE  AnyOrder(it, f, S)
<1> DEFINE Q == {n \in Nat : \A s \in SUBSET S : Cardinality(s) <= n =>
                               \A x \in s : it[s] = f[x] + it[s \ {x}]}
<1>0. it \in [SUBSET S -> Int] /\ Solves(it, f, S)
  BY DEF Sums
<1>1. 0 \in Q
  <2>1. ASSUME NEW s \in SUBSET S, Cardinality(s) <= 0 PROVE s = {}
    BY <2>1, Smaller
  <2> QED BY <2>1
<1>2. ASSUME NEW n \in Q PROVE n + 1 \in Q
  <2>1. ASSUME NEW s \in SUBSET S, Cardinality(s) <= n + 1, NEW x \in s
        PROVE  it[s] = f[x] + it[s \ {x}]
    <3> DEFINE y == SomeOf(s)
    <3>1. y \in s /\ x \in S /\ y \in S
      BY Smaller
    <3>2. it[s] = f[y] + it[s \ {y}]
      BY <1>0, <3>1 DEF Solves
    <3> HIDE DEF y
    <3>3. CASE x = y
      BY <3>2, <3>3
    <3>4. CASE x # y
      <4> DEFINE r == (s \ {x}) \ {y}
      <4>1. /\ Cardinality(s) \in Nat
            /\ s \ {x} \in SUBSET S /\ Cardinality(s \ {x}) = Cardinality(s) - 1
            /\ s \ {y} \in SUBSET S /\ Cardinality(s \ {y}) = Cardinality(s) - 1
        BY <3>1, Smaller
      <4>2. Cardinality(s \ {x}) <= n /\ Cardinality(s \ {y}) <= n
        BY <2>1, <4>1
      <4>3. x \in s \ {y} /\ y \in s \ {x} /\ (s \ {y}) \ {x} = r /\ r \in SUBSET S
        BY <3>1, <3>4
      <4> HIDE DEF r
      <4>4. it[s \ {y}] = f[x] + it[r]
        BY <4>1, <4>2, <4>3
      <4>5. it[s \ {x}] = f[y] + it[r]
        BY <4>1, <4>2, <4>3 DEF r
      <4>6. f[x] \in Int /\ f[y] \in Int /\ it[r] \in Int
        BY <1>0, <3>1, <4>3
      <4> QED BY <3>2, <4>4, <4>5, <4>6
    <3> QED BY <3>3, <3>4
  <2>2. n + 1 \in Nat
    OBVIOUS
  <2> QED BY <2>1, <2>2
<1> HIDE DEF Q
<1>3. Q = Nat
  <2>1. Q \in SUBSET Nat
    BY DEF Q
  <2> QED BY <1>1, <1>2, <2>1, SetInduction
<1>4. ASSUME NEW s \in SUBSET S, NEW x \in s PROVE it[s] = f[x] + it[s \ {x}]
  <2>1. Cardinality(s) \in Q
    BY <1>3, Smaller
  <2>2. Cardinality(s) <= Cardinality(s)
    BY Smaller
  <2> QED BY <2>1, <2>2 DEF Q
<1> QED BY <1>4 DEF AnyOrder

-----------------------------------------------------------------------------
(* What is used of sums.                                                   *)

\* The sum over no elements is 0.
LEMMA SumEmpty == ASSUME NEW f PROVE SumFunctionOnSet(f, {}) = 0
<1>1. IsFiniteSet({})
  BY FS_EmptySet
<1>2. PICK it : Sums(it, f, {}) /\ SumFunctionOnSet(f, {}) = it[{}]
  BY <1>1, SumIsSolution
<1> QED BY <1>2 DEF Sums, Solves

\* The sum of integers is an integer.
LEMMA SumType ==
    ASSUME NEW S, IsFiniteSet(S), NEW f, \A x \in S : f[x] \in Int
    PROVE  SumFunctionOnSet(f, S) \in Int
<1>1. PICK it : Sums(it, f, S) /\ SumFunctionOnSet(f, S) = it[S]
  BY SumIsSolution
<1>2. S \in SUBSET S
  OBVIOUS
<1> QED BY <1>1, <1>2 DEF Sums

\* Only the values on the set matter.
LEMMA SumSame ==
    ASSUME NEW S, IsFiniteSet(S), NEW f, NEW g, \A x \in S : f[x] \in Int /\ f[x] = g[x]
    PROVE  SumFunctionOnSet(f, S) = SumFunctionOnSet(g, S)
<1>1. PICK a : Sums(a, f, S) /\ SumFunctionOnSet(f, S) = a[S]
  BY SumIsSolution
<1>2. PICK b : Sums(b, g, S) /\ SumFunctionOnSet(g, S) = b[S]
  BY SumIsSolution
<1>3. \A s \in SUBSET S : a[s] = b[s]
  BY <1>1, <1>2, SolutionsAgree DEF Sums
<1> QED BY <1>1, <1>2, <1>3

\* One more element adds its value.
LEMMA SumAdd ==
    ASSUME NEW S, IsFiniteSet(S), NEW x, x \notin S, NEW f, \A y \in S \cup {x} : f[y] \in Int
    PROVE  SumFunctionOnSet(f, S \cup {x}) = SumFunctionOnSet(f, S) + f[x]
<1> DEFINE T == S \cup {x}
<1>1. IsFiniteSet(T) /\ T \ {x} = S /\ x \in T /\ S \in SUBSET T /\ T \in SUBSET T
  BY FS_AddElement
<1>2. \A y \in T : f[y] \in Int
  OBVIOUS
<1> HIDE DEF T
<1>3. PICK a : Sums(a, f, T) /\ SumFunctionOnSet(f, T) = a[T]
  BY <1>1, <1>2, SumIsSolution
<1>4. PICK b : Sums(b, f, S) /\ SumFunctionOnSet(f, S) = b[S]
  BY <1>1, <1>2, SumIsSolution
<1>5. b[S] = a[S]
  <2>1. \A s \in SUBSET S : b[s] = a[s]
    BY <1>1, <1>3, <1>4, SolutionsAgree DEF Sums
  <2> QED BY <2>1
<1>6. a[T] = f[x] + a[S]
  <2>1. AnyOrder(a, f, T)
    BY <1>1, <1>2, <1>3, AnyElementFirst
  <2>2. a[T] = f[x] + a[T \ {x}]
    BY <1>1, <2>1 DEF AnyOrder
  <2> QED BY <1>1, <2>2
<1>7. f[x] \in Int /\ a[S] \in Int
  BY <1>1, <1>2, <1>3 DEF Sums
<1> QED BY <1>1, <1>3, <1>4, <1>5, <1>6, <1>7 DEF T

\* g extends f by one more argument x; g and f differ at x only.
ExtendedAt(f, g, S, x) ==
    /\ IsFiniteSet(S) /\ x \notin S /\ DOMAIN f = S /\ DOMAIN g = S \cup {x}
    /\ g[x] \in Int /\ \A y \in S : f[y] \in Int /\ g[y] = f[y]

ChangedAt(f, g, S, x) ==
    /\ IsFiniteSet(S) /\ x \in S /\ DOMAIN f = S /\ DOMAIN g = S
    /\ f[x] \in Int /\ g[x] \in Int /\ \A y \in S \ {x} : f[y] \in Int /\ g[y] = f[y]

\* The sum of a function that is extended by one more argument.
LEMMA SumExtend ==
    ASSUME NEW f, NEW g, NEW S, NEW x, ExtendedAt(f, g, S, x)
    PROVE  SumFunction(g) = SumFunction(f) + g[x] /\ SumFunction(f) \in Int
<1>0. /\ IsFiniteSet(S) /\ x \notin S /\ DOMAIN f = S /\ DOMAIN g = S \cup {x}
      /\ g[x] \in Int /\ \A y \in S : f[y] \in Int /\ g[y] = f[y]
  BY DEF ExtendedAt
<1>1. SumFunctionOnSet(g, S \cup {x}) = SumFunctionOnSet(g, S) + g[x]
  BY <1>0, SumAdd
<1>2. SumFunctionOnSet(f, S) = SumFunctionOnSet(g, S)
  BY <1>0, SumSame
<1>3. SumFunctionOnSet(f, S) \in Int
  BY <1>0, SumType
<1> QED BY <1>0, <1>1, <1>2, <1>3 DEF SumFunction

\* The sum of a function that changes at one argument.
LEMMA SumChange ==
    ASSUME NEW f, NEW g, NEW S, NEW x, ChangedAt(f, g, S, x)
    PROVE  SumFunction(g) = SumFunction(f) + (g[x] - f[x]) /\ SumFunction(f) \in Int
<1> DEFINE T == S \ {x}
<1>0. /\ IsFiniteSet(S) /\ x \in S /\ DOMAIN f = S /\ DOMAIN g = S
      /\ f[x] \in Int /\ g[x] \in Int /\ \A y \in S \ {x} : f[y] \in Int /\ g[y] = f[y]
  BY DEF ChangedAt
<1>1. IsFiniteSet(T) /\ x \notin T /\ T \cup {x} = S
  BY <1>0, FS_RemoveElement
<1>2. \A y \in T : f[y] \in Int /\ g[y] \in Int /\ f[y] = g[y]
  BY <1>0
<1> HIDE DEF T
<1>3. \A y \in T \cup {x} : f[y] \in Int /\ g[y] \in Int
  BY <1>0, <1>2
<1>4. SumFunctionOnSet(f, T \cup {x}) = SumFunctionOnSet(f, T) + f[x]
  BY <1>1, <1>3, SumAdd
<1>5. SumFunctionOnSet(g, T \cup {x}) = SumFunctionOnSet(g, T) + g[x]
  BY <1>1, <1>3, SumAdd
<1>6. SumFunctionOnSet(f, T) = SumFunctionOnSet(g, T)
  BY <1>1, <1>2, SumSame
<1>7. SumFunctionOnSet(f, T) \in Int
  BY <1>1, <1>2, SumType
<1>8. SumFunction(f) = SumFunctionOnSet(f, T \cup {x})
  BY <1>0, <1>1 DEF SumFunction
<1>9. SumFunction(g) = SumFunctionOnSet(g, T \cup {x})
  BY <1>0, <1>1 DEF SumFunction
<1> HIDE DEF SumFunctionOnSet
<1>10. f[x] \in Int /\ g[x] \in Int
  BY <1>0
<1> QED BY <1>4, <1>5, <1>6, <1>7, <1>8, <1>9, <1>10

\* g is f with v more at x.
PutAt(f, g, S, x, v) ==
    /\ IsFiniteSet(S) /\ DOMAIN f = S /\ DOMAIN g = S \cup {x} /\ v \in Int
    /\ \A y \in S : f[y] \in Int
    /\ \A y \in S \ {x} : g[y] = f[y]
    /\ g[x] = (IF x \in S THEN f[x] ELSE 0) + v

\* A sum one of whose terms, there or not, gets v more.
LEMMA SumPut ==
    ASSUME NEW f, NEW g, NEW S, NEW x, NEW v, PutAt(f, g, S, x, v)
    PROVE  SumFunction(g) = SumFunction(f) + v /\ SumFunction(f) \in Int
<1>1. CASE x \in S
  <2>1. S \cup {x} = S
    BY <1>1
  <2>2. g[x] = f[x] + v /\ f[x] \in Int /\ v \in Int /\ g[x] \in Int
    BY <1>1 DEF PutAt
  <2>3. ChangedAt(f, g, S, x)
    BY <1>1, <2>1, <2>2 DEF ChangedAt, PutAt
  <2>4. SumFunction(g) = SumFunction(f) + (g[x] - f[x]) /\ SumFunction(f) \in Int
    BY <2>3, SumChange
  <2> QED BY <2>2, <2>4
<1>2. CASE x \notin S
  <2>1. g[x] = v /\ v \in Int
    BY <1>2 DEF PutAt
  <2>2. ExtendedAt(f, g, S, x)
    BY <1>2, <2>1 DEF ExtendedAt, PutAt
  <2> QED BY <2>1, <2>2, SumExtend
<1> QED BY <1>1, <1>2

-----------------------------------------------------------------------------
(* Quotients and rests.                                                    *)

\* A number is its quotient times the divisor, and a rest.
LEMMA Division ==
    ASSUME NEW a \in Int, NEW m \in Nat \ {0}
    PROVE  /\ a \div m \in Int /\ a % m \in 0..(m - 1)
           /\ a = m * (a \div m) + (a % m)
<1>1. a = m * (a \div m) + (a % m)
  OBVIOUS
<1>2. a \div m \in Int
  OBVIOUS
<1>3. a % m \in 0..(m - 1)
  OBVIOUS
<1> QED BY <1>1, <1>2, <1>3

\* Quotient and rest are the only ones.
LEMMA RestUnique ==
    ASSUME NEW m \in Nat \ {0}, NEW p \in Int, NEW q \in Int, NEW r \in 0..(m - 1), NEW s \in 0..(m - 1),
           m * p + r = m * q + s
    PROVE  p = q /\ r = s
<1>1. m * (p - q) = s - r
  OBVIOUS
<1>2. s - r < m /\ -m < s - r
  OBVIOUS
<1>3. ~(p - q >= 1)
  <2> SUFFICES ASSUME p - q >= 1 PROVE FALSE
    OBVIOUS
  <2>1. m * (p - q) >= m
    OBVIOUS
  <2> QED BY <1>1, <1>2, <2>1
<1>4. ~(p - q <= -1)
  <2> SUFFICES ASSUME p - q <= -1 PROVE FALSE
    OBVIOUS
  <2>1. m * (p - q) <= -m
    OBVIOUS
  <2> QED BY <1>1, <1>2, <2>1
<1>5. p = q
  BY <1>3, <1>4
<1> QED BY <1>5
=============================================================================
