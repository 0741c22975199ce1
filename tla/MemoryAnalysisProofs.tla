------------------------ MODULE MemoryAnalysisProofs ------------------------
(***************************************************************************)
(* Proofs about MemoryAnalysis, for every set of masks, addresses, sizes   *)
(* and positions, every cache line and any number of messages.             *)
(*                                                                         *)
(* The two countings first.  Bank conflicts: the handler keeps the first   *)
(* dword of each lane; the lanes of a phase can be served in n rounds if   *)
(* and only if no bank has more than n of these dwords, since a rank       *)
(* among the dwords of its bank gives each lane a round.  Cache lines:     *)
(* a line has cacheLine bytes, so accesses that do not overlap use at      *)
(* least the lines counted as needed, and the excess is never negative.    *)
(*                                                                         *)
(* AnalysisInv then says that the tables are what the messages since the   *)
(* last clear make of them; the properties follow from it.                 *)
(***************************************************************************)
EXTENDS MemoryAnalysis, Induction

-----------------------------------------------------------------------------
(* Quotients.                                                              *)

\* The quotient is the number of the interval a number lies in.
LEMMA QuotientIs ==
    ASSUME NEW c \in Nat \ {0}, NEW n \in Int, NEW x \in Int, c * n <= x, x < c * n + c
    PROVE  x \div c = n
<1> DEFINE q == x \div c
           r == x % c
           s == x - c * n
<1>1. q \in Int /\ r \in 0..(c - 1) /\ x = c * q + r
  BY Division
<1>2. c * n \in Int /\ s \in 0..(c - 1) /\ x = c * n + s
  OBVIOUS
<1> HIDE DEF q, r, s
<1>3. c * q + r = c * n + s
  BY <1>1, <1>2
<1>4. q = n
  BY <1>1, <1>2, <1>3, RestUnique
<1> QED BY <1>4 DEF q

\* Larger numbers have larger quotients.
LEMMA QuotientMonotone ==
    ASSUME NEW c \in Nat \ {0}, NEW a \in Int, NEW b \in Int, a <= b
    PROVE  a \div c <= b \div c
<1> DEFINE p == a \div c
           r == a % c
           q == b \div c
           s == b % c
<1>1. p \in Int /\ r \in 0..(c - 1) /\ a = c * p + r
  BY Division
<1>2. q \in Int /\ s \in 0..(c - 1) /\ b = c * q + s
  BY Division
<1> HIDE DEF p, q, r, s
<1>3. p <= q
  <2> SUFFICES ASSUME q + 1 <= p PROVE FALSE
    BY <1>1, <1>2
  <2>1. c * (q + 1) <= c * p
    BY <1>1, <1>2
  <2>2. c * (q + 1) = c * q + c /\ c * q \in Int /\ c * p \in Int
    BY <1>1, <1>2
  <2> QED BY <1>1, <1>2, <2>1, <2>2
<1> QED BY <1>3 DEF p, q

\* The quotient of a natural number is one.
LEMMA QuotientNat ==
    ASSUME NEW c \in Nat \ {0}, NEW a \in Nat
    PROVE  a \div c \in Nat /\ c * (a \div c) <= a /\ a < c * (a \div c) + c
<1> DEFINE q == a \div c
           r == a % c
<1>1. q \in Int /\ r \in 0..(c - 1) /\ a = c * q + r
  BY Division
<1> HIDE DEF q, r
<1>2. c * q \in Int
  BY <1>1
<1>3. q >= 0
  <2> SUFFICES ASSUME q <= -1 PROVE FALSE
    BY <1>1
  <2>1. c * q <= -c
    BY <1>1
  <2> QED BY <1>1, <1>2, <2>1
<1> QED BY <1>1, <1>2, <1>3 DEF q

-----------------------------------------------------------------------------
(* Cache lines.                                                            *)

BytesOf(at, size) == UNION {at[l]..(at[l] + size - 1) : l \in DOMAIN at}

\* The lines between the first and the last byte of an access are those that
\* hold a byte of it.
LEMMA LinesOfBytes ==
    ASSUME NEW at, \A l \in DOMAIN at : at[l] \in Nat, NEW size \in Nat \ {0}
    PROVE  CacheLines(at, size) = {byte \div cacheLine : byte \in BytesOf(at, size)}
<1> DEFINE c == cacheLine
<1>0. c \in Nat \ {0}
  BY MemoryAssumption
<1> HIDE DEF c
<1>1. ASSUME NEW l \in DOMAIN at, NEW n \in (at[l] \div c)..((at[l] + size - 1) \div c)
      PROVE  \E byte \in at[l]..(at[l] + size - 1) : n = byte \div c
  <2> DEFINE a == at[l]
             z == a + size - 1
  <2>0. a \in Nat /\ z \in Nat /\ a <= z
    OBVIOUS
  <2>1. a \div c \in Nat /\ a < c * (a \div c) + c
    BY <1>0, <2>0, QuotientNat
  <2>2. z \div c \in Nat /\ c * (z \div c) <= z
    BY <1>0, <2>0, QuotientNat
  <2>3. n \in a \div c .. z \div c
    OBVIOUS
  <2> HIDE DEF a, z
  <2>4. n \in Nat /\ a \div c <= n /\ n <= z \div c
    BY <2>1, <2>2, <2>3
  <2>5. CASE n = a \div c
    <3>1. a \in a..z
      BY <2>0
    <3> QED BY <2>5, <3>1 DEF a, z
  <2>6. CASE n # a \div c
    <3> DEFINE p == a \div c
               q == z \div c
               b == c * n
    <3>1. p \in Nat /\ q \in Nat /\ p + 1 <= n /\ n <= q /\ a < c * p + c /\ c * q <= z
      BY <2>1, <2>2, <2>4, <2>6
    <3> HIDE DEF p, q
    <3>2. c * (p + 1) <= c * n /\ c * (p + 1) = c * p + c /\ c * n <= c * q
      BY <1>0, <2>4, <3>1
    <3>3. b \in Int /\ c * p \in Int /\ c * q \in Int
      BY <1>0, <2>4, <3>1
    <3>4. a <= b /\ b <= z
      BY <1>0, <2>0, <3>1, <3>2, <3>3
    <3>5. b \in a..z
      BY <2>0, <3>3, <3>4
    <3>6. b \div c = n
      <4>1. c * n <= b /\ b < c * n + c
        BY <1>0, <3>3
      <4>2. n \in Int
        BY <2>4
      <4> HIDE DEF b
      <4> QED BY <1>0, <3>3, <4>1, <4>2, QuotientIs, Zenon
    <3> QED BY <3>5, <3>6 DEF a, z
  <2> QED BY <2>5, <2>6
<1>2. ASSUME NEW l \in DOMAIN at, NEW byte \in at[l]..(at[l] + size - 1)
      PROVE  byte \div c \in (at[l] \div c)..((at[l] + size - 1) \div c)
  <2> DEFINE a == at[l]
             z == a + size - 1
  <2>0. a \in Nat /\ z \in Nat /\ byte \in Nat /\ a <= byte /\ byte <= z
    OBVIOUS
  <2> HIDE DEF a, z
  <2>1. a \div c <= byte \div c /\ byte \div c <= z \div c
    BY <1>0, <2>0, QuotientMonotone
  <2>2. a \div c \in Nat /\ byte \div c \in Nat /\ z \div c \in Nat
    BY <1>0, <2>0, QuotientNat
  <2>3. byte \div c \in (a \div c)..(z \div c)
    BY <2>1, <2>2
  <2> QED BY <2>3 DEF a, z
<1>3. CacheLines(at, size) = UNION {(at[l] \div c)..((at[l] + size - 1) \div c) : l \in DOMAIN at}
  BY DEF CacheLines, c
<1>4. ASSUME NEW n \in CacheLines(at, size)
      PROVE  n \in {byte \div c : byte \in BytesOf(at, size)}
  <2>1. PICK l \in DOMAIN at : n \in (at[l] \div c)..((at[l] + size - 1) \div c)
    BY <1>3
  <2>2. PICK byte \in at[l]..(at[l] + size - 1) : n = byte \div c
    BY <1>1, <2>1
  <2> QED BY <2>2 DEF BytesOf
<1>5. ASSUME NEW byte \in BytesOf(at, size) PROVE byte \div c \in CacheLines(at, size)
  <2>1. PICK l \in DOMAIN at : byte \in at[l]..(at[l] + size - 1)
    BY DEF BytesOf
  <2> QED BY <1>2, <1>3, <2>1
<1>6. CacheLines(at, size) = {byte \div c : byte \in BytesOf(at, size)}
  BY <1>4, <1>5
<1> QED BY <1>6 DEF c

\* So many bytes are in that many lines of c bytes, or more.
LEMMA EnoughLines ==
    ASSUME NEW c \in Nat \ {0}, NEW B \in SUBSET Nat, IsFiniteSet(B)
    PROVE  LET lines == {byte \div c : byte \in B}
           IN  /\ IsFiniteSet(lines) /\ Cardinality(lines) \in Nat
               /\ Cardinality(B) <= Cardinality(lines) * c
<1> DEFINE lines == {byte \div c : byte \in B}
           g == [byte \in B |-> byte \div c]
           f == [byte \in B |-> <<byte \div c, byte % c>>]
<1>1. IsFiniteSet(lines)
  <2>1. g \in Surjection(B, lines)
    BY DEF Surjection
  <2> QED BY <2>1, FS_Surjection
<1>2. IsFiniteSet(0..(c - 1)) /\ Cardinality(0..(c - 1)) = c
  <2>1. 0 \in Int /\ c - 1 \in Int /\ 0 <= c - 1
    OBVIOUS
  <2> QED BY <2>1, FS_Interval
<1>3. IsFiniteSet(lines \X (0..(c - 1))) /\ Cardinality(lines \X (0..(c - 1))) = Cardinality(lines) * c
  <2> HIDE DEF lines
  <2> QED BY <1>1, <1>2, FS_Product
<1>4. ASSUME NEW x \in B
      PROVE  x \in Int /\ x \div c \in Int /\ x % c \in 0..(c - 1) /\ x = c * (x \div c) + (x % c)
  BY Division
<1>5. f \in Injection(B, lines \X (0..(c - 1)))
  <2>1. ASSUME NEW x \in B PROVE f[x] \in lines \X (0..(c - 1))
    BY <1>4
  <2>2. ASSUME NEW x \in B, NEW y \in B, f[x] = f[y] PROVE x = y
    <3>1. x \div c = y \div c /\ x % c = y % c
      BY <2>2
    <3> QED BY <1>4, <3>1
  <2> HIDE DEF lines
  <2> QED BY <2>1, <2>2 DEF Injection, IsInjective
<1>6. Cardinality(B) <= Cardinality(lines \X (0..(c - 1)))
  <2> HIDE DEF lines, f
  <2> QED BY <1>3, <1>5, FS_Injection
<1>7. Cardinality(lines) \in Nat
  BY <1>1, FS_CardinalityType
<1> QED BY <1>1, <1>3, <1>6, <1>7

\* The bytes of accesses that do not overlap.
LEMMA DisjointBytes ==
    ASSUME NEW L, IsFiniteSet(L), NEW at \in [L -> Nat], NEW size \in Nat \ {0},
           \A k, l \in L : k # l => at[k] + size <= at[l] \/ at[l] + size <= at[k]
    PROVE  /\ BytesOf(at, size) \subseteq Nat /\ IsFiniteSet(BytesOf(at, size))
           /\ Cardinality(BytesOf(at, size)) = Cardinality(L) * size
<1> DEFINE O == 0..(size - 1)
           B == BytesOf(at, size)
           f == [x \in L \X O |-> at[x[1]] + x[2]]
<1>1. IsFiniteSet(O) /\ Cardinality(O) = size
  <2>1. 0 \in Int /\ size - 1 \in Int /\ 0 <= size - 1
    OBVIOUS
  <2> QED BY <2>1, FS_Interval
<1>2. IsFiniteSet(L \X O) /\ Cardinality(L \X O) = Cardinality(L) * size
  <2> HIDE DEF O
  <2> QED BY <1>1, FS_Product
<1>3. ASSUME NEW x \in L \X O PROVE f[x] \in B
  <2>1. x[1] \in L /\ x[2] \in O /\ at[x[1]] \in Nat
    OBVIOUS
  <2>2. at[x[1]] + x[2] \in at[x[1]]..(at[x[1]] + size - 1)
    BY <2>1
  <2> QED BY <2>1, <2>2 DEF BytesOf
<1>4. ASSUME NEW byte \in B PROVE \E x \in L \X O : f[x] = byte
  <2>1. PICK l \in L : byte \in at[l]..(at[l] + size - 1)
    BY DEF BytesOf
  <2>2. at[l] \in Nat /\ byte - at[l] \in O /\ at[l] + (byte - at[l]) = byte
    BY <2>1
  <2>3. <<l, byte - at[l]>> \in L \X O
    BY <2>2
  <2> QED BY <2>2, <2>3
<1>5. ASSUME NEW x \in L \X O, NEW y \in L \X O, f[x] = f[y] PROVE x = y
  <2>1. /\ x[1] \in L /\ x[2] \in O /\ at[x[1]] \in Nat /\ x = <<x[1], x[2]>>
        /\ y[1] \in L /\ y[2] \in O /\ at[y[1]] \in Nat /\ y = <<y[1], y[2]>>
    OBVIOUS
  <2>2. at[x[1]] + x[2] = at[y[1]] + y[2]
    BY <1>5
  <2>3. x[1] = y[1]
    BY <2>1, <2>2
  <2>4. x[2] = y[2]
    BY <2>1, <2>2, <2>3
  <2> QED BY <2>1, <2>3, <2>4
<1>6. f \in Surjection(L \X O, B) /\ f \in Injection(L \X O, B)
  <2>1. f \in [L \X O -> B]
    <3> HIDE DEF O, B
    <3> QED BY <1>3
  <2> HIDE DEF f, B, O
  <2> QED BY <2>1, <1>4, <1>5 DEF Surjection, Injection, IsInjective
<1>7. IsFiniteSet(B) /\ Cardinality(B) = Cardinality(L \X O)
  <2> HIDE DEF f, B, O
  <2> QED BY <1>2, <1>6, FS_Surjection
<1>8. B \subseteq Nat
  <2> SUFFICES ASSUME NEW byte \in B PROVE byte \in Nat
    OBVIOUS
  <2>1. PICK l \in L : byte \in at[l]..(at[l] + size - 1) /\ at[l] \in Nat
    BY DEF BytesOf
  <2> QED BY <2>1
<1> QED BY <1>2, <1>7, <1>8

\* The lines that n bytes in a row need.
LEMMA NeededIsLeast ==
    ASSUME NEW c \in Nat \ {0}, NEW n \in Nat, NEW k \in Nat, n <= k * c
    PROVE  (n + c - 1) \div c <= k
<1> DEFINE x == n + c - 1
           q == x \div c
<1>1. x \in Nat
  OBVIOUS
<1>2. q \in Nat /\ c * q <= x
  <2> HIDE DEF x
  <2> QED BY <1>1, QuotientNat
<1> HIDE DEF q
<1>3. k * c = c * k /\ c * k \in Nat /\ c * q \in Nat
  BY <1>2
<1>4. ~(q >= k + 1)
  <2> SUFFICES ASSUME q >= k + 1 PROVE FALSE
    OBVIOUS
  <2>1. c * q >= c * (k + 1) /\ c * (k + 1) = c * k + c
    BY <1>2
  <2> QED BY <1>2, <1>3, <2>1
<1>5. q <= k
  BY <1>2, <1>4
<1> QED BY <1>5 DEF q, x

-----------------------------------------------------------------------------
(* Banks and rounds.                                                       *)

\* The least and the greatest of a set of natural numbers.
LEMMA MinFacts ==
    ASSUME NEW S \in SUBSET Nat, NEW n \in S, \A y \in S : n <= y
    PROVE  Min(S) = n
<1>1. Min(S) \in S /\ \A y \in S : Min(S) <= y
  BY DEF Min
<1>2. Min(S) \in Nat /\ n \in Nat /\ Min(S) <= n /\ n <= Min(S)
  BY <1>1
<1> QED BY <1>2

\* The greatest of a bounded set of natural numbers.
LEMMA MaxFacts ==
    ASSUME NEW S \in SUBSET Nat, S # {}, NEW N \in Nat, \A y \in S : y <= N
    PROVE  Max(S) \in S /\ \A y \in S : y <= Max(S)
<1> DEFINE T == {n \in Nat : \E x \in S : n = N - x}
<1>1. PICK z : z \in S
  OBVIOUS
<1>2. N - z \in T
  BY <1>1
<1>3. T \in SUBSET Nat /\ T # {}
  BY <1>2
<1>4. PICK n \in T : \A k \in T : n <= k
  <2> HIDE DEF T
  <2> QED BY <1>3, LeastElement
<1>5. PICK x \in S : n = N - x
  BY <1>4
<1>6. ASSUME NEW y \in S PROVE x >= y
  <2>1. N - y \in T
    OBVIOUS
  <2>2. n <= N - y
    BY <1>4, <2>1
  <2> QED BY <1>5, <2>2
<1>7. Max(S) \in S /\ \A y \in S : Max(S) >= y
  BY <1>6 DEF Max
<1>8. \A y \in S : y \in Nat
  OBVIOUS
<1> QED BY <1>7, <1>8

\* The first dword of an aligned access tells the banks of all of them: two
\* accesses that meet in a bank begin on the same bank, and have the same dword
\* there if they begin with the same one.
LEMMA FirstDwordTells ==
    ASSUME NEW size \in {1, 2, 4, 8, 16}, NEW a \in Nat, NEW b \in Nat,
           a % size = 0, b % size = 0,
           NEW d \in Dwords(a, size), NEW e \in Dwords(b, size), d % no_banks = e % no_banks
    PROVE  /\ (a \div 4) % no_banks = (b \div 4) % no_banks
           /\ a \div 4 = b \div 4 => d = e
<1>1. CASE size \in {1, 2, 4}
  <2>1. d = a \div 4 /\ e = b \div 4
    BY <1>1 DEF Dwords
  <2> QED BY <2>1
<1>2. CASE size = 8
  <2>1. a = 8 * (a \div 8) /\ b = 8 * (b \div 8) /\ a \div 8 \in Nat /\ b \div 8 \in Nat
    BY <1>2
  <2>2. PICK j \in Nat, k \in Nat : a = 8 * j /\ b = 8 * k
    BY <2>1
  <2>3. a \div 4 = 2 * j /\ b \div 4 = 2 * k /\ (a + 7) \div 4 = 2 * j + 1 /\ (b + 7) \div 4 = 2 * k + 1
    BY <2>2
  <2>4. d \in (2 * j)..(2 * j + 1) /\ e \in (2 * k)..(2 * k + 1)
    BY <1>2, <2>3 DEF Dwords
  <2>5. d % 32 = e % 32
    BY DEF no_banks
  <2>6. d - 2 * j = e - 2 * k
    BY <2>4, <2>5
  <2>7. (2 * j) % 32 = (2 * k) % 32
    BY <2>4, <2>5, <2>6
  <2> QED BY <2>3, <2>4, <2>6, <2>7 DEF no_banks
<1>3. CASE size = 16
  <2>1. a = 16 * (a \div 16) /\ b = 16 * (b \div 16) /\ a \div 16 \in Nat /\ b \div 16 \in Nat
    BY <1>3
  <2>2. PICK j \in Nat, k \in Nat : a = 16 * j /\ b = 16 * k
    BY <2>1
  <2>3. a \div 4 = 4 * j /\ b \div 4 = 4 * k /\ (a + 15) \div 4 = 4 * j + 3 /\ (b + 15) \div 4 = 4 * k + 3
    BY <2>2
  <2>4. d \in (4 * j)..(4 * j + 3) /\ e \in (4 * k)..(4 * k + 3)
    BY <1>3, <2>3 DEF Dwords
  <2>5. d % 32 = e % 32
    BY DEF no_banks
  <2>6. d - 4 * j = e - 4 * k
    BY <2>4, <2>5
  <2>7. (4 * j) % 32 = (4 * k) % 32
    BY <2>4, <2>5, <2>6
  <2> QED BY <2>3, <2>4, <2>6, <2>7 DEF no_banks
<1> QED BY <1>1, <1>2, <1>3

\* An access touches its first dword, whose number is natural.
LEMMA FirstDword ==
    ASSUME NEW size \in Nat \ {0}, NEW a \in Nat
    PROVE  a \div 4 \in Dwords(a, size) /\ a \div 4 \in Nat
<1>1. a \div 4 \in Nat /\ (a + size - 1) \div 4 \in Nat /\ a + size - 1 \in Nat
  OBVIOUS
<1>2. a \div 4 <= (a + size - 1) \div 4
  OBVIOUS
<1> QED BY <1>1, <1>2 DEF Dwords

\* The lanes of a phase, with aligned accesses of a supported size.
Aligned(lanes, at, size) ==
    /\ size \in {1, 2, 4, 8, 16} /\ IsFiniteSet(lanes)
    /\ \A l \in lanes : at[l] \in Nat /\ at[l] % size = 0

FirstDwords(lanes, at) == {at[l] \div 4 : l \in lanes}
OnBank(dwords, b) == {d \in dwords : d % no_banks = b}

\* The dwords are no more than the lanes.
LEMMA DwordsFinite ==
    ASSUME NEW lanes, NEW at, NEW size, Aligned(lanes, at, size)
    PROVE  LET D == FirstDwords(lanes, at)
           IN  /\ D \subseteq Nat /\ IsFiniteSet(D) /\ Cardinality(D) <= Cardinality(lanes)
               /\ \A E \in SUBSET D : /\ IsFiniteSet(E) /\ Cardinality(E) \in Nat
                                      /\ Cardinality(E) <= Cardinality(lanes)
<1> DEFINE D == FirstDwords(lanes, at)
           f == [l \in lanes |-> at[l] \div 4]
<1>1. f \in Surjection(lanes, D)
  BY DEF Surjection, FirstDwords
<1>2. D \subseteq Nat
  BY FirstDword DEF Aligned, FirstDwords
<1>3. IsFiniteSet(lanes)
  BY DEF Aligned
<1> HIDE DEF D, f
<1>4. IsFiniteSet(D) /\ Cardinality(D) <= Cardinality(lanes)
  BY <1>1, <1>3, FS_Surjection
<1>5. ASSUME NEW E \in SUBSET D
      PROVE  IsFiniteSet(E) /\ Cardinality(E) \in Nat /\ Cardinality(E) <= Cardinality(lanes)
  <2>1. IsFiniteSet(E) /\ Cardinality(E) <= Cardinality(D)
    BY <1>4, FS_Subset
  <2>2. Cardinality(E) \in Nat /\ Cardinality(D) \in Nat /\ Cardinality(lanes) \in Nat
    BY <1>3, <1>4, <2>1, FS_CardinalityType
  <2> QED BY <1>4, <2>1, <2>2
<1> QED BY <1>2, <1>4, <1>5 DEF D

\* A bank delivers one dword per round.
LEMMA RoundsAtLeast ==
    ASSUME NEW lanes, NEW at, NEW size, Aligned(lanes, at, size),
           NEW n \in Nat, ServedIn(n, lanes, at, size), NEW b
    PROVE  Cardinality(OnBank(FirstDwords(lanes, at), b)) <= n
<1> DEFINE E == OnBank(FirstDwords(lanes, at), b)
<1>1. PICK round \in [lanes -> 1..n] :
        \A k, l \in lanes :
            \/ round[k] # round[l]
            \/ \A d \in Dwords(at[k], size), e \in Dwords(at[l], size) :
                  d % no_banks = e % no_banks => d = e
  BY DEF ServedIn
<1> DEFINE lane(d) == CHOOSE l \in lanes : at[l] \div 4 = d
           f == [d \in E |-> round[lane(d)]]
<1>2. ASSUME NEW d \in E
      PROVE  /\ lane(d) \in lanes /\ at[lane(d)] \div 4 = d /\ d % no_banks = b
             /\ d \in Dwords(at[lane(d)], size)
  <2>1. d \in FirstDwords(lanes, at) /\ d % no_banks = b
    BY DEF OnBank
  <2>2. \E l \in lanes : at[l] \div 4 = d
    BY <2>1 DEF FirstDwords
  <2>3. lane(d) \in lanes /\ at[lane(d)] \div 4 = d
    BY <2>2
  <2>4. at[lane(d)] \in Nat /\ size \in Nat \ {0}
    BY <2>3 DEF Aligned
  <2> HIDE DEF lane
  <2>5. at[lane(d)] \div 4 \in Dwords(at[lane(d)], size)
    BY <2>4, FirstDword
  <2> QED BY <2>1, <2>3, <2>5
<1>3. ASSUME NEW d \in E, NEW e \in E, f[d] = f[e] PROVE d = e
  <2>1. round[lane(d)] = round[lane(e)]
    BY <1>3
  <2>2. lane(d) \in lanes /\ d \in Dwords(at[lane(d)], size) /\ d % no_banks = b
    BY <1>2
  <2>3. lane(e) \in lanes /\ e \in Dwords(at[lane(e)], size) /\ e % no_banks = b
    BY <1>2
  <2> HIDE DEF lane, E, f
  <2> QED BY <1>1, <2>1, <2>2, <2>3
<1>4. f \in Injection(E, 1..n)
  <2>1. \A d \in E : f[d] \in 1..n
    BY <1>2
  <2>2. f \in [E -> 1..n]
    <3> HIDE DEF lane, E
    <3> QED BY <2>1
  <2> HIDE DEF f, E
  <2> QED BY <1>3, <2>2 DEF Injection, IsInjective
<1>5. IsFiniteSet(1..n) /\ Cardinality(1..n) = n
  <2>1. 1 \in Int /\ n \in Int
    OBVIOUS
  <2>2. IsFiniteSet(1..n) /\ Cardinality(1..n) = IF 1 > n THEN 0 ELSE n - 1 + 1
    BY <2>1, FS_Interval
  <2> QED BY <2>2
<1> HIDE DEF f, E
<1>6. Cardinality(E) <= Cardinality(1..n)
  BY <1>4, <1>5, FS_Injection
<1> QED BY <1>5, <1>6 DEF E

\* The rank of a dword among those of its bank.
Rank(D, d) == Cardinality({e \in D : e % no_banks = d % no_banks /\ e <= d})

\* Ranks begin with 1, do not exceed the number of dwords, and tell the dwords
\* of a bank apart.
LEMMA Ranks ==
    ASSUME NEW D \in SUBSET Nat, IsFiniteSet(D), NEW d \in D
    PROVE  /\ Rank(D, d) \in Nat \ {0} /\ Rank(D, d) <= Cardinality(OnBank(D, d % no_banks))
           /\ \A e \in D : e % no_banks = d % no_banks /\ d < e => Rank(D, d) < Rank(D, e)
<1> DEFINE R(x) == {e \in D : e % no_banks = x % no_banks /\ e <= x}
           B == OnBank(D, d % no_banks)
<1>1. \A E \in SUBSET D : IsFiniteSet(E) /\ Cardinality(E) \in Nat
  BY FS_Subset, FS_CardinalityType, Zenon
<1>2. R(d) \subseteq B /\ B \subseteq D /\ d \in R(d)
  BY DEF OnBank
<1>3. Cardinality(R(d)) \in Nat /\ Cardinality(R(d)) <= Cardinality(B)
  <2>1. IsFiniteSet(B) /\ R(d) \in SUBSET D
    BY <1>1, <1>2, Zenon
  <2> HIDE DEF R, B
  <2> QED BY <1>1, <1>2, <2>1, FS_Subset
<1>4. Cardinality(R(d)) # 0
  <2>1. IsFiniteSet(R(d))
    BY <1>1, Zenon
  <2>2. R(d) # {}
    BY <1>2
  <2> HIDE DEF R
  <2> QED BY <2>1, <2>2, FS_EmptySet
<1>5. ASSUME NEW e \in D, e % no_banks = d % no_banks, d < e PROVE Rank(D, d) < Rank(D, e)
  <2>1. R(d) \subseteq R(e) /\ e \in R(e) /\ e \notin R(d)
    <3>1. \A x \in D : x <= d => x <= e
      BY <1>5
    <3>2. e <= e /\ ~(e <= d)
      BY <1>5
    <3> QED BY <1>5, <3>1, <3>2, Zenon
  <2>2. IsFiniteSet(R(e)) /\ IsFiniteSet(R(d))
    BY <1>1, Zenon
  <2>3. Cardinality(R(d)) = Rank(D, d) /\ Cardinality(R(e)) = Rank(D, e)
    BY DEF Rank
  <2>4. Cardinality(R(e)) \in Nat /\ Cardinality(R(d)) \in Nat
    BY <1>1, Zenon
  <2> HIDE DEF R
  <2>5. Cardinality(R(d)) <= Cardinality(R(e)) /\ (Cardinality(R(d)) = Cardinality(R(e)) => R(d) = R(e))
    BY <2>1, <2>2, FS_Subset
  <2> QED BY <2>1, <2>3, <2>4, <2>5
<1>6. Rank(D, d) = Cardinality(R(d))
  BY DEF Rank
<1> QED BY <1>3, <1>4, <1>5, <1>6

\* Serving the dwords of each bank in their order, no more rounds are needed
\* than the fullest bank has dwords.
LEMMA RoundsEnough ==
    ASSUME NEW lanes, NEW at, NEW size, Aligned(lanes, at, size),
           NEW n \in Nat, \A b : Cardinality(OnBank(FirstDwords(lanes, at), b)) <= n
    PROVE  ServedIn(n, lanes, at, size)
<1> DEFINE D == FirstDwords(lanes, at)
           round == [l \in lanes |-> Rank(D, at[l] \div 4)]
<1>1. D \in SUBSET Nat /\ IsFiniteSet(D)
  BY DwordsFinite
<1>2. ASSUME NEW l \in lanes
      PROVE  /\ at[l] \div 4 \in D /\ at[l] \in Nat /\ at[l] % size = 0
             /\ Rank(D, at[l] \div 4) \in 1..n
  <2>1. at[l] \div 4 \in D /\ at[l] \in Nat /\ at[l] % size = 0
    BY DEF FirstDwords, Aligned
  <2>2. /\ Rank(D, at[l] \div 4) \in Nat \ {0}
        /\ Rank(D, at[l] \div 4) <= Cardinality(OnBank(D, (at[l] \div 4) % no_banks))
    <3> HIDE DEF D
    <3> QED BY <1>1, <2>1, Ranks
  <2>3. Cardinality(OnBank(D, (at[l] \div 4) % no_banks)) <= n
    OBVIOUS
  <2>4. Cardinality(OnBank(D, (at[l] \div 4) % no_banks)) \in Nat
    <3>1. OnBank(D, (at[l] \div 4) % no_banks) \in SUBSET D
      BY DEF OnBank
    <3> QED BY <3>1, DwordsFinite
  <2> QED BY <2>1, <2>2, <2>3, <2>4
<1>3. round \in [lanes -> 1..n]
  BY <1>2
<1>4. ASSUME NEW k \in lanes, NEW l \in lanes, round[k] = round[l],
             NEW d \in Dwords(at[k], size), NEW e \in Dwords(at[l], size), d % no_banks = e % no_banks
      PROVE  d = e
  <2> DEFINE x == at[k] \div 4
             y == at[l] \div 4
  <2>1. Rank(D, x) = Rank(D, y) /\ x \in D /\ y \in D
    BY <1>2, <1>4
  <2>2. at[k] \in Nat /\ at[k] % size = 0 /\ at[l] \in Nat /\ at[l] % size = 0
    BY <1>2
  <2>3. size \in {1, 2, 4, 8, 16}
    BY DEF Aligned
  <2>4. x % no_banks = y % no_banks /\ (x = y => d = e)
    <3> DEFINE a == at[k]
               b == at[l]
    <3>1. /\ a \in Nat /\ a % size = 0 /\ b \in Nat /\ b % size = 0
          /\ d \in Dwords(a, size) /\ e \in Dwords(b, size) /\ d % no_banks = e % no_banks
      BY <1>4, <2>2
    <3> HIDE DEF a, b
    <3>2. (a \div 4) % no_banks = (b \div 4) % no_banks /\ (a \div 4 = b \div 4 => d = e)
      BY <2>3, <3>1, FirstDwordTells
    <3> QED BY <3>2 DEF a, b
  <2> HIDE DEF D, x, y
  <2>5. x \in Nat /\ y \in Nat /\ Rank(D, x) \in Nat
    BY <1>1, <2>1, Ranks
  <2>6. ~(x < y)
    BY <1>1, <2>1, <2>4, <2>5, Ranks
  <2>7. ~(y < x)
    <3>1. Rank(D, y) \in Nat
      BY <1>1, <2>1, Ranks
    <3> QED BY <1>1, <2>1, <2>4, <2>5, <3>1, Ranks
  <2> QED BY <2>4, <2>5, <2>6, <2>7
<1> HIDE DEF round
<1> QED BY <1>3, <1>4 DEF ServedIn

\* The fewest rounds of a phase are those bank_conflict_count counts.
LEMMA PhaseRounds ==
    ASSUME NEW lanes, lanes # {}, NEW at, NEW size, Aligned(lanes, at, size)
    PROVE  /\ bank_conflict_count(FirstDwords(lanes, at)) \in Nat
           /\ Min({n \in 1..Cardinality(lanes) : ServedIn(n, lanes, at, size)}) - 1
                 = bank_conflict_count(FirstDwords(lanes, at))
<1> DEFINE D == FirstDwords(lanes, at)
           N == Cardinality(lanes)
           C == {Cardinality(OnBank(D, b)) : b \in {d % no_banks : d \in D}}
           S == {1} \cup C
           M == Max(S)
           T == {n \in 1..N : ServedIn(n, lanes, at, size)}
<1>1. N \in Nat /\ N # 0
  BY FS_CardinalityType, FS_EmptySet DEF Aligned
<1>2. \A b : Cardinality(OnBank(D, b)) \in Nat /\ Cardinality(OnBank(D, b)) <= N
  <2> SUFFICES ASSUME NEW b PROVE Cardinality(OnBank(D, b)) \in Nat /\ Cardinality(OnBank(D, b)) <= N
    OBVIOUS
  <2>1. OnBank(D, b) \in SUBSET D
    BY DEF OnBank
  <2> QED BY <2>1, DwordsFinite
<1>3. S \in SUBSET Nat /\ S # {} /\ \A y \in S : y <= N
  BY <1>1, <1>2
<1>4. M \in S /\ \A y \in S : y <= M
  <2> HIDE DEF S, N
  <2> QED BY <1>1, <1>3, MaxFacts
<1>5. M \in Nat /\ 1 <= M /\ M <= N
  BY <1>3, <1>4
<1>6. \A b : Cardinality(OnBank(D, b)) <= M
  <2> SUFFICES ASSUME NEW b PROVE Cardinality(OnBank(D, b)) <= M
    OBVIOUS
  <2>1. CASE OnBank(D, b) = {}
    <3>1. Cardinality(OnBank(D, b)) = 0
      BY <2>1, FS_EmptySet
    <3> HIDE DEF M
    <3> QED BY <1>5, <3>1
  <2>2. CASE OnBank(D, b) # {}
    <3>1. b \in {d % no_banks : d \in D}
      BY <2>2 DEF OnBank
    <3>2. Cardinality(OnBank(D, b)) \in S
      BY <3>1
    <3> HIDE DEF M, S
    <3> QED BY <1>4, <3>2
  <2> QED BY <2>1, <2>2
<1>7. M \in T
  <2>1. ServedIn(M, lanes, at, size)
    <3> HIDE DEF M
    <3> QED BY <1>5, <1>6, RoundsEnough DEF D
  <2> HIDE DEF M
  <2> QED BY <1>1, <1>5, <2>1
<1>8. ASSUME NEW n \in T PROVE M <= n
  <2>1. n \in Nat /\ 1 <= n /\ ServedIn(n, lanes, at, size)
    BY <1>1
  <2>2. \A b : Cardinality(OnBank(D, b)) <= n
    BY <2>1, RoundsAtLeast
  <2>3. \A y \in S : y <= n
    BY <2>1, <2>2
  <2> HIDE DEF M, S
  <2> QED BY <1>4, <2>3
<1>9. Min(T) = M
  <2>1. T \in SUBSET Nat
    BY <1>1
  <2> HIDE DEF T, M
  <2> QED BY <1>7, <1>8, <2>1, MinFacts
<1>10. bank_conflict_count(D) = M - 1
  BY DEF bank_conflict_count, OnBank
<1> HIDE DEF M, T
<1> QED BY <1>5, <1>9, <1>10 DEF T

\* Without access no conflict.
LEMMA NoConflict == bank_conflict_count({}) = 0
<1> DEFINE S == {1} \cup {Cardinality({d \in {} : d % no_banks = b}) : b \in {d % no_banks : d \in {}}}
<1>1. S = {1}
  OBVIOUS
<1>2. Max({1}) = 1
  BY DEF Max
<1> QED BY <1>1, <1>2 DEF bank_conflict_count

\* The table of the constructor has the phases.
LEMMA ConflictSets ==
    ASSUME NEW size \in {1, 2, 4, 8, 16}
    PROVE  /\ size \in DOMAIN conflict_sets
           /\ \E N \in Nat :
                 /\ DOMAIN conflict_sets[size] = 1..N
                 /\ \A l \in 0..63 :
                       /\ Phase(l, size) \in 0..(N - 1)
                       /\ \A i \in 1..N : l \in conflict_sets[size][i] <=> Phase(l, size) = i - 1
<1>1. CASE size \in {1, 2, 4}
  <2> DEFINE t == <<0..31, 32..63>>
  <2>1. size \in DOMAIN conflict_sets /\ conflict_sets[size] = t
    BY <1>1 DEF conflict_sets, Span
  <2>2. DOMAIN t = 1..2
    OBVIOUS
  <2>3. ASSUME NEW l \in 0..63
        PROVE  /\ Phase(l, size) \in 0..(2 - 1)
               /\ \A i \in 1..2 : l \in t[i] <=> Phase(l, size) = i - 1
    <3>1. Phase(l, size) = l \div 32
      BY <1>1 DEF Phase
    <3>2. l \in t[1] <=> l \div 32 = 0
      OBVIOUS
    <3>3. l \in t[2] <=> l \div 32 = 1
      OBVIOUS
    <3>4. \A i \in 1..2 : i = 1 \/ i = 2
      OBVIOUS
    <3> QED BY <3>1, <3>2, <3>3, <3>4
  <2> HIDE DEF t
  <2> QED BY <2>1, <2>2, <2>3
<1>2. CASE size = 8
  <2> DEFINE t == <<0..15, 16..31, 32..47, 48..63>>
  <2>1. size \in DOMAIN conflict_sets /\ conflict_sets[size] = t
    BY <1>2 DEF conflict_sets, Span
  <2>2. DOMAIN t = 1..4
    OBVIOUS
  <2>3. ASSUME NEW l \in 0..63
        PROVE  /\ Phase(l, size) \in 0..(4 - 1)
               /\ \A i \in 1..4 : l \in t[i] <=> Phase(l, size) = i - 1
    <3>1. Phase(l, size) = l \div 16
      BY <1>2 DEF Phase
    <3>2. /\ l \in t[1] <=> l \div 16 = 0
          /\ l \in t[2] <=> l \div 16 = 1
          /\ l \in t[3] <=> l \div 16 = 2
          /\ l \in t[4] <=> l \div 16 = 3
      OBVIOUS
    <3>3. \A i \in 1..4 : i = 1 \/ i = 2 \/ i = 3 \/ i = 4
      OBVIOUS
    <3> QED BY <3>1, <3>2, <3>3
  <2> HIDE DEF t
  <2> QED BY <2>1, <2>2, <2>3
<1>3. CASE size = 16
  <2> DEFINE t == <<(0..3) \cup (20..23), (4..7) \cup (16..19), (8..11) \cup (28..31), (12..15) \cup (24..27),
                    (32..35) \cup (52..55), (36..39) \cup (48..51), (40..43) \cup (60..63),
                    (44..47) \cup (56..59)>>
  <2>1. size \in DOMAIN conflict_sets /\ conflict_sets[size] = t
    BY <1>3 DEF conflict_sets, Span
  <2>2. DOMAIN t = 1..8
    OBVIOUS
  <2>3. ASSUME NEW l \in 0..63
        PROVE  /\ Phase(l, size) \in 0..(8 - 1)
               /\ \A i \in 1..8 : l \in t[i] <=> Phase(l, size) = i - 1
    <3> DEFINE h == l \div 32
               quad == (l \div 4) % 8
    <3>1. h \in 0..1 /\ quad \in 0..7 /\ l \in (32 * h + 4 * quad)..(32 * h + 4 * quad + 3)
      OBVIOUS
    <3>2. Phase(l, size) = 4 * h + IF quad < 4 THEN quad ELSE IF quad % 2 = 0 THEN quad - 3 ELSE quad - 5
      BY <1>3 DEF Phase
    <3> HIDE DEF h, quad
    <3>3. /\ l \in t[1] <=> h = 0 /\ quad \in {0, 5}
          /\ l \in t[2] <=> h = 0 /\ quad \in {1, 4}
          /\ l \in t[3] <=> h = 0 /\ quad \in {2, 7}
          /\ l \in t[4] <=> h = 0 /\ quad \in {3, 6}
      BY <3>1
    <3>4. /\ l \in t[5] <=> h = 1 /\ quad \in {0, 5}
          /\ l \in t[6] <=> h = 1 /\ quad \in {1, 4}
          /\ l \in t[7] <=> h = 1 /\ quad \in {2, 7}
          /\ l \in t[8] <=> h = 1 /\ quad \in {3, 6}
      BY <3>1
    <3>5. \A i \in 1..8 : i = 1 \/ i = 2 \/ i = 3 \/ i = 4 \/ i = 5 \/ i = 6 \/ i = 7 \/ i = 8
      OBVIOUS
    <3>6. /\ quad \in {0, 1, 2, 3, 4, 5, 6, 7} /\ h \in {0, 1}
          /\ (quad = 0 \/ quad = 5) => Phase(l, size) = 4 * h
          /\ (quad = 1 \/ quad = 4) => Phase(l, size) = 4 * h + 1
          /\ (quad = 2 \/ quad = 7) => Phase(l, size) = 4 * h + 2
          /\ (quad = 3 \/ quad = 6) => Phase(l, size) = 4 * h + 3
      BY <3>1, <3>2
    <3> HIDE DEF t
    <3> QED BY <3>3, <3>4, <3>5, <3>6
  <2> HIDE DEF t
  <2> QED BY <2>1, <2>2, <2>3
<1> QED BY <1>1, <1>2, <1>3

\* A sum up to n has one more term than one up to n - 1.
LEMMA SumNext ==
    ASSUME NEW n \in Nat \ {0}, NEW f, \A y \in 1..n : f[y] \in Int
    PROVE  SumFunctionOnSet(f, 1..n) = SumFunctionOnSet(f, 1..(n - 1)) + f[n]
<1> DEFINE A == 1..(n - 1)
           B == 1..n
<1>1. IsFiniteSet(A) /\ n \notin A /\ B = A \cup {n}
  BY FS_Interval
<1>2. \A y \in B : f[y] \in Int
  OBVIOUS
<1> HIDE DEF A, B
<1>3. \A y \in A \cup {n} : f[y] \in Int
  BY <1>1, <1>2
<1>4. SumFunctionOnSet(f, A \cup {n}) = SumFunctionOnSet(f, A) + f[n]
  BY <1>1, <1>3, SumAdd
<1> QED BY <1>1, <1>4 DEF A, B

\* A sum over the conflict sets is the sum over the phases that are occupied.
LEMMA SumShift ==
    ASSUME NEW N \in Nat, NEW f, \A i \in 1..N : f[i] \in Int,
           NEW P \in SUBSET (0..(N - 1)), NEW g, \A p \in P : g[p] = f[p + 1],
           \A i \in 1..N : i - 1 \notin P => f[i] = 0
    PROVE  SumFunctionOnSet(f, 1..N) = SumFunctionOnSet(g, P)
<1> DEFINE Q(n) == {p \in P : p < n}
           S == {n \in Nat : SumFunctionOnSet(f, 1..n) = SumFunctionOnSet(g, Q(n))}
<1>0. \A p \in P : p \in 0..(N - 1) /\ g[p] \in Int
  OBVIOUS
<1>1. 0 \in S
  <2>1. 1..0 = {} /\ Q(0) = {}
    <3>1. ASSUME NEW p \in Q(0) PROVE FALSE
      <4>1. p \in 0..(N - 1) /\ p < 0
        BY <1>0
      <4> QED BY <4>1
    <3>2. 1..0 = {}
      OBVIOUS
    <3> HIDE DEF Q
    <3> QED BY <3>1, <3>2
  <2>2. SumFunctionOnSet(f, 1..0) = SumFunctionOnSet(g, Q(0))
    BY <2>1, SumEmpty
  <2> QED BY <2>2
<1>2. ASSUME NEW n \in (0 + 1)..N, n - 1 \in S PROVE n \in S
  <2> DEFINE k == n - 1
  <2>1. k \in Nat /\ k + 1 = n /\ n \in 1..N
    OBVIOUS
  <2>2. SumFunctionOnSet(f, 1..k) = SumFunctionOnSet(g, Q(k))
    BY <1>2
  <2>3. IsFiniteSet(1..k) /\ n \notin 1..k /\ 1..n = (1..k) \cup {n} /\ 1..n \subseteq 1..N
    BY <2>1, FS_Interval
  <2>4. SumFunctionOnSet(f, 1..n) = SumFunctionOnSet(f, 1..k) + f[n]
    <3>1. n \in Nat \ {0} /\ \A y \in 1..n : f[y] \in Int
      BY <2>3
    <3> QED BY <3>1, SumNext
  <2>5. IsFiniteSet(Q(k)) /\ k \notin Q(k) /\ \A y \in Q(k) : y \in P /\ g[y] \in Int
    <3>1. Q(k) \subseteq 0..(N - 1)
      BY <1>0
    <3>2. IsFiniteSet(0..(N - 1))
      BY FS_Interval
    <3>3. IsFiniteSet(Q(k))
      <4> HIDE DEF Q
      <4> QED BY <3>1, <3>2, FS_Subset
    <3>4. k \notin Q(k) /\ \A y \in Q(k) : y \in P /\ g[y] \in Int
      BY <1>0, <2>1
    <3> QED BY <3>3, <3>4
  <2>6. SumFunctionOnSet(g, Q(k)) \in Int
    <3> HIDE DEF Q
    <3> QED BY <2>5, SumType
  <2>7. CASE k \in P
    <3>1. Q(n) = Q(k) \cup {k}
      <4>1. \A p \in P : p < n <=> p < k \/ p = k
        BY <1>0, <2>1
      <4> QED BY <2>7, <4>1, Zenon
    <3>2. SumFunctionOnSet(g, Q(k) \cup {k}) = SumFunctionOnSet(g, Q(k)) + g[k]
      <4>1. \A y \in Q(k) \cup {k} : g[y] \in Int
        BY <1>0, <2>5, <2>7
      <4> HIDE DEF Q, k
      <4> QED BY <2>5, <4>1, SumAdd
    <3>3. g[k] = f[n]
      BY <2>1, <2>7
    <3>4. SumFunctionOnSet(f, 1..n) = SumFunctionOnSet(g, Q(n))
      BY <2>2, <2>4, <3>1, <3>2, <3>3
    <3> QED BY <3>4
  <2>8. CASE k \notin P
    <3>1. Q(n) = Q(k)
      <4>1. \A p \in P : p < n <=> p < k
        BY <1>0, <2>1, <2>8
      <4> QED BY <4>1, Zenon
    <3>2. f[n] = 0
      BY <2>1, <2>8
    <3>3. SumFunctionOnSet(f, 1..n) = SumFunctionOnSet(g, Q(n))
      <4> HIDE DEF Q, k
      <4> QED BY <2>2, <2>4, <2>6, <3>1, <3>2
    <3> QED BY <3>3
  <2> QED BY <2>7, <2>8
<1>3. N \in S
  <2>1. \A i \in 0..N : i \in S
    <3> HIDE DEF S
    <3> QED BY <1>1, <1>2, UpTo
  <2> QED BY <2>1
<1>4. Q(N) = P
  <2>1. \A p \in P : p < N
    BY <1>0
  <2> QED BY <2>1, Zenon
<1> QED BY <1>3, <1>4

\* A sum of natural numbers is one.
LEMMA SumNat ==
    ASSUME NEW N \in Nat, NEW f, \A i \in 1..N : f[i] \in Nat
    PROVE  SumFunctionOnSet(f, 1..N) \in Nat
<1> DEFINE S == {n \in Nat : SumFunctionOnSet(f, 1..n) \in Nat}
<1>1. 0 \in S
  <2>1. 1..0 = {}
    OBVIOUS
  <2>2. SumFunctionOnSet(f, 1..0) = 0
    BY <2>1, SumEmpty
  <2> QED BY <2>2
<1>2. ASSUME NEW n \in (0 + 1)..N, n - 1 \in S PROVE n \in S
  <2>1. SumFunctionOnSet(f, 1..(n - 1)) \in Nat
    BY <1>2
  <2>2. n \in Nat \ {0} /\ \A y \in 1..n : f[y] \in Int
    OBVIOUS
  <2>3. SumFunctionOnSet(f, 1..n) = SumFunctionOnSet(f, 1..(n - 1)) + f[n]
    BY <2>2, SumNext
  <2> QED BY <2>1, <2>3
<1>3. \A i \in 0..N : i \in S
  <2> HIDE DEF S
  <2> QED BY <1>1, <1>2, UpTo
<1>4. N \in S
  <2> HIDE DEF S
  <2> QED BY <1>3
<1> QED BY <1>4

\* What handle_bank_conflict_analysis adds up for a message, when nothing is
\* registered before it.
ConflictsOf(at, size) ==
    SumFunction([i \in DOMAIN conflict_sets[size] |->
        bank_conflict_count({at[l] \div 4 : l \in DOMAIN at \cap conflict_sets[size][i]})])

\* The conflicts that conflict_set::bank_conflict_count returns for a message of
\* aligned accesses, summed over the conflict sets of its size, are the fewest
\* rounds the banks need to serve it, beyond one per phase.
THEOREM ConflictsAreRounds ==
    ASSUME NEW size \in {1, 2, 4, 8, 16}, NEW L \in SUBSET (0..63), NEW at \in [L -> Nat],
           \A l \in L : at[l] % size = 0
    PROVE  ConflictsOf(at, size) = ExtraRounds(at, size) /\ ExtraRounds(at, size) \in Nat
<1>1. PICK N \in Nat :
        /\ DOMAIN conflict_sets[size] = 1..N
        /\ \A l \in 0..63 :
              /\ Phase(l, size) \in 0..(N - 1)
              /\ \A i \in 1..N : l \in conflict_sets[size][i] <=> Phase(l, size) = i - 1
  BY ConflictSets
<1> DEFINE P == {Phase(l, size) : l \in L}
           lanes(p) == {l \in L : Phase(l, size) = p}
           f == [i \in 1..N |-> bank_conflict_count({at[l] \div 4 : l \in L \cap conflict_sets[size][i]})]
           g == [p \in P |-> Min({n \in 1..Cardinality(lanes(p)) : ServedIn(n, lanes(p), at, size)}) - 1]
<1>2. P \in SUBSET (0..(N - 1))
  <2>1. \A l \in L : Phase(l, size) \in 0..(N - 1)
    BY <1>1
  <2> QED BY <2>1
<1>3. IsFiniteSet(L)
  <2>1. 0 \in Int /\ 63 \in Int
    OBVIOUS
  <2>2. IsFiniteSet(0..63)
    BY <2>1, FS_Interval, Zenon
  <2> QED BY <2>2, FS_Subset, Zenon
<1>4. ASSUME NEW p \in P PROVE g[p] = f[p + 1] /\ f[p + 1] \in Nat
  <2>1. p \in 0..(N - 1) /\ p + 1 \in 1..N
    BY <1>2
  <2>2. lanes(p) # {} /\ lanes(p) \subseteq L
    OBVIOUS
  <2>3. Aligned(lanes(p), at, size)
    <3>1. IsFiniteSet(lanes(p))
      BY <1>3, <2>2, FS_Subset
    <3> QED BY <2>2, <3>1 DEF Aligned
  <2>4. L \cap conflict_sets[size][p + 1] = lanes(p)
    <3>1. (p + 1) - 1 = p
      BY <2>1
    <3>2. \A l \in L : l \in conflict_sets[size][p + 1] <=> Phase(l, size) = p
      BY <1>1, <2>1, <3>1
    <3> QED BY <3>2, Zenon
  <2>5. f[p + 1] = bank_conflict_count(FirstDwords(lanes(p), at))
    BY <2>1, <2>4 DEF FirstDwords
  <2>6. g[p] = Min({n \in 1..Cardinality(lanes(p)) : ServedIn(n, lanes(p), at, size)}) - 1
    OBVIOUS
  <2> HIDE DEF lanes, f, g
  <2> QED BY <2>2, <2>3, <2>5, <2>6, PhaseRounds
<1>5. ASSUME NEW i \in 1..N, i - 1 \notin P PROVE f[i] = 0
  <2>1. L \cap conflict_sets[size][i] = {}
    BY <1>1, <1>5
  <2>2. {at[l] \div 4 : l \in L \cap conflict_sets[size][i]} = {}
    BY <2>1
  <2> QED BY <2>2, NoConflict
<1>6. \A i \in 1..N : f[i] \in Nat
  <2> SUFFICES ASSUME NEW i \in 1..N PROVE f[i] \in Nat
    OBVIOUS
  <2>1. CASE i - 1 \in P
    <3>1. (i - 1) + 1 = i
      OBVIOUS
    <3> HIDE DEF f, P
    <3> QED BY <1>4, <2>1, <3>1
  <2>2. CASE i - 1 \notin P
    BY <1>5, <2>2
  <2> QED BY <2>1, <2>2
<1>7. ConflictsOf(at, size) = SumFunctionOnSet(f, 1..N)
  BY <1>1 DEF ConflictsOf, SumFunction
<1>8. ExtraRounds(at, size) = SumFunctionOnSet(g, P)
  <2>1. DOMAIN at = L /\ DOMAIN g = P
    OBVIOUS
  <2>2. ExtraRounds(at, size) = SumFunction(g)
    BY <2>1 DEF ExtraRounds
  <2> HIDE DEF g, P
  <2> QED BY <2>1, <2>2 DEF SumFunction
<1>9. SumFunctionOnSet(f, 1..N) = SumFunctionOnSet(g, P)
  <2> HIDE DEF f, g, P
  <2> QED BY <1>2, <1>4, <1>5, <1>6, SumShift
<1>10. SumFunctionOnSet(f, 1..N) \in Nat
  <2> HIDE DEF f
  <2> QED BY <1>6, SumNat
<1> QED BY <1>7, <1>8, <1>9, <1>10

-----------------------------------------------------------------------------
(* Messages and what they add to the tables.                               *)

\* A message as it is recorded: lanes, addresses in LDS aligned.
Handled == [m : [lanes : SUBSET (0..63), size : Nat \ {0}, pos : Positions],
            at : UNION {[L -> Nat] : L \in SUBSET (0..63)},
            mspace : {"global", "shared", "flat"}]

WellFormed(x) ==
    /\ x \in Handled /\ x.at \in [x.m.lanes -> Nat]
    /\ x.mspace = "shared" => \A l \in x.m.lanes : x.at[l] % x.m.size = 0

\* What handle_cache_line_count_analysis computes for it.
NeededBy(x) == (Cardinality(x.m.lanes) * DataSize(x.m) + cacheLine - 1) \div cacheLine
UsedBy(x) == Cardinality(CacheLines(x.at, DataSize(x.m)))

\* An access has a size, that of the message or that of the instruction.
LEMMA SizePositive ==
    ASSUME NEW x, WellFormed(x)
    PROVE  DataSize(x.m) \in Nat \ {0}
<1>1. x.m.size \in Nat \ {0} /\ x.m.pos \in Positions
  BY DEF WellFormed, Handled
<1>2. isa[x.m.pos].access_size \in Nat
  BY <1>1, MemoryAssumption
<1> QED BY <1>1, <1>2 DEF DataSize, Unmatched

\* The lanes of a message are finitely many.
LEMMA LanesFinite ==
    ASSUME NEW x, WellFormed(x)
    PROVE  IsFiniteSet(x.m.lanes) /\ Cardinality(x.m.lanes) \in Nat
<1>1. 0 \in Int /\ 63 \in Int
  OBVIOUS
<1>2. IsFiniteSet(0..63)
  BY <1>1, FS_Interval, Zenon
<1>3. x.m.lanes \subseteq 0..63
  BY DEF WellFormed, Handled
<1> QED BY <1>2, <1>3, FS_Subset, FS_CardinalityType

\* The handler's difference is the excess of lines; lanes that access disjoint
\* bytes never use fewer lines than needed.
LEMMA ExcessFacts ==
    ASSUME NEW x, WellFormed(x)
    PROVE  /\ NeededBy(x) \in Nat /\ UsedBy(x) \in Nat
           /\ Excess(x) = UsedBy(x) - NeededBy(x)
           /\ Disjoint(x) => NeededBy(x) <= UsedBy(x)
<1> DEFINE c == cacheLine
           size == DataSize(x.m)
           L == x.m.lanes
           at == x.at
           B == BytesOf(at, size)
           lines == {byte \div c : byte \in B}
           n == Cardinality(L) * size
<1>1. c \in Nat \ {0}
  BY MemoryAssumption
<1>2. size \in Nat \ {0}
  BY SizePositive
<1>3. at \in [L -> Nat] /\ DOMAIN at = L
  BY DEF WellFormed
<1>4. IsFiniteSet(L) /\ Cardinality(L) \in Nat
  BY LanesFinite
<1>5. UsedBy(x) = Cardinality(lines)
  <2>1. CacheLines(at, size) = {byte \div cacheLine : byte \in BytesOf(at, size)}
    <3> HIDE DEF at, size
    <3> QED BY <1>2, <1>3, LinesOfBytes
  <2> QED BY <2>1 DEF UsedBy
<1>6. Bytes(x) = B
  BY DEF Bytes, BytesOf
<1>7. Excess(x) = UsedBy(x) - NeededBy(x)
  <2>1. Cardinality({byte \div cacheLine : byte \in Bytes(x)}) = UsedBy(x)
    BY <1>5, <1>6
  <2>2. DOMAIN x.at = x.m.lanes
    BY <1>3
  <2> QED BY <2>1, <2>2 DEF Excess, NeededBy
<1>8. n \in Nat
  <2> HIDE DEF L, size
  <2> QED BY <1>2, <1>4
<1>9. NeededBy(x) = (n + c - 1) \div c /\ NeededBy(x) \in Nat
  <2>1. NeededBy(x) = (n + c - 1) \div c
    BY DEF NeededBy
  <2>2. n + c - 1 \in Nat
    <3> HIDE DEF n, c
    <3> QED BY <1>1, <1>8
  <2>3. (n + c - 1) \div c \in Nat
    <3> DEFINE y == n + c - 1
    <3>1. y \in Nat
      BY <2>2
    <3> HIDE DEF y, c
    <3>2. y \div c \in Nat
      BY <1>1, <3>1, QuotientNat
    <3> QED BY <3>2 DEF y
  <2> QED BY <2>1, <2>3
<1>10. B \subseteq Nat /\ IsFiniteSet(B)
  <2> DEFINE I(l) == at[l]..(at[l] + size - 1)
             f == [l \in L |-> I(l)]
             J == {I(l) : l \in L}
  <2>1. \A l \in L : at[l] \in Nat
    BY <1>3
  <2>2. \A l \in L : IsFiniteSet(I(l)) /\ I(l) \subseteq Nat
    <3> SUFFICES ASSUME NEW l \in L PROVE IsFiniteSet(I(l)) /\ I(l) \subseteq Nat
      OBVIOUS
    <3>1. at[l] \in Int /\ at[l] + size - 1 \in Int /\ at[l] \in Nat
      <4> HIDE DEF at, L, size
      <4> QED BY <1>2, <2>1
    <3>2. IsFiniteSet(at[l]..(at[l] + size - 1))
      <4> DEFINE u == at[l]
                 v == at[l] + size - 1
      <4>1. u \in Int /\ v \in Int
        BY <3>1
      <4> HIDE DEF u, v
      <4>2. IsFiniteSet(u..v)
        BY <4>1, FS_Interval
      <4> QED BY <4>2 DEF u, v
    <3>3. at[l]..(at[l] + size - 1) \subseteq Nat
      <4> HIDE DEF at, L, size
      <4> QED BY <3>1
    <3> QED BY <3>2, <3>3
  <2>3. f \in Surjection(L, J)
    <3> HIDE DEF I, L
    <3> QED BY DEF Surjection
  <2>4. IsFiniteSet(J)
    <3> HIDE DEF f, J, L
    <3> QED BY <1>4, <2>3, FS_Surjection
  <2>5. \A T \in J : IsFiniteSet(T) /\ T \subseteq Nat
    <3> HIDE DEF I, L
    <3> QED BY <2>2
  <2>6. IsFiniteSet(UNION J) /\ UNION J \subseteq Nat
    <3> HIDE DEF J
    <3> QED BY <2>4, <2>5, FS_UNION
  <2>7. UNION J = B
    BY <1>3 DEF BytesOf
  <2> QED BY <2>6, <2>7
<1>11. IsFiniteSet(lines) /\ Cardinality(lines) \in Nat /\ Cardinality(B) <= Cardinality(lines) * c
  <2> HIDE DEF B, c
  <2> QED BY <1>1, <1>10, EnoughLines
<1>12. ASSUME Disjoint(x) PROVE NeededBy(x) <= UsedBy(x)
  <2>1. \A k, l \in L : k # l => at[k] + size <= at[l] \/ at[l] + size <= at[k]
    BY <1>3, <1>12 DEF Disjoint
  <2>2. Cardinality(B) = n
    <3> HIDE DEF L, at, size
    <3> QED BY <1>2, <1>3, <1>4, <2>1, DisjointBytes
  <2>3. (n + c - 1) \div c <= Cardinality(lines)
    <3> HIDE DEF n, c, lines, B
    <3> QED BY <1>1, <1>8, <1>11, <2>2, NeededIsLeast
  <2> QED BY <1>5, <1>9, <2>3
<1> QED BY <1>5, <1>7, <1>9, <1>11, <1>12

-----------------------------------------------------------------------------
(* What the tables hold after the messages s.                              *)

\* The messages counted for the cache lines, and the key of one.
CountedIn(s) == {i \in 1..Len(s) : Counts(s[i])}
GlobalKey(x) == [fname |-> isa[x.m.pos].fname, pos |-> x.m.pos, ir |-> x.m.size,
                 isa |-> isa[x.m.pos].access_size]

\* The cache line table has the positions that were counted. If lanes access
\* disjoint bytes, no entry has fewer lines used than needed, and one has more
\* exactly if one of its messages had.
GlobalOf(ga, s) ==
    /\ DOMAIN ga = {GlobalKey(s[i]) : i \in CountedIn(s)}
    /\ \A k \in DOMAIN ga : ga[k].used \in Int /\ ga[k].needed \in Int
    /\ (\A i \in CountedIn(s) : Disjoint(s[i])) =>
          \A k \in DOMAIN ga :
             /\ ga[k].needed <= ga[k].used
             /\ ga[k].needed # ga[k].used <=>
                   \E i \in CountedIn(s) : GlobalKey(s[i]) = k /\ Excess(s[i]) > 0

\* Message x comes after s.
Next1(s, x, t) == s \in Seq(Handled) /\ WellFormed(x) /\ t = Append(s, x)

\* One message more is one index more; the others keep theirs.
LEMMA AppendFacts ==
    ASSUME NEW s, NEW x, NEW t, Next1(s, x, t)
    PROVE  /\ t \in Seq(Handled) /\ Len(t) = Len(s) + 1 /\ Len(s) \in Nat /\ t[Len(s) + 1] = x
           /\ \A i \in 1..Len(s) : t[i] = s[i]
           /\ 1..Len(t) = 1..Len(s) \cup {Len(s) + 1} /\ Len(s) + 1 \notin 1..Len(s)
           /\ CountedIn(t) = IF Counts(x) THEN CountedIn(s) \cup {Len(s) + 1} ELSE CountedIn(s)
<1>1. x \in Handled
  BY DEF Next1, WellFormed
<1>2. /\ t \in Seq(Handled) /\ Len(t) = Len(s) + 1 /\ Len(s) \in Nat /\ t[Len(s) + 1] = x
      /\ \A i \in 1..Len(s) : t[i] = s[i]
  BY <1>1 DEF Next1
<1>3. 1..Len(t) = 1..Len(s) \cup {Len(s) + 1} /\ Len(s) + 1 \notin 1..Len(s)
  BY <1>2
<1>4. CountedIn(t) = IF Counts(x) THEN CountedIn(s) \cup {Len(s) + 1} ELSE CountedIn(s)
  BY <1>2, <1>3, Zenon DEF CountedIn
<1> QED BY <1>2, <1>3, <1>4

\* A message that does not count leaves the table right.
LEMMA GlobalKept ==
    ASSUME NEW s, NEW x, NEW t, Next1(s, x, t), ~Counts(x), NEW ga, GlobalOf(ga, s)
    PROVE  GlobalOf(ga, t)
<1>1. CountedIn(t) = CountedIn(s) /\ \A i \in CountedIn(s) : t[i] = s[i]
  BY AppendFacts DEF CountedIn
<1> QED BY <1>1 DEF GlobalOf

\* The entry of one that counts gets its lines.
LEMMA GlobalStep ==
    ASSUME NEW s, NEW x, NEW t, Next1(s, x, t), Counts(x), NEW ga, GlobalOf(ga, s),
           NEW old, old = At(ga, GlobalKey(x), [no_accesses |-> 0, needed |-> 0, used |-> 0]),
           NEW count
    PROVE  GlobalOf(Put(ga, GlobalKey(x), [no_accesses |-> count,
                                           needed |-> old.needed + NeededBy(x),
                                           used |-> old.used + UsedBy(x)]), t)
<1> DEFINE key == GlobalKey(x)
           n == Len(s) + 1
           new == [no_accesses |-> count, needed |-> old.needed + NeededBy(x),
                   used |-> old.used + UsedBy(x)]
           gb == Put(ga, key, new)
<1>1. /\ CountedIn(t) = CountedIn(s) \cup {n} /\ t[n] = x
      /\ \A i \in CountedIn(s) : t[i] = s[i]
  BY AppendFacts DEF CountedIn
<1>2. /\ NeededBy(x) \in Nat /\ UsedBy(x) \in Nat /\ Excess(x) = UsedBy(x) - NeededBy(x)
      /\ Disjoint(x) => NeededBy(x) <= UsedBy(x)
  BY ExcessFacts DEF Next1
<1>3. /\ DOMAIN gb = DOMAIN ga \cup {key} /\ gb[key] = new
      /\ \A k \in DOMAIN ga \ {key} : gb[k] = ga[k]
  BY DEF Put
<1>4. old.needed \in Int /\ old.used \in Int
  <2>1. CASE key \in DOMAIN ga
    BY <2>1 DEF At, GlobalOf
  <2>2. CASE key \notin DOMAIN ga
    BY <2>2 DEF At
  <2> QED BY <2>1, <2>2
<1>5. new.needed = old.needed + NeededBy(x) /\ new.used = old.used + UsedBy(x)
  OBVIOUS
<1> HIDE DEF gb, new, key, n
<1>6. DOMAIN gb = {GlobalKey(t[i]) : i \in CountedIn(t)}
  <2>1. DOMAIN ga = {GlobalKey(s[i]) : i \in CountedIn(s)}
    BY DEF GlobalOf
  <2> QED BY <1>1, <1>3, <2>1 DEF key
<1>7. ASSUME NEW k \in DOMAIN gb PROVE gb[k].used \in Int /\ gb[k].needed \in Int
  <2>1. CASE k = key
    BY <1>2, <1>3, <1>4, <1>5, <2>1
  <2>2. CASE k # key
    BY <1>3, <2>2 DEF GlobalOf
  <2> QED BY <2>1, <2>2
<1>8. ASSUME \A i \in CountedIn(t) : Disjoint(t[i]), NEW k \in DOMAIN gb
      PROVE  /\ gb[k].needed <= gb[k].used
             /\ gb[k].needed # gb[k].used <=>
                   \E i \in CountedIn(t) : GlobalKey(t[i]) = k /\ Excess(t[i]) > 0
  <2>1. Disjoint(x) /\ \A i \in CountedIn(s) : Disjoint(s[i])
    BY <1>1, <1>8
  <2>2. \A j \in DOMAIN ga :
           /\ ga[j].needed <= ga[j].used
           /\ ga[j].needed # ga[j].used <=>
                 \E i \in CountedIn(s) : GlobalKey(s[i]) = j /\ Excess(s[i]) > 0
    BY <2>1 DEF GlobalOf
  <2>3. (\E i \in CountedIn(t) : GlobalKey(t[i]) = k /\ Excess(t[i]) > 0) <=>
           \/ \E i \in CountedIn(s) : GlobalKey(s[i]) = k /\ Excess(s[i]) > 0
           \/ k = key /\ Excess(x) > 0
    BY <1>1 DEF key
  <2>4. CASE k # key
    BY <1>3, <2>2, <2>3, <2>4
  <2>5. CASE k = key
    <3>1. /\ old.needed <= old.used
          /\ old.needed # old.used <=>
                \E i \in CountedIn(s) : GlobalKey(s[i]) = key /\ Excess(s[i]) > 0
      <4>1. CASE key \in DOMAIN ga
        <5>1. old = ga[key]
          BY <4>1 DEF At, key
        <5> QED BY <2>2, <4>1, <5>1
      <4>2. CASE key \notin DOMAIN ga
        <5>1. old = [no_accesses |-> 0, needed |-> 0, used |-> 0]
          BY <4>2 DEF At, key
        <5>2. old.needed = 0 /\ old.used = 0
          BY <5>1
        <5>3. \A i \in CountedIn(s) : GlobalKey(s[i]) # key
          BY <4>2 DEF GlobalOf
        <5> QED BY <5>2, <5>3
      <4> QED BY <4>1, <4>2
    <3>2. NeededBy(x) <= UsedBy(x) /\ (Excess(x) > 0 <=> NeededBy(x) < UsedBy(x))
      BY <1>2, <2>1
    <3>3. gb[k].needed = old.needed + NeededBy(x) /\ gb[k].used = old.used + UsedBy(x)
      BY <1>3, <1>5, <2>5
    <3>4. gb[k].needed <= gb[k].used
      BY <1>2, <1>4, <3>1, <3>2, <3>3
    <3>5. gb[k].needed # gb[k].used <=> old.needed # old.used \/ Excess(x) > 0
      BY <1>2, <1>4, <3>1, <3>2, <3>3
    <3> QED BY <2>3, <2>5, <3>1, <3>4, <3>5
  <2> QED BY <2>4, <2>5
<1>9. GlobalOf(gb, t)
  BY <1>6, <1>7, <1>8 DEF GlobalOf
<1> QED BY <1>9 DEF gb, new, key

-----------------------------------------------------------------------------
(* The file names, and the LDS messages filed under them.                  *)

\* The messages up to n that told the name of the file h, and the name known
\* after them.
NamedIn(s, h, n) == {j \in 1..n : Counts(s[j]) /\ fname_hash[s[j].m.pos] = h}
NameIn(s, kb, h, n) ==
    IF NamedIn(s, h, n) = {} THEN At(kb, h, "")
    ELSE isa[s[Max(NamedIn(s, h, n))].m.pos].fname

\* The LDS messages that are counted, and the entry that one belongs to.
LdsIn(s) == {i \in 1..Len(s) : s[i].mspace = "shared" /\ s[i].m.size \in DOMAIN conflict_sets}
KeyIn(s, kb, i) == [fname |-> NameIn(s, kb, fname_hash[s[i].m.pos], i - 1),
                    pos |-> s[i].m.pos, ir |-> s[i].m.size]

\* The names learnt are those that the messages told last.
Hashes == {fname_hash[p] : p \in Positions}
NamesOf(names, kb, s) == \A h \in Hashes : At(names, h, "") = NameIn(s, kb, h, Len(s))

\* A later message does not change what the earlier ones told.
LEMMA NameBefore ==
    ASSUME NEW s, NEW x, NEW t, Next1(s, x, t), NEW kb, NEW h, NEW n \in 0..Len(s)
    PROVE  NamedIn(t, h, n) = NamedIn(s, h, n) /\ NameIn(t, kb, h, n) = NameIn(s, kb, h, n)
<1>1. /\ Len(s) \in Nat /\ \A i \in 1..Len(s) : t[i] = s[i]
  BY AppendFacts
<1>2. \A j \in 1..n : t[j] = s[j]
  BY <1>1
<1>3. NamedIn(t, h, n) = NamedIn(s, h, n)
  BY <1>2, Zenon DEF NamedIn
<1>4. CASE NamedIn(s, h, n) = {}
  BY <1>3, <1>4 DEF NameIn
<1>5. CASE NamedIn(s, h, n) # {}
  <2> DEFINE M == NamedIn(s, h, n)
  <2>1. M \in SUBSET Nat /\ \A y \in M : y <= n /\ y \in 1..n
    BY DEF NamedIn
  <2>2. n \in Nat
    BY <1>1
  <2>3. Max(M) \in M
    <3>1. M # {}
      BY <1>5
    <3> HIDE DEF M
    <3> QED BY <2>1, <2>2, <3>1, MaxFacts
  <2>4. t[Max(M)] = s[Max(M)]
    BY <1>2, <2>1, <2>3
  <2> QED BY <1>3, <1>5, <2>4 DEF NameIn
<1> QED BY <1>3, <1>4, <1>5

\* The name after one more message.
LEMMA NameAfter ==
    ASSUME NEW s, NEW x, NEW t, Next1(s, x, t), NEW kb, NEW h
    PROVE  NameIn(t, kb, h, Len(t)) =
              IF Counts(x) /\ fname_hash[x.m.pos] = h THEN isa[x.m.pos].fname
              ELSE NameIn(s, kb, h, Len(s))
<1> DEFINE n == Len(s) + 1
           M == NamedIn(t, h, n)
<1>1. /\ Len(t) = n /\ Len(s) \in Nat /\ t[n] = x
      /\ 1..n = 1..Len(s) \cup {n}
  BY AppendFacts
<1>2. NamedIn(t, h, Len(s)) = NamedIn(s, h, Len(s)) /\ NameIn(t, kb, h, Len(s)) = NameIn(s, kb, h, Len(s))
  BY <1>1, NameBefore
<1>3. CASE Counts(x) /\ fname_hash[x.m.pos] = h
  <2>1. n \in M /\ M \in SUBSET Nat /\ (\A y \in M : y <= n) /\ n \in Nat
    BY <1>1, <1>3 DEF NamedIn
  <2>2. Max(M) \in M /\ \A y \in M : y <= Max(M)
    <3>1. M # {}
      BY <2>1
    <3> HIDE DEF M, n
    <3> QED BY <2>1, <3>1, MaxFacts
  <2>3. Max(M) = n
    <3> HIDE DEF M, n
    <3>1. Max(M) \in Nat /\ Max(M) <= n /\ n <= Max(M)
      BY <2>1, <2>2
    <3> QED BY <2>1, <3>1
  <2>4. M # {}
    BY <2>1
  <2>5. NameIn(t, kb, h, n) = isa[t[Max(M)].m.pos].fname
    BY <2>4 DEF NameIn
  <2> HIDE DEF n, M
  <2> QED BY <1>1, <1>3, <2>3, <2>5
<1>4. CASE ~(Counts(x) /\ fname_hash[x.m.pos] = h)
  <2>1. M = NamedIn(t, h, Len(s))
    <3> HIDE DEF n
    <3> QED BY <1>1, <1>4, Zenon DEF NamedIn, M
  <2>2. NameIn(t, kb, h, n) = NameIn(t, kb, h, Len(s))
    BY <2>1 DEF NameIn
  <2> HIDE DEF n, M
  <2> QED BY <1>1, <1>2, <1>4, <2>2
<1> QED BY <1>3, <1>4

\* Looking up the name of a file that has none does not change the names.
LEMMA LookUpKeepsNames ==
    ASSUME NEW names, NEW h, NEW g
    PROVE  At(Put(names, h, At(names, h, "")), g, "") = At(names, g, "")
BY DEF At, Put

\* A message that does not count tells no name.
LEMMA NamesKept ==
    ASSUME NEW s, NEW x, NEW t, Next1(s, x, t), ~Counts(x), NEW names, NEW kb, NamesOf(names, kb, s)
    PROVE  NamesOf(names, kb, t)
<1>1. \A h : NameIn(t, kb, h, Len(t)) = NameIn(s, kb, h, Len(s))
  BY NameAfter
<1> QED BY <1>1 DEF NamesOf

\* One that counts tells the name of its file, and of no other.
LEMMA NamesStep ==
    ASSUME NEW s, NEW x, NEW t, Next1(s, x, t), Counts(x), NEW names, NEW kb, NamesOf(names, kb, s)
    PROVE  NamesOf(Put(names, fname_hash[x.m.pos], isa[x.m.pos].fname), kb, t)
<1> DEFINE new == Put(names, fname_hash[x.m.pos], isa[x.m.pos].fname)
<1>1. \A h : At(new, h, "") = IF h = fname_hash[x.m.pos] THEN isa[x.m.pos].fname ELSE At(names, h, "")
  BY DEF At, Put
<1>2. \A h : NameIn(t, kb, h, Len(t)) = IF fname_hash[x.m.pos] = h THEN isa[x.m.pos].fname
                                        ELSE NameIn(s, kb, h, Len(s))
  BY NameAfter
<1> HIDE DEF new
<1>3. NamesOf(new, kb, t)
  BY <1>1, <1>2 DEF NamesOf
<1> QED BY <1>3 DEF new

\* The entries of the LDS table: the keys of the messages, how often each was
\* met, and whether one of them had a conflict.
LdsOf(la, kb, s) ==
    /\ DOMAIN la = {KeyIn(s, kb, i) : i \in LdsIn(s)}
    /\ \A k \in DOMAIN la :
          /\ la[k].no_accesses = Cardinality({i \in LdsIn(s) : KeyIn(s, kb, i) = k})
          /\ la[k].conflicts \in Nat
          /\ la[k].conflicts # 0 <=>
                \E i \in LdsIn(s) : KeyIn(s, kb, i) = k
                                    /\ ExtraRounds(s[i].at, s[i].m.size) > 0

\* The LDS messages and their keys after one more message.
LdsAfter(s, x, t, kb) ==
    /\ \A i \in LdsIn(s) : i \in 1..Len(s) /\ t[i] = s[i] /\ KeyIn(t, kb, i) = KeyIn(s, kb, i)
    /\ LdsIn(t) = IF x.mspace = "shared" /\ x.m.size \in DOMAIN conflict_sets
                  THEN LdsIn(s) \cup {Len(s) + 1} ELSE LdsIn(s)
    /\ Len(s) + 1 \notin LdsIn(s) /\ t[Len(s) + 1] = x
    /\ KeyIn(t, kb, Len(s) + 1) =
          [fname |-> NameIn(s, kb, fname_hash[x.m.pos], Len(s)), pos |-> x.m.pos, ir |-> x.m.size]
    /\ IsFiniteSet(LdsIn(s))

\* The LDS messages and their keys after one message more.
LEMMA LdsAppend ==
    ASSUME NEW s, NEW x, NEW t, Next1(s, x, t), NEW kb
    PROVE  LdsAfter(s, x, t, kb)
<1> DEFINE n == Len(s) + 1
<1>1. /\ Len(t) = n /\ Len(s) \in Nat /\ t[n] = x /\ \A i \in 1..Len(s) : t[i] = s[i]
      /\ 1..n = 1..Len(s) \cup {n} /\ n \notin 1..Len(s)
  BY AppendFacts
<1>2. ASSUME NEW i \in LdsIn(s)
      PROVE  i \in 1..Len(s) /\ t[i] = s[i] /\ KeyIn(t, kb, i) = KeyIn(s, kb, i)
  <2>1. i \in 1..Len(s) /\ t[i] = s[i]
    BY <1>1 DEF LdsIn
  <2>2. i - 1 \in 0..Len(s)
    BY <1>1, <2>1
  <2>3. \A h : NameIn(t, kb, h, i - 1) = NameIn(s, kb, h, i - 1)
    BY <2>2, NameBefore
  <2> QED BY <2>1, <2>3 DEF KeyIn
<1>3. LdsIn(t) = IF x.mspace = "shared" /\ x.m.size \in DOMAIN conflict_sets
                 THEN LdsIn(s) \cup {n} ELSE LdsIn(s)
  <2> HIDE DEF n
  <2> QED BY <1>1, Zenon DEF LdsIn
<1>4. n \notin LdsIn(s)
  <2> HIDE DEF n
  <2> QED BY <1>1 DEF LdsIn
<1>5. KeyIn(t, kb, n) = [fname |-> NameIn(s, kb, fname_hash[x.m.pos], Len(s)),
                         pos |-> x.m.pos, ir |-> x.m.size]
  <2>1. n - 1 = Len(s) /\ Len(s) \in 0..Len(s)
    BY <1>1
  <2>2. NameIn(t, kb, fname_hash[x.m.pos], n - 1) = NameIn(s, kb, fname_hash[x.m.pos], Len(s))
    BY <2>1, NameBefore
  <2> HIDE DEF n
  <2> QED BY <1>1, <2>2 DEF KeyIn
<1>6. IsFiniteSet(LdsIn(s))
  <2>1. 1 \in Int /\ Len(s) \in Int
    BY <1>1
  <2>2. IsFiniteSet(1..Len(s))
    BY <2>1, FS_Interval
  <2>3. LdsIn(s) \subseteq 1..Len(s)
    BY DEF LdsIn
  <2> QED BY <2>2, <2>3, FS_Subset
<1> QED BY <1>1, <1>2, <1>3, <1>4, <1>5, <1>6 DEF LdsAfter

\* A message that is no LDS message of a known size leaves the table right.
LEMMA LdsKept ==
    ASSUME NEW s, NEW x, NEW t, Next1(s, x, t), NEW kb, NEW la, LdsOf(la, kb, s),
           ~(x.mspace = "shared" /\ x.m.size \in DOMAIN conflict_sets)
    PROVE  LdsOf(la, kb, t)
<1>1. LdsIn(t) = LdsIn(s) /\ \A i \in LdsIn(s) : t[i] = s[i] /\ KeyIn(t, kb, i) = KeyIn(s, kb, i)
  <2>1. LdsAfter(s, x, t, kb)
    BY LdsAppend
  <2> QED BY <2>1 DEF LdsAfter
<1>2. {KeyIn(t, kb, i) : i \in LdsIn(t)} = {KeyIn(s, kb, i) : i \in LdsIn(s)}
  BY <1>1
<1>3. \A k : {i \in LdsIn(t) : KeyIn(t, kb, i) = k} = {i \in LdsIn(s) : KeyIn(s, kb, i) = k}
  BY <1>1
<1>4. \A k : (\E i \in LdsIn(t) : KeyIn(t, kb, i) = k /\ ExtraRounds(t[i].at, t[i].m.size) > 0)
             <=> \E i \in LdsIn(s) : KeyIn(s, kb, i) = k /\ ExtraRounds(s[i].at, s[i].m.size) > 0
  BY <1>1
<1> QED BY <1>2, <1>3, <1>4 DEF LdsOf

\* The entry of an LDS message is counted once more, with its conflicts.
LEMMA LdsStep ==
    ASSUME NEW s, NEW x, NEW t, Next1(s, x, t), NEW kb, NEW la, LdsOf(la, kb, s),
           x.mspace = "shared", x.m.size \in DOMAIN conflict_sets,
           NEW key, key = KeyIn(t, kb, Len(s) + 1),
           NEW old, old = At(la, key, [no_accesses |-> 0, conflicts |-> 0]),
           ExtraRounds(x.at, x.m.size) \in Nat
    PROVE  LdsOf(Put(la, key, [no_accesses |-> old.no_accesses + 1,
                               conflicts |-> old.conflicts + ExtraRounds(x.at, x.m.size)]), kb, t)
<1> DEFINE n == Len(s) + 1
           e == ExtraRounds(x.at, x.m.size)
           new == [no_accesses |-> old.no_accesses + 1, conflicts |-> old.conflicts + e]
           lb == Put(la, key, new)
           Of(k) == {i \in LdsIn(s) : KeyIn(s, kb, i) = k}
           Hit(k) == \E i \in LdsIn(s) : KeyIn(s, kb, i) = k /\ ExtraRounds(s[i].at, s[i].m.size) > 0
<1>1. /\ LdsIn(t) = LdsIn(s) \cup {n} /\ n \notin LdsIn(s) /\ t[n] = x
      /\ \A i \in LdsIn(s) : t[i] = s[i] /\ KeyIn(t, kb, i) = KeyIn(s, kb, i)
      /\ IsFiniteSet(LdsIn(s)) /\ KeyIn(t, kb, n) = key
  <2>1. LdsAfter(s, x, t, kb)
    BY LdsAppend
  <2> QED BY <2>1 DEF LdsAfter
<1>2. /\ DOMAIN la = {KeyIn(s, kb, i) : i \in LdsIn(s)}
      /\ \A k \in DOMAIN la : la[k].no_accesses = Cardinality(Of(k)) /\ la[k].conflicts \in Nat
                              /\ (la[k].conflicts # 0 <=> Hit(k))
  BY DEF LdsOf
<1>3. /\ DOMAIN lb = DOMAIN la \cup {key} /\ lb[key] = new
      /\ \A k \in DOMAIN la \ {key} : lb[k] = la[k]
  BY DEF Put
<1>4. /\ new.no_accesses = old.no_accesses + 1 /\ new.conflicts = old.conflicts + e
      /\ e \in Nat
  OBVIOUS
<1>5. old.no_accesses = Cardinality(Of(key)) /\ old.conflicts \in Nat /\ (old.conflicts # 0 <=> Hit(key))
  <2>1. CASE key \in DOMAIN la
    <3>1. old = la[key]
      BY <2>1 DEF At
    <3> QED BY <1>2, <2>1, <3>1
  <2>2. CASE key \notin DOMAIN la
    <3>1. old = [no_accesses |-> 0, conflicts |-> 0]
      BY <2>2 DEF At
    <3>2. old.no_accesses = 0 /\ old.conflicts = 0
      BY <3>1
    <3>3. \A i \in LdsIn(s) : KeyIn(s, kb, i) # key
      BY <1>2, <2>2
    <3>4. Of(key) = {} /\ ~Hit(key)
      BY <3>3
    <3>5. Cardinality(Of(key)) = 0
      BY <3>4, FS_EmptySet, Zenon
    <3> HIDE DEF Of, Hit
    <3> QED BY <3>2, <3>4, <3>5
  <2> QED BY <2>1, <2>2
<1>6. IsFiniteSet(Of(key)) /\ Cardinality(Of(key)) \in Nat /\ n \notin Of(key)
  <2>1. Of(key) \subseteq LdsIn(s)
    OBVIOUS
  <2> HIDE DEF Of
  <2> QED BY <1>1, <2>1, FS_Subset, FS_CardinalityType
<1>7. DOMAIN lb = {KeyIn(t, kb, i) : i \in LdsIn(t)}
  <2> HIDE DEF lb, n
  <2> QED BY <1>1, <1>2, <1>3
<1>8. ASSUME NEW k
      PROVE  {i \in LdsIn(t) : KeyIn(t, kb, i) = k} = IF k = key THEN Of(k) \cup {n} ELSE Of(k)
  <2> HIDE DEF n
  <2> QED BY <1>1
<1>9. ASSUME NEW k
      PROVE  (\E i \in LdsIn(t) : KeyIn(t, kb, i) = k /\ ExtraRounds(t[i].at, t[i].m.size) > 0)
             <=> Hit(k) \/ (k = key /\ e > 0)
  <2> HIDE DEF n
  <2> QED BY <1>1
<1>10. ASSUME NEW k \in DOMAIN lb
       PROVE  /\ lb[k].no_accesses = Cardinality({i \in LdsIn(t) : KeyIn(t, kb, i) = k})
              /\ lb[k].conflicts \in Nat
              /\ lb[k].conflicts # 0 <=>
                    \E i \in LdsIn(t) : KeyIn(t, kb, i) = k /\ ExtraRounds(t[i].at, t[i].m.size) > 0
  <2>1. CASE k # key
    <3> HIDE DEF Of, Hit, lb, n
    <3> QED BY <1>2, <1>3, <1>8, <1>9, <2>1
  <2>2. CASE k = key
    <3>1. Cardinality(Of(key) \cup {n}) = Cardinality(Of(key)) + 1
      <4> HIDE DEF Of, n
      <4> QED BY <1>6, FS_AddElement
    <3>2. lb[k].no_accesses = Cardinality(Of(key)) + 1 /\ lb[k].conflicts = old.conflicts + e
      <4> HIDE DEF Of, lb, new, e
      <4> QED BY <1>3, <1>4, <1>5, <2>2
    <3>3. lb[k].conflicts \in Nat /\ (lb[k].conflicts # 0 <=> Hit(key) \/ e > 0)
      <4> HIDE DEF Of, lb, new, e, Hit
      <4> QED BY <1>4, <1>5, <3>2
    <3> HIDE DEF Of, lb, new, e, Hit, n
    <3>4. {i \in LdsIn(t) : KeyIn(t, kb, i) = k} = Of(key) \cup {n}
      BY <1>8, <2>2
    <3>5. (\E i \in LdsIn(t) : KeyIn(t, kb, i) = k /\ ExtraRounds(t[i].at, t[i].m.size) > 0)
          <=> Hit(key) \/ e > 0
      BY <1>9, <2>2
    <3> QED BY <3>1, <3>2, <3>3, <3>4, <3>5
  <2> QED BY <2>1, <2>2
<1>11. LdsOf(lb, kb, t)
  <2> HIDE DEF lb, Of, Hit, n, new, e
  <2> QED BY <1>7, <1>10 DEF LdsOf
<1> QED BY <1>11 DEF lb, new, e

-----------------------------------------------------------------------------
(* The sums over the entries of a position and size.                       *)

KeysOf(la, p, z) == {k \in DOMAIN la : k.pos = p /\ k.ir = z}
MineIn(s, p, z) == {i \in 1..Len(s) : s[i].mspace = "shared" /\ s[i].m.pos = p /\ s[i].m.size = z}

\* They are those over its messages.
SumsOf(la, s) ==
    /\ IsFiniteSet(DOMAIN la)
    /\ \A p \in Positions, z \in DOMAIN conflict_sets :
          /\ SumFunction([k \in KeysOf(la, p, z) |-> la[k].conflicts])
                = SumFunction([i \in MineIn(s, p, z) |-> ExtraRounds(s[i].at, z)])
          /\ SumFunction([k \in KeysOf(la, p, z) |-> la[k].no_accesses])
                = Cardinality(MineIn(s, p, z))

\* The messages of a position and size after one more.
MineAfter(s, x, t, p, z) ==
    /\ \A i \in MineIn(s, p, z) : t[i] = s[i]
    /\ MineIn(t, p, z) = IF x.mspace = "shared" /\ x.m.pos = p /\ x.m.size = z
                         THEN MineIn(s, p, z) \cup {Len(s) + 1} ELSE MineIn(s, p, z)
    /\ Len(s) + 1 \notin MineIn(s, p, z) /\ t[Len(s) + 1] = x
    /\ IsFiniteSet(MineIn(s, p, z))

\* The LDS messages of a position and size after one message more.
LEMMA MineAppend ==
    ASSUME NEW s, NEW x, NEW t, Next1(s, x, t), NEW p, NEW z
    PROVE  MineAfter(s, x, t, p, z)
<1> DEFINE n == Len(s) + 1
<1>1. /\ Len(t) = n /\ Len(s) \in Nat /\ t[n] = x /\ \A i \in 1..Len(s) : t[i] = s[i]
      /\ 1..n = 1..Len(s) \cup {n} /\ n \notin 1..Len(s)
  BY AppendFacts
<1>2. \A i \in MineIn(s, p, z) : t[i] = s[i]
  BY <1>1 DEF MineIn
<1>3. MineIn(t, p, z) = IF x.mspace = "shared" /\ x.m.pos = p /\ x.m.size = z
                        THEN MineIn(s, p, z) \cup {n} ELSE MineIn(s, p, z)
  <2> HIDE DEF n
  <2> QED BY <1>1, Zenon DEF MineIn
<1>4. n \notin MineIn(s, p, z)
  <2> HIDE DEF n
  <2> QED BY <1>1 DEF MineIn
<1>5. IsFiniteSet(MineIn(s, p, z))
  <2>1. 1 \in Int /\ Len(s) \in Int
    BY <1>1
  <2>2. IsFiniteSet(1..Len(s))
    BY <2>1, FS_Interval
  <2>3. MineIn(s, p, z) \subseteq 1..Len(s)
    BY DEF MineIn
  <2> QED BY <2>2, <2>3, FS_Subset
<1> QED BY <1>1, <1>2, <1>3, <1>4, <1>5 DEF MineAfter

\* The rounds of LDS messages are natural numbers.
LEMMA RoundsType ==
    ASSUME NEW x, WellFormed(x), x.mspace = "shared", x.m.size \in DOMAIN conflict_sets
    PROVE  /\ ExtraRounds(x.at, x.m.size) \in Nat
           /\ ConflictsOf(x.at, x.m.size) = ExtraRounds(x.at, x.m.size)
<1>1. x.m.size \in {1, 2, 4, 8, 16}
  BY DEF conflict_sets
<1>2. x.m.lanes \in SUBSET (0..63) /\ x.at \in [x.m.lanes -> Nat]
      /\ \A l \in x.m.lanes : x.at[l] % x.m.size = 0
  BY DEF WellFormed, Handled
<1> QED BY <1>1, <1>2, ConflictsAreRounds

\* A message that is no LDS message of a known size leaves the sums right.
LEMMA SumsKept ==
    ASSUME NEW s, NEW x, NEW t, Next1(s, x, t), NEW la, SumsOf(la, s),
           ~(x.mspace = "shared" /\ x.m.size \in DOMAIN conflict_sets)
    PROVE  SumsOf(la, t)
<1>1. ASSUME NEW p \in Positions, NEW z \in DOMAIN conflict_sets
      PROVE  /\ MineIn(t, p, z) = MineIn(s, p, z)
             /\ [i \in MineIn(t, p, z) |-> ExtraRounds(t[i].at, z)]
                = [i \in MineIn(s, p, z) |-> ExtraRounds(s[i].at, z)]
  <2>1. MineAfter(s, x, t, p, z)
    BY MineAppend
  <2>2. MineIn(t, p, z) = MineIn(s, p, z) /\ \A i \in MineIn(s, p, z) : t[i] = s[i]
    BY <2>1 DEF MineAfter
  <2> QED BY <2>2
<1> QED BY <1>1 DEF SumsOf

\* What an entry counts are numbers.
Counters(la) == \A k \in DOMAIN la : la[k].no_accesses \in Nat /\ la[k].conflicts \in Nat

\* What the table of LDS accesses counts are natural numbers.
LEMMA LdsCounters ==
    ASSUME NEW la, NEW kb, NEW s \in Seq(Handled), LdsOf(la, kb, s)
    PROVE  Counters(la)
<1> SUFFICES ASSUME NEW k \in DOMAIN la
             PROVE  la[k].no_accesses \in Nat /\ la[k].conflicts \in Nat
  BY DEF Counters
<1> DEFINE of == {i \in LdsIn(s) : KeyIn(s, kb, i) = k}
<1>1. la[k].no_accesses = Cardinality(of) /\ la[k].conflicts \in Nat
  BY DEF LdsOf
<1>2. 1 \in Int /\ Len(s) \in Int /\ of \subseteq 1..Len(s)
  BY DEF LdsIn
<1>3. IsFiniteSet(1..Len(s))
  BY <1>2, FS_Interval
<1> HIDE DEF of
<1>4. Cardinality(of) \in Nat
  BY <1>2, <1>3, FS_Subset, FS_CardinalityType
<1> QED BY <1>1, <1>4

\* An LDS message adds one access and its rounds to the sums of its position
\* and size, whether its entry is new or not, and to no other.
LEMMA SumsStep ==
    ASSUME NEW s, NEW x, NEW t, Next1(s, x, t), NEW la, SumsOf(la, s), Counters(la),
           \A i \in 1..Len(s) : WellFormed(s[i]),
           x.mspace = "shared", x.m.size \in DOMAIN conflict_sets,
           NEW key, key.pos = x.m.pos, key.ir = x.m.size,
           NEW old, old = At(la, key, [no_accesses |-> 0, conflicts |-> 0])
    PROVE  SumsOf(Put(la, key, [no_accesses |-> old.no_accesses + 1,
                                conflicts |-> old.conflicts + ExtraRounds(x.at, x.m.size)]), t)
<1> DEFINE n == Len(s) + 1
           e == ExtraRounds(x.at, x.m.size)
           new == [no_accesses |-> old.no_accesses + 1, conflicts |-> old.conflicts + e]
           lb == Put(la, key, new)
<1>1. /\ DOMAIN lb = DOMAIN la \cup {key} /\ lb[key] = new
      /\ \A k \in DOMAIN la \ {key} : lb[k] = la[k]
  BY DEF Put
<1>2. new.no_accesses = old.no_accesses + 1 /\ new.conflicts = old.conflicts + e
  OBVIOUS
<1>3. e \in Nat
  BY RoundsType DEF Next1
<1>4. IsFiniteSet(DOMAIN la) /\ IsFiniteSet(DOMAIN lb)
  <2> HIDE DEF lb
  <2> QED BY <1>1, FS_AddElement DEF SumsOf
<1>5. /\ key \in DOMAIN la => old = la[key]
      /\ key \notin DOMAIN la => old.no_accesses = 0 /\ old.conflicts = 0
  BY DEF At
<1> HIDE DEF lb, new, e, n
<1>6. ASSUME NEW p \in Positions, NEW z \in DOMAIN conflict_sets
      PROVE  /\ SumFunction([k \in KeysOf(lb, p, z) |-> lb[k].conflicts])
                   = SumFunction([i \in MineIn(t, p, z) |-> ExtraRounds(t[i].at, z)])
             /\ SumFunction([k \in KeysOf(lb, p, z) |-> lb[k].no_accesses])
                   = Cardinality(MineIn(t, p, z))
  <2> DEFINE K == KeysOf(la, p, z)
             M == MineIn(s, p, z)
             fc == [k \in K |-> la[k].conflicts]
             fa == [k \in K |-> la[k].no_accesses]
             fm == [i \in M |-> ExtraRounds(s[i].at, z)]
             gc == [k \in KeysOf(lb, p, z) |-> lb[k].conflicts]
             ga == [k \in KeysOf(lb, p, z) |-> lb[k].no_accesses]
             gm == [i \in MineIn(t, p, z) |-> ExtraRounds(t[i].at, z)]
  <2>1. SumFunction(fc) = SumFunction(fm) /\ SumFunction(fa) = Cardinality(M)
    BY DEF SumsOf
  <2>2. MineAfter(s, x, t, p, z)
    BY MineAppend
  <2>3. K \subseteq DOMAIN la /\ IsFiniteSet(K)
    <3>1. K \subseteq DOMAIN la
      BY DEF KeysOf
    <3> QED BY <1>4, <3>1, FS_Subset
  <2>4. CASE ~(x.m.pos = p /\ x.m.size = z)
    <3>1. MineIn(t, p, z) = M /\ \A i \in M : t[i] = s[i]
      BY <2>2, <2>4 DEF MineAfter
    <3>2. gm = fm
      BY <3>1
    <3>3. KeysOf(lb, p, z) = K /\ key \notin K
      BY <1>1, <2>4 DEF KeysOf
    <3>4. \A k \in K : lb[k] = la[k]
      BY <1>1, <2>3, <3>3
    <3>5. gc = fc /\ ga = fa
      BY <3>3, <3>4
    <3> QED BY <2>1, <3>1, <3>2, <3>5
  <2>5. CASE x.m.pos = p /\ x.m.size = z
    <3>1. KeysOf(lb, p, z) = K \cup {key} /\ (key \in K <=> key \in DOMAIN la)
      BY <1>1, <2>5 DEF KeysOf
    <3>2. PutAt(fc, gc, K, key, e)
      <4>1. DOMAIN fc = K /\ DOMAIN gc = K \cup {key} /\ e \in Int
        BY <1>3, <3>1
      <4>2. \A y \in K : fc[y] \in Int
        BY <2>3 DEF Counters
      <4>3. \A y \in K \ {key} : gc[y] = fc[y]
        BY <1>1, <2>3, <3>1
      <4>4. gc[key] = new.conflicts
        BY <1>1, <3>1
      <4>5. gc[key] = (IF key \in K THEN fc[key] ELSE 0) + e
        BY <1>2, <1>5, <3>1, <4>4
      <4> HIDE DEF fc, gc, K
      <4> QED BY <2>3, <4>1, <4>2, <4>3, <4>5 DEF PutAt
    <3>3. PutAt(fa, ga, K, key, 1)
      <4>1. DOMAIN fa = K /\ DOMAIN ga = K \cup {key} /\ 1 \in Int
        BY <3>1
      <4>2. \A y \in K : fa[y] \in Int
        BY <2>3 DEF Counters
      <4>3. \A y \in K \ {key} : ga[y] = fa[y]
        BY <1>1, <2>3, <3>1
      <4>4. ga[key] = new.no_accesses
        BY <1>1, <3>1
      <4>5. ga[key] = (IF key \in K THEN fa[key] ELSE 0) + 1
        BY <1>2, <1>5, <3>1, <4>4
      <4> HIDE DEF fa, ga, K
      <4> QED BY <2>3, <4>1, <4>2, <4>3, <4>5 DEF PutAt
    <3>4. /\ MineIn(t, p, z) = M \cup {n} /\ n \notin M /\ t[n] = x /\ IsFiniteSet(M)
          /\ \A i \in M : t[i] = s[i]
      BY <2>2, <2>5 DEF MineAfter, n
    <3>5. PutAt(fm, gm, M, n, e)
      <4>1. DOMAIN fm = M /\ DOMAIN gm = M \cup {n} /\ e \in Int
        BY <1>3, <3>4
      <4>2. \A y \in M : fm[y] \in Int
        <5> SUFFICES ASSUME NEW y \in M PROVE ExtraRounds(s[y].at, z) \in Int
          OBVIOUS
        <5>1. y \in 1..Len(s) /\ s[y].mspace = "shared" /\ s[y].m.size = z
          BY DEF MineIn
        <5>2. WellFormed(s[y])
          BY <5>1
        <5>3. ExtraRounds(s[y].at, s[y].m.size) \in Nat
          BY <5>1, <5>2, RoundsType
        <5> QED BY <5>1, <5>3
      <4>3. \A y \in M \ {n} : gm[y] = fm[y]
        BY <3>4
      <4>4. gm[n] = e
        BY <2>5, <3>4 DEF e
      <4>5. gm[n] = (IF n \in M THEN fm[n] ELSE 0) + e
        BY <1>3, <3>4, <4>4
      <4> HIDE DEF fm, gm, M
      <4> QED BY <3>4, <4>1, <4>2, <4>3, <4>5 DEF PutAt
    <3>6. Cardinality(M \cup {n}) = Cardinality(M) + 1
      <4> HIDE DEF M
      <4> QED BY <3>4, FS_AddElement
    <3> HIDE DEF fc, gc, fa, ga, fm, gm, M, K
    <3>7. SumFunction(gc) = SumFunction(fc) + e
      BY <3>2, SumPut
    <3>8. SumFunction(gm) = SumFunction(fm) + e
      BY <3>5, SumPut
    <3>9. SumFunction(ga) = SumFunction(fa) + 1
      BY <3>3, SumPut
    <3>10. SumFunction(gc) = SumFunction(gm) /\ SumFunction(ga) = Cardinality(MineIn(t, p, z))
      BY <2>1, <3>4, <3>6, <3>7, <3>8, <3>9
    <3> QED BY <3>10 DEF gc, ga, gm
  <2> QED BY <2>4, <2>5
<1>7. SumsOf(lb, t)
  BY <1>4, <1>6 DEF SumsOf
<1> QED BY <1>7 DEF lb, new, e

-----------------------------------------------------------------------------
(* The inductive invariant.                                                *)

WellFormedIn(s) == \A i \in 1..Len(s) : WellFormed(s[i])
SentInv == sent \in Seq(Handled) /\ WellFormedIn(sent)

\* The tables are what the messages since the last clear make of them, and no
\* dword stays registered from one message to the next.
AnalysisInv ==
    /\ SentInv
    /\ GlobalOf(global_accesses, sent)
    /\ NamesOf(fname_hash_to_fname, known_before, sent)
    /\ LdsOf(lds_accesses, known_before, sent)
    /\ SumsOf(lds_accesses, sent)
    /\ banks = NoAccess

\* With no messages, empty tables and any names are right.
LEMMA Empty ==
    ASSUME NEW names
    PROVE  /\ << >> \in Seq(Handled) /\ WellFormedIn(<< >>)
           /\ GlobalOf(EmptyMap, << >>) /\ NamesOf(names, names, << >>)
           /\ LdsOf(EmptyMap, names, << >>) /\ SumsOf(EmptyMap, << >>)
<1>1. << >> \in Seq(Handled) /\ Len(<< >>) = 0 /\ 1..0 = {} /\ DOMAIN EmptyMap = {}
  BY DEF EmptyMap
<1>2. CountedIn(<< >>) = {} /\ LdsIn(<< >>) = {} /\ \A p, z : MineIn(<< >>, p, z) = {}
  BY <1>1, Zenon DEF CountedIn, LdsIn, MineIn
<1>3. \A h : NamedIn(<< >>, h, 0) = {}
  BY <1>1, Zenon DEF NamedIn
<1>4. GlobalOf(EmptyMap, << >>)
  BY <1>1, <1>2 DEF GlobalOf
<1>5. NamesOf(names, names, << >>)
  BY <1>1, <1>3 DEF NamesOf, NameIn
<1>6. LdsOf(EmptyMap, names, << >>)
  BY <1>1, <1>2 DEF LdsOf
<1>7. SumsOf(EmptyMap, << >>)
  <2>1. IsFiniteSet({}) /\ Cardinality({}) = 0
    BY FS_EmptySet
  <2>2. \A p, z : KeysOf(EmptyMap, p, z) = {}
    BY <1>1 DEF KeysOf
  <2>3. ASSUME NEW f, DOMAIN f = {} PROVE SumFunction(f) = 0
    BY <2>3, SumEmpty DEF SumFunction
  <2>4. ASSUME NEW p, NEW z
        PROVE  /\ SumFunction([k \in KeysOf(EmptyMap, p, z) |-> EmptyMap[k].conflicts]) = 0
               /\ SumFunction([k \in KeysOf(EmptyMap, p, z) |-> EmptyMap[k].no_accesses]) = 0
               /\ SumFunction([i \in MineIn(<< >>, p, z) |-> ExtraRounds(<< >>[i].at, z)]) = 0
               /\ Cardinality(MineIn(<< >>, p, z)) = 0
    <3> DEFINE f == [k \in KeysOf(EmptyMap, p, z) |-> EmptyMap[k].conflicts]
               g == [k \in KeysOf(EmptyMap, p, z) |-> EmptyMap[k].no_accesses]
               h == [i \in MineIn(<< >>, p, z) |-> ExtraRounds(<< >>[i].at, z)]
    <3>1. DOMAIN f = {} /\ DOMAIN g = {} /\ DOMAIN h = {}
      BY <1>2, <2>2
    <3>2. Cardinality(MineIn(<< >>, p, z)) = 0
      BY <1>2, <2>1, Zenon
    <3> HIDE DEF f, g, h
    <3>3. SumFunction(f) = 0 /\ SumFunction(g) = 0 /\ SumFunction(h) = 0
      BY <2>3, <3>1
    <3> QED BY <3>2, <3>3 DEF f, g, h
  <2>5. IsFiniteSet(DOMAIN EmptyMap)
    BY <1>1, <2>1
  <2> QED BY <2>4, <2>5 DEF SumsOf
<1>8. WellFormedIn(<< >>)
  BY <1>1 DEF WellFormedIn
<1> QED BY <1>1, <1>4, <1>5, <1>6, <1>7, <1>8

\* A message that is handled is well-formed.
LEMMA MessageWell ==
    ASSUME NEW mspace \in DOMAIN Inputs, NEW m \in Message(Inputs[mspace]),
           NEW at \in [m.lanes -> Inputs[mspace].addresses],
           mspace = "shared" => \A l \in m.lanes : at[l] % m.size = 0
    PROVE  WellFormed([m |-> m, at |-> at, mspace |-> mspace])
<1> DEFINE in == Inputs[mspace]
           x == [m |-> m, at |-> at, mspace |-> mspace]
<1>1. /\ mspace \in {"global", "shared", "flat"}
      /\ \A L \in in.masks : L \subseteq 0..63 /\ L # {}
      /\ in.addresses \subseteq Nat /\ in.sizes \subseteq Nat \ {0} /\ in.positions \subseteq Positions
  BY MemoryAssumption
<1>2. PICK L \in in.masks, z \in in.sizes, p \in in.positions : m = [lanes |-> L, size |-> z, pos |-> p]
  BY DEF Message
<1>3. m \in [lanes : SUBSET (0..63), size : Nat \ {0}, pos : Positions]
  <2>1. L \in SUBSET (0..63) /\ z \in Nat \ {0} /\ p \in Positions
    BY <1>1
  <2> QED BY <1>2, <2>1
<1>4. at \in [m.lanes -> Nat]
  BY <1>1
<1>5. at \in UNION {[S -> Nat] : S \in SUBSET (0..63)}
  <2>1. m.lanes \in SUBSET (0..63)
    BY <1>3
  <2> QED BY <1>4, <2>1
<1>6. x.m = m /\ x.at = at /\ x.mspace = mspace
  OBVIOUS
<1>7. x \in Handled
  BY <1>1, <1>3, <1>5 DEF Handled
<1> HIDE DEF x
<1>8. WellFormed(x)
  BY <1>4, <1>6, <1>7 DEF WellFormed
<1> QED BY <1>8 DEF x

\* The messages so far and one more.
LEMMA WellAppend ==
    ASSUME NEW s, NEW x, NEW t, Next1(s, x, t), WellFormedIn(s)
    PROVE  t \in Seq(Handled) /\ WellFormedIn(t)
<1>1. /\ t \in Seq(Handled) /\ t[Len(s) + 1] = x
      /\ \A i \in 1..Len(s) : t[i] = s[i]
      /\ 1..Len(t) = 1..Len(s) \cup {Len(s) + 1}
  BY AppendFacts
<1>2. ASSUME NEW i \in 1..Len(t) PROVE WellFormed(t[i])
  <2>1. CASE i \in 1..Len(s)
    BY <1>1, <2>1 DEF WellFormedIn
  <2>2. CASE i = Len(s) + 1
    BY <1>1, <2>2 DEF Next1
  <2> QED BY <1>1, <2>1, <2>2
<1> QED BY <1>1, <1>2 DEF WellFormedIn

\* A well-formed message joins the others.
LEMMA SentStep ==
    ASSUME SentInv, NEW x, WellFormed(x), sent' = Append(sent, x)
    PROVE  SentInv' /\ Next1(sent, x, sent')
<1>1. Next1(sent, x, sent') /\ WellFormedIn(sent)
  BY DEF SentInv, Next1
<1>2. sent' \in Seq(Handled) /\ WellFormedIn(sent')
  BY <1>1, WellAppend
<1> QED BY <1>1, <1>2 DEF SentInv

\* What a message x does to the state, by its address space.
Recorded(x) == /\ AnalysisInv /\ WellFormed(x) /\ sent' = Append(sent, x)
               /\ known_before' = known_before

\* handle_cache_line_count_analysis drops exactly the messages that do not count.
LEMMA GlobalPreserves ==
    ASSUME NEW m, NEW at, NEW x, x = [m |-> m, at |-> at, mspace |-> "global"], Recorded(x),
           handle_cache_line_count_analysis(m, at)
    PROVE  AnalysisInv'
<1> DEFINE dropped == \/ isa[m.pos].access_size = Combined
                      \/ DataSize(m) # m.size /\ UsedBy(x) = NeededBy(x) + 1
           old == At(global_accesses, GlobalKey(x), [no_accesses |-> 0, needed |-> 0, used |-> 0])
           new == [no_accesses |-> old.no_accesses + 1, needed |-> old.needed + NeededBy(x),
                   used |-> old.used + UsedBy(x)]
<1>1. x.m = m /\ x.at = at /\ x.mspace = "global"
  OBVIOUS
<1>2. /\ GlobalKey(x) = [fname |-> isa[m.pos].fname, pos |-> m.pos, ir |-> m.size,
                         isa |-> isa[m.pos].access_size]
      /\ NeededBy(x) = (Cardinality(m.lanes) * DataSize(m) + cacheLine - 1) \div cacheLine
      /\ UsedBy(x) = Cardinality(CacheLines(at, DataSize(m)))
  BY <1>1 DEF GlobalKey, NeededBy, UsedBy
<1>3. /\ global_accesses' = IF dropped THEN global_accesses ELSE Put(global_accesses, GlobalKey(x), new)
      /\ fname_hash_to_fname' = Learnt(m, dropped)
      /\ lds_accesses' = lds_accesses /\ banks' = banks
  BY <1>2 DEF handle_cache_line_count_analysis
<1>4. dropped <=> ~Counts(x)
  <2>1. NeededBy(x) \in Nat /\ UsedBy(x) \in Nat /\ Excess(x) = UsedBy(x) - NeededBy(x)
    BY ExcessFacts DEF Recorded
  <2>2. UsedBy(x) = NeededBy(x) + 1 <=> Excess(x) = 1
    BY <2>1
  <2> QED BY <1>1, <2>2 DEF Counts
<1> HIDE DEF dropped
<1>5. SentInv' /\ Next1(sent, x, sent')
  BY SentStep DEF Recorded, AnalysisInv
<1>6. GlobalOf(global_accesses, sent)' /\ NamesOf(fname_hash_to_fname, known_before, sent)'
  <2>1. GlobalOf(global_accesses, sent) /\ NamesOf(fname_hash_to_fname, known_before, sent)
        /\ known_before' = known_before
    BY DEF Recorded, AnalysisInv
  <2>2. CASE Counts(x)
    <3>1. /\ global_accesses' = Put(global_accesses, GlobalKey(x), new)
          /\ fname_hash_to_fname' = Put(fname_hash_to_fname, fname_hash[x.m.pos], isa[x.m.pos].fname)
      BY <1>1, <1>3, <1>4, <2>2 DEF Learnt
    <3>2. GlobalOf(Put(global_accesses, GlobalKey(x), new), sent')
      BY <1>5, <2>1, <2>2, GlobalStep
    <3>3. NamesOf(Put(fname_hash_to_fname, fname_hash[x.m.pos], isa[x.m.pos].fname), known_before, sent')
      BY <1>5, <2>1, <2>2, NamesStep
    <3> HIDE DEF new
    <3> QED BY <2>1, <3>1, <3>2, <3>3
  <2>3. CASE ~Counts(x)
    <3>1. global_accesses' = global_accesses /\ fname_hash_to_fname' = fname_hash_to_fname
      BY <1>3, <1>4, <2>3 DEF Learnt
    <3>2. GlobalOf(global_accesses, sent')
      BY <1>5, <2>1, <2>3, GlobalKept
    <3>3. NamesOf(fname_hash_to_fname, known_before, sent')
      BY <1>5, <2>1, <2>3, NamesKept
    <3> QED BY <2>1, <3>1, <3>2, <3>3
  <2> QED BY <2>2, <2>3
<1>7. LdsOf(lds_accesses, known_before, sent)' /\ SumsOf(lds_accesses, sent)'
  <2>1. LdsOf(lds_accesses, known_before, sent) /\ SumsOf(lds_accesses, sent)
        /\ known_before' = known_before
    BY DEF Recorded, AnalysisInv
  <2>2. LdsOf(lds_accesses, known_before, sent') /\ SumsOf(lds_accesses, sent')
    BY <1>1, <1>5, <2>1, LdsKept, SumsKept
  <2> QED BY <1>3, <2>1, <2>2
<1>8. banks' = NoAccess
  BY <1>3 DEF Recorded, AnalysisInv
<1> QED BY <1>5, <1>6, <1>7, <1>8 DEF AnalysisInv

\* Between messages nothing is registered: the conflicts counted are those of
\* the message alone, and it leaves nothing behind.
LEMMA RegisteredAlone ==
    ASSUME banks = NoAccess, NEW z \in DOMAIN conflict_sets, NEW at, NEW r
    PROVE  /\ SumFunction([i \in DOMAIN Registered(banks[z], z, at) |->
                              bank_conflict_count(Registered(banks[z], z, at)[i])]) = ConflictsOf(at, z)
           /\ Cleared(z, r) = NoAccess
<1>1. NoAccess[z] = [i \in DOMAIN conflict_sets[z] |-> {}]
  BY DEF NoAccess
<1>2. Registered(banks[z], z, at) =
         [i \in DOMAIN conflict_sets[z] |-> {at[l] \div 4 : l \in DOMAIN at \cap conflict_sets[z][i]}]
  BY <1>1 DEF Registered
<1>3. [i \in DOMAIN Registered(banks[z], z, at) |-> bank_conflict_count(Registered(banks[z], z, at)[i])]
      = [i \in DOMAIN conflict_sets[z] |->
            bank_conflict_count({at[l] \div 4 : l \in DOMAIN at \cap conflict_sets[z][i]})]
  BY <1>2
<1>4. Cleared(z, r) = NoAccess
  BY <1>1 DEF Cleared, NoAccess
<1> QED BY <1>3, <1>4 DEF ConflictsOf

\* A message that is not global does not count.
LEMMA OnlyGlobalCounts == ASSUME NEW x, x.mspace # "global" PROVE ~Counts(x)
BY DEF Counts

\* handle_bank_conflict_analysis files the rounds of the message.
LEMMA SharedPreserves ==
    ASSUME NEW m, NEW at, NEW x, x = [m |-> m, at |-> at, mspace |-> "shared"], Recorded(x),
           handle_bank_conflict_analysis(m, at)
    PROVE  AnalysisInv'
<1> DEFINE h == fname_hash[m.pos]
           fname == At(fname_hash_to_fname, h, "")
           key == [fname |-> fname, pos |-> m.pos, ir |-> m.size]
           old == At(lds_accesses, key, [no_accesses |-> 0, conflicts |-> 0])
           new == [no_accesses |-> old.no_accesses + 1,
                   conflicts |-> old.conflicts + ExtraRounds(x.at, x.m.size)]
<1>1. x.m = m /\ x.at = at /\ x.mspace = "shared" /\ ~Counts(x)
  BY OnlyGlobalCounts
<1>2. SentInv' /\ Next1(sent, x, sent')
  BY SentStep DEF Recorded, AnalysisInv
<1>3. /\ SentInv /\ GlobalOf(global_accesses, sent)
      /\ NamesOf(fname_hash_to_fname, known_before, sent)
      /\ LdsOf(lds_accesses, known_before, sent) /\ SumsOf(lds_accesses, sent)
      /\ banks = NoAccess /\ known_before' = known_before /\ WellFormed(x)
  BY DEF Recorded, AnalysisInv
<1>4. global_accesses' = global_accesses
  BY DEF handle_bank_conflict_analysis
<1>5. GlobalOf(global_accesses, sent)'
  <2>1. GlobalOf(global_accesses, sent')
    BY <1>1, <1>2, <1>3, GlobalKept
  <2> QED BY <1>4, <2>1
<1>6. NamesOf(fname_hash_to_fname, known_before, sent')
  BY <1>1, <1>2, <1>3, NamesKept
<1>7. CASE m.size \in DOMAIN conflict_sets
  <2>1. ConflictsOf(at, m.size) = ExtraRounds(x.at, x.m.size) /\ ExtraRounds(x.at, x.m.size) \in Nat
    BY <1>1, <1>3, <1>7, RoundsType
  <2>2. /\ banks' = NoAccess
        /\ lds_accesses' = Put(lds_accesses, key, new)
        /\ fname_hash_to_fname' = Put(fname_hash_to_fname, h, fname)
    <3> DEFINE r == Registered(banks[m.size], m.size, at)
    <3>1. SumFunction([i \in DOMAIN r |-> bank_conflict_count(r[i])]) = ExtraRounds(x.at, x.m.size)
      BY <1>3, <1>7, <2>1, RegisteredAlone
    <3>2. Cleared(m.size, r) = NoAccess
      BY <1>3, <1>7, RegisteredAlone
    <3> QED BY <1>7, <3>1, <3>2 DEF handle_bank_conflict_analysis
  <2>3. h \in Hashes
    BY <1>1, <1>3 DEF WellFormed, Handled, Hashes
  <2>4. fname = NameIn(sent, known_before, h, Len(sent))
    BY <1>3, <2>3 DEF NamesOf
  <2>5. key = KeyIn(sent', known_before, Len(sent) + 1)
    <3>1. LdsAfter(sent, x, sent', known_before)
      BY <1>2, LdsAppend
    <3> QED BY <1>1, <2>4, <3>1 DEF LdsAfter
  <2>6. LdsOf(Put(lds_accesses, key, new), known_before, sent')
    <3> HIDE DEF key
    <3> QED BY <1>1, <1>2, <1>3, <1>7, <2>1, <2>5, LdsStep
  <2>7. SumsOf(Put(lds_accesses, key, new), sent')
    <3>1. key.pos = x.m.pos /\ key.ir = x.m.size
      BY <1>1
    <3>2. Counters(lds_accesses)
      BY <1>3, LdsCounters DEF SentInv
    <3>3. \A i \in 1..Len(sent) : WellFormed(sent[i])
      BY <1>3 DEF SentInv, WellFormedIn
    <3> HIDE DEF key
    <3> QED BY <1>1, <1>2, <1>3, <1>7, <3>1, <3>2, <3>3, SumsStep
  <2>8. NamesOf(Put(fname_hash_to_fname, h, fname), known_before, sent')
    <3>1. \A g : At(Put(fname_hash_to_fname, h, fname), g, "") = At(fname_hash_to_fname, g, "")
      BY LookUpKeepsNames
    <3> QED BY <1>6, <3>1 DEF NamesOf
  <2> HIDE DEF key, new, fname, h
  <2> QED BY <1>2, <1>3, <1>5, <2>2, <2>6, <2>7, <2>8 DEF AnalysisInv
<1>8. CASE m.size \notin DOMAIN conflict_sets
  <2>1. banks' = banks /\ lds_accesses' = lds_accesses /\ fname_hash_to_fname' = fname_hash_to_fname
    BY <1>8 DEF handle_bank_conflict_analysis
  <2>2. LdsOf(lds_accesses, known_before, sent') /\ SumsOf(lds_accesses, sent')
    BY <1>1, <1>2, <1>3, <1>8, LdsKept, SumsKept
  <2> QED BY <1>2, <1>3, <1>5, <1>6, <2>1, <2>2 DEF AnalysisInv
<1> QED BY <1>7, <1>8

\* A skipped address space, and a size without conflict sets, leave the tables.
LEMMA FlatPreserves ==
    ASSUME NEW x, x.mspace = "flat", Recorded(x),
           UNCHANGED <<global_accesses, lds_accesses, fname_hash_to_fname, banks>>
    PROVE  AnalysisInv'
<1>1. /\ GlobalOf(global_accesses, sent) /\ NamesOf(fname_hash_to_fname, known_before, sent)
      /\ LdsOf(lds_accesses, known_before, sent) /\ SumsOf(lds_accesses, sent)
      /\ banks = NoAccess /\ known_before' = known_before
  BY DEF Recorded, AnalysisInv
<1>2. SentInv' /\ Next1(sent, x, sent')
  BY SentStep DEF Recorded, AnalysisInv
<1>3. ~Counts(x)
  BY OnlyGlobalCounts
<1>4. /\ GlobalOf(global_accesses, sent') /\ NamesOf(fname_hash_to_fname, known_before, sent')
      /\ LdsOf(lds_accesses, known_before, sent') /\ SumsOf(lds_accesses, sent')
  BY <1>1, <1>2, <1>3, GlobalKept, NamesKept, LdsKept, SumsKept
<1> QED BY <1>1, <1>2, <1>4 DEF AnalysisInv

\* The constructor leaves empty tables and knows no name.
LEMMA InitEstablishes == Init => AnalysisInv
BY Empty DEF Init, AnalysisInv, SentInv

\* clear forgets the messages and the counters, and keeps the names.
LEMMA ClearPreserves == AnalysisInv /\ clear => AnalysisInv'
<1> SUFFICES ASSUME AnalysisInv, clear PROVE AnalysisInv'
  OBVIOUS
<1>1. /\ global_accesses' = EmptyMap /\ lds_accesses' = EmptyMap /\ sent' = << >>
      /\ known_before' = fname_hash_to_fname /\ fname_hash_to_fname' = fname_hash_to_fname
      /\ banks' = NoAccess
  BY DEF clear, AnalysisInv
<1>2. /\ << >> \in Seq(Handled) /\ WellFormedIn(<< >>) /\ GlobalOf(EmptyMap, << >>)
      /\ NamesOf(fname_hash_to_fname, fname_hash_to_fname, << >>)
      /\ LdsOf(EmptyMap, fname_hash_to_fname, << >>) /\ SumsOf(EmptyMap, << >>)
  BY Empty
<1> QED BY <1>1, <1>2 DEF AnalysisInv, SentInv

\* The inductive step: handle for a message in any memory, and clear, keep every
\* part of the invariant.
THEOREM AnalysisInductive == AnalysisInv /\ [Next]_vars => AnalysisInv'
<1> SUFFICES ASSUME AnalysisInv, [Next]_vars PROVE AnalysisInv'
  OBVIOUS
<1>1. ASSUME NEW mspace \in DOMAIN Inputs, NEW m \in Message(Inputs[mspace]),
             NEW at \in [m.lanes -> Inputs[mspace].addresses], handle(m, at, mspace)
      PROVE  AnalysisInv'
  <2> DEFINE x == [m |-> m, at |-> at, mspace |-> mspace]
  <2>1. mspace = "shared" => \A l \in m.lanes : at[l] % m.size = 0
    BY <1>1 DEF handle
  <2>2. WellFormed(x)
    BY <2>1, MessageWell
  <2>3. sent' = Append(sent, x) /\ known_before' = known_before
    BY <1>1 DEF handle
  <2>4. Recorded(x) /\ x.mspace = mspace
    BY <2>2, <2>3 DEF Recorded
  <2>5. CASE mspace = "global" /\ handle_cache_line_count_analysis(m, at)
    BY <2>4, <2>5, GlobalPreserves
  <2>6. CASE mspace = "shared" /\ handle_bank_conflict_analysis(m, at)
    BY <2>4, <2>6, SharedPreserves
  <2>7. CASE mspace = "flat" /\ UNCHANGED <<global_accesses, lds_accesses, fname_hash_to_fname, banks>>
    <3> HIDE DEF x
    <3> QED BY <2>4, <2>7, FlatPreserves
  <2> QED BY <1>1, <2>5, <2>6, <2>7 DEF handle
<1>2. CASE clear
  BY <1>2, ClearPreserves
<1>3. CASE UNCHANGED vars
  <2>1. /\ global_accesses' = global_accesses /\ lds_accesses' = lds_accesses
        /\ fname_hash_to_fname' = fname_hash_to_fname /\ banks' = banks
        /\ sent' = sent /\ known_before' = known_before
    BY <1>3 DEF vars
  <2> QED BY <2>1 DEF AnalysisInv, SentInv
<1> QED BY <1>1, <1>2, <1>3 DEF Next

-----------------------------------------------------------------------------
(* Theorems.                                                               *)

\* After any messages, of any masks, addresses and sizes, and any clears, the
\* tables of memory_analysis_handler_t are what the messages since the last
\* clear make of them, and conflict_set keeps no dword between messages.
THEOREM AnalysisInvariance == Spec => []AnalysisInv
<1>1. Init => AnalysisInv
  BY InitEstablishes
<1>2. AnalysisInv /\ [Next]_vars => AnalysisInv'
  BY AnalysisInductive
<1> QED BY <1>1, <1>2, PTL DEF Spec

\* The bank conflicts counted by handle_bank_conflict_analysis from the first
\* dword of each access are the fewest rounds beyond one per phase in which
\* the LDS can serve the lanes, summed over all messages of a position and
\* size, whatever file name each was filed under.
THEOREM ConflictsExact == Spec => []BankConflictsExact
<1>1. AnalysisInv => BankConflictsExact
  BY DEF AnalysisInv, SumsOf, KeysOf, MineIn, BankConflictsExact
<1> QED BY <1>1, AnalysisInvariance, PTL

\* If lanes access disjoint bytes, report_cache_line_use lists a position and
\* size exactly if one of the messages counted for it used more lines than it
\* needed: no message ever uses fewer, so none offsets another.
THEOREM ExcessAlwaysReported == Spec => []ExcessReported
<1>1. AnalysisInv => ExcessReported
  <2> SUFFICES ASSUME AnalysisInv, \A i \in CountedIn(sent) : Disjoint(sent[i])
               PROVE  {<<k.pos, k.ir>> : k \in report_cache_line_use} =
                      {<<sent[i].m.pos, sent[i].m.size>> :
                          i \in {j \in CountedIn(sent) : Excess(sent[j]) > 0}}
    <3>1. {i \in 1..Len(sent) : sent[i].mspace = "global" /\ Counts(sent[i])} = CountedIn(sent)
      BY DEF CountedIn, Counts
    <3> QED BY <3>1 DEF ExcessReported
  <2>1. /\ DOMAIN global_accesses = {GlobalKey(sent[i]) : i \in CountedIn(sent)}
        /\ \A k \in DOMAIN global_accesses :
              global_accesses[k].needed # global_accesses[k].used <=>
                 \E i \in CountedIn(sent) : GlobalKey(sent[i]) = k /\ Excess(sent[i]) > 0
    BY DEF AnalysisInv, GlobalOf
  <2>2. report_cache_line_use = {GlobalKey(sent[i]) : i \in {j \in CountedIn(sent) : Excess(sent[j]) > 0}}
    BY <2>1 DEF report_cache_line_use
  <2>3. \A i \in CountedIn(sent) : GlobalKey(sent[i]).pos = sent[i].m.pos
                                   /\ GlobalKey(sent[i]).ir = sent[i].m.size
    BY DEF GlobalKey
  <2> QED BY <2>2, <2>3
<1> QED BY <1>1, AnalysisInvariance, PTL

\* Every LDS message of a known size has exactly one entry, under the name that
\* the last global message of its file was resolved to before it, across
\* dropped messages, look-ups and clears; the report lists those with a
\* conflict.
THEOREM LdsFiled == Spec => []LdsFiledByLastName
<1>1. AnalysisInv => LdsFiledByLastName
  <2> SUFFICES ASSUME AnalysisInv PROVE LdsFiledByLastName
    OBVIOUS
  <2> DEFINE Key(i) == [fname |-> NameFor(i), pos |-> sent[i].m.pos, ir |-> sent[i].m.size]
             lds == {i \in 1..Len(sent) : sent[i].mspace = "shared"
                                           /\ sent[i].m.size \in DOMAIN conflict_sets}
  <2>1. lds = LdsIn(sent)
    BY DEF LdsIn
  <2>2. \A i : NameFor(i) = NameIn(sent, known_before, fname_hash[sent[i].m.pos], i - 1)
    BY DEF NameFor, NameIn, NamedIn
  <2>3. \A i : Key(i) = KeyIn(sent, known_before, i)
    BY <2>2 DEF KeyIn
  <2>4. /\ DOMAIN lds_accesses = {KeyIn(sent, known_before, i) : i \in LdsIn(sent)}
        /\ \A k \in DOMAIN lds_accesses :
              /\ lds_accesses[k].no_accesses =
                    Cardinality({i \in LdsIn(sent) : KeyIn(sent, known_before, i) = k})
              /\ lds_accesses[k].conflicts # 0 <=>
                    \E i \in LdsIn(sent) : KeyIn(sent, known_before, i) = k
                                           /\ ExtraRounds(sent[i].at, sent[i].m.size) > 0
    BY DEF AnalysisInv, LdsOf
  <2> HIDE DEF Key, lds
  <2>5. DOMAIN lds_accesses = {Key(i) : i \in lds}
    BY <2>1, <2>3, <2>4
  <2>6. \A k \in DOMAIN lds_accesses :
           lds_accesses[k].no_accesses = Cardinality({i \in lds : Key(i) = k})
    BY <2>1, <2>3, <2>4
  <2>7. report_bank_conflicts =
           {Key(i) : i \in {j \in lds : ExtraRounds(sent[j].at, sent[j].m.size) > 0}}
    BY <2>1, <2>3, <2>4 DEF report_bank_conflicts
  <2> USE DEF Key, lds
  <2> QED BY <2>5, <2>6, <2>7, Zenon DEF LdsFiledByLastName
<1> QED BY <1>1, AnalysisInvariance, PTL
=============================================================================
