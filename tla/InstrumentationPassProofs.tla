---------------------- MODULE InstrumentationPassProofs ----------------------
(***************************************************************************)
(* Proofs about InstrumentationPass: for any module to compile, any scope  *)
(* and each of the passes, clones are faithful and report what they should.*)
(***************************************************************************)
EXTENDS InstrumentationPass, Induction

-----------------------------------------------------------------------------
(* Inserting into a block.                                                 *)

\* What InsertAt returns.
LEMMA InsertFacts ==
    ASSUME NEW S, NEW s \in Seq(S), NEW k \in 1..(Len(s) + 1), NEW e \in S
    PROVE  /\ InsertAt(s, k, e) \in Seq(S)
           /\ Len(InsertAt(s, k, e)) = Len(s) + 1
           /\ \A n \in 1..(Len(s) + 1) :
                 InsertAt(s, k, e)[n] = IF n < k THEN s[n] ELSE IF n = k THEN e ELSE s[n - 1]
<1> DEFINE front == SubSeq(s, 1, k - 1)
           back == SubSeq(s, k, Len(s))
<1>1. front \in Seq(S) /\ Len(front) = k - 1 /\ \A n \in 1..(k - 1) : front[n] = s[n]
  OBVIOUS
<1>2. back \in Seq(S) /\ Len(back) = Len(s) - k + 1
      /\ \A n \in 1..(Len(s) - k + 1) : back[n] = s[k + n - 1]
  OBVIOUS
<1>3. InsertAt(s, k, e) = front \o <<e>> \o back
  BY DEF InsertAt
<1> HIDE DEF front, back
<1>4. front \o <<e>> \in Seq(S) /\ Len(front \o <<e>>) = k
      /\ \A n \in 1..k : (front \o <<e>>)[n] = IF n < k THEN s[n] ELSE e
  BY <1>1
<1> DEFINE opened == front \o <<e>>
<1> HIDE DEF opened
<1>5. opened \o back \in Seq(S) /\ Len(opened \o back) = Len(s) + 1
  BY <1>2, <1>4 DEF opened
<1>6. ASSUME NEW n \in 1..(Len(s) + 1)
      PROVE  (opened \o back)[n] = IF n < k THEN s[n] ELSE IF n = k THEN e ELSE s[n - 1]
  <2>1. CASE n <= k
    <3>1. (opened \o back)[n] = opened[n]
      BY <1>2, <1>4, <2>1 DEF opened
    <3> QED BY <1>4, <2>1, <3>1 DEF opened
  <2>2. CASE n > k
    <3>1. (opened \o back)[n] = back[n - k]
      BY <1>2, <1>4, <2>2 DEF opened
    <3>2. n - k \in 1..(Len(s) - k + 1) /\ k + (n - k) - 1 = n - 1
      BY <2>2
    <3> QED BY <1>2, <2>2, <3>1, <3>2
  <2>3. n <= k \/ n > k
    OBVIOUS
  <2> QED BY <2>1, <2>2, <2>3, Zenon
<1> QED BY <1>3, <1>5, <1>6 DEF opened

\* new is s, a sequence over S, with e at position k.
Inserted(new, S, s, k, e) ==
    /\ new \in Seq(S) /\ Len(new) = Len(s) + 1
    /\ \A n \in 1..(Len(s) + 1) :
          new[n] = IF n < k THEN s[n] ELSE IF n = k THEN e ELSE s[n - 1]

\* What InsertAt returns, in one word.
LEMMA InsertInserts ==
    ASSUME NEW S, NEW s \in Seq(S), NEW k \in 1..(Len(s) + 1), NEW e \in S
    PROVE  Inserted(InsertAt(s, k, e), S, s, k, e)
  BY InsertFacts DEF Inserted

\* The positions A after an insertion at k.
Shifted(A, k) == {IF m < k THEN m ELSE m + 1 : m \in A}

\* An insertion shifts positions and loses none.
LEMMA ShiftedSize ==
    ASSUME NEW A \in SUBSET Nat, IsFiniteSet(A), NEW k \in Nat
    PROVE  Cardinality(Shifted(A, k)) = Cardinality(A)
<1> DEFINE g == [m \in A |-> IF m < k THEN m ELSE m + 1]
<1>1. g \in [A -> Shifted(A, k)]
  BY DEF Shifted
<1>2. \A x, y \in A : g[x] = g[y] => x = y
  OBVIOUS
<1>3. \A y \in Shifted(A, k) : \E x \in A : g[x] = y
  BY DEF Shifted
<1>4. g \in Bijection(A, Shifted(A, k))
  BY <1>1, <1>2, <1>3 DEF Bijection, Injection, Surjection, IsInjective
<1>5. ExistsBijection(A, Shifted(A, k))
  BY <1>4 DEF ExistsBijection
<1> QED BY <1>5, FS_Bijection

\* An inserted call leaves the code of the block as it was.
LEMMA InsertKeepsCode ==
    ASSUME NEW S, NEW block \in Seq(S), NEW k \in 1..(Len(block) + 1),
           NEW e \in S, e.op = "submit", NEW orig, SameCode(block, orig)
    PROVE  SameCode(InsertAt(block, k, e), orig)
<1> DEFINE new == InsertAt(block, k, e)
           own == {n \in 1..Len(block) : block[n].op # "submit"}
           own2 == {n \in 1..Len(new) : new[n].op # "submit"}
<1>1. /\ Len(new) = Len(block) + 1 /\ Len(block) \in Nat
      /\ \A n \in 1..(Len(block) + 1) :
            new[n] = IF n < k THEN block[n] ELSE IF n = k THEN e ELSE block[n - 1]
  BY InsertFacts
<1> HIDE DEF new
<1>2. \A n \in own : (IF n < k THEN n ELSE n + 1) \in own2
                     /\ new[IF n < k THEN n ELSE n + 1] = block[n]
  BY <1>1
<1>3. \A n2 \in own2 : \E n \in own : n2 = IF n < k THEN n ELSE n + 1
  <2> SUFFICES ASSUME NEW n2 \in own2 PROVE \E n \in own : n2 = IF n < k THEN n ELSE n + 1
    OBVIOUS
  <2>1. CASE n2 < k
    BY <1>1, <2>1
  <2>2. CASE n2 > k
    <3>1. n2 - 1 \in own
      BY <1>1, <2>2
    <3> QED BY <2>2, <3>1
  <2>3. n2 # k
    BY <1>1
  <2> QED BY <1>1, <2>1, <2>2, <2>3
<1>4. IsFiniteSet(own) /\ own \in SUBSET Nat
  <2>1. IsFiniteSet(1..Len(block))
    BY <1>1, FS_Interval
  <2> QED BY <2>1, FS_Subset
<1>5. own2 = Shifted(own, k)
  BY <1>2, <1>3 DEF Shifted
<1>6. Cardinality(own2) = Len(orig)
  <2>1. Cardinality(own) = Len(orig)
    BY DEF SameCode
  <2> HIDE DEF own, own2
  <2> QED BY <1>4, <1>5, <2>1, ShiftedSize
<1>7. ASSUME NEW n2 \in own2
      PROVE  new[n2] = orig[Cardinality({m \in own2 : m <= n2})]
  <2>1. PICK n \in own : n2 = IF n < k THEN n ELSE n + 1
    BY <1>3
  <2> DEFINE A == {m \in own : m <= n}
             B == {m \in own2 : m <= n2}
  <2>2. block[n] = orig[Cardinality(A)]
    BY DEF SameCode
  <2>3. new[n2] = block[n]
    BY <1>2, <2>1
  <2>4. B = Shifted(A, k)
    <3> HIDE DEF own, own2
    <3>1. \A m \in own : m <= n <=> (IF m < k THEN m ELSE m + 1) <= n2
      BY <1>4, <2>1
    <3>2. \A x \in B : x \in Shifted(A, k)
      BY <1>5, <3>1 DEF Shifted
    <3>3. \A x \in Shifted(A, k) : x \in B
      BY <1>5, <3>1 DEF Shifted
    <3> QED BY <3>2, <3>3
  <2>5. IsFiniteSet(A) /\ A \in SUBSET Nat
    <3> HIDE DEF own
    <3> QED BY <1>4, FS_Subset
  <2> HIDE DEF A, B, own, own2
  <2>6. Cardinality(B) = Cardinality(A)
    BY <2>4, <2>5, ShiftedSize
  <2> QED BY <2>2, <2>3, <2>6 DEF B
<1> QED BY <1>6, <1>7 DEF SameCode, new

LEMMA IntervalSize == ASSUME NEW n \in Nat PROVE Cardinality(1..n) = n
  BY FS_Interval

\* A block nothing was inserted into has its own code.
LEMMA SameAsItself ==
    ASSUME NEW block \in Seq(Instruction)
    PROVE  SameCode(block, block)
<1> DEFINE own == {n \in 1..Len(block) : block[n].op # "submit"}
<1>1. Len(block) \in Nat /\ \A n \in 1..Len(block) : block[n] \in Instruction
  OBVIOUS
<1>2. own = 1..Len(block)
  BY <1>1, PassAssumption DEF PassAssumption
<1>3. Cardinality(own) = Len(block)
  BY <1>1, <1>2, IntervalSize
<1>4. ASSUME NEW n \in own PROVE Cardinality({m \in own : m <= n}) = n
  <2>1. {m \in own : m <= n} = 1..n /\ n \in Nat
    BY <1>1, <1>2
  <2> QED BY <2>1, IntervalSize
<1> QED BY <1>3, <1>4 DEF SameCode

-----------------------------------------------------------------------------
(* What the two passes on blocks make of a block.                          *)

\* A call is one of the instructions a pass may insert.
LEMMA CallFacts ==
    ASSUME NEW f \in Callee, NEW target \in Instruction, NEW n \in Nat
    PROVE  /\ Call(f, target, n) \in Submission /\ Call(f, target, n) \in Code
           /\ Call(f, target, n).op = "submit" /\ Call(f, target, n).callee = f
           /\ Call(f, target, n).of = target /\ Call(f, target, n).user = n
  BY DEF Call, Submission, Code

\* A reported access: the call goes before it, and what comes after is as it was.
LEMMA AccessReported ==
    ASSUME NEW in, NEW x \in Seq(Code), NEW p \in 1..Len(x), NEW call \in Code,
           Reported(in, x, p - 1), \A n \in p..Len(x) : x[n] \in Instruction,
           call.op = "submit", call.of = x[p], x[p].op # "submit",
           x[p].op \in MemoryOps, Wanted(in, x[p].loc)
    PROVE  /\ InsertAt(x, p, call) \in Seq(Code)
           /\ Len(InsertAt(x, p, call)) = Len(x) + 1
           /\ \A n \in (p + 2)..(Len(x) + 1) : InsertAt(x, p, call)[n] \in Instruction
           /\ Reported(in, InsertAt(x, p, call), p + 1)
<1> DEFINE new == InsertAt(x, p, call)
<1>1. p \in 1..(Len(x) + 1) /\ p \in Nat /\ Len(x) \in Nat
  OBVIOUS
<1>2. /\ new \in Seq(Code) /\ Len(new) = Len(x) + 1
      /\ \A n \in 1..(Len(x) + 1) :
            new[n] = IF n < p THEN x[n] ELSE IF n = p THEN call ELSE x[n - 1]
  <2>1. Inserted(new, Code, x, p, call)
    BY <1>1, InsertInserts, Zenon
  <2> QED BY <2>1 DEF Inserted
<1> HIDE DEF new
<1>3. \A n \in (p + 2)..(Len(x) + 1) : new[n] \in Instruction
  <2> SUFFICES ASSUME NEW n \in (p + 2)..(Len(x) + 1) PROVE new[n] \in Instruction
    OBVIOUS
  <2>1. new[n] = x[n - 1] /\ n - 1 \in p..Len(x)
    BY <1>1, <1>2
  <2> QED BY <2>1
<1>4. new[p] = call /\ new[p + 1] = x[p] /\ \A n \in 1..(p - 1) : new[n] = x[n]
  BY <1>1, <1>2
<1>5. Reported(in, new, p + 1)
  <2> SUFFICES ASSUME NEW n \in 1..(p + 1)
               PROVE  IF new[n].op = "submit"
                        THEN n < p + 1 /\ new[n].of = new[n + 1]
                             /\ new[n + 1].op \in MemoryOps /\ Wanted(in, new[n + 1].loc)
                        ELSE new[n].op \in MemoryOps /\ Wanted(in, new[n].loc)
                                => n > 1 /\ new[n - 1].op = "submit"
    BY DEF Reported
  <2>1. CASE n = p
    BY <1>1, <1>4, <2>1
  <2>2. CASE n = p + 1
    <3>1. n - 1 = p /\ n > 1
      BY <1>1, <2>2
    <3> QED BY <1>4, <2>2, <3>1
  <2>3. CASE n < p
    <3>1. n \in 1..(p - 1) /\ new[n] = x[n] /\ n < p + 1
      BY <1>1, <1>4, <2>3
    <3>2. IF x[n].op = "submit"
            THEN n < p - 1 /\ x[n].of = x[n + 1]
                 /\ x[n + 1].op \in MemoryOps /\ Wanted(in, x[n + 1].loc)
            ELSE x[n].op \in MemoryOps /\ Wanted(in, x[n].loc) => n > 1 /\ x[n - 1].op = "submit"
      BY <3>1 DEF Reported
    <3>3. /\ n < p - 1 => new[n + 1] = x[n + 1]
          /\ n > 1 => new[n - 1] = x[n - 1]
      BY <1>1, <1>4, <3>1
    <3> QED BY <3>1, <3>2, <3>3
  <2>4. n = p \/ n = p + 1 \/ n < p
    BY <1>1
  <2> QED BY <2>1, <2>2, <2>3, <2>4, Zenon
<1> QED BY <1>2, <1>3, <1>5 DEF new

\* The instructions of a block: phis, then others.
LEMMA PhisFirst ==
    ASSUME NEW block \in BasicBlock
    PROVE  LET f == FirstNonPhi(block)
           IN  /\ block \in Seq(Instruction) /\ Len(block) \in Nat /\ Len(block) > 0
               /\ f \in 1..Len(block)
               /\ \A n \in 1..Len(block) : block[n] \in Instruction
                                           /\ block[n].op # "submit"
                                           /\ (block[n].op = "phi" <=> n < f)
<1> DEFINE f == FirstNonPhi(block)
           I == {n \in 1..Len(block) : block[n].op # "phi"}
<1>1. /\ block \in Seq(Instruction) /\ Len(block) \in Nat /\ Len(block) > 0
      /\ block[Len(block)].op # "phi"
      /\ \A n \in 2..Len(block) : block[n].op = "phi" => block[n - 1].op = "phi"
  BY DEF BasicBlock
<1>2. I \in SUBSET Nat /\ I # {}
  BY <1>1
<1>3. f = Min(I)
  BY <1>2 DEF FirstNonPhi, SelectInSeq
<1>4. f \in I /\ \A m \in I : f <= m
  <2> HIDE DEF I, f
  <2>1. PICK n \in I : \A m \in I : n <= m
    BY <1>2, LeastElement
  <2> QED BY <1>3, <2>1 DEF Min
<1> HIDE DEF f
<1>5. ASSUME NEW n \in 1..Len(block), n >= f, block[n].op = "phi" PROVE FALSE
  <2> DEFINE P == {m \in 1..Len(block) : m >= f /\ block[m].op = "phi"}
  <2>1. P \in SUBSET Nat /\ P # {}
    BY <1>5
  <2>2. PICK m \in P : \A j \in P : m <= j
    <3> HIDE DEF P
    <3> QED BY <2>1, LeastElement
  <2>3. m # f /\ m > f /\ m \in 2..Len(block)
    BY <1>1, <1>4
  <2>4. block[m - 1].op = "phi" /\ m - 1 >= f /\ m - 1 \in 1..Len(block)
    BY <1>1, <1>4, <2>3
  <2> QED BY <2>2, <2>3, <2>4
<1>6. \A n \in 1..Len(block) : n < f => block[n].op = "phi"
  BY <1>1, <1>4
<1>7. \A n \in 1..Len(block) : block[n] \in Instruction /\ block[n].op # "submit"
  BY <1>1, PassAssumption DEF PassAssumption
<1>8. f \in 1..Len(block)
  BY <1>4
<1>9. \A n \in 1..Len(block) : block[n].op = "phi" <=> n < f
  <2>1. \A n \in 1..Len(block) : n < f \/ n >= f
    BY <1>1, <1>8
  <2> QED BY <1>5, <1>6, <2>1
<1> QED BY <1>1, <1>7, <1>8, <1>9 DEF f

\* AMDGCNSubmitBBStart adds a message with the number of the block, behind its
\* phis, and changes nothing else.
LEMMA StartedFacts ==
    ASSUME NEW block \in BasicBlock, NEW n \in Nat
    PROVE  /\ Started(block, n) \in Seq(Code)
           /\ SameCode(Started(block, n), block)
           /\ Numbered(Started(block, n), n + 1)
<1> DEFINE f == FirstNonPhi(block)
           c == Call("s_submit_wave_header", block[f], n)
           new == Started(block, n)
<1>1. /\ block \in Seq(Instruction) /\ Len(block) \in Nat /\ Len(block) > 0
      /\ f \in 1..Len(block)
      /\ \A m \in 1..Len(block) : block[m] \in Instruction /\ block[m].op # "submit"
                                  /\ (block[m].op = "phi" <=> m < f)
  BY PhisFirst
<1> HIDE DEF f
<1>2. c \in Code /\ c.op = "submit" /\ c.callee = "s_submit_wave_header" /\ c.user = n
  <2>1. block[f] \in Instruction /\ "s_submit_wave_header" \in Callee
    BY <1>1 DEF Callee
  <2> QED BY <2>1, CallFacts
<1> HIDE DEF c
<1>3. block \in Seq(Code) /\ f \in 1..(Len(block) + 1)
  BY <1>1 DEF Code
<1>0. new = InsertAt(block, f, c)
  BY DEF Started, f, c
<1> HIDE DEF new
<1>4. /\ new \in Seq(Code) /\ Len(new) = Len(block) + 1
      /\ \A m \in 1..(Len(block) + 1) :
            new[m] = IF m < f THEN block[m] ELSE IF m = f THEN c ELSE block[m - 1]
  <2>1. block \in Seq(Code) /\ f \in 1..(Len(block) + 1) /\ c \in Code
    BY <1>2, <1>3
  <2>2. Inserted(InsertAt(block, f, c), Code, block, f, c)
    BY <2>1, InsertInserts, Zenon
  <2> QED BY <1>0, <2>2 DEF Inserted
<1>5. SameCode(new, block)
  BY <1>0, <1>1, <1>2, <1>3, SameAsItself, InsertKeepsCode
<1>6. Numbered(new, n + 1)
  <2> DEFINE subs == {m \in 1..Len(new) : new[m].op = "submit" /\ new[m].callee # "s_clock64"}
  <2>1. ASSUME NEW m \in 1..Len(new), m # f PROVE new[m].op # "submit"
    <3>1. CASE m < f
      <4>1. m \in 1..Len(block) /\ new[m] = block[m]
        BY <1>1, <1>4, <3>1
      <4> QED BY <1>1, <4>1
    <3>2. CASE m > f
      <4>1. m - 1 \in 1..Len(block) /\ new[m] = block[m - 1]
        BY <1>1, <1>4, <3>2
      <4> QED BY <1>1, <4>1
    <3>3. m < f \/ m > f
      BY <1>1, <1>4, <2>1
    <3> QED BY <3>1, <3>2, <3>3, Zenon
  <2>2. new[f] = c /\ f \in 1..Len(new)
    BY <1>1, <1>4
  <2>3. subs = {f}
    BY <1>2, <2>1, <2>2
  <2>4. new[f].user = (n + 1) - 1
    BY <1>2, <2>2
  <2>5. \A m \in 1..Len(new) : new[m].op = "phi" => m < f
    BY <1>1, <1>2, <1>4
  <2> QED BY <2>3, <2>4, <2>5 DEF Numbered
<1> QED BY <1>4, <1>5, <1>6 DEF new

\* AMDGCNSubmitBBInterval adds clock reads around the block, and before its
\* terminator the message with its number; it changes nothing else.
LEMMA IntervalFacts ==
    ASSUME NEW block \in BasicBlock, NEW n \in Nat
    PROVE  /\ Interval(block, n) \in Seq(Code)
           /\ SameCode(Interval(block, n), block)
           /\ Numbered(Interval(block, n), n + 1)
           /\ Bracketed(Interval(block, n))
<1> DEFINE f == FirstNonPhi(block)
           L == Len(block)
           clk == Call("s_clock64", block[f], n)
           sub == Call("s_submit_time_interval", block[f], n)
           opened == InsertAt(block, f, clk)
           timed == InsertAt(opened, Len(opened), clk)
           new == InsertAt(timed, Len(timed), sub)
<1>1. /\ block \in Seq(Instruction) /\ L \in Nat /\ L > 0 /\ f \in 1..L
      /\ \A m \in 1..L : block[m] \in Instruction /\ block[m].op # "submit"
                         /\ (block[m].op = "phi" <=> m < f)
  BY PhisFirst
<1>0. Interval(block, n) = new
  BY DEF Interval
<1> HIDE DEF f
<1>a. /\ opened = InsertAt(block, f, clk) /\ timed = InsertAt(opened, Len(opened), clk)
      /\ new = InsertAt(timed, Len(timed), sub)
  OBVIOUS
<1> HIDE DEF opened, timed, new
<1>2. /\ clk \in Code /\ clk.op = "submit" /\ clk.callee = "s_clock64"
      /\ sub \in Code /\ sub.op = "submit" /\ sub.callee = "s_submit_time_interval"
      /\ sub.user = n
  <2>1. block[f] \in Instruction /\ "s_clock64" \in Callee /\ "s_submit_time_interval" \in Callee
    BY <1>1 DEF Callee
  <2> QED BY <2>1, CallFacts
<1> HIDE DEF clk, sub
<1>3. block \in Seq(Code) /\ f \in 1..(L + 1)
  BY <1>1 DEF Code
<1>4. /\ opened \in Seq(Code) /\ Len(opened) = L + 1
      /\ \A m \in 1..(L + 1) :
            opened[m] = IF m < f THEN block[m] ELSE IF m = f THEN clk ELSE block[m - 1]
  <2> DEFINE r == InsertAt(block, f, clk)
  <2>1. /\ r \in Seq(Code) /\ Len(r) = Len(block) + 1
        /\ \A m \in 1..(Len(block) + 1) :
              r[m] = IF m < f THEN block[m] ELSE IF m = f THEN clk ELSE block[m - 1]
    BY <1>2, <1>3, InsertFacts
  <2> HIDE DEF r
  <2>2. opened = r
    BY <1>a DEF r
  <2> QED BY <2>1, <2>2
<1>5. SameCode(opened, block)
  BY <1>a, <1>1, <1>2, <1>3, SameAsItself, InsertKeepsCode
<1> HIDE DEF L
<1>6. /\ timed \in Seq(Code) /\ Len(timed) = L + 2
      /\ \A m \in 1..(L + 2) :
            timed[m] = IF m < L + 1 THEN opened[m] ELSE IF m = L + 1 THEN clk ELSE opened[m - 1]
  <2>1. Len(opened) \in 1..(Len(opened) + 1) /\ Len(opened) + 1 = L + 2
    BY <1>1, <1>4
  <2> DEFINE r == InsertAt(opened, Len(opened), clk)
  <2>2. /\ r \in Seq(Code) /\ Len(r) = Len(opened) + 1
        /\ \A m \in 1..(Len(opened) + 1) :
              r[m] = IF m < Len(opened) THEN opened[m] ELSE IF m = Len(opened) THEN clk ELSE opened[m - 1]
    <3>1. opened \in Seq(Code) /\ clk \in Code /\ Len(opened) \in 1..(Len(opened) + 1)
      BY <1>2, <1>4, <2>1
    <3> QED BY <3>1, InsertFacts
  <2> HIDE DEF r
  <2>3. timed = r
    BY <1>a DEF r
  <2>4. Len(opened) = L + 1
    BY <1>4
  <2> QED BY <2>1, <2>2, <2>3, <2>4
<1>7. SameCode(timed, block)
  <2>1. Len(opened) \in 1..(Len(opened) + 1)
    BY <1>1, <1>4
  <2> QED BY <1>a, <1>2, <1>4, <1>5, <2>1, InsertKeepsCode
<1>8. /\ new \in Seq(Code) /\ Len(new) = L + 3
      /\ \A m \in 1..(L + 3) :
            new[m] = IF m < L + 2 THEN timed[m] ELSE IF m = L + 2 THEN sub ELSE timed[m - 1]
  <2>1. Len(timed) \in 1..(Len(timed) + 1) /\ Len(timed) + 1 = L + 3
    BY <1>1, <1>6
  <2> DEFINE r == InsertAt(timed, Len(timed), sub)
  <2>2. /\ r \in Seq(Code) /\ Len(r) = Len(timed) + 1
        /\ \A m \in 1..(Len(timed) + 1) :
              r[m] = IF m < Len(timed) THEN timed[m] ELSE IF m = Len(timed) THEN sub ELSE timed[m - 1]
    <3>1. timed \in Seq(Code) /\ sub \in Code /\ Len(timed) \in 1..(Len(timed) + 1)
      BY <1>2, <1>6, <2>1
    <3> QED BY <3>1, InsertFacts
  <2> HIDE DEF r
  <2>3. new = r
    BY <1>a DEF r
  <2>4. Len(timed) = L + 2
    BY <1>6
  <2> QED BY <2>1, <2>2, <2>3, <2>4
<1>9. SameCode(new, block)
  <2>1. Len(timed) \in 1..(Len(timed) + 1)
    BY <1>1, <1>6
  <2> QED BY <1>a, <1>2, <1>6, <1>7, <2>1, InsertKeepsCode
<1>10. /\ \A m \in 1..(L + 3) : m < f => new[m] = block[m]
       /\ new[f] = clk /\ new[L + 1] = clk /\ new[L + 2] = sub
       /\ \A m \in 1..(L + 3) : f < m /\ m < L + 1 => new[m] = block[m - 1]
       /\ new[L + 3] = block[L]
  <2>1. ASSUME NEW m \in 1..L PROVE new[m] = opened[m]
    BY <1>1, <1>6, <1>8
  <2>2. ASSUME NEW m \in 1..(L + 3), m < f PROVE new[m] = block[m]
    BY <1>1, <1>4, <2>1, <2>2
  <2>3. new[f] = clk
    BY <1>1, <1>4, <2>1
  <2>4. ASSUME NEW m \in 1..(L + 3), f < m, m < L + 1 PROVE new[m] = block[m - 1]
    BY <1>1, <1>4, <2>1, <2>4
  <2>5. new[L + 1] = clk /\ new[L + 2] = sub
    BY <1>1, <1>6, <1>8
  <2>6. new[L + 3] = block[L]
    <3>1. new[L + 3] = timed[L + 2]
      BY <1>1, <1>8
    <3>2. timed[L + 2] = opened[L + 1]
      BY <1>1, <1>6
    <3>3. opened[L + 1] = block[L]
      BY <1>1, <1>4
    <3> QED BY <3>1, <3>2, <3>3
  <2> QED BY <2>2, <2>3, <2>4, <2>5, <2>6
<1>11. ASSUME NEW m \in 1..(L + 3)
       PROVE  /\ new[m].op = "submit" <=> m \in {f, L + 1, L + 2}
              /\ new[m].op = "phi" <=> m < f
  <2>1. CASE m < f
    BY <1>1, <1>10, <2>1
  <2>2. CASE m \in {f, L + 1, L + 2}
    <3>1. new[m] \in {clk, sub}
      BY <1>10, <2>2
    <3>2. new[m].op = "submit"
      BY <1>2, <3>1
    <3>3. ~(m < f)
      BY <1>1, <2>2
    <3> QED BY <2>2, <3>2, <3>3
  <2>3. CASE f < m /\ m < L + 1
    <3>1. m - 1 \in 1..L /\ ~(m - 1 < f) /\ new[m] = block[m - 1]
      BY <1>1, <1>10, <2>3
    <3> QED BY <1>1, <2>3, <3>1
  <2>4. CASE m = L + 3
    <3>1. L \in 1..L /\ ~(L < f) /\ new[m] = block[L]
      BY <1>1, <1>10, <2>4
    <3> QED BY <1>1, <2>4, <3>1
  <2>5. m < f \/ m \in {f, L + 1, L + 2} \/ (f < m /\ m < L + 1) \/ m = L + 3
    BY <1>1
  <2> QED BY <2>1, <2>2, <2>3, <2>4, <2>5, Zenon
<1>12. Numbered(new, n + 1)
  <2> DEFINE subs == {m \in 1..Len(new) : new[m].op = "submit" /\ new[m].callee # "s_clock64"}
  <2>1. subs = {L + 2}
    <3>1. new[f].callee = "s_clock64" /\ new[L + 1].callee = "s_clock64"
      BY <1>2, <1>10
    <3>2. new[L + 2].op = "submit" /\ new[L + 2].callee # "s_clock64" /\ L + 2 \in 1..Len(new)
      BY <1>1, <1>2, <1>8, <1>10
    <3>3. \A m \in 1..Len(new) : new[m].op = "submit" => m \in {f, L + 1, L + 2}
      BY <1>8, <1>11
    <3> QED BY <3>1, <3>2, <3>3
  <2>2. new[L + 2].user = (n + 1) - 1
    BY <1>2, <1>10
  <2>3. \A m \in 1..Len(new) : new[m].op = "phi" => m < L + 2
    BY <1>1, <1>8, <1>11
  <2> QED BY <2>1, <2>2, <2>3 DEF Numbered
<1>13. Bracketed(new)
  <2> DEFINE clocks == {m \in 1..Len(new) : new[m].op = "submit" /\ new[m].callee = "s_clock64"}
  <2>1. clocks = {f, L + 1} /\ f < L + 1
    <3>1. /\ new[f].op = "submit" /\ new[f].callee = "s_clock64" /\ f \in 1..Len(new)
          /\ new[L + 1].op = "submit" /\ new[L + 1].callee = "s_clock64" /\ L + 1 \in 1..Len(new)
      BY <1>1, <1>2, <1>8, <1>10
    <3>2. new[L + 2].callee # "s_clock64"
      BY <1>2, <1>10
    <3>3. \A m \in 1..Len(new) : new[m].op = "submit" => m \in {f, L + 1, L + 2}
      BY <1>8, <1>11
    <3>4. f < L + 1
      BY <1>1
    <3> QED BY <3>1, <3>2, <3>3, <3>4
  <2>2. \A m \in 1..Len(new) : new[m].op # "submit" =>
           /\ m < f <=> new[m].op = "phi"
           /\ m > L + 1 <=> m = Len(new)
    BY <1>1, <1>8, <1>11
  <2> HIDE DEF clocks
  <2>3. f \in clocks /\ L + 1 \in clocks
    BY <2>1
  <2>4. \E s, e \in clocks :
           /\ clocks = {s, e} /\ s < e
           /\ \A m \in 1..Len(new) : new[m].op # "submit" =>
                 /\ m < s <=> new[m].op = "phi"
                 /\ m > e <=> m = Len(new)
    BY <2>1, <2>2, <2>3
  <2> QED BY <2>4 DEF Bracketed, clocks
<1> QED BY <1>0, <1>8, <1>9, <1>12, <1>13

-----------------------------------------------------------------------------
(* The scope.                                                              *)

LEMMA ConcatFacts ==
    ASSUME NEW S, NEW s \in Seq(S), NEW t \in Seq(S)
    PROVE  s \o t \in Seq(S) /\ Len(s \o t) = Len(s) + Len(t)
OBVIOUS

\* What a concatenation holds.
LEMMA RangeConcat ==
    ASSUME NEW S, NEW s \in Seq(S), NEW t \in Seq(S)
    PROVE  Range(s \o t) = Range(s) \cup Range(t)
<1>1. /\ DOMAIN s = 1..Len(s) /\ DOMAIN t = 1..Len(t) /\ Len(s) \in Nat /\ Len(t) \in Nat
      /\ DOMAIN (s \o t) = 1..(Len(s) + Len(t))
      /\ \A n \in 1..Len(s) : (s \o t)[n] = s[n]
      /\ \A n \in (Len(s) + 1)..(Len(s) + Len(t)) : (s \o t)[n] = t[n - Len(s)]
  OBVIOUS
<1>2. ASSUME NEW x \in Range(s \o t) PROVE x \in Range(s) \cup Range(t)
  <2>1. PICK n \in 1..(Len(s) + Len(t)) : x = (s \o t)[n]
    BY <1>1, <1>2 DEF Range
  <2>2. CASE n <= Len(s)
    BY <1>1, <2>1, <2>2 DEF Range
  <2>3. CASE n > Len(s)
    <3>1. n - Len(s) \in 1..Len(t) /\ x = t[n - Len(s)]
      BY <1>1, <2>1, <2>3
    <3> QED BY <1>1, <3>1 DEF Range
  <2>4. n <= Len(s) \/ n > Len(s)
    BY <1>1
  <2> QED BY <2>2, <2>3, <2>4, Zenon
<1>3. ASSUME NEW x \in Range(s) PROVE x \in Range(s \o t)
  BY <1>1, <1>3 DEF Range
<1>4. ASSUME NEW x \in Range(t) PROVE x \in Range(s \o t)
  <2>1. PICK n \in 1..Len(t) : x = t[n]
    BY <1>1, <1>4 DEF Range
  <2>2. n + Len(s) \in (Len(s) + 1)..(Len(s) + Len(t)) /\ (n + Len(s)) - Len(s) = n
    BY <1>1
  <2>3. (s \o t)[n + Len(s)] = x /\ n + Len(s) \in DOMAIN (s \o t)
    BY <1>1, <2>1, <2>2
  <2> QED BY <2>3 DEF Range
<1> QED BY <1>2, <1>3, <1>4

LEMMA EmptySequence ==
    ASSUME NEW S, NEW s \in Seq(S)
    PROVE  /\ Len(s) \in Nat /\ DOMAIN s = 1..Len(s)
           /\ s = <<>> <=> Len(s) = 0
           /\ Range(s) = {} <=> Len(s) = 0
           /\ \A x \in Range(s) : x \in S
<1>1. Len(s) \in Nat /\ DOMAIN s = 1..Len(s)
  OBVIOUS
<1>2. s = <<>> <=> Len(s) = 0
  OBVIOUS
<1>3. CASE Len(s) = 0
  <2>1. DOMAIN s = {}
    BY <1>1, <1>3
  <2> QED BY <1>1, <1>2, <1>3, <2>1 DEF Range
<1>4. CASE Len(s) > 0
  <2>1. 1 \in DOMAIN s
    BY <1>1, <1>4
  <2>2. s[1] \in Range(s)
    BY <2>1 DEF Range
  <2>3. \A x \in Range(s) : x \in S
    BY <1>1 DEF Range
  <2> QED BY <1>1, <1>2, <1>4, <2>2, <2>3
<1>5. Len(s) = 0 \/ Len(s) > 0
  BY <1>1
<1> QED BY <1>3, <1>4, <1>5, Zenon

\* A line spec stands for its half-open range (parseDefinitions, matches).
LEMMA SpecMeansLines ==
    ASSUME NEW spec \in Seq(Nat), SpecOK(spec), NEW line \in Nat
    PROVE  InRange(line, SpecRange(spec))
           <=> line \in spec[1]..(IF Len(spec) = 1 THEN spec[1] ELSE spec[2] - 1)
<1>1. spec[1] \in Nat /\ (Len(spec) # 1 => spec[2] \in Nat /\ spec[2] > spec[1])
  BY DEF SpecOK
<1>2. SpecRange(spec)[1] = spec[1]
      /\ SpecRange(spec)[2] = IF Len(spec) = 1 THEN spec[1] + 1 ELSE spec[2]
  BY DEF SpecRange
<1> QED BY <1>1, <1>2 DEF InRange

\* An entry selects what its definition says.
LEMMA EntryMeansDefinition ==
    ASSUME NEW d \in Definition, \A spec \in Range(d.specs) : SpecOK(spec),
           NEW file, NEW line \in Nat
    PROVE  /\ FileMatches(Entry(d), file)
              <=> IF d.file # <<>> /\ Head(d.file) = "/" THEN d.file = file ELSE IsSuffix(d.file, file)
           /\ (Entry(d).ranges = {} \/ \E r \in Entry(d).ranges : InRange(line, r))
              <=> \/ d.specs = <<>>
                  \/ \E s \in Range(d.specs) :
                        line \in s[1]..(IF Len(s) = 1 THEN s[1] ELSE s[2] - 1)
<1>1. d.specs \in Seq(Seq(Nat))
  BY PassAssumption DEF PassAssumption
<1>2. /\ Entry(d).file_pattern = d.file
      /\ Entry(d).is_full_path <=> (d.file # <<>> /\ Head(d.file) = "/")
      /\ Entry(d).ranges = {SpecRange(spec) : spec \in Range(d.specs)}
  BY DEF Entry
<1>3. FileMatches(Entry(d), file)
      <=> IF d.file # <<>> /\ Head(d.file) = "/" THEN d.file = file ELSE IsSuffix(d.file, file)
  BY <1>2 DEF FileMatches
<1>4. Range(d.specs) = {} <=> d.specs = <<>>
  <2>1. (d.specs = <<>> <=> Len(d.specs) = 0) /\ (Range(d.specs) = {} <=> Len(d.specs) = 0)
    BY <1>1, EmptySequence, Zenon
  <2> QED BY <2>1, Zenon
<1>5. \A s \in Range(d.specs) : s \in Seq(Nat)
  BY <1>1 DEF Range
<1>6. \A s \in Range(d.specs) :
         InRange(line, SpecRange(s))
         <=> line \in s[1]..(IF Len(s) = 1 THEN s[1] ELSE s[2] - 1)
  BY <1>5, SpecMeansLines
<1>7. Entry(d).ranges = {} <=> d.specs = <<>>
  BY <1>2, <1>4
<1>8. (\E r \in Entry(d).ranges : InRange(line, r))
      <=> \E s \in Range(d.specs) : InRange(line, SpecRange(s))
  BY <1>2
<1> QED BY <1>3, <1>6, <1>7, <1>8

\* The pass is in a state in which the scope has been read.
Scoped == /\ input \in Inputs
          /\ ScopeRead /\ input.pass = "address" /\ pc \in {"collect", "clone", "visit"}

\* What is instrumented is what the definitions ask for, of however many
\* definitions and with an error in any of them.
LEMMA ScopeMeansWanted ==
    ASSUME Scoped, NEW inst \in Instruction
    PROVE  OutOfScope(inst) <=> ~Wanted(input, inst.loc)
<1> DEFINE text == input.text
           fdefs == input.file.defs
           all == text \o fdefs
           ok == DefinitionsOK(text) /\ parseFileOK
           loc == inst.loc
<1>1. text \in Seq(Definition) /\ fdefs \in Seq(Definition)
  BY PassAssumption DEF PassAssumption, Scoped, Inputs
<1>2. all \in Seq(Definition) /\ Range(all) = Range(text) \cup Range(fdefs)
  BY <1>1, RangeConcat
<1>3. DefinitionsOK(all) <=> DefinitionsOK(text) /\ DefinitionsOK(fdefs)
  BY <1>2 DEF DefinitionsOK
<1>4. ok <=> input.file.opens /\ DefinitionsOK(all)
  BY <1>3 DEF parseFileOK
<1>5. loc.line \in Nat
  BY PassAssumption DEF PassAssumption
<1>6. /\ entries_ = IF ok THEN parseDefinitions(text) \o parseDefinitions(fdefs) ELSE <<>>
      /\ active_ = (entries_ # <<>>)
  BY DEF Scoped, ScopeRead
<1>7. Wanted(input, loc) <=>
        \/ ~ok \/ all = <<>>
        \/ /\ loc # NoLoc
           /\ \E d \in Range(all) :
                 /\ IF d.file # <<>> /\ Head(d.file) = "/" THEN d.file = loc.file
                                                            ELSE IsSuffix(d.file, loc.file)
                 /\ \/ d.specs = <<>>
                    \/ \E s \in Range(d.specs) : loc.line \in s[1]..(IF Len(s) = 1 THEN s[1] ELSE s[2] - 1)
  BY <1>4 DEF Wanted
<1>8. CASE ~ok
  <2>1. active_ = FALSE
    BY <1>6, <1>8
  <2> QED BY <1>7, <1>8, <2>1 DEF OutOfScope
<1>9. CASE ok
  <2> DEFINE E == {Entry(d) : d \in Definition}
  <2>1. parseDefinitions(text) \in Seq(E) /\ parseDefinitions(fdefs) \in Seq(E)
    BY <1>1 DEF parseDefinitions
  <2>2. Range(entries_) = Range(parseDefinitions(text)) \cup Range(parseDefinitions(fdefs))
    <3> HIDE DEF E
    <3> QED BY <1>6, <1>9, <2>1, RangeConcat
  <2>3. ASSUME NEW ds \in Seq(Definition)
        PROVE  Range(parseDefinitions(ds)) = {Entry(d) : d \in Range(ds)}
    BY DEF parseDefinitions, Range
  <2>4. Range(entries_) = {Entry(d) : d \in Range(all)}
    BY <1>1, <1>2, <2>2, <2>3
  <2>5. active_ <=> all # <<>>
    <3>1. Len(parseDefinitions(text)) = Len(text) /\ Len(parseDefinitions(fdefs)) = Len(fdefs)
      BY <1>1 DEF parseDefinitions
    <3>2. parseDefinitions(text) \o parseDefinitions(fdefs) = <<>> <=> Len(text) + Len(fdefs) = 0
      <4> HIDE DEF E
      <4> DEFINE es == parseDefinitions(text) \o parseDefinitions(fdefs)
      <4>1. es \in Seq(E) /\ Len(es) = Len(text) + Len(fdefs)
        <5>1. es \in Seq(E) /\ Len(es) = Len(parseDefinitions(text)) + Len(parseDefinitions(fdefs))
          BY <2>1, ConcatFacts, Zenon
        <5> QED BY <3>1, <5>1
      <4> HIDE DEF es
      <4>2. es = <<>> <=> Len(es) = 0
        BY <4>1, EmptySequence
      <4> QED BY <4>1, <4>2 DEF es
    <3>3. all = <<>> <=> Len(text) + Len(fdefs) = 0
      <4>1. Len(all) = Len(text) + Len(fdefs)
        BY <1>1
      <4> HIDE DEF all
      <4> QED BY <1>2, <4>1, EmptySequence
    <3> QED BY <1>6, <1>9, <3>2, <3>3
  <2>6. \A d \in Range(all) : d \in Definition /\ \A spec \in Range(d.specs) : SpecOK(spec)
    <3>1. \A d \in Range(all) : d \in Definition
      <4> HIDE DEF all
      <4> QED BY <1>2, EmptySequence
    <3> QED BY <1>4, <1>9, <3>1 DEF DefinitionsOK
  <2> HIDE DEF all
  <2>7. matches(loc.file, loc.line) <=> (active_ =>
           \E d \in Range(all) :
              /\ FileMatches(Entry(d), loc.file)
              /\ Entry(d).ranges = {} \/ \E r \in Entry(d).ranges : InRange(loc.line, r))
    BY <2>4 DEF matches
  <2>8. matches(loc.file, loc.line) <=> (active_ =>
           \E d \in Range(all) :
                 /\ IF d.file # <<>> /\ Head(d.file) = "/" THEN d.file = loc.file
                                                            ELSE IsSuffix(d.file, loc.file)
                 /\ \/ d.specs = <<>>
                    \/ \E s \in Range(d.specs) : loc.line \in s[1]..(IF Len(s) = 1 THEN s[1] ELSE s[2] - 1))
    BY <1>5, <2>6, <2>7, EntryMeansDefinition
  <2> QED BY <1>7, <1>9, <2>5, <2>8 DEF OutOfScope
<1> QED BY <1>8, <1>9, Zenon

-----------------------------------------------------------------------------
(* The module.                                                             *)

\* The functions to compile.
LEMMA InputFacts ==
    ASSUME NEW in \in Inputs
    PROVE  LET fns == in.mod.fns
           IN  /\ fns \in Seq(Fn) /\ Len(fns) \in Nat
               /\ \A k \in 1..Len(fns) :
                     /\ fns[k] \in Fn /\ fns[k].of = 0 /\ Len(fns[k].body) \in Nat
                     /\ \A b \in 1..Len(fns[k].body) :
                           /\ fns[k].body[b] \in BasicBlock
                           /\ fns[k].body[b] \in Seq(Instruction)
                           /\ SameCode(fns[k].body[b], fns[k].body[b])
<1> DEFINE fns == in.mod.fns
           T == [cc : {"kernel", "device"}, of : {0}, body : Seq(BasicBlock)]
<1>1. fns \in Seq(T)
  BY PassAssumption DEF PassAssumption, Inputs
<1>2. BasicBlock \subseteq Seq(Instruction) /\ BasicBlock \subseteq Seq(Code)
  BY DEF BasicBlock, Code
<1>3. ASSUME NEW x \in Seq(BasicBlock) PROVE x \in Seq(Seq(Code))
  BY <1>2
<1>4. T \subseteq Fn
  BY <1>3 DEF Fn
<1> HIDE DEF fns
<1>5. Len(fns) \in Nat /\ \A k \in 1..Len(fns) : fns[k] \in T
  <2> HIDE DEF T
  <2> QED BY <1>1
<1>6. fns \in Seq(Fn)
  <2> HIDE DEF T
  <2> QED BY <1>1, <1>4
<1>7. ASSUME NEW k \in 1..Len(fns)
      PROVE  /\ fns[k] \in Fn /\ fns[k].of = 0 /\ Len(fns[k].body) \in Nat
             /\ \A b \in 1..Len(fns[k].body) :
                   /\ fns[k].body[b] \in BasicBlock
                   /\ fns[k].body[b] \in Seq(Instruction)
                   /\ SameCode(fns[k].body[b], fns[k].body[b])
  <2>1. fns[k] \in T /\ fns[k] \in Fn
    BY <1>4, <1>5
  <2>2. fns[k].of = 0 /\ fns[k].body \in Seq(BasicBlock)
    BY <2>1
  <2>3. Len(fns[k].body) \in Nat /\ \A b \in 1..Len(fns[k].body) : fns[k].body[b] \in BasicBlock
    BY <2>2
  <2> QED BY <1>2, <2>1, <2>2, <2>3, SameAsItself
<1> QED BY <1>5, <1>6, <1>7 DEF fns

\* What Append does.
LEMMA AppendFacts ==
    ASSUME NEW S, NEW s \in Seq(S), NEW e \in S
    PROVE  /\ Append(s, e) \in Seq(S) /\ Len(Append(s, e)) = Len(s) + 1 /\ Len(s) \in Nat
           /\ \A n \in 1..Len(s) : Append(s, e)[n] = s[n]
           /\ Append(s, e)[Len(s) + 1] = e
OBVIOUS

\* The pass starts in the invariant.
LEMMA InitPass == Init => PassInv
<1> SUFFICES ASSUME Init PROVE PassInv
  OBVIOUS
<1>1. input \in Inputs /\ pc = "target" /\ M = input.mod.fns /\ GpuKernels = {} /\ LocationCounter = 0
  BY DEF Init
<1>2. M \in Seq(Fn) /\ Len(M) \in Nat
  BY <1>1, InputFacts
<1>3. Layout
  BY <1>1, <1>2 DEF Layout, Originals, Linkage
<1>4. ClonedOnce /\ ScopeRead /\ Ahead /\ Behind
  BY <1>1, <1>2 DEF ClonedOnce, ScopeRead, Ahead, Behind, Linkage, Linked
<1> QED BY <1>3, <1>4 DEF PassInv

\* The target check.
LEMMA TargetStep == ASSUME PassInv, validateAMDGPUTarget PROVE PassInv'
<1>1. Layout' /\ Len(M)' = Len(input.mod.fns) /\ Len(M)' \in Nat
  <2>1. Len(input.mod.fns) \in Nat
    BY InputFacts DEF PassInv, Layout
  <2> QED BY <2>1 DEF PassInv, Layout, validateAMDGPUTarget, Originals, Linkage
<1>2. ClonedOnce' /\ ScopeRead' /\ Ahead' /\ Behind'
  BY <1>1 DEF PassInv, ClonedOnce, ScopeRead, Ahead, Behind, Linkage, Linked, validateAMDGPUTarget
<1> QED BY <1>1, <1>2 DEF PassInv

\* Linking the device library, or giving up.
LEMMA LinkStep == ASSUME PassInv, loadAndLinkBitcode PROVE PassInv'
<1>1. /\ input \in Inputs /\ input' = input /\ pc = "link" /\ GpuKernels = {} /\ GpuKernels' = {}
      /\ LocationCounter \in Nat /\ LocationCounter' = LocationCounter
      /\ M \in Seq(Fn) /\ Len(M) = Len(input.mod.fns)
      /\ \A n \in 1..Len(M) : M[n] = input.mod.fns[n]
  BY DEF PassInv, Layout, ClonedOnce, Ahead, loadAndLinkBitcode, Originals
<1>2. Len(input.mod.fns) \in Nat
  BY <1>1, InputFacts
<1>3. CASE pc' = "done" /\ M' = M
  <2>1. Layout'
    BY <1>1, <1>2, <1>3 DEF Layout, Originals, Linkage
  <2>2. ClonedOnce' /\ ScopeRead' /\ Ahead' /\ Behind'
    BY <1>1, <1>2, <1>3 DEF ClonedOnce, ScopeRead, Ahead, Behind, Linkage, Linked
  <2> QED BY <2>1, <2>2 DEF PassInv
<1>4. CASE M' = Append(M, DeviceLibrary) /\ pc' = IF input.pass = "address" THEN "scope" ELSE "collect"
  <2>1. DeviceLibrary \in Fn
    BY DEF DeviceLibrary, Fn
  <2>2. /\ M' \in Seq(Fn) /\ Len(M') = Len(M) + 1
        /\ \A n \in 1..Len(M) : M'[n] = M[n]
        /\ M'[Len(M) + 1] = DeviceLibrary
    BY <1>1, <1>4, <2>1, AppendFacts
  <2>3. Layout'
    BY <1>1, <1>2, <1>4, <2>2 DEF Layout, Originals, Linkage
  <2>4. ClonedOnce' /\ ScopeRead' /\ Ahead' /\ Behind'
    BY <1>1, <1>2, <1>4, <2>2 DEF ClonedOnce, ScopeRead, Ahead, Behind, Linkage, Linked
  <2> QED BY <2>3, <2>4 DEF PassInv
<1> QED BY <1>3, <1>4 DEF loadAndLinkBitcode

\* The module and its clones are as they were.
LEMMA LayoutKept ==
    ASSUME Layout, input' = input, M' = M, pc' \in {"collect", "clone", "visit", "done"},
           pc' = "collect" => pc = "scope",
           pc' \in {"clone", "visit"} => pc \in {"collect", "clone", "visit"}
    PROVE  Layout'
<1>1. Len(input.mod.fns) \in Nat /\ input \in Inputs
  BY InputFacts DEF Layout
<1> QED BY <1>1 DEF Layout, Originals, Linkage

\* Reading the scope.
LEMMA ScopeStep == ASSUME PassInv, InstrumentationScope PROVE PassInv'
<1>1. Layout'
  BY LayoutKept DEF PassInv, InstrumentationScope
<1>2. /\ input' = input /\ pc = "scope" /\ pc' = "collect" /\ M' = M /\ GpuKernels' = GpuKernels
      /\ Len(M) = Linkage /\ LocationCounter' = LocationCounter /\ GpuKernels = {}
      /\ Linkage \in Nat
  BY InputFacts DEF PassInv, InstrumentationScope, ClonedOnce, Layout, Linkage
<1>3. ClonedOnce' /\ Ahead' /\ Behind'
  BY <1>2 DEF PassInv, ClonedOnce, Ahead, Behind, Linkage, Linked
<1>4. ScopeRead'
  BY DEF InstrumentationScope, ScopeRead, parseFileOK
<1> QED BY <1>1, <1>3, <1>4 DEF PassInv

\* The kernels are those of the input: the device library has none.
LEMMA CollectStep == ASSUME PassInv, collectGPUKernels PROVE PassInv'
<1>1. Layout'
  BY LayoutKept DEF PassInv, collectGPUKernels
<1>2. /\ input' = input /\ pc = "collect" /\ pc' = "clone" /\ M' = M /\ GpuKernels' = KernelsOf(M)
      /\ LocationCounter' = LocationCounter /\ LocationCounter \in Nat
      /\ Len(M) = Linkage /\ Linkage = Len(input.mod.fns) + 1 /\ Len(input.mod.fns) \in Nat
      /\ M[Linkage] = DeviceLibrary
      /\ \A n \in 1..Len(input.mod.fns) : M[n] = input.mod.fns[n]
      /\ entries_' = entries_ /\ active_' = active_
  BY InputFacts DEF PassInv, collectGPUKernels, Layout, Ahead, Linkage, Originals
<1>3. KernelsOf(M) = KernelsOf(input.mod.fns)
  <2>1. DeviceLibrary.cc # "kernel"
    BY DEF DeviceLibrary
  <2> DEFINE F == input.mod.fns
  <2>2. Len(M) = Len(F) + 1 /\ Len(F) \in Nat /\ M[Len(F) + 1].cc # "kernel"
        /\ \A n \in 1..Len(F) : M[n].cc = F[n].cc
    BY <1>2, <2>1
  <2> HIDE DEF F
  <2>3. {n \in 1..Len(M) : M[n].cc = "kernel"} = {n \in 1..Len(F) : F[n].cc = "kernel"}
    BY <2>2
  <2> QED BY <2>3 DEF KernelsOf, F
<1>4. ClonedOnce' /\ Ahead' /\ Behind'
  BY <1>2, <1>3 DEF ClonedOnce, Ahead, Behind, Linkage, Linked
<1>5. ScopeRead'
  BY <1>2 DEF PassInv, ScopeRead, parseFileOK
<1> QED BY <1>1, <1>4, <1>5 DEF PassInv

\* The next kernel is cloned.
LEMMA CloneStep == ASSUME PassInv, cloneKernelWithExtraArg PROVE PassInv'
<1> DEFINE F == input.mod.fns
           k == Min(GpuKernels)
           new == Clone(k)
<1>1. /\ input \in Inputs /\ input' = input /\ pc = "clone" /\ pc' = "visit"
      /\ GpuKernels # {} /\ GpuKernels' = GpuKernels \ {k} /\ M' = Append(M, new)
      /\ at' = [fn |-> Len(M) + 1, bb |-> 1, i |-> 1] /\ LocationCounter' = 0
      /\ entries_' = entries_ /\ active_' = active_
      /\ M \in Seq(Fn) /\ Len(M) >= Linkage /\ M[Linkage] = DeviceLibrary
      /\ \A n \in 1..Len(F) : M[n] = F[n]
      /\ \A c \in (Linkage + 1)..Len(M) : IsCloneOf(M[c], F)
      /\ GpuKernels \subseteq KernelsOf(F)
  BY DEF PassInv, Layout, ClonedOnce, cloneKernelWithExtraArg, Originals
<1>2. Len(F) \in Nat /\ Linkage = Len(F) + 1 /\ Linkage' = Len(F) + 1
  BY <1>1, InputFacts DEF Linkage
<1>3. k \in GpuKernels
  <2>1. GpuKernels \in SUBSET Nat
    BY <1>1, <1>2 DEF KernelsOf
  <2>2. PICK n \in GpuKernels : \A m \in GpuKernels : n <= m
    BY <1>1, <2>1, LeastElement
  <2> QED BY <2>2 DEF Min
<1> HIDE DEF k
<1>4. k \in 1..Len(F) /\ F[k].cc = "kernel" /\ k \in KernelsOf(F) /\ M[k] = F[k]
  BY <1>1, <1>3 DEF KernelsOf
<1>5. /\ F[k] \in Fn /\ Len(F[k].body) \in Nat
      /\ \A b \in 1..Len(F[k].body) :
            F[k].body[b] \in Seq(Instruction) /\ SameCode(F[k].body[b], F[k].body[b])
  BY <1>1, <1>4, InputFacts
<1>6. new \in Fn /\ new.cc = "kernel" /\ new.of = k /\ new.body = F[k].body
  BY <1>4, <1>5 DEF Clone, Fn
<1>7. IsCloneOf(new, F)
  BY <1>4, <1>5, <1>6 DEF IsCloneOf
<1> HIDE DEF new
<1>8. /\ M' \in Seq(Fn) /\ Len(M') = Len(M) + 1 /\ Len(M) \in Nat
      /\ \A n \in 1..Len(M) : M'[n] = M[n]
      /\ M'[Len(M) + 1] = new
  BY <1>1, <1>6, AppendFacts
<1>9. Layout'
  <2>1. \A c \in (Linkage + 1)..(Len(M) + 1) : IsCloneOf(M'[c], F)
    BY <1>1, <1>2, <1>7, <1>8
  <2>2. \A n \in 1..Len(F) : n \in 1..Len(M) /\ M'[n] = F[n]
    BY <1>1, <1>2, <1>8
  <2>3. M'[Linkage] = DeviceLibrary
    BY <1>1, <1>2, <1>8
  <2>4. Len(M') >= Linkage /\ Len(M') >= Len(F)
    BY <1>1, <1>2, <1>8
  <2>5. input'.mod.fns = F /\ Linkage' = Linkage /\ Len(M)' = Len(M) + 1
    BY <1>1, <1>2, <1>8
  <2>6. input' \in Inputs /\ pc' = "visit" /\ M' \in Seq(Fn)
    BY <1>1, <1>8
  <2> HIDE DEF F
  <2> QED BY <2>1, <2>2, <2>3, <2>4, <2>5, <2>6 DEF Layout, Originals
<1>10. ClonedOnce'
  <2>1. /\ \A c \in (Linkage + 1)..Len(M) : M[c].of \notin GpuKernels
        /\ \A c, d \in (Linkage + 1)..Len(M) : M[c].of = M[d].of => c = d
        /\ \A j \in KernelsOf(F) : j \in GpuKernels \/ \E c \in (Linkage + 1)..Len(M) : M[c].of = j
    BY <1>1 DEF PassInv, ClonedOnce
  <2>2. \A c \in (Linkage + 1)..(Len(M) + 1) :
           \/ c \in (Linkage + 1)..Len(M) /\ M'[c] = M[c]
           \/ c = Len(M) + 1 /\ M'[c].of = k
    BY <1>2, <1>6, <1>8
  <2>3. ASSUME NEW c \in (Linkage + 1)..(Len(M) + 1)
        PROVE  M'[c].of \notin GpuKernels'
    BY <1>1, <1>3, <2>1, <2>2
  <2>4. ASSUME NEW c \in (Linkage + 1)..(Len(M) + 1), NEW d \in (Linkage + 1)..(Len(M) + 1),
               M'[c].of = M'[d].of
        PROVE  c = d
    BY <1>3, <2>1, <2>2, <2>4
  <2>5. ASSUME NEW j \in KernelsOf(F)
        PROVE  j \in GpuKernels' \/ \E c \in (Linkage + 1)..(Len(M) + 1) : M'[c].of = j
    <3>1. CASE j = k
      <4>1. Len(M) + 1 \in (Linkage + 1)..(Len(M) + 1)
        BY <1>1, <1>2, <1>8
      <4> QED BY <1>6, <1>8, <3>1, <4>1
    <3>2. CASE j # k /\ j \in GpuKernels
      BY <1>1, <3>2
    <3>3. CASE j \notin GpuKernels
      <4>1. PICK c \in (Linkage + 1)..Len(M) : M[c].of = j
        BY <2>1, <3>3
      <4>2. c \in (Linkage + 1)..(Len(M) + 1) /\ M'[c] = M[c]
        BY <1>2, <1>8
      <4> QED BY <4>1, <4>2
    <3> QED BY <3>1, <3>2, <3>3
  <2>6. Len(M)' = Len(M) + 1 /\ input.mod.fns' = F /\ Linkage' = Linkage
    BY <1>1, <1>2, <1>8
  <2>7. (pc \notin {"clone", "visit"} => GpuKernels = {})' /\ GpuKernels' \subseteq KernelsOf(F)
    BY <1>1
  <2> HIDE DEF F
  <2>8. \A c \in ((Linkage + 1)..Len(M))' :
           /\ M'[c].of \notin GpuKernels'
           /\ \A d \in ((Linkage + 1)..Len(M))' : M'[c].of = M'[d].of => c = d
    BY <2>3, <2>4, <2>6
  <2>9. \A j \in KernelsOf(F) :
           j \in GpuKernels' \/ \E c \in ((Linkage + 1)..Len(M))' : M'[c].of = j
    BY <2>5, <2>6
  <2> QED BY <2>6, <2>7, <2>8, <2>9 DEF ClonedOnce
<1>11. ScopeRead'
  BY <1>1 DEF PassInv, ScopeRead, parseFileOK
<1>12. Ahead'
  <2>1. M'[Len(M')].body = F[k].body /\ M'[Len(M')].of = k
    BY <1>6, <1>8
  <2>2. at'.fn = Len(M') /\ at'.bb = 1 /\ at'.i = 1
        /\ at' \in [fn : {Len(M')}, bb : 1..(Len(F[k].body) + 1), i : Nat \ {0}]
    <3>1. at'.fn = Len(M') /\ at'.bb = 1 /\ at'.i = 1
      BY <1>1, <1>8
    <3>2. 1 \in 1..(Len(F[k].body) + 1) /\ 1 \in Nat \ {0}
      <4> DEFINE len == Len(F[k].body)
      <4>1. len \in Nat
        BY <1>5
      <4> HIDE DEF len
      <4>2. 1 \in 1..(len + 1)
        BY <4>1
      <4> QED BY <4>2 DEF len
    <3> QED BY <1>1, <1>8, <3>1, <3>2
  <2>3. ASSUME 1 <= Len(F[k].body)
        PROVE  /\ 1 <= Len(F[k].body[1]) + 1
               /\ \A n \in 1..Len(F[k].body[1]) : F[k].body[1][n] \in Instruction
               /\ Reported(input, F[k].body[1], 1 - 1)
    <3>1. F[k].body[1] \in Seq(Instruction)
      BY <1>5, <2>3
    <3>2. \A n \in 1..Len(F[k].body[1]) : F[k].body[1][n] \in Instruction
      BY <3>1
    <3>3. Len(F[k].body[1]) \in Nat
      <4> DEFINE x == F[k].body[1]
      <4>1. x \in Seq(Instruction)
        BY <3>1
      <4> HIDE DEF x
      <4>2. Len(x) \in Nat
        BY <4>1
      <4> QED BY <4>2 DEF x
    <3>4. 1..(1 - 1) = {}
      OBVIOUS
    <3>5. Reported(input, F[k].body[1], 1 - 1)
      BY <3>4, Zenon DEF Reported
    <3> QED BY <3>2, <3>3, <3>5
  <2> DEFINE B == F[k].body
  <2>4. input'.mod.fns[M'[Len(M')].of].body = B
    BY <1>1, <2>1
  <2>5. Len(M') > Linkage'
    BY <1>1, <1>2, <1>8
  <2>6. LocationCounter' \in Nat /\ LocationCounter' = at'.bb - 1
    BY <1>1, <2>2
  <2> HIDE DEF B
  <2>7. /\ M'[Len(M')].body = B
        /\ at' \in [fn : {Len(M')}, bb : 1..(Len(B) + 1), i : Nat \ {0}]
        /\ at'.bb = 1 /\ at'.i = 1 /\ input' = input
        /\ 1 <= Len(B) => /\ 1 <= Len(B[1]) + 1
                          /\ \A n \in 1..Len(B[1]) : B[1][n] \in Instruction
                          /\ Reported(input, B[1], 1 - 1)
    BY <1>1, <2>1, <2>2, <2>3 DEF B
  <2> QED BY <2>4, <2>5, <2>6, <2>7 DEF Ahead
<1>13. Behind'
  <2> SUFFICES ASSUME NEW c \in (Linkage + 1)..(Len(M) + 1), NEW b \in 1..Len(M'[c].body),
                      c = Len(M) + 1 => b < 1
               PROVE  BlockDone(input, M'[c].body[b], b)
    BY <1>1, <1>2, <1>8 DEF Behind
  <2>1. c # Len(M) + 1
    <3>1. Len(M'[c].body) \in Nat \/ c # Len(M) + 1
      BY <1>5, <1>6, <1>8
    <3> QED BY <3>1
  <2>2. c \in (Linkage + 1)..Len(M) /\ M'[c] = M[c]
    BY <1>2, <1>8, <2>1
  <2> QED BY <1>1, <2>2 DEF PassInv, Behind
<1> QED BY <1>9, <1>10, <1>11, <1>12, <1>13 DEF PassInv

\* The last clone is finished.
LEMMA ReturnStep == ASSUME PassInv, Return PROVE PassInv'
<1>1. Layout'
  BY LayoutKept DEF PassInv, Return
<1>2. ClonedOnce' /\ ScopeRead' /\ Ahead' /\ Behind'
  BY DEF PassInv, Return, ClonedOnce, ScopeRead, Ahead, Behind, Linkage
<1> QED BY <1>1, <1>2 DEF PassInv

\* A clone is finished: all its blocks are behind.
LEMMA KernelDoneStep == ASSUME PassInv, KernelDone PROVE PassInv'
<1>1. Layout'
  BY LayoutKept DEF PassInv, KernelDone
<1>2. ClonedOnce' /\ ScopeRead' /\ Ahead'
  BY DEF PassInv, KernelDone, ClonedOnce, ScopeRead, Ahead, Linkage, parseFileOK
<1>3. Behind'
  <2>1. /\ pc = "visit" /\ pc' = "clone" /\ M' = M /\ input' = input
        /\ at.bb > Len(M[at.fn].body) /\ at.fn = Len(M)
    BY DEF PassInv, KernelDone, KernelEnds, Ahead
  <2> SUFFICES ASSUME NEW c \in (Linkage + 1)..Len(M), NEW b \in 1..Len(M[c].body)
               PROVE  BlockDone(input, M[c].body[b], b)
    BY <2>1 DEF Behind, Linkage
  <2>2. c = Len(M) => b < at.bb
    <3>1. at.bb \in Int /\ Len(M[c].body) \in Nat
      <4>1. M[c] \in Fn /\ M[Len(M)] \in Fn
        <5>1. M \in Seq(Fn) /\ Linkage \in Nat /\ Len(M) >= Linkage /\ Len(M) > Linkage
          <6>1. input \in Inputs /\ M \in Seq(Fn) /\ Len(M) >= Linkage
            BY <2>1 DEF PassInv, Layout
          <6>2. Len(M) > Linkage
            BY <2>1 DEF PassInv, Ahead
          <6>3. Linkage \in Nat
            BY <6>1, InputFacts DEF Linkage
          <6> QED BY <6>1, <6>2, <6>3
        <5> QED BY <5>1
      <4>2. Len(M[c].body) \in Nat /\ Len(M[Len(M)].body) \in Nat
        BY <4>1 DEF Fn
      <4> QED BY <2>1, <4>2 DEF PassInv, Ahead
    <3> QED BY <2>1, <3>1
  <2> QED BY <2>2 DEF PassInv, Behind
<1> QED BY <1>1, <1>2, <1>3 DEF PassInv

-----------------------------------------------------------------------------
(* Visiting a block.                                                       *)

Newest == M[Len(M)]
Original == input.mod.fns[Newest.of].body

\* A step of the pass inside the newest clone.
Visiting ==
    /\ PassInv /\ pc = "visit" /\ pc' = pc /\ ~KernelEnds
    /\ UNCHANGED <<input, entries_, active_, GpuKernels>>

\* Where the pass is.
LEMMA VisitFacts ==
    ASSUME Visiting
    PROVE  /\ input \in Inputs /\ input' = input
           /\ M \in Seq(Fn) /\ Len(M) \in Nat /\ Linkage \in Nat /\ Len(M) > Linkage
           /\ Newest \in Fn /\ Newest.of \in Nat /\ Len(Newest.body) \in Nat
           /\ Newest.body \in Seq(Seq(Code))
           /\ at \in [fn : {Len(M)}, bb : Nat \ {0}, i : Nat \ {0}]
           /\ at.fn = Len(M) /\ at.bb \in 1..Len(Newest.body) /\ at.i \in Nat \ {0}
           /\ Newest.body[at.bb] \in Seq(Code) /\ Len(Newest.body[at.bb]) \in Nat
           /\ Block = Newest.body[at.bb]
           /\ IsCloneOf(Newest, input.mod.fns) /\ Len(Original) = Len(Newest.body)
           /\ \A b \in 1..Len(Newest.body) : SameCode(Newest.body[b], Original[b])
                                             /\ Original[b] \in BasicBlock
<1>1. /\ input \in Inputs /\ input' = input /\ M \in Seq(Fn) /\ Len(M) > Linkage
      /\ at.fn = Len(M) /\ at.bb <= Len(M[Len(M)].body) + 1 /\ ~KernelEnds
      /\ at \in [fn : {Len(M)}, bb : 1..(Len(Newest.body) + 1), i : Nat \ {0}]
      /\ \A c \in (Linkage + 1)..Len(M) : IsCloneOf(M[c], input.mod.fns)
  BY DEF Visiting, PassInv, Layout, Ahead, Newest
<1>2. Len(input.mod.fns) \in Nat /\ Linkage \in Nat /\ Len(M) \in Nat
  BY <1>1, InputFacts DEF Linkage
<1>3. Len(M) \in (Linkage + 1)..Len(M) /\ Len(M) \in 1..Len(M)
  BY <1>1, <1>2
<1>4. IsCloneOf(Newest, input.mod.fns) /\ Newest \in Fn
  BY <1>1, <1>3 DEF Newest
<1>5. Newest.of \in Nat /\ Newest.body \in Seq(Seq(Code))
  BY <1>4 DEF Fn
<1>6. Len(Newest.body) \in Nat
  <2> DEFINE x == Newest.body
  <2>1. x \in Seq(Seq(Code))
    BY <1>5
  <2> HIDE DEF x
  <2>2. Len(x) \in Nat
    BY <2>1
  <2> QED BY <2>2 DEF x
<1>7. at.bb \in 1..Len(Newest.body) /\ at.i \in Nat \ {0}
      /\ at \in [fn : {Len(M)}, bb : Nat \ {0}, i : Nat \ {0}]
  BY <1>1, <1>6 DEF KernelEnds, Newest
<1>8. Newest.body[at.bb] \in Seq(Code) /\ Block = Newest.body[at.bb]
  BY <1>1, <1>5, <1>7 DEF Block, Newest
<1>9. Len(Newest.body[at.bb]) \in Nat
  <2> DEFINE x == Newest.body[at.bb]
  <2>1. x \in Seq(Code)
    BY <1>8
  <2> HIDE DEF x
  <2>2. Len(x) \in Nat
    BY <2>1
  <2> QED BY <2>2 DEF x
<1>10. /\ Len(Original) = Len(Newest.body) /\ Newest.of \in 1..Len(input.mod.fns)
       /\ \A b \in 1..Len(Newest.body) : SameCode(Newest.body[b], Original[b])
  BY <1>4 DEF IsCloneOf, Original, KernelsOf
<1>11. \A b \in 1..Len(Original) : Original[b] \in BasicBlock
  BY <1>1, <1>10, InputFacts DEF Original
<1> QED BY <1>1, <1>2, <1>4, <1>5, <1>6, <1>7, <1>8, <1>9, <1>10, <1>11

\* What SetBlock changes.
LEMMA SetBlockFacts ==
    ASSUME Visiting, NEW new \in Seq(Code), SetBlock(new)
    PROVE  /\ M' \in Seq(Fn) /\ Len(M') = Len(M)
           /\ \A n \in 1..(Len(M) - 1) : M'[n] = M[n]
           /\ M'[Len(M)].cc = Newest.cc /\ M'[Len(M)].of = Newest.of
           /\ Len(M'[Len(M)].body) = Len(Newest.body)
           /\ M'[Len(M)].body[at.bb] = new
           /\ \A b \in 1..Len(Newest.body) : b # at.bb => M'[Len(M)].body[b] = Newest.body[b]
<1> DEFINE body2 == [Newest.body EXCEPT ![at.bb] = new]
           fn2 == [Newest EXCEPT !.body = body2]
<1>1. /\ M \in Seq(Fn) /\ Len(M) \in Nat /\ Linkage \in Nat /\ Len(M) > Linkage
      /\ Newest \in Fn /\ Newest.body \in Seq(Seq(Code)) /\ at.fn = Len(M)
      /\ at.bb \in 1..Len(Newest.body)
  BY VisitFacts
<1>2. M' = [M EXCEPT ![Len(M)] = fn2]
  BY <1>1 DEF SetBlock, Newest
<1>3. /\ body2 \in Seq(Seq(Code)) /\ Len(body2) = Len(Newest.body) /\ body2[at.bb] = new
      /\ \A b \in 1..Len(Newest.body) : b # at.bb => body2[b] = Newest.body[b]
  BY <1>1
<1> HIDE DEF body2
<1>4. fn2 \in Fn /\ fn2.cc = Newest.cc /\ fn2.of = Newest.of /\ fn2.body = body2
  BY <1>1, <1>3 DEF Fn
<1> HIDE DEF fn2
<1>5. Len(M) \in 1..Len(M)
  BY <1>1
<1>6. /\ M' \in Seq(Fn) /\ Len(M') = Len(M) /\ M'[Len(M)] = fn2
      /\ \A n \in 1..(Len(M) - 1) : M'[n] = M[n]
  BY <1>1, <1>2, <1>4, <1>5
<1> QED BY <1>3, <1>4, <1>6

\* A block rewritten without changing its code keeps the module's layout.
LEMMA BlockRewritten ==
    ASSUME Visiting, NEW new \in Seq(Code), SetBlock(new), SameCode(new, Original[at.bb])
    PROVE  Layout' /\ ClonedOnce' /\ ScopeRead'
<1>1. /\ input \in Inputs /\ input' = input /\ pc' = "visit" /\ pc = "visit"
      /\ Len(M) \in Nat /\ Linkage \in Nat /\ Len(M) > Linkage
      /\ at.bb \in 1..Len(Newest.body) /\ Len(Newest.body) \in Nat
      /\ IsCloneOf(Newest, input.mod.fns)
  BY VisitFacts DEF Visiting
<1>2. /\ M' \in Seq(Fn) /\ Len(M') = Len(M)
      /\ \A n \in 1..(Len(M) - 1) : M'[n] = M[n]
      /\ M'[Len(M)].cc = Newest.cc /\ M'[Len(M)].of = Newest.of
      /\ Len(M'[Len(M)].body) = Len(Newest.body)
      /\ M'[Len(M)].body[at.bb] = new
      /\ \A b \in 1..Len(Newest.body) : b # at.bb => M'[Len(M)].body[b] = Newest.body[b]
  BY SetBlockFacts
<1>3. Linkage' = Linkage /\ Linkage = Len(input.mod.fns) + 1 /\ Len(input.mod.fns) \in Nat
  BY <1>1, InputFacts DEF Linkage
<1>4. IsCloneOf(M'[Len(M)], input.mod.fns)
  BY <1>1, <1>2 DEF IsCloneOf, Original
<1>5. Layout'
  <2>1. /\ \A n \in 1..Len(input.mod.fns) : M[n] = input.mod.fns[n]
        /\ M[Linkage] = DeviceLibrary
        /\ \A c \in (Linkage + 1)..Len(M) : IsCloneOf(M[c], input.mod.fns)
    BY <1>1 DEF Visiting, PassInv, Layout, Originals
  <2>2. \A n \in 1..Linkage : M'[n] = M[n]
    BY <1>1, <1>2
  <2>3. \A c \in (Linkage + 1)..Len(M) : IsCloneOf(M'[c], input.mod.fns)
    <3> SUFFICES ASSUME NEW c \in (Linkage + 1)..Len(M) PROVE IsCloneOf(M'[c], input.mod.fns)
      OBVIOUS
    <3>1. CASE c = Len(M)
      BY <1>4, <3>1
    <3>2. CASE c # Len(M)
      <4>1. c \in 1..(Len(M) - 1)
        BY <1>1, <3>2
      <4> QED BY <1>2, <2>1, <4>1
    <3> QED BY <3>1, <3>2
  <2>4. \A n \in 1..Len(input.mod.fns) : M'[n] = input.mod.fns[n]
    BY <1>3, <2>1, <2>2
  <2>5. M'[Linkage] = DeviceLibrary
    BY <1>3, <2>1, <2>2
  <2>6. Len(M') >= Linkage /\ Len(M') >= Len(input.mod.fns)
    BY <1>1, <1>2, <1>3
  <2> QED BY <1>1, <1>2, <1>3, <2>3, <2>4, <2>5, <2>6 DEF Layout, Originals, Linkage
<1>6. ClonedOnce'
  <2>1. \A c \in (Linkage + 1)..Len(M) : M'[c].of = M[c].of
    <3> SUFFICES ASSUME NEW c \in (Linkage + 1)..Len(M) PROVE M'[c].of = M[c].of
      OBVIOUS
    <3>1. CASE c = Len(M)
      BY <1>2, <3>1 DEF Newest
    <3>2. CASE c # Len(M)
      <4>1. c \in 1..(Len(M) - 1)
        BY <1>1, <3>2
      <4> QED BY <1>2, <4>1
    <3> QED BY <3>1, <3>2
  <2>2. GpuKernels' = GpuKernels /\ Len(M)' = Len(M)
    BY <1>2 DEF Visiting
  <2>3. /\ GpuKernels \subseteq KernelsOf(input.mod.fns)
        /\ \A c \in (Linkage + 1)..Len(M) :
              /\ M[c].of \notin GpuKernels
              /\ \A d \in (Linkage + 1)..Len(M) : M[c].of = M[d].of => c = d
        /\ \A k \in KernelsOf(input.mod.fns) :
              k \in GpuKernels \/ \E c \in (Linkage + 1)..Len(M) : M[c].of = k
    BY <1>1 DEF Visiting, PassInv, ClonedOnce
  <2>4. /\ \A c \in (Linkage + 1)..Len(M) :
              /\ M'[c].of \notin GpuKernels
              /\ \A d \in (Linkage + 1)..Len(M) : M'[c].of = M'[d].of => c = d
        /\ \A k \in KernelsOf(input.mod.fns) :
              k \in GpuKernels \/ \E c \in (Linkage + 1)..Len(M) : M'[c].of = k
    BY <2>1, <2>3
  <2> QED BY <1>1, <1>3, <2>2, <2>3, <2>4 DEF ClonedOnce
<1>7. ScopeRead'
  BY <1>1 DEF Visiting, PassInv, ScopeRead, parseFileOK
<1> QED BY <1>5, <1>6, <1>7

\* The clones before the newest, and its blocks before the present one, stay
\* behind when the block is rewritten; if it is done, it joins them.
LEMMA BehindKept ==
    ASSUME Visiting, NEW new \in Seq(Code), SetBlock(new),
           at'.bb = at.bb \/ (at'.bb = at.bb + 1 /\ BlockDone(input, new, at.bb))
    PROVE  Behind'
<1>1. /\ input' = input /\ pc' = "visit" /\ pc = "visit"
      /\ Len(M) \in Nat /\ Linkage \in Nat /\ Len(M) > Linkage
      /\ at.bb \in 1..Len(Newest.body) /\ Len(Newest.body) \in Nat
  BY VisitFacts DEF Visiting
<1>2. /\ Len(M') = Len(M)
      /\ \A n \in 1..(Len(M) - 1) : M'[n] = M[n]
      /\ Len(M'[Len(M)].body) = Len(Newest.body)
      /\ M'[Len(M)].body[at.bb] = new
      /\ \A b \in 1..Len(Newest.body) : b # at.bb => M'[Len(M)].body[b] = Newest.body[b]
  BY SetBlockFacts
<1>3. Linkage' = Linkage
  BY <1>1 DEF Linkage
<1>4. \A c \in (Linkage + 1)..Len(M) : \A b \in 1..Len(M[c].body) :
         (c = Len(M) => b < at.bb) => BlockDone(input, M[c].body[b], b)
  BY <1>1 DEF Visiting, PassInv, Behind
<1> SUFFICES ASSUME NEW c \in (Linkage + 1)..Len(M), NEW b \in 1..Len(M'[c].body),
                    c = Len(M) => b < at'.bb
             PROVE  BlockDone(input, M'[c].body[b], b)
  BY <1>1, <1>2, <1>3 DEF Behind
<1>5. CASE c # Len(M)
  <2>1. c \in 1..(Len(M) - 1)
    BY <1>1, <1>5
  <2> QED BY <1>2, <1>4, <1>5, <2>1
<1>6. CASE c = Len(M) /\ b = at.bb
  <2>1. BlockDone(input, new, at.bb)
    BY <1>1, <1>6
  <2> QED BY <1>2, <1>6, <2>1
<1>7. CASE c = Len(M) /\ b # at.bb
  <2>1. b \in 1..Len(M[c].body) /\ M'[c].body[b] = M[c].body[b] /\ b < at.bb
    BY <1>1, <1>2, <1>7 DEF Newest
  <2> QED BY <1>4, <2>1
<1> QED BY <1>5, <1>6, <1>7

\* A pass on blocks finishes one.
LEMMA BlockFinished ==
    ASSUME Visiting, input.pass # "address", NEW new \in Seq(Code), SetBlock(new),
           SameCode(new, Original[at.bb]), BlockDone(input, new, at.bb),
           at' = [at EXCEPT !.bb = @ + 1], LocationCounter' = LocationCounter + 1
    PROVE  PassInv'
<1>1. Layout' /\ ClonedOnce' /\ ScopeRead'
  BY BlockRewritten
<1>2. /\ input' = input /\ Len(M) \in Nat /\ Linkage \in Nat /\ Len(M) > Linkage
      /\ at \in [fn : {Len(M)}, bb : Nat \ {0}, i : Nat \ {0}]
      /\ at.bb \in 1..Len(Newest.body) /\ Len(Newest.body) \in Nat
  BY VisitFacts
<1>3. at'.bb = at.bb + 1 /\ at'.fn = Len(M) /\ at'.i = at.i
      /\ at' \in [fn : {Len(M)}, bb : 1..(Len(Newest.body) + 1), i : Nat \ {0}]
  BY <1>2
<1>4. Behind'
  BY <1>3, BehindKept
<1>5. Ahead'
  <2>1. /\ Len(M') = Len(M) /\ M'[Len(M)].of = Newest.of
        /\ Len(M'[Len(M)].body) = Len(Newest.body)
        /\ \A b \in 1..Len(Newest.body) : b # at.bb => M'[Len(M)].body[b] = Newest.body[b]
    BY SetBlockFacts
  <2>2. /\ LocationCounter \in Nat /\ LocationCounter = at.bb - 1
        /\ \A b \in (at.bb + 1)..Len(Newest.body) : Newest.body[b] = Original[b]
    BY DEF Visiting, PassInv, Ahead, Newest, Original
  <2>3. Linkage' = Linkage
    BY <1>2 DEF Linkage
  <2>4. LocationCounter' \in Nat /\ LocationCounter' = at'.bb - 1
    BY <1>2, <1>3, <2>2
  <2>5. \A b \in (at.bb + 1)..Len(Newest.body) : M'[Len(M)].body[b] = Original[b]
    BY <1>2, <2>1, <2>2
  <2>6. input'.mod.fns[M'[Len(M')].of].body = Original
    BY <1>2, <2>1 DEF Original
  <2>7. \A b \in (at'.bb + 1)..Len(Newest.body) : M'[Len(M)].body[b] = Original[b]
    BY <1>2, <1>3, <2>5
  <2>8. at'.bb <= Len(Newest.body) => M'[Len(M)].body[at'.bb] = Original[at'.bb]
    BY <1>2, <1>3, <2>5
  <2>9. input'.pass # "address" /\ Len(M') > Linkage'
    BY <1>2, <2>1, <2>3
  <2> QED BY <1>3, <2>1, <2>4, <2>6, <2>7, <2>8, <2>9 DEF Ahead
<1> QED BY <1>1, <1>4, <1>5 DEF PassInv

\* AMDGCNSubmitBBStart visits a block.
LEMMA BlockStartStep == ASSUME PassInv, VisitBlockStart PROVE PassInv'
<1>1. /\ Visiting /\ input.pass = "bbstart" /\ SetBlock(Started(Block, LocationCounter))
      /\ at' = [at EXCEPT !.bb = @ + 1] /\ LocationCounter' = LocationCounter + 1
  BY DEF Visiting, VisitBlockStart
<1>2. Block = Newest.body[at.bb] /\ at.bb \in 1..Len(Newest.body) /\ Original[at.bb] \in BasicBlock
  BY <1>1, VisitFacts
<1>3. LocationCounter \in Nat /\ LocationCounter = at.bb - 1 /\ Newest.body[at.bb] = Original[at.bb]
  <2>1. at.bb <= Len(Newest.body) /\ input.pass # "address"
    BY <1>1, <1>2, VisitFacts
  <2> QED BY <1>1, <2>1 DEF Visiting, PassInv, Ahead, Newest, Original
<1> DEFINE new == Started(Block, LocationCounter)
<1>4. Block \in BasicBlock /\ Block = Original[at.bb] /\ LocationCounter + 1 = at.bb
  BY <1>2, <1>3
<1>5. new \in Seq(Code) /\ SameCode(new, Block) /\ Numbered(new, LocationCounter + 1)
  BY <1>3, <1>4, StartedFacts
<1> HIDE DEF new
<1>6. BlockDone(input, new, at.bb)
  BY <1>1, <1>4, <1>5 DEF BlockDone
<1>7. SetBlock(new) /\ SameCode(new, Original[at.bb])
  BY <1>1, <1>4, <1>5 DEF new
<1> QED BY <1>1, <1>5, <1>6, <1>7, BlockFinished

\* AMDGCNSubmitBBInterval visits a block.
LEMMA BlockIntervalStep == ASSUME PassInv, VisitBlockInterval PROVE PassInv'
<1>1. /\ Visiting /\ input.pass = "bbinterval" /\ SetBlock(Interval(Block, LocationCounter))
      /\ at' = [at EXCEPT !.bb = @ + 1] /\ LocationCounter' = LocationCounter + 1
  BY DEF Visiting, VisitBlockInterval
<1>2. Block = Newest.body[at.bb] /\ at.bb \in 1..Len(Newest.body) /\ Original[at.bb] \in BasicBlock
  BY <1>1, VisitFacts
<1>3. LocationCounter \in Nat /\ LocationCounter = at.bb - 1 /\ Newest.body[at.bb] = Original[at.bb]
  <2>1. at.bb <= Len(Newest.body) /\ input.pass # "address"
    BY <1>1, <1>2, VisitFacts
  <2> QED BY <1>1, <2>1 DEF Visiting, PassInv, Ahead, Newest, Original
<1> DEFINE new == Interval(Block, LocationCounter)
<1>4. Block \in BasicBlock /\ Block = Original[at.bb] /\ LocationCounter + 1 = at.bb
  BY <1>2, <1>3
<1>5. new \in Seq(Code) /\ SameCode(new, Block) /\ Numbered(new, LocationCounter + 1) /\ Bracketed(new)
  BY <1>3, <1>4, IntervalFacts
<1> HIDE DEF new
<1>6. BlockDone(input, new, at.bb)
  BY <1>1, <1>4, <1>5 DEF BlockDone
<1>7. SetBlock(new) /\ SameCode(new, Original[at.bb])
  BY <1>1, <1>4, <1>5 DEF new
<1> QED BY <1>1, <1>5, <1>6, <1>7, BlockFinished

\* Where the address pass is in its block.
LEMMA InstructionFacts ==
    ASSUME Visiting, input.pass = "address"
    PROVE  /\ LocationCounter \in Nat /\ at.i <= Len(Block) + 1
           /\ \A b \in (at.bb + 1)..Len(Newest.body) : Newest.body[b] = Original[b]
           /\ \A n \in at.i..Len(Block) : Block[n] \in Instruction
           /\ Reported(input, Block, at.i - 1)
<1>1. Block = Newest.body[at.bb] /\ at.bb \in 1..Len(Newest.body)
  BY VisitFacts
<1>2. at.bb <= Len(Newest.body)
  BY <1>1, VisitFacts
<1> QED BY <1>1, <1>2 DEF Visiting, PassInv, Ahead, Newest, Original

\* The address pass comes to the end of a block.
LEMMA BlockEnds ==
    ASSUME Visiting, input.pass = "address", at.i > Len(Block),
           at' = [at EXCEPT !.bb = @ + 1, !.i = 1], UNCHANGED <<M, LocationCounter>>
    PROVE  PassInv'
<1>1. /\ input' = input /\ Len(M) \in Nat /\ Linkage \in Nat /\ Len(M) > Linkage
      /\ at \in [fn : {Len(M)}, bb : Nat \ {0}, i : Nat \ {0}] /\ at.i \in Nat
      /\ at.bb \in 1..Len(Newest.body) /\ Len(Newest.body) \in Nat
      /\ Block = Newest.body[at.bb] /\ Len(Block) \in Nat
      /\ Len(Original) = Len(Newest.body)
      /\ \A b \in 1..Len(Newest.body) : Original[b] \in BasicBlock
  BY VisitFacts
<1>2. /\ LocationCounter \in Nat /\ at.i = Len(Block) + 1
      /\ \A b \in (at.bb + 1)..Len(Newest.body) : Newest.body[b] = Original[b]
      /\ Reported(input, Block, at.i - 1)
  BY <1>1, InstructionFacts
<1>3. /\ at'.bb = at.bb + 1 /\ at'.fn = Len(M) /\ at'.i = 1
      /\ at' \in [fn : {Len(M)}, bb : 1..(Len(Newest.body) + 1), i : Nat \ {0}]
  <2>1. at' = [fn |-> Len(M), bb |-> at.bb + 1, i |-> 1]
    BY <1>1
  <2> DEFINE bb == at.bb + 1
  <2>2. bb \in 1..(Len(Newest.body) + 1) /\ 1 \in Nat \ {0}
    BY <1>1
  <2>3. at' = [fn |-> Len(M), bb |-> bb, i |-> 1]
    BY <2>1
  <2> HIDE DEF bb
  <2>4. at'.bb = bb /\ at'.fn = Len(M) /\ at'.i = 1
    <3> DEFINE r == [fn |-> Len(M), bb |-> bb, i |-> 1]
    <3>1. r.bb = bb /\ r.fn = Len(M) /\ r.i = 1
      OBVIOUS
    <3>2. at' = r
      BY <2>3
    <3> HIDE DEF r
    <3> QED BY <3>1, <3>2, Zenon
  <2> DEFINE S == 1..(Len(Newest.body) + 1)
  <2>5. bb \in S /\ 1 \in Nat \ {0} /\ Len(M) \in {Len(M)}
    BY <2>2
  <2> HIDE DEF S
  <2>6. at' \in [fn : {Len(M)}, bb : S, i : Nat \ {0}]
    BY <2>3, <2>5
  <2> QED BY <2>4, <2>6 DEF bb, S
<1>4. Layout'
  BY LayoutKept DEF Visiting, PassInv
<1>5. ClonedOnce' /\ ScopeRead'
  BY DEF Visiting, PassInv, ClonedOnce, ScopeRead, Linkage, Linked, parseFileOK
<1>6. BlockDone(input, Block, at.bb)
  <2>1. Reported(input, Block, Len(Block))
    <3>1. at.i - 1 = Len(Block)
      BY <1>1, <1>2
    <3> QED BY <1>2, <3>1
  <2> QED BY <2>1 DEF BlockDone
<1>7. Behind'
  <2>1. pc = "visit" /\ pc' = "visit" /\ M' = M /\ Linkage' = Linkage
    BY <1>1 DEF Visiting, Linkage
  <2> SUFFICES ASSUME NEW c \in (Linkage + 1)..Len(M), NEW b \in 1..Len(M[c].body),
                      c = Len(M) => b < at.bb + 1
               PROVE  BlockDone(input, M[c].body[b], b)
    BY <1>1, <1>3, <2>1 DEF Behind
  <2>2. CASE c = Len(M) /\ b = at.bb
    BY <1>1, <1>6, <2>2 DEF Newest
  <2>3. CASE ~(c = Len(M) /\ b = at.bb)
    <3>1. c = Len(M) => b < at.bb
      BY <1>1, <2>3 DEF Newest
    <3> QED BY <2>1, <3>1 DEF Visiting, PassInv, Behind
  <2> QED BY <2>2, <2>3
<1>8. Ahead'
  <2>1. M' = M /\ Linkage' = Linkage /\ LocationCounter' = LocationCounter
    BY <1>1 DEF Linkage
  <2>2. \A b \in (at'.bb + 1)..Len(Newest.body) : Newest.body[b] = Original[b]
    BY <1>1, <1>2, <1>3
  <2>3. ASSUME at'.bb <= Len(Newest.body)
        PROVE  /\ 1 <= Len(Newest.body[at'.bb]) + 1
               /\ \A n \in 1..Len(Newest.body[at'.bb]) : Newest.body[at'.bb][n] \in Instruction
               /\ Reported(input, Newest.body[at'.bb], 1 - 1)
    <3> DEFINE x == Newest.body[at'.bb]
    <3>1. x \in BasicBlock
      <4>1. at'.bb \in (at.bb + 1)..Len(Newest.body) /\ at'.bb \in 1..Len(Newest.body)
        BY <1>1, <1>3, <2>3
      <4> QED BY <1>1, <1>2, <4>1
    <3> HIDE DEF x
    <3>2. Len(x) \in Nat /\ \A n \in 1..Len(x) : x[n] \in Instruction
      BY <3>1, PhisFirst
    <3>3. 1..(1 - 1) = {}
      OBVIOUS
    <3>4. Reported(input, x, 1 - 1)
      BY <3>3, Zenon DEF Reported
    <3>5. 1 <= Len(x) + 1
      BY <3>2
    <3> QED BY <3>2, <3>4, <3>5 DEF x
  <2> QED BY <1>1, <1>2, <1>3, <2>1, <2>2, <2>3 DEF Ahead, Newest, Original
<1> QED BY <1>4, <1>5, <1>7, <1>8 DEF PassInv

\* The address pass passes an instruction over.
LEMMA InstructionSkipped ==
    ASSUME Visiting, input.pass = "address", at.i <= Len(Block),
           OutOfScope(Block[at.i]) \/ Block[at.i].op \notin MemoryOps,
           at' = [at EXCEPT !.i = @ + 1], UNCHANGED <<M, LocationCounter>>
    PROVE  PassInv'
<1>1. /\ input' = input /\ Len(M) \in Nat /\ Linkage \in Nat /\ Len(M) > Linkage
      /\ at \in [fn : {Len(M)}, bb : Nat \ {0}, i : Nat \ {0}] /\ at.i \in Nat \ {0}
      /\ at.bb \in 1..Len(Newest.body) /\ Len(Newest.body) \in Nat
      /\ Block = Newest.body[at.bb] /\ Len(Block) \in Nat /\ input \in Inputs
  BY VisitFacts
<1>2. /\ LocationCounter \in Nat
      /\ \A b \in (at.bb + 1)..Len(Newest.body) : Newest.body[b] = Original[b]
      /\ \A n \in at.i..Len(Block) : Block[n] \in Instruction
      /\ Reported(input, Block, at.i - 1)
  BY <1>1, InstructionFacts
<1>3. /\ at'.bb = at.bb /\ at'.fn = Len(M) /\ at'.i = at.i + 1
      /\ at' \in [fn : {Len(M)}, bb : 1..(Len(Newest.body) + 1), i : Nat \ {0}]
  BY <1>1
<1>4. Layout'
  BY LayoutKept DEF Visiting, PassInv
<1>5. ClonedOnce' /\ ScopeRead'
  BY DEF Visiting, PassInv, ClonedOnce, ScopeRead, Linkage, Linked, parseFileOK
<1>6. Behind'
  <2>1. pc = "visit" /\ pc' = "visit" /\ M' = M /\ Linkage' = Linkage
    BY <1>1 DEF Visiting, Linkage
  <2>2. \A c \in (Linkage + 1)..Len(M) : \A b \in 1..Len(M[c].body) :
           (c = Len(M) => b < at.bb) => BlockDone(input, M[c].body[b], b)
    BY <2>1 DEF Visiting, PassInv, Behind
  <2> QED BY <1>1, <1>3, <2>1, <2>2 DEF Behind
<1>7. Reported(input, Block, (at.i + 1) - 1)
  <2>1. Block[at.i] \in Instruction /\ Block[at.i].op # "submit"
    BY <1>1, <1>2, PassAssumption DEF PassAssumption
  <2>2. Block[at.i].op \in MemoryOps => ~Wanted(input, Block[at.i].loc)
    <3>1. Scoped
      BY <1>1 DEF Scoped, Visiting, PassInv
    <3> QED BY <2>1, <3>1, ScopeMeansWanted
  <2> SUFFICES ASSUME NEW n \in 1..at.i
               PROVE  IF Block[n].op = "submit"
                        THEN n < at.i /\ Block[n].of = Block[n + 1]
                             /\ Block[n + 1].op \in MemoryOps /\ Wanted(input, Block[n + 1].loc)
                        ELSE Block[n].op \in MemoryOps /\ Wanted(input, Block[n].loc)
                                => n > 1 /\ Block[n - 1].op = "submit"
    <3>1. (at.i + 1) - 1 = at.i
      BY <1>1
    <3> QED BY <3>1 DEF Reported
  <2>3. CASE n = at.i
    BY <2>1, <2>2, <2>3
  <2>4. CASE n # at.i
    <3>1. n \in 1..(at.i - 1)
      BY <1>1, <2>4
    <3>2. IF Block[n].op = "submit"
            THEN n < at.i - 1 /\ Block[n].of = Block[n + 1]
                 /\ Block[n + 1].op \in MemoryOps /\ Wanted(input, Block[n + 1].loc)
            ELSE Block[n].op \in MemoryOps /\ Wanted(input, Block[n].loc)
                    => n > 1 /\ Block[n - 1].op = "submit"
      BY <1>2, <3>1 DEF Reported
    <3>3. n < at.i - 1 => n < at.i
      BY <1>1
    <3> QED BY <3>2, <3>3
  <2> QED BY <2>3, <2>4
<1>8. Ahead'
  <2>1. M' = M /\ Linkage' = Linkage /\ LocationCounter' = LocationCounter
    BY <1>1 DEF Linkage
  <2>2. at'.i <= Len(Block) + 1 /\ \A n \in at'.i..Len(Block) : Block[n] \in Instruction
    <3>1. at'.i <= Len(Block) + 1
      BY <1>1, <1>3
    <3>2. \A n \in at'.i..Len(Block) : n \in at.i..Len(Block)
      BY <1>1, <1>3
    <3> QED BY <1>2, <3>1, <3>2
  <2>3. Reported(input, Block, at'.i - 1)
    BY <1>3, <1>7
  <2> QED BY <1>1, <1>2, <1>3, <2>1, <2>2, <2>3 DEF Ahead, Newest, Original
<1> QED BY <1>4, <1>5, <1>6, <1>8 DEF PassInv

\* The address pass reports an access.
LEMMA InstructionReported ==
    ASSUME Visiting, input.pass = "address", at.i <= Len(Block),
           ~OutOfScope(Block[at.i]), Block[at.i].op \in MemoryOps, InjectAddress(Block[at.i])
    PROVE  PassInv'
<1> DEFINE inst == Block[at.i]
           call == Call("v_submit_address", inst, LocationCounter)
           new == InsertAt(Block, at.i, call)
<1>1. /\ input' = input /\ Len(M) \in Nat /\ Linkage \in Nat /\ Len(M) > Linkage
      /\ at \in [fn : {Len(M)}, bb : Nat \ {0}, i : Nat \ {0}] /\ at.i \in Nat \ {0}
      /\ at.bb \in 1..Len(Newest.body) /\ Len(Newest.body) \in Nat
      /\ Block = Newest.body[at.bb] /\ Block \in Seq(Code) /\ Len(Block) \in Nat /\ input \in Inputs
      /\ SameCode(Block, Original[at.bb])
  BY VisitFacts
<1>2. /\ LocationCounter \in Nat
      /\ \A b \in (at.bb + 1)..Len(Newest.body) : Newest.body[b] = Original[b]
      /\ \A n \in at.i..Len(Block) : Block[n] \in Instruction
      /\ Reported(input, Block, at.i - 1)
  BY <1>1, InstructionFacts
<1>3. inst \in Instruction /\ inst.op # "submit" /\ Wanted(input, inst.loc)
  <2>1. inst \in Instruction
    BY <1>1, <1>2
  <2>2. inst.op # "submit"
    BY <2>1, PassAssumption DEF PassAssumption
  <2>3. Scoped
    BY <1>1 DEF Scoped, Visiting, PassInv
  <2> QED BY <2>1, <2>2, <2>3, ScopeMeansWanted
<1>4. SetBlock(new) /\ at' = [at EXCEPT !.i = @ + 2] /\ LocationCounter' = LocationCounter + 1
  BY DEF InjectAddress
<1>5. call \in Code /\ call.op = "submit" /\ call.of = inst
  <2>1. "v_submit_address" \in Callee
    BY DEF Callee
  <2> QED BY <1>2, <1>3, <2>1, CallFacts
<1>6. at.i \in 1..(Len(Block) + 1) /\ at.i \in 1..Len(Block)
  BY <1>1
<1>7. /\ new \in Seq(Code) /\ Len(new) = Len(Block) + 1
      /\ \A n \in (at.i + 2)..(Len(Block) + 1) : new[n] \in Instruction
      /\ Reported(input, new, at.i + 1)
  <2>1. call.of = Block[at.i] /\ Block[at.i].op # "submit" /\ Wanted(input, Block[at.i].loc)
    BY <1>3, <1>5
  <2>2. /\ Block \in Seq(Code) /\ at.i \in 1..Len(Block) /\ call \in Code /\ call.op = "submit"
        /\ Reported(input, Block, at.i - 1) /\ \A n \in at.i..Len(Block) : Block[n] \in Instruction
    BY <1>1, <1>2, <1>5, <1>6
  <2>3. Block[at.i].op \in MemoryOps
    OBVIOUS
  <2> HIDE DEF call
  <2> QED BY <2>1, <2>2, <2>3, AccessReported, Zenon
<1> HIDE DEF call, inst
<1>8. SameCode(new, Original[at.bb])
  BY <1>1, <1>5, <1>6, InsertKeepsCode
<1> HIDE DEF new
<1>9. Layout' /\ ClonedOnce' /\ ScopeRead'
  BY <1>4, <1>7, <1>8, BlockRewritten
<1>10. /\ at'.bb = at.bb /\ at'.fn = Len(M) /\ at'.i = at.i + 2
       /\ at' \in [fn : {Len(M)}, bb : 1..(Len(Newest.body) + 1), i : Nat \ {0}]
  BY <1>1, <1>4
<1>11. Behind'
  BY <1>4, <1>7, <1>10, BehindKept
<1>12. Ahead'
  <2>1. /\ Len(M') = Len(M) /\ M'[Len(M)].of = Newest.of
        /\ Len(M'[Len(M)].body) = Len(Newest.body) /\ M'[Len(M)].body[at.bb] = new
        /\ \A b \in 1..Len(Newest.body) : b # at.bb => M'[Len(M)].body[b] = Newest.body[b]
    BY <1>4, <1>7, SetBlockFacts
  <2>2. Linkage' = Linkage /\ LocationCounter' \in Nat
    BY <1>1, <1>2, <1>4 DEF Linkage
  <2>3. input'.mod.fns[M'[Len(M')].of].body = Original
    BY <1>1, <2>1 DEF Original
  <2>4. \A b \in (at'.bb + 1)..Len(Newest.body) : M'[Len(M)].body[b] = Original[b]
    <3> SUFFICES ASSUME NEW b \in (at'.bb + 1)..Len(Newest.body)
                 PROVE  M'[Len(M)].body[b] = Original[b]
      OBVIOUS
    <3>1. b \in (at.bb + 1)..Len(Newest.body) /\ b \in 1..Len(Newest.body) /\ b # at.bb
      BY <1>1, <1>10
    <3> QED BY <1>2, <2>1, <3>1
  <2>5. at'.i <= Len(new) + 1
    <3>1. at'.i = at.i + 2 /\ Len(new) = Len(Block) + 1 /\ at.i \in Nat /\ Len(Block) \in Nat
      BY <1>1, <1>7, <1>10
    <3> QED BY <3>1
  <2>6. \A n \in at'.i..Len(new) : new[n] \in Instruction
    <3>1. at'.i..Len(new) = (at.i + 2)..(Len(Block) + 1)
      BY <1>7, <1>10
    <3> QED BY <1>7, <3>1
  <2>7. Reported(input, new, at'.i - 1)
    <3>1. at'.i - 1 = at.i + 1
      BY <1>1, <1>10
    <3> QED BY <1>7, <3>1
  <2> QED BY <1>1, <1>10, <2>1, <2>2, <2>3, <2>4, <2>5, <2>6, <2>7 DEF Ahead
<1> QED BY <1>9, <1>11, <1>12 DEF PassInv

\* The address pass visits an instruction.
LEMMA InstructionStep == ASSUME PassInv, VisitInstruction PROVE PassInv'
<1>1. Visiting /\ input.pass = "address"
  BY DEF Visiting, VisitInstruction
<1>2. CASE at.i > Len(Block) /\ at' = [at EXCEPT !.bb = @ + 1, !.i = 1] /\ UNCHANGED <<M, LocationCounter>>
  BY <1>1, <1>2, BlockEnds
<1>3. CASE /\ at.i <= Len(Block) /\ (OutOfScope(Block[at.i]) \/ Block[at.i].op \notin MemoryOps)
           /\ at' = [at EXCEPT !.i = @ + 1] /\ UNCHANGED <<M, LocationCounter>>
  BY <1>1, <1>3, InstructionSkipped
<1>4. CASE /\ at.i <= Len(Block) /\ ~OutOfScope(Block[at.i]) /\ Block[at.i].op \in MemoryOps
           /\ InjectAddress(Block[at.i])
  BY <1>1, <1>4, InstructionReported
<1> QED BY <1>2, <1>3, <1>4 DEF VisitInstruction

-----------------------------------------------------------------------------
(* The theorems.                                                           *)

\* Every step of a pass - linking, reading the scope, cloning, inserting a
\* call - preserves the invariant, for any module and scope.
THEOREM PassInductive == PassInv /\ [Next]_vars => PassInv'
<1> SUFFICES ASSUME PassInv, [Next]_vars PROVE PassInv'
  OBVIOUS
<1>1. CASE validateAMDGPUTarget
  BY <1>1, TargetStep
<1>2. CASE loadAndLinkBitcode
  BY <1>2, LinkStep
<1>3. CASE InstrumentationScope
  BY <1>3, ScopeStep
<1>4. CASE collectGPUKernels
  BY <1>4, CollectStep
<1>5. CASE cloneKernelWithExtraArg
  BY <1>5, CloneStep
<1>6. CASE KernelDone
  BY <1>6, KernelDoneStep
<1>7. CASE Return
  BY <1>7, ReturnStep
<1>8. CASE VisitInstruction
  BY <1>8, InstructionStep
<1>9. CASE VisitBlockStart
  BY <1>9, BlockStartStep
<1>10. CASE VisitBlockInterval
  BY <1>10, BlockIntervalStep
<1>11. CASE Done \/ UNCHANGED vars
  <2>1. UNCHANGED vars
    BY <1>11 DEF Done
  <2>2. Layout'
    BY <2>1 DEF vars, PassInv, Layout, Originals, Linkage
  <2>3. ClonedOnce' /\ ScopeRead'
    BY <2>1 DEF vars, PassInv, ClonedOnce, ScopeRead, Linkage, Linked, parseFileOK
  <2>4. Ahead'
    BY <2>1 DEF vars, PassInv, Ahead, Linkage
  <2>5. Behind'
    BY <2>1 DEF vars, PassInv, Behind, Linkage
  <2> QED BY <2>2, <2>3, <2>4, <2>5 DEF PassInv
<1> QED BY <1>1, <1>2, <1>3, <1>4, <1>5, <1>6, <1>7, <1>8, <1>9, <1>10, <1>11 DEF Next

\* The invariant holds throughout every pass.
THEOREM PassInvariance == Spec => []PassInv
<1>1. Init => PassInv
  BY InitPass
<1>2. PassInv /\ [Next]_vars => PassInv'
  BY PassInductive
<1> QED BY <1>1, <1>2, PTL DEF Spec

\* The functions that are clones are those behind the device library.
LEMMA ClonesBehindLibrary ==
    ASSUME PassInv
    PROVE  Clones = (Linkage + 1)..Len(M)
<1>1. /\ input \in Inputs /\ M \in Seq(Fn) /\ Len(M) >= Len(input.mod.fns)
      /\ \A n \in 1..Len(input.mod.fns) : M[n] = input.mod.fns[n]
      /\ Len(M) >= Linkage => M[Linkage] = DeviceLibrary
      /\ \A c \in (Linkage + 1)..Len(M) : IsCloneOf(M[c], input.mod.fns)
  BY DEF PassInv, Layout, Originals
<1>2. /\ Len(input.mod.fns) \in Nat /\ Len(M) \in Nat /\ Linkage = Len(input.mod.fns) + 1
      /\ \A n \in 1..Len(input.mod.fns) : input.mod.fns[n].of = 0
  BY <1>1, InputFacts DEF Linkage
<1>3. \A c \in (Linkage + 1)..Len(M) : c \in 1..Len(M) /\ M[c].of # 0
  BY <1>1, <1>2 DEF IsCloneOf, KernelsOf
<1>4. ASSUME NEW n \in 1..Len(M), n \notin (Linkage + 1)..Len(M) PROVE M[n].of = 0
  <2>1. CASE n = Linkage
    BY <1>1, <1>2, <1>4, <2>1 DEF DeviceLibrary
  <2>2. CASE n # Linkage
    BY <1>1, <1>2, <1>4, <2>2
  <2> QED BY <2>1, <2>2
<1> QED BY <1>3, <1>4 DEF Clones

\* Cloning and inserting calls (cloneKernelWithExtraArg, runOnModule) leave the
\* application's code alone: a clone without the calls is its kernel.
THEOREM ClonesAlwaysFaithful == Spec => []ClonesFaithful
<1>1. ASSUME PassInv PROVE ClonesFaithful
  <2>1. Clones = (Linkage + 1)..Len(M)
    BY <1>1, ClonesBehindLibrary
  <2>2. /\ \A n \in Originals : M[n] = input.mod.fns[n]
        /\ \A c \in (Linkage + 1)..Len(M) : IsCloneOf(M[c], input.mod.fns)
    BY <1>1 DEF PassInv, Layout
  <2>3. \A c \in Clones :
           /\ M[c].of \in Originals /\ M[M[c].of] = input.mod.fns[M[c].of]
           /\ input.mod.fns[M[c].of].cc = "kernel"
    BY <2>1, <2>2 DEF IsCloneOf, KernelsOf, Originals
  <2>4. \A n \in Clones : /\ M[n].of \in Originals /\ M[M[n].of].cc = "kernel"
                          /\ Len(M[n].body) = Len(M[M[n].of].body)
                          /\ \A b \in 1..Len(M[n].body) : SameCode(M[n].body[b], M[M[n].of].body[b])
    BY <2>1, <2>2, <2>3 DEF IsCloneOf
  <2>5. \A m, n \in Clones : M[m].of = M[n].of => m = n
    BY <1>1, <2>1 DEF PassInv, ClonedOnce
  <2>6. ASSUME Linked, NEW n \in Originals, M[n].cc = "kernel" PROVE \E c \in Clones : M[c].of = n
    <3>1. n \in KernelsOf(input.mod.fns)
      BY <2>2, <2>6 DEF KernelsOf, Originals
    <3>2. GpuKernels = {}
      BY <1>1, <2>6 DEF PassInv, ClonedOnce, Linked
    <3> QED BY <1>1, <2>1, <2>6, <3>1, <3>2 DEF PassInv, ClonedOnce
  <2> QED BY <2>2, <2>4, <2>5, <2>6 DEF ClonesFaithful
<1> QED BY <1>1, PassInvariance, PTL

\* When a pass has ended, all blocks of all clones are as they should be.
LEMMA AllBlocksDone ==
    ASSUME PassInv, pc = "done", NEW c \in Clones, NEW b \in 1..Len(M[c].body)
    PROVE  BlockDone(input, M[c].body[b], b)
<1>1. c \in (Linkage + 1)..Len(M)
  BY ClonesBehindLibrary
<1> QED BY <1>1 DEF PassInv, Behind

\* The address pass reports exactly the accesses the scope selects, however
\* many definitions there are and wherever one has an error.
THEOREM ReportsAlwaysFollowScope == Spec => []ReportsFollowScope
<1>1. PassInv => ReportsFollowScope
  BY AllBlocksDone DEF ReportsFollowScope, BlockDone
<1> QED BY <1>1, PassInvariance, PTL

\* Each block's message has the number of its block (LocationCounter, bbIndex).
THEOREM BlocksAlwaysNumbered == Spec => []BlocksNumbered
<1>1. PassInv => BlocksNumbered
  BY AllBlocksDone DEF BlocksNumbered, BlockDone
<1> QED BY <1>1, PassInvariance, PTL

\* Timed blocks are bracketed by their clock reads (AMDGCNSubmitBBInterval).
THEOREM IntervalsAlwaysBracket == Spec => []IntervalsBracket
<1>1. PassInv => IntervalsBracket
  BY AllBlocksDone DEF IntervalsBracket, BlockDone
<1> QED BY <1>1, PassInvariance, PTL
=============================================================================
