---------------------------- MODULE StackProofs ----------------------------
(***************************************************************************)
(* A stack on a node_allocator on a free_list, all three in the same       *)
(* blocks, is a stack, leaks nothing and hands out no block twice.         *)
(*                                                                         *)
(* The free list's nodes lie in blocks that are free themselves. The       *)
(* invariant names the two chains that the links describe: the list        *)
(* nodes, which with their entries are exactly the free blocks, and the    *)
(* nodes of the stack, which are in use. A walk along links that rise      *)
(* from an end is finite and finds each node once (Rises); contents and    *)
(* counters are then functions of the chain.                               *)
(***************************************************************************)
EXTENDS Stack, FiniteSetTheorems, SequenceTheorems, WellFoundedInduction, TLAPS

-----------------------------------------------------------------------------
(* Numbers.                                                                *)

\* A set of natural numbers that is not empty has a least element.
LEMMA LeastNumber ==
  ASSUME NEW T \in SUBSET Nat, T # {}
  PROVE  \E m \in T : \A k \in T : m <= k
<1> DEFINE R == OpToRel(<, Nat)
<1>1. IsWellFoundedOn(R, Nat) BY NatLessThanWellFounded
<1>2. PICK m \in T : \A k \in T : ~(<<k, m>> \in R)
  <2> HIDE DEF R
  <2> QED BY <1>1, WFMin
<1>3. \A k \in T : ~(k < m) BY <1>2 DEF OpToRel
<1>4. QED BY <1>3

\* Induction, for the numbers that are in a set.
LEMMA Induction ==
  ASSUME NEW S, 0 \in S, \A n \in Nat : n \in S => n + 1 \in S
  PROVE  \A n \in Nat : n \in S
<1> SUFFICES ASSUME NEW n \in Nat, n \notin S PROVE FALSE OBVIOUS
<1> DEFINE T == { k \in Nat : k \notin S }
<1>1. PICK m \in T : \A k \in T : m <= k BY LeastNumber
<1>2. m # 0 BY <1>1
<1>3. m - 1 \in Nat /\ m - 1 \in S BY <1>1, <1>2
<1>4. QED BY <1>1, <1>3

-----------------------------------------------------------------------------
(* Walks along links.                                                      *)

Links == Blocks \cup {None}

\* Linked, for any contents f of the blocks.
LinkedIn(f, b) ==
  LET walk[k \in 0 .. MaxBlocks] ==
        [n \in Blocks \cup {None} |->
           IF k = 0 \/ n = None THEN << >> ELSE <<n>> \o walk[k - 1][f[n].link]]
  IN  walk[MaxBlocks][b]

\* c is the list that starts at b, from its end to b.
Rises(f, b, c) ==
  /\ c \in Seq(Blocks)
  /\ b = IF c = << >> THEN None ELSE c[Len(c)]
  /\ \A k \in 1 .. Len(c) : f[c[k]].link = IF k = 1 THEN None ELSE c[k - 1]
  /\ \A i, j \in 1 .. Len(c) : c[i] = c[j] => i = j

\* A list that meets no block twice is not longer than there are blocks.
LEMMA ChainLength ==
  ASSUME NEW c \in Seq(Blocks), \A i, j \in 1 .. Len(c) : c[i] = c[j] => i = j
  PROVE  Len(c) \in 0 .. MaxBlocks
<1>1. MaxBlocks \in Nat BY FreeListAssumption
<1>2. 0 \in Int /\ MaxBlocks - 1 \in Int BY <1>1
<1>3. IsFiniteSet(Blocks) /\ Cardinality(Blocks) = MaxBlocks
  BY <1>1, <1>2, FS_Interval DEF Blocks
<1>4. Len(c) \in Nat /\ c \in [1 .. Len(c) -> Blocks] /\ DOMAIN c = 1 .. Len(c) BY LenProperties
<1>5. c \in Injection(1 .. Len(c), Blocks) BY <1>4 DEF Injection, IsInjective
<1>6. Cardinality(1 .. Len(c)) <= Cardinality(Blocks) BY <1>3, <1>5, FS_Injection
<1>7. Cardinality(1 .. Len(c)) = Len(c)
  <2>1. 1 \in Int /\ Len(c) \in Int BY <1>4
  <2>2. Cardinality(1 .. Len(c)) = IF 1 > Len(c) THEN 0 ELSE Len(c) - 1 + 1 BY <2>1, FS_Interval
  <2>3. QED BY <1>4, <2>2
<1>8. QED BY <1>1, <1>3, <1>4, <1>6, <1>7

\* The walk is what its recursive definition says.
LEMMA WalkDefined ==
  ASSUME NEW f, NEW b
  PROVE  \E w : /\ LinkedIn(f, b) = w[MaxBlocks][b]
                /\ \A k \in 0 .. MaxBlocks, n \in Links :
                     w[k][n] = IF k = 0 \/ n = None THEN << >> ELSE <<n>> \o w[k - 1][f[n].link]
<1> DEFINE Row(k, r) == [n \in Links |-> IF k = 0 \/ n = None THEN << >> ELSE <<n>> \o r[f[n].link]]
           W(h, m) == h = [k \in 0 .. m |-> Row(k, h[k - 1])]
           T == { m \in Nat : \E h : W(h, m) }
<1>0. \A r, s : Row(0, r) = Row(0, s) OBVIOUS
<1> HIDE DEF Row
<1>1. 0 \in T
  <2> DEFINE g == [k \in 0 .. 0 |-> Row(0, 0)]
  <2>1. \A k \in 0 .. 0 : Row(0, 0) = Row(k, g[k - 1]) BY <1>0
  <2>2. W(g, 0) BY <2>1
  <2> HIDE DEF g
  <2>3. QED BY <2>2
<1>2. ASSUME NEW m \in Nat, m \in T PROVE m + 1 \in T
  <2>1. PICK h : W(h, m) BY <1>2
  <2> DEFINE g == [k \in 0 .. m + 1 |-> Row(k, h[k - 1])]
  <2>2. ASSUME NEW k \in 0 .. m PROVE g[k] = h[k]
    <3>1. k \in 0 .. m + 1 OBVIOUS
    <3>2. h[k] = Row(k, h[k - 1]) BY <2>1
    <3>3. QED BY <3>1, <3>2
  <2>3. ASSUME NEW k \in 0 .. m + 1 PROVE Row(k, h[k - 1]) = Row(k, g[k - 1])
    <3>1. CASE k = 0 BY <1>0, <3>1
    <3>2. CASE k # 0
      <4>1. k - 1 \in 0 .. m BY <3>2
      <4>2. QED BY <2>2, <4>1
    <3>3. QED BY <3>1, <3>2
  <2>4. W(g, m + 1) BY <2>3
  <2> HIDE DEF g, W
  <2>5. QED BY <2>4
<1> HIDE DEF T
<1>3. MaxBlocks \in T BY <1>1, <1>2, Induction, FreeListAssumption
<1>4. PICK h : W(h, MaxBlocks) BY <1>3 DEF T
<1> DEFINE w == CHOOSE g : W(g, MaxBlocks)
<1>5. W(w, MaxBlocks)
  <2> HIDE DEF W
  <2> QED BY <1>4
<1>6. LinkedIn(f, b) = w[MaxBlocks][b] BY DEF LinkedIn, Links, Row
<1> HIDE DEF w
<1>7. \A k \in 0 .. MaxBlocks : w[k] = Row(k, w[k - 1]) BY <1>5
<1> HIDE DEF W
<1>8. ASSUME NEW k \in 0 .. MaxBlocks, NEW n \in Links
      PROVE  w[k][n] = IF k = 0 \/ n = None THEN << >> ELSE <<n>> \o w[k - 1][f[n].link]
  BY <1>7 DEF Row
<1>9. QED BY <1>6, <1>8

\* Linked follows the list, from its start to its end.
LEMMA LinkedIs ==
  ASSUME NEW f, NEW b, NEW c, Rises(f, b, c)
  PROVE  LinkedIn(f, b) = Reverse(c)
<1> DEFINE At(i) == IF i = 0 THEN None ELSE c[i]
           Down(i) == [j \in 1 .. i |-> c[(i - j) + 1]]
<1>1. PICK w : /\ LinkedIn(f, b) = w[MaxBlocks][b]
               /\ \A k \in 0 .. MaxBlocks, n \in Links :
                    w[k][n] = IF k = 0 \/ n = None THEN << >> ELSE <<n>> \o w[k - 1][f[n].link]
  BY WalkDefined
<1>2. c \in Seq(Blocks) /\ Len(c) \in Nat BY DEF Rises
<1>3. Len(c) \in 0 .. MaxBlocks BY ChainLength DEF Rises
<1>4. b = At(Len(c)) BY <1>2 DEF Rises
<1> DEFINE T == { i \in Nat : \A k \in 0 .. MaxBlocks : i <= Len(c) /\ i <= k => w[k][At(i)] = Down(i) }
<1>5. 0 \in T
  <2>1. ASSUME NEW k \in 0 .. MaxBlocks PROVE w[k][None] = << >> BY <1>1 DEF Links
  <2>2. Down(0) = << >> OBVIOUS
  <2>3. QED BY <2>1, <2>2
<1>6. ASSUME NEW i \in Nat, i \in T PROVE i + 1 \in T
  <2>1. SUFFICES ASSUME NEW k \in 0 .. MaxBlocks, i + 1 <= Len(c), i + 1 <= k
                 PROVE  w[k][At(i + 1)] = Down(i + 1)
    OBVIOUS
  <2>2. At(i + 1) = c[i + 1] /\ c[i + 1] \in Blocks BY <1>2, <2>1
  <2>3. c[i + 1] # None BY <2>2, FreeListAssumption DEF Blocks
  <2>4. f[c[i + 1]].link = At(i)
    <3>1. i + 1 \in 1 .. Len(c) BY <1>2, <2>1
    <3>2. f[c[i + 1]].link = IF i + 1 = 1 THEN None ELSE c[(i + 1) - 1] BY <3>1 DEF Rises
    <3>3. QED BY <3>2
  <2>5. w[k][c[i + 1]] = <<c[i + 1]>> \o w[k - 1][At(i)]
    <3>1. k # 0 /\ c[i + 1] \in Links BY <2>1, <2>2 DEF Links
    <3>2. QED BY <1>1, <2>3, <2>4, <3>1
  <2>6. w[k - 1][At(i)] = Down(i)
    <3>1. k - 1 \in 0 .. MaxBlocks /\ i <= Len(c) /\ i <= k - 1 BY <1>2, <2>1, FreeListAssumption
    <3>2. QED BY <1>6, <3>1
  <2>7. <<c[i + 1]>> \o Down(i) = Down(i + 1)
    <3>1. Down(i) \in Seq(Blocks) BY <1>2, <2>1
    <3>2. Down(i + 1) \in Seq(Blocks) BY <1>2, <2>1
    <3>3. <<c[i + 1]>> \in Seq(Blocks) BY <2>2
    <3>4. QED BY <3>1, <3>2, <3>3
  <2>8. QED BY <2>2, <2>5, <2>6, <2>7
<1> HIDE DEF T
<1>7. Len(c) \in T BY <1>2, <1>5, <1>6, Induction
<1>8. w[MaxBlocks][At(Len(c))] = Down(Len(c)) BY <1>2, <1>3, <1>7, FreeListAssumption DEF T
<1>9. QED BY <1>1, <1>4, <1>8 DEF Reverse

-----------------------------------------------------------------------------
(* Sequences of sequences.                                                 *)

\* FlattenSeq concatenates one sequence after the other.
LEMMA FlattenSteps ==
  ASSUME NEW S, NEW ss \in Seq(Seq(S))
  PROVE  \E h : /\ h[0] = << >>
                /\ \A i \in 1 .. Len(ss) : h[i] = h[i - 1] \o ss[i]
                /\ \A i \in 0 .. Len(ss) : h[i] \in Seq(S)
                /\ FlattenSeq(ss) = h[Len(ss)]
<1> DEFINE n == Len(ss)
           Step(i, p) == IF i = 1 THEN ss[i] ELSE p \o ss[i]
           F(h, m) == h = [i \in 1 .. m |-> Step(i, h[i - 1])]
           T == { m \in Nat : \E h : F(h, m) }
<1>1. n \in Nat /\ \A i \in 1 .. n : ss[i] \in Seq(S) OBVIOUS
<1> HIDE DEF n
<1>2. \A p, q : Step(1, p) = Step(1, q) OBVIOUS
<1> HIDE DEF Step
<1>3. 0 \in T
  <2>1. F([i \in 1 .. 0 |-> 0], 0) OBVIOUS
  <2>2. QED BY <2>1
<1>4. ASSUME NEW m \in Nat, m \in T PROVE m + 1 \in T
  <2>1. PICK h : F(h, m) BY <1>4
  <2> DEFINE g == [i \in 1 .. m + 1 |-> Step(i, h[i - 1])]
  <2>2. ASSUME NEW i \in 1 .. m PROVE g[i] = h[i]
    <3>1. i \in 1 .. m + 1 OBVIOUS
    <3>2. h[i] = Step(i, h[i - 1]) BY <2>1
    <3>3. QED BY <3>1, <3>2
  <2>3. ASSUME NEW i \in 1 .. m + 1 PROVE Step(i, h[i - 1]) = Step(i, g[i - 1])
    <3>1. CASE i = 1 BY <1>2, <3>1
    <3>2. CASE i # 1
      <4>1. i - 1 \in 1 .. m BY <3>2
      <4>2. QED BY <2>2, <4>1
    <3>3. QED BY <3>1, <3>2
  <2>4. F(g, m + 1) BY <2>3
  <2> HIDE DEF g, F
  <2>5. QED BY <2>4
<1> HIDE DEF T
<1>5. n \in T BY <1>1, <1>3, <1>4, Induction
<1>6. PICK g : F(g, n) BY <1>5 DEF T
<1> DEFINE w == CHOOSE h : F(h, n)
<1>7. F(w, n)
  <2> HIDE DEF F
  <2> QED BY <1>6
<1>8. n # 0 => FlattenSeq(ss) = w[n] BY DEF FlattenSeq, n, Step
<1>9. n = 0 => FlattenSeq(ss) = << >>
  <2>1. FlattenSeq(ss) = IF n = 0 THEN ss ELSE w[n] BY DEF FlattenSeq, n, Step
  <2>2. QED BY <2>1 DEF n
<1> HIDE DEF w
<1>10. \A i \in 1 .. n : w[i] = Step(i, w[i - 1]) BY <1>7
<1> DEFINE h == [i \in 0 .. n |-> IF i = 0 THEN << >> ELSE w[i]]
<1>11. h[0] = << >> BY <1>1
<1>12. ASSUME NEW i \in 1 .. n PROVE h[i] = h[i - 1] \o ss[i]
  <2>1. h[i] = Step(i, w[i - 1]) BY <1>1, <1>10
  <2>2. CASE i = 1
    <3>1. h[i - 1] = << >> BY <1>1, <2>2
    <3>2. h[i] = ss[i] BY <2>1, <2>2 DEF Step
    <3>3. << >> \o ss[i] = ss[i] BY <1>1, ConcatEmptySeq
    <3>4. QED BY <3>1, <3>2, <3>3
  <2>3. CASE i # 1
    <3>1. i - 1 \in 0 .. n /\ i - 1 # 0 BY <1>1, <2>3
    <3>2. h[i - 1] = w[i - 1] BY <3>1
    <3>3. QED BY <2>1, <2>3, <3>2 DEF Step
  <2>4. QED BY <2>2, <2>3
<1>13. FlattenSeq(ss) = h[n] BY <1>1, <1>8, <1>9
<1> HIDE DEF h, F
<1> DEFINE U == { i \in Nat : i <= n => h[i] \in Seq(S) }
<1>14. 0 \in U
  <2>1. << >> \in Seq(S) OBVIOUS
  <2>2. QED BY <1>11, <2>1
<1>15. ASSUME NEW i \in Nat, i \in U PROVE i + 1 \in U
  <2>1. SUFFICES ASSUME i + 1 <= n PROVE h[i + 1] \in Seq(S) OBVIOUS
  <2>2. i + 1 \in 1 .. n /\ (i + 1) - 1 = i /\ h[i] \in Seq(S) BY <1>1, <1>15, <2>1
  <2>3. h[i + 1] = h[i] \o ss[i + 1] BY <1>12, <2>2
  <2>4. QED BY <1>1, <2>2, <2>3
<1> HIDE DEF U
<1>16. \A i \in Nat : i \in U BY <1>14, <1>15, Induction
<1>17. \A i \in 0 .. n : h[i] \in Seq(S) BY <1>1, <1>16 DEF U
<1>18. QED BY <1>11, <1>12, <1>13, <1>17 DEF n

\* Without sequences there is nothing; one more is put behind the others.
LEMMA FlattenAppend ==
  ASSUME NEW S, NEW ss \in Seq(Seq(S)), NEW s \in Seq(S)
  PROVE  /\ FlattenSeq(Append(ss, s)) = FlattenSeq(ss) \o s
         /\ FlattenSeq(ss) \in Seq(S)
<1> DEFINE n == Len(ss)
           tt == Append(ss, s)
<1>1. n \in Nat /\ tt \in Seq(Seq(S)) /\ Len(tt) = n + 1 /\ tt[n + 1] = s
  BY AppendProperties
<1>2. \A i \in 1 .. n : tt[i] = ss[i] BY AppendProperties
<1> HIDE DEF tt, n
<1>3. PICK h : /\ h[0] = << >>
               /\ \A i \in 1 .. n : h[i] = h[i - 1] \o ss[i]
               /\ \A i \in 0 .. n : h[i] \in Seq(S)
               /\ FlattenSeq(ss) = h[n]
  BY FlattenSteps DEF n
<1>4. PICK g : /\ g[0] = << >>
               /\ \A i \in 1 .. n + 1 : g[i] = g[i - 1] \o tt[i]
               /\ FlattenSeq(tt) = g[n + 1]
  <2>1. PICK g : /\ g[0] = << >>
                 /\ \A i \in 1 .. Len(tt) : g[i] = g[i - 1] \o tt[i]
                 /\ FlattenSeq(tt) = g[Len(tt)]
    BY <1>1, FlattenSteps
  <2>2. QED BY <1>1, <2>1
<1> DEFINE T == { i \in Nat : i <= n => g[i] = h[i] }
<1>5. 0 \in T BY <1>3, <1>4
<1>6. ASSUME NEW i \in Nat, i \in T PROVE i + 1 \in T
  <2>1. SUFFICES ASSUME i + 1 <= n PROVE g[i + 1] = h[i + 1] OBVIOUS
  <2>2. i + 1 \in 1 .. n /\ i + 1 \in 1 .. n + 1 /\ (i + 1) - 1 = i /\ g[i] = h[i]
    BY <1>1, <1>6, <2>1
  <2>3. h[i + 1] = h[i] \o ss[i + 1] BY <1>3, <2>2
  <2>4. g[i + 1] = g[i] \o tt[i + 1] BY <1>4, <2>2
  <2>5. QED BY <1>2, <2>2, <2>3, <2>4
<1> HIDE DEF T
<1>7. n \in T BY <1>1, <1>5, <1>6, Induction
<1>8. g[n] = h[n] BY <1>1, <1>7 DEF T
<1>9. g[n + 1] = g[n] \o tt[n + 1]
  <2>1. n + 1 \in 1 .. n + 1 /\ (n + 1) - 1 = n BY <1>1
  <2>2. QED BY <1>4, <2>1
<1>10. FlattenSeq(ss) \in Seq(S) BY <1>1, <1>3
<1>11. QED BY <1>1, <1>3, <1>4, <1>8, <1>9, <1>10 DEF tt

-----------------------------------------------------------------------------
(* Several blocks pushed in turn.                                          *)

\* The largest of the first numbers that are in a set.
LEMMA MaxOfSubset ==
  ASSUME NEW m \in Nat, NEW s \in SUBSET (1 .. m + 1)
  PROVE  /\ m + 1 \in s => Max(s) = m + 1
         /\ m + 1 \notin s => s \in SUBSET (1 .. m)
<1>1. ASSUME m + 1 \in s PROVE Max(s) = m + 1
  <2>1. m + 1 \in s /\ \A y \in s : m + 1 >= y BY <1>1
  <2>2. Max(s) \in s /\ \A y \in s : Max(s) >= y BY <2>1 DEF Max
  <2>3. Max(s) \in 1 .. m + 1 BY <2>2
  <2> HIDE DEF Max
  <2>4. Max(s) >= m + 1 BY <2>1, <2>2
  <2>5. QED BY <2>3, <2>4
<1>2. QED BY <1>1

\* PushAll pushes the blocks one by one, from the first to the last.
LEMMA PushAllSteps ==
  ASSUME NEW list, NEW blocks \in Seq(Blocks)
  PROVE  \E h : /\ h[0] = list
                /\ \A k \in 1 .. Len(blocks) : h[k] = Push(h[k - 1], blocks[k])
                /\ PushAll(list, blocks) = h[Len(blocks)]
<1> DEFINE n == Len(blocks)
           Step(x, p) == Push(p, blocks[x])
           Iter(g, D) == g = [s \in SUBSET D |->
                               IF s = {} THEN list ELSE Step(Max(s), g[s \ {Max(s)}])]
           T == { m \in Nat : \E g : Iter(g, 1 .. m) }
<1>1. n \in Nat /\ DOMAIN blocks = 1 .. n OBVIOUS
<1> HIDE DEF n, Step
<1>2. 0 \in T
  <2> DEFINE g == [s \in SUBSET (1 .. 0) |-> list]
  <2>1. 1 .. 0 = {} OBVIOUS
  <2>2. Iter(g, 1 .. 0) BY <2>1
  <2> HIDE DEF g, Iter
  <2>3. QED BY <2>2
<1>3. ASSUME NEW m \in Nat, m \in T PROVE m + 1 \in T
  <2>1. PICK h : Iter(h, 1 .. m) BY <1>3
  <2> DEFINE Val(q, s) == IF s = {} THEN list ELSE Step(Max(s), q[s \ {Max(s)}])
             g == [s \in SUBSET (1 .. m + 1) |-> Val(h, s)]
  <2>2. ASSUME NEW s \in SUBSET (1 .. m) PROVE g[s] = h[s]
    <3>1. s \in SUBSET (1 .. m + 1) OBVIOUS
    <3>2. h[s] = Val(h, s) BY <2>1
    <3> HIDE DEF Val
    <3>3. QED BY <3>1, <3>2
  <2>3. ASSUME NEW s \in SUBSET (1 .. m + 1) PROVE Val(h, s) = Val(g, s)
    <3>1. CASE s = {} BY <3>1
    <3>2. CASE s # {}
      <4>1. s \ {Max(s)} \in SUBSET (1 .. m)
        <5>1. CASE m + 1 \in s
          <6>1. Max(s) = m + 1 BY <5>1, MaxOfSubset
          <6>2. QED BY <6>1
        <5>2. CASE m + 1 \notin s
          <6>1. s \in SUBSET (1 .. m) BY <5>2, MaxOfSubset
          <6>2. QED BY <6>1
        <5>3. QED BY <5>1, <5>2
      <4>2. h[s \ {Max(s)}] = g[s \ {Max(s)}] BY <2>2, <4>1
      <4> HIDE DEF g
      <4>3. QED BY <4>2
    <3>3. QED BY <3>1, <3>2
  <2> HIDE DEF Val
  <2>4. g = [s \in SUBSET (1 .. m + 1) |-> Val(g, s)] BY <2>3
  <2>5. Iter(g, 1 .. m + 1)
    <3> HIDE DEF g
    <3> QED BY <2>4 DEF Val
  <2> HIDE DEF g, Iter
  <2>6. QED BY <2>5
<1> HIDE DEF T
<1>4. n \in T BY <1>1, <1>2, <1>3, Induction
<1>5. PICK g0 : Iter(g0, 1 .. n) BY <1>4 DEF T
<1> DEFINE g == CHOOSE q : Iter(q, 1 .. n)
<1>6. Iter(g, 1 .. n)
  <2> HIDE DEF Iter
  <2> QED BY <1>5
<1>7. PushAll(list, blocks) = g[1 .. n] BY <1>1 DEF PushAll, FoldLeft, MapThenFoldSet, Step
<1> HIDE DEF g
<1> DEFINE h == [k \in 0 .. n |-> g[1 .. k]]
<1>8. h[0] = list
  <2>1. 1 .. 0 = {} /\ {} \in SUBSET (1 .. n) OBVIOUS
  <2>2. QED BY <1>1, <1>6, <2>1
<1>9. ASSUME NEW k \in 1 .. n PROVE h[k] = Push(h[k - 1], blocks[k])
  <2>1. 1 .. k \in SUBSET (1 .. n) /\ 1 .. k # {} BY <1>1
  <2>2. Max(1 .. k) = k
    <3>1. k - 1 \in Nat /\ 1 .. k \in SUBSET (1 .. (k - 1) + 1) /\ (k - 1) + 1 \in 1 .. k BY <1>1
    <3>2. Max(1 .. k) = (k - 1) + 1 BY <3>1, MaxOfSubset
    <3>3. QED BY <1>1, <3>2
  <2>3. (1 .. k) \ {k} = 1 .. k - 1 BY <1>1
  <2>4. g[1 .. k] = Step(Max(1 .. k), g[(1 .. k) \ {Max(1 .. k)}]) BY <1>6, <2>1
  <2>5. g[1 .. k] = Step(k, g[1 .. k - 1]) BY <2>2, <2>3, <2>4
  <2>6. h[k] = g[1 .. k] /\ h[k - 1] = g[1 .. k - 1] BY <1>1
  <2>7. QED BY <2>5, <2>6 DEF Step
<1>10. PushAll(list, blocks) = h[n] BY <1>1, <1>7
<1> HIDE DEF h
<1>11. QED BY <1>8, <1>9, <1>10 DEF n

-----------------------------------------------------------------------------
(* The free list.                                                          *)

Nodes == [link : Links, values : Seq(Values \cup Blocks)]

Lists == [head : Links, node : [Blocks -> Nodes]]

\* The nodes d of a list, from its end to its head, and what they name (V): only the
\* head has room,
Filled(d, V) ==
  \A k \in 1 .. Len(d) : Len(V[k]) <= BlockCapacity /\ (k < Len(d) => Len(V[k]) = BlockCapacity)

\* no block is in two places,
Once(d) == \A k, j \in 1 .. Len(d) : d[k] = d[j] => k = j

NamedOnce(d, V) ==
  \A k, j \in 1 .. Len(d) : \A x \in 1 .. Len(V[k]), y \in 1 .. Len(V[j]) :
    V[k][x] = V[j][y] => k = j /\ x = y

NoNodeNamed(d, V) == \A k, j \in 1 .. Len(d) : \A x \in 1 .. Len(V[k]) : V[k][x] # d[j]

\* and all of the blocks F are there.
Covers(d, V, F) ==
  \A b \in F : \/ \E k \in 1 .. Len(d) : b = d[k]
               \/ \E k \in 1 .. Len(d) : \E x \in 1 .. Len(V[k]) : b = V[k][x]

Tidy(d, V, F) ==
  /\ F \subseteq Blocks /\ d \in Seq(F) /\ V \in Seq(Seq(F)) /\ Len(V) = Len(d)
  /\ Filled(d, V) /\ Once(d) /\ NamedOnce(d, V) /\ NoNodeNamed(d, V) /\ Covers(d, V, F)

ValuesOf(f, d) == [k \in 1 .. Len(d) |-> f[d[k]].values]

\* The list has the blocks F.
Holds(list, F) ==
  \E d : Rises(list.node, list.head, d) /\ Tidy(d, ValuesOf(list.node, d), F)

\* The two lists differ in what the blocks F hold only.
SameBut(list1, list2, F) == \A x \in Blocks \ F : list1.node[x] = list2.node[x]

\* A block is pushed as an entry of the head.
LEMMA TidyPushEntry ==
  ASSUME NEW d, NEW V, NEW F, Tidy(d, V, F), NEW b \in Blocks \ F,
         NEW n \in Nat, n = Len(d), n # 0, Len(V[n]) < BlockCapacity
  PROVE  Tidy(d, [V EXCEPT ![n] = Append(@, b)], F \cup {b})
<1> DEFINE G == F \cup {b}
           U == [V EXCEPT ![n] = Append(@, b)]
           m == Len(V[n])
<1>1. /\ F \subseteq Blocks /\ d \in Seq(F) /\ V \in Seq(Seq(F)) /\ Len(V) = n
      /\ \A k \in 1 .. n : V[k] \in Seq(F) /\ d[k] \in F
  BY DEF Tidy
<1>2. n \in 1 .. n /\ m \in Nat /\ V[n] \in Seq(G) /\ b \in G
  <2>1. n \in 1 .. n OBVIOUS
  <2>2. V[n] \in Seq(F) BY <1>1, <2>1
  <2>3. F \subseteq G OBVIOUS
  <2>4. V[n] \in Seq(G) BY <2>2, <2>3, SeqMonotonic
  <2>5. QED BY <2>1, <2>2, <2>4
<1>3. G \subseteq Blocks /\ d \in Seq(G) /\ V \in Seq(Seq(G))
  <2>1. F \subseteq G OBVIOUS
  <2>2. d \in Seq(G) BY <1>1, <2>1, SeqMonotonic
  <2>3. \A s \in Seq(F) : s \in Seq(G) BY <2>1, SeqMonotonic
  <2>4. Seq(F) \subseteq Seq(G) BY <2>3
  <2>5. V \in Seq(Seq(G)) BY <1>1, <2>4, SeqMonotonic
  <2>6. QED BY <1>1, <2>2, <2>5
<1>4. /\ Append(V[n], b) \in Seq(G)
      /\ Len(Append(V[n], b)) = m + 1
      /\ \A x \in 1 .. m : Append(V[n], b)[x] = V[n][x]
      /\ Append(V[n], b)[m + 1] = b
  BY <1>2, AppendProperties
<1>5. /\ U \in Seq(Seq(G)) /\ Len(U) = n
      /\ \A k \in 1 .. n : U[k] = IF k = n THEN Append(V[n], b) ELSE V[k]
  <2>1. n \in 1 .. Len(V) BY <1>1, <1>2
  <2>2. QED BY <1>1, <1>3, <1>4, <2>1, ExceptSeq
<1> HIDE DEF U
<1>6. \A k \in 1 .. n : Len(U[k]) = IF k = n THEN m + 1 ELSE Len(V[k]) BY <1>4, <1>5
<1>7. ASSUME NEW k \in 1 .. n, NEW x \in 1 .. Len(U[k])
      PROVE  \/ x \in 1 .. Len(V[k]) /\ U[k][x] = V[k][x] /\ V[k][x] \in F
             \/ k = n /\ x = m + 1 /\ U[k][x] = b
  <2>1. V[k] \in Seq(F) /\ Len(V[k]) \in Nat BY <1>1
  <2>2. CASE k # n
    <3>1. U[k] = V[k] BY <1>5, <2>2
    <3>2. QED BY <2>1, <3>1
  <2>3. CASE k = n
    <3>1. U[k] = Append(V[n], b) /\ x \in 1 .. m + 1 BY <1>5, <1>6, <2>3
    <3>2. CASE x \in 1 .. m BY <1>4, <2>1, <2>3, <3>1, <3>2
    <3>3. CASE x \notin 1 .. m
      <4>1. x = m + 1 BY <1>2, <3>1, <3>3
      <4>2. QED BY <1>4, <2>3, <3>1, <4>1
    <3>4. QED BY <3>2, <3>3
  <2>4. QED BY <2>2, <2>3
<1>8. \A k \in 1 .. n : Len(U[k]) <= BlockCapacity /\ (k < n => Len(U[k]) = BlockCapacity)
  BY <1>2, <1>6, FreeListAssumption DEF Tidy, Filled
<1>9. ASSUME NEW k \in 1 .. n, NEW j \in 1 .. n, NEW x \in 1 .. Len(U[k]), NEW y \in 1 .. Len(U[j]),
             U[k][x] = U[j][y]
      PROVE  k = j /\ x = y
  <2>1. CASE x \in 1 .. Len(V[k]) /\ U[k][x] = V[k][x] /\ V[k][x] \in F
    <3>1. y \in 1 .. Len(V[j]) /\ U[j][y] = V[j][y] BY <1>7, <1>9, <2>1
    <3>2. V[k][x] = V[j][y] BY <1>9, <2>1, <3>1
    <3>3. QED BY <2>1, <3>1, <3>2 DEF Tidy, NamedOnce
  <2>2. CASE k = n /\ x = m + 1 /\ U[k][x] = b
    <3>1. U[j][y] = b /\ b \notin F BY <1>9, <2>2
    <3>2. j = n /\ y = m + 1 BY <1>7, <3>1
    <3>3. QED BY <2>2, <3>2
  <2>3. QED BY <1>7, <2>1, <2>2
<1>10. ASSUME NEW k \in 1 .. n, NEW j \in 1 .. n, NEW x \in 1 .. Len(U[k])
       PROVE  U[k][x] # d[j]
  <2>1. CASE x \in 1 .. Len(V[k]) /\ U[k][x] = V[k][x] BY <2>1 DEF Tidy, NoNodeNamed
  <2>2. CASE U[k][x] = b BY <1>1, <2>2
  <2>3. QED BY <1>7, <2>1, <2>2
<1>11. ASSUME NEW e \in G
       PROVE  \/ \E k \in 1 .. n : e = d[k]
              \/ \E k \in 1 .. n : \E x \in 1 .. Len(U[k]) : e = U[k][x]
  <2>1. CASE e = b
    <3>1. m + 1 \in 1 .. Len(U[n]) BY <1>2, <1>6
    <3>2. U[n][m + 1] = b BY <1>2, <1>4, <1>5
    <3>3. QED BY <1>2, <2>1, <3>1, <3>2
  <2>2. CASE e \in F /\ \E k \in 1 .. n : e = d[k] BY <2>2
  <2>3. CASE e \in F /\ \E k \in 1 .. n : \E x \in 1 .. Len(V[k]) : e = V[k][x]
    <3>1. PICK k \in 1 .. n : \E x \in 1 .. Len(V[k]) : e = V[k][x] BY <2>3
    <3>2. PICK x \in 1 .. Len(V[k]) : e = V[k][x] BY <3>1
    <3>3. x \in 1 .. Len(U[k]) /\ U[k][x] = V[k][x]
      <4>1. CASE k = n
        <5>1. x \in 1 .. m BY <4>1
        <5>2. x \in 1 .. m + 1 BY <1>2, <5>1
        <5>3. Len(U[k]) = m + 1 /\ U[k] = Append(V[n], b) BY <1>5, <1>6, <4>1
        <5>4. QED BY <1>4, <4>1, <5>1, <5>2, <5>3
      <4>2. CASE k # n BY <1>5, <4>2
      <4>3. QED BY <4>1, <4>2
    <3>4. QED BY <3>2, <3>3
  <2>4. QED BY <2>1, <2>2, <2>3 DEF Tidy, Covers
<1>12. Filled(d, U) /\ Once(d) BY <1>8 DEF Tidy, Filled
<1>13. NamedOnce(d, U) BY <1>9 DEF NamedOnce
<1>14. NoNodeNamed(d, U) BY <1>10 DEF NoNodeNamed
<1>15. Covers(d, U, G) BY <1>11 DEF Covers
<1>16. Tidy(d, U, G) BY <1>3, <1>5, <1>12, <1>13, <1>14, <1>15 DEF Tidy
<1>17. QED BY <1>16 DEF U

\* No two entries are the same block.
LEMMA NamedOnceAt ==
  ASSUME NEW d, NEW V, NamedOnce(d, V), NEW k \in 1 .. Len(d), NEW j \in 1 .. Len(d),
         NEW x \in 1 .. Len(V[k]), NEW y \in 1 .. Len(V[j]), V[k][x] = V[j][y]
  PROVE  k = j /\ x = y
BY Zenon DEF NamedOnce

\* A block is pushed as the new head.
LEMMA TidyPushNode ==
  ASSUME NEW d, NEW V, NEW F, Tidy(d, V, F), NEW b \in Blocks \ F,
         NEW n \in Nat, n = Len(d), n # 0 => Len(V[n]) >= BlockCapacity
  PROVE  Tidy(Append(d, b), Append(V, << >>), F \cup {b})
<1> DEFINE G == F \cup {b}
           U == Append(V, << >>)
           e == Append(d, b)
<1>1. /\ F \subseteq Blocks /\ d \in Seq(F) /\ V \in Seq(Seq(F)) /\ Len(V) = n
      /\ \A k \in 1 .. n : V[k] \in Seq(F) /\ Len(V[k]) \in Nat /\ d[k] \in F
  BY DEF Tidy
<1>2. G \subseteq Blocks /\ d \in Seq(G) /\ V \in Seq(Seq(G))
  <2>1. F \subseteq G OBVIOUS
  <2>2. d \in Seq(G) BY <1>1, <2>1, SeqMonotonic
  <2>3. \A s \in Seq(F) : s \in Seq(G) BY <2>1, SeqMonotonic
  <2>4. Seq(F) \subseteq Seq(G) BY <2>3
  <2>5. V \in Seq(Seq(G)) BY <1>1, <2>4, SeqMonotonic
  <2>6. QED BY <1>1, <2>2, <2>5
<1>3. << >> \in Seq(G) /\ Len(<< >>) = 0 /\ b \in G OBVIOUS
<1>4. /\ e \in Seq(G) /\ Len(e) = n + 1 /\ e[n + 1] = b
      /\ \A k \in 1 .. n : e[k] = d[k]
  BY <1>2, <1>3, AppendProperties
<1>5. /\ U \in Seq(Seq(G)) /\ Len(U) = n + 1 /\ U[n + 1] = << >>
      /\ \A k \in 1 .. n : U[k] = V[k]
  BY <1>1, <1>2, <1>3, AppendProperties
<1> HIDE DEF U, e
<1>6. \A k \in 1 .. n + 1 : k \in 1 .. n \/ k = n + 1 OBVIOUS
<1>7. ASSUME NEW k \in 1 .. n + 1
      PROVE  Len(U[k]) <= BlockCapacity /\ (k < n + 1 => Len(U[k]) = BlockCapacity)
  <2>1. CASE k = n + 1 BY <1>3, <1>5, <2>1, FreeListAssumption
  <2>2. CASE k \in 1 .. n
    <3>1. Len(V[k]) = BlockCapacity
      <4>1. CASE k = n BY <1>1, <2>2, <4>1, FreeListAssumption DEF Tidy, Filled
      <4>2. CASE k # n BY <2>2, <4>2 DEF Tidy, Filled
      <4>3. QED BY <4>1, <4>2
    <3>2. QED BY <1>5, <2>2, <3>1, FreeListAssumption
  <2>3. QED BY <1>6, <2>1, <2>2
<1>8. ASSUME NEW k \in 1 .. n + 1, NEW j \in 1 .. n + 1, e[k] = e[j] PROVE k = j
  <2>1. CASE k \in 1 .. n /\ j \in 1 .. n BY <1>4, <1>8, <2>1 DEF Tidy, Once
  <2>2. CASE ~(k \in 1 .. n /\ j \in 1 .. n) BY <1>1, <1>4, <1>6, <1>8, <2>2
  <2>3. QED BY <2>1, <2>2
<1>9. ASSUME NEW k \in 1 .. n + 1, NEW x \in 1 .. Len(U[k])
      PROVE  k \in 1 .. n /\ x \in 1 .. Len(V[k]) /\ U[k][x] = V[k][x] /\ V[k][x] \in F
  <2>1. k # n + 1
    <3> SUFFICES ASSUME k = n + 1 PROVE FALSE OBVIOUS
    <3>1. Len(U[k]) = 0 BY <1>3, <1>5
    <3>2. QED BY <3>1
  <2>2. k \in 1 .. n BY <1>6, <2>1
  <2>3. U[k] = V[k] BY <1>5, <2>2
  <2>4. V[k] \in Seq(F) BY <1>1, <2>2
  <2>5. x \in 1 .. Len(V[k]) BY <2>3
  <2>6. V[k][x] \in F BY ONLY <2>4, <2>5, ElementOfSeq
  <2>7. QED BY <2>2, <2>3, <2>5, <2>6
<1>10. ASSUME NEW k \in 1 .. n + 1, NEW j \in 1 .. n + 1,
              NEW x \in 1 .. Len(U[k]), NEW y \in 1 .. Len(U[j]), U[k][x] = U[j][y]
       PROVE  k = j /\ x = y
  <2>1. /\ k \in 1 .. n /\ x \in 1 .. Len(V[k]) /\ U[k][x] = V[k][x]
        /\ j \in 1 .. n /\ y \in 1 .. Len(V[j]) /\ U[j][y] = V[j][y]
    BY <1>9
  <2>2. V[k][x] = V[j][y] BY <1>10, <2>1
  <2>3. NamedOnce(d, V) BY DEF Tidy
  <2>4. QED BY ONLY <2>1, <2>2, <2>3, n = Len(d), NamedOnceAt, SMT
<1>11. ASSUME NEW k \in 1 .. n + 1, NEW j \in 1 .. n + 1, NEW x \in 1 .. Len(U[k])
       PROVE  U[k][x] # e[j]
  <2>1. CASE j \in 1 .. n
    <3>1. k \in 1 .. n /\ x \in 1 .. Len(V[k]) /\ U[k][x] = V[k][x] BY <1>9
    <3>2. V[k][x] # d[j] BY <2>1, <3>1 DEF Tidy, NoNodeNamed
    <3>3. QED BY <1>4, <2>1, <3>1, <3>2
  <2>2. CASE j = n + 1
    <3>1. U[k][x] = V[k][x] /\ V[k][x] \in F BY <1>9
    <3>2. e[j] = b /\ b \notin F BY <1>4, <2>2
    <3>3. QED BY ONLY <3>1, <3>2
  <2>3. QED BY <1>6, <2>1, <2>2
<1>12. ASSUME NEW a \in G
       PROVE  \/ \E k \in 1 .. n + 1 : a = e[k]
              \/ \E k \in 1 .. n + 1 : \E x \in 1 .. Len(U[k]) : a = U[k][x]
  <2>0. \A k \in 1 .. n : k \in 1 .. n + 1 OBVIOUS
  <2>1. CASE a = b
    <3>1. n + 1 \in 1 .. n + 1 OBVIOUS
    <3>2. QED BY <1>4, <2>1, <3>1
  <2>2. CASE a \in F /\ \E k \in 1 .. n : a = d[k] BY <1>4, <2>0, <2>2
  <2>3. CASE a \in F /\ \E k \in 1 .. n : \E x \in 1 .. Len(V[k]) : a = V[k][x]
    <3>1. PICK k \in 1 .. n : \E x \in 1 .. Len(V[k]) : a = V[k][x] BY <2>3
    <3>2. U[k] = V[k] /\ k \in 1 .. n + 1 BY <1>5, <2>0
    <3>3. QED BY <3>1, <3>2
  <2>4. QED BY <2>1, <2>2, <2>3 DEF Tidy, Covers
<1>13. Filled(e, U) BY <1>4, <1>7 DEF Filled
<1>14. Once(e) BY <1>4, <1>8 DEF Once
<1>15. NamedOnce(e, U) BY <1>4, <1>10 DEF NamedOnce
<1>16. NoNodeNamed(e, U) BY <1>4, <1>11 DEF NoNodeNamed
<1>17. Covers(e, U, G) BY <1>4, <1>12 DEF Covers
<1>18. Tidy(e, U, G) BY <1>2, <1>4, <1>5, <1>13, <1>14, <1>15, <1>16, <1>17 DEF Tidy
<1>19. QED BY <1>18 DEF U, e

\* The elements of a sequence say of which set it is one.
LEMMA SeqOver ==
  ASSUME NEW S, NEW s \in Seq(S), NEW T, \A k \in 1 .. Len(s) : s[k] \in T
  PROVE  s \in Seq(T)
OBVIOUS

\* What is left of a sequence without its last element.
LEMMA FrontIs ==
  ASSUME NEW S, NEW s \in Seq(S), NEW n \in Nat, Len(s) = n + 1
  PROVE  /\ Front(s) \in Seq(S) /\ Len(Front(s)) = n
         /\ \A k \in 1 .. n : Front(s)[k] = s[k]
<1>1. 1 \in Int /\ n \in Int /\ Len(s) - 1 = n OBVIOUS
<1>2. \A k \in 1 .. n : s[k] \in S OBVIOUS
<1>3. Front(s) = SubSeq(s, 1, n) BY <1>1 DEF Front
<1>4. /\ SubSeq(s, 1, n) \in Seq(S)
      /\ Len(SubSeq(s, 1, n)) = IF 1 <= n THEN n - 1 + 1 ELSE 0
      /\ \A k \in 1 .. n - 1 + 1 : SubSeq(s, 1, n)[k] = s[1 + k - 1]
  BY <1>1, <1>2, SubSeqProperties
<1>5. n - 1 + 1 = n /\ (~(1 <= n) => n = 0) /\ \A k \in 1 .. n : 1 + k - 1 = k OBVIOUS
<1>6. QED BY <1>3, <1>4, <1>5

\* The last entry of the head is taken.
LEMMA TidyPopEntry ==
  ASSUME NEW d, NEW V, NEW F, Tidy(d, V, F),
         NEW n \in Nat, n = Len(d), n # 0, V[n] # << >>
  PROVE  /\ Last(V[n]) \in F
         /\ Tidy(d, [V EXCEPT ![n] = Front(@)], F \ {Last(V[n])})
<1> DEFINE e == Last(V[n])
           G == F \ {e}
           U == [V EXCEPT ![n] = Front(@)]
           m == Len(V[n]) - 1
<1>1. /\ F \subseteq Blocks /\ d \in Seq(F) /\ V \in Seq(Seq(F)) /\ Len(V) = n
      /\ \A k \in 1 .. n : V[k] \in Seq(F) /\ Len(V[k]) \in Nat /\ d[k] \in F
  BY DEF Tidy
<1>2. n \in 1 .. n OBVIOUS
<1>3. V[n] \in Seq(F) /\ m \in Nat /\ Len(V[n]) = m + 1 /\ m + 1 \in 1 .. Len(V[n])
  BY <1>1, <1>2
<1>4. e = V[n][m + 1] /\ e \in F BY <1>3 DEF Last
<1> HIDE DEF m, e
<1>5. /\ Front(V[n]) \in Seq(F) /\ Len(Front(V[n])) = m
      /\ \A x \in 1 .. m : Front(V[n])[x] = V[n][x]
  BY <1>3, FrontIs
<1>6. /\ U \in Seq(Seq(F)) /\ Len(U) = n
      /\ \A k \in 1 .. n : U[k] = IF k = n THEN Front(V[n]) ELSE V[k]
  <2>1. n \in 1 .. Len(V) BY <1>1, <1>2
  <2>2. QED BY <1>1, <1>5, <2>1, ExceptSeq
<1> HIDE DEF U
<1>7. ASSUME NEW k \in 1 .. n, NEW x \in 1 .. Len(U[k])
      PROVE  x \in 1 .. Len(V[k]) /\ U[k][x] = V[k][x] /\ U[k][x] \in G
  <2>1. x \in 1 .. Len(V[k]) /\ U[k][x] = V[k][x] /\ ~(k = n /\ x = m + 1)
    <3>1. CASE k = n
      <4>1. x \in 1 .. m BY <1>5, <1>6, <3>1
      <4>2. x \in 1 .. m + 1 /\ x # m + 1 BY <1>3, <4>1
      <4>3. QED BY <1>3, <1>5, <1>6, <3>1, <4>1, <4>2
    <3>2. CASE k # n BY <1>6, <3>2
    <3>3. QED BY <3>1, <3>2
  <2>2. V[k][x] # e BY <1>2, <1>3, <1>4, <2>1 DEF Tidy, NamedOnce
  <2>3. V[k][x] \in F BY <1>1, <2>1
  <2>4. QED BY <2>1, <2>2, <2>3
<1>8. \A j \in 1 .. n : d[j] \in G
  <2>1. \A j \in 1 .. n : d[j] # e BY <1>2, <1>3, <1>4 DEF Tidy, NoNodeNamed
  <2>2. QED BY <1>1, <2>1
<1>9. d \in Seq(G) BY <1>1, <1>8, SeqOver
<1>10. U \in Seq(Seq(G))
  <2>1. ASSUME NEW k \in 1 .. n PROVE U[k] \in Seq(G)
    <3>1. U[k] \in Seq(F) BY <1>6
    <3>2. QED BY <1>7, <3>1, SeqOver
  <2>2. QED BY <1>6, <2>1, SeqOver
<1>11. Filled(d, U)
  <2>1. ASSUME NEW k \in 1 .. n
        PROVE  Len(U[k]) <= BlockCapacity /\ (k < n => Len(U[k]) = BlockCapacity)
    <3>1. Len(V[k]) <= BlockCapacity /\ (k < n => Len(V[k]) = BlockCapacity) BY DEF Tidy, Filled
    <3>2. Len(U[k]) = IF k = n THEN m ELSE Len(V[k]) BY <1>5, <1>6
    <3>3. QED BY <1>3, <3>1, <3>2, FreeListAssumption
  <2>2. QED BY <2>1 DEF Filled
<1>12. NamedOnce(d, U)
  <2>1. ASSUME NEW k \in 1 .. n, NEW j \in 1 .. n, NEW x \in 1 .. Len(U[k]), NEW y \in 1 .. Len(U[j]),
               U[k][x] = U[j][y]
        PROVE  k = j /\ x = y
    <3>1. x \in 1 .. Len(V[k]) /\ y \in 1 .. Len(V[j]) /\ V[k][x] = V[j][y] BY <1>7, <2>1
    <3>2. NamedOnce(d, V) BY DEF Tidy
    <3>3. QED BY ONLY <3>1, <3>2, k \in 1 .. n, j \in 1 .. n, n = Len(d), NamedOnceAt, Z3
  <2>2. QED BY <2>1 DEF NamedOnce
<1>13. NoNodeNamed(d, U)
  <2>1. ASSUME NEW k \in 1 .. n, NEW j \in 1 .. n, NEW x \in 1 .. Len(U[k])
        PROVE  U[k][x] # d[j]
    <3>1. x \in 1 .. Len(V[k]) /\ U[k][x] = V[k][x] BY <1>7
    <3>2. V[k][x] # d[j] BY <3>1 DEF Tidy, NoNodeNamed
    <3>3. QED BY <3>1, <3>2
  <2>2. QED BY <2>1 DEF NoNodeNamed
<1>14. Covers(d, U, G)
  <2>1. ASSUME NEW b \in G
        PROVE  \/ \E k \in 1 .. n : b = d[k]
               \/ \E k \in 1 .. n : \E x \in 1 .. Len(U[k]) : b = U[k][x]
    <3>1. \/ \E k \in 1 .. n : b = d[k]
          \/ \E k \in 1 .. n : \E x \in 1 .. Len(V[k]) : b = V[k][x]
      BY DEF Tidy, Covers
    <3>2. CASE \E k \in 1 .. n : \E x \in 1 .. Len(V[k]) : b = V[k][x]
      <4>1. PICK k \in 1 .. n : \E x \in 1 .. Len(V[k]) : b = V[k][x] BY <3>2
      <4>2. PICK x \in 1 .. Len(V[k]) : b = V[k][x] BY <4>1
      <4>3. x \in 1 .. Len(U[k]) /\ U[k][x] = V[k][x]
        <5>1. CASE k = n
          <6>1. x \in 1 .. m + 1 /\ x # m + 1 BY <1>3, <1>4, <4>2, <5>1
          <6>2. x \in 1 .. m BY <1>3, <6>1
          <6>3. QED BY <1>5, <1>6, <5>1, <6>2
        <5>2. CASE k # n BY <1>6, <5>2
        <5>3. QED BY <5>1, <5>2
      <4>4. QED BY <4>2, <4>3
    <3>3. QED BY <3>1, <3>2
  <2>2. QED BY <2>1 DEF Covers
<1>15. G \subseteq Blocks /\ Once(d) BY <1>1 DEF Tidy
<1>16. Tidy(d, U, G) BY <1>6, <1>9, <1>10, <1>11, <1>12, <1>13, <1>14, <1>15 DEF Tidy
<1>17. QED BY <1>4, <1>16 DEF U, e

\* The head, which names no block, is taken itself.
LEMMA TidyPopNode ==
  ASSUME NEW d, NEW V, NEW F, Tidy(d, V, F),
         NEW n \in Nat, Len(d) = n + 1, V[n + 1] = << >>
  PROVE  /\ d[n + 1] \in F
         /\ Tidy(Front(d), Front(V), F \ {d[n + 1]})
<1> DEFINE b == d[n + 1]
           G == F \ {b}
           e == Front(d)
           U == Front(V)
<1>1. /\ F \subseteq Blocks /\ d \in Seq(F) /\ V \in Seq(Seq(F)) /\ Len(V) = n + 1
      /\ \A k \in 1 .. n + 1 : V[k] \in Seq(F) /\ Len(V[k]) \in Nat /\ d[k] \in F
  BY DEF Tidy
<1>2. n + 1 \in 1 .. n + 1 /\ \A k \in 1 .. n : k \in 1 .. n + 1 /\ k # n + 1 OBVIOUS
<1>3. e \in Seq(F) /\ Len(e) = n /\ \A k \in 1 .. n : e[k] = d[k] BY <1>1, FrontIs
<1>4. U \in Seq(Seq(F)) /\ Len(U) = n /\ \A k \in 1 .. n : U[k] = V[k] BY <1>1, FrontIs
<1>5. b \in F BY <1>1, <1>2
<1> HIDE DEF e, U
<1>6. \A k \in 1 .. n : e[k] \in G
  <2>1. \A k \in 1 .. n : d[k] # b BY <1>2 DEF Tidy, Once
  <2>2. QED BY <1>1, <1>2, <1>3, <2>1
<1>7. ASSUME NEW k \in 1 .. n PROVE U[k] \in Seq(G)
  <2>1. U[k] \in Seq(F) /\ U[k] = V[k] BY <1>1, <1>4, <1>2
  <2>2. ASSUME NEW x \in 1 .. Len(V[k]) PROVE V[k][x] \in G
    <3>1. V[k][x] # b BY <1>2 DEF Tidy, NoNodeNamed
    <3>2. V[k][x] \in F BY <2>1
    <3>3. QED BY <3>1, <3>2
  <2>3. QED BY <2>1, <2>2, SeqOver
<1>8. e \in Seq(G) /\ U \in Seq(Seq(G))
  <2>1. e \in Seq(G) BY <1>3, <1>6, SeqOver
  <2>2. U \in Seq(Seq(G)) BY <1>4, <1>7, SeqOver
  <2>3. QED BY <2>1, <2>2
<1>9. Filled(e, U)
  <2>1. ASSUME NEW k \in 1 .. n
        PROVE  Len(U[k]) <= BlockCapacity /\ (k < n => Len(U[k]) = BlockCapacity)
    <3>1. Len(V[k]) = BlockCapacity BY <1>2 DEF Tidy, Filled
    <3>2. QED BY <1>4, <3>1, FreeListAssumption
  <2>2. QED BY <1>3, <2>1 DEF Filled
<1>10. Once(e)
  <2>1. \A k, j \in 1 .. n : d[k] = d[j] => k = j BY <1>2 DEF Tidy, Once
  <2>2. QED BY <1>3, <2>1 DEF Once
<1>11. NamedOnce(e, U)
  <2>1. ASSUME NEW k \in 1 .. n, NEW j \in 1 .. n, NEW x \in 1 .. Len(U[k]), NEW y \in 1 .. Len(U[j]),
               U[k][x] = U[j][y]
        PROVE  k = j /\ x = y
    <3>1. U[k] = V[k] /\ U[j] = V[j] BY <1>4
    <3>2. QED BY <1>2, <2>1, <3>1 DEF Tidy, NamedOnce
  <2>2. QED BY <1>3, <2>1 DEF NamedOnce
<1>12. NoNodeNamed(e, U)
  <2>1. ASSUME NEW k \in 1 .. n, NEW j \in 1 .. n, NEW x \in 1 .. Len(U[k])
        PROVE  U[k][x] # e[j]
    <3>1. U[k] = V[k] /\ e[j] = d[j] BY <1>3, <1>4
    <3>2. QED BY <1>2, <3>1 DEF Tidy, NoNodeNamed
  <2>2. QED BY <1>3, <2>1 DEF NoNodeNamed
<1>13. Covers(e, U, G)
  <2>1. ASSUME NEW a \in G
        PROVE  \/ \E k \in 1 .. n : a = e[k]
               \/ \E k \in 1 .. n : \E x \in 1 .. Len(U[k]) : a = U[k][x]
    <3>1. \/ \E k \in 1 .. n + 1 : a = d[k]
          \/ \E k \in 1 .. n + 1 : \E x \in 1 .. Len(V[k]) : a = V[k][x]
      <4>1. a \in F /\ Covers(d, V, F) BY DEF Tidy
      <4>2. \/ \E k \in 1 .. Len(d) : a = d[k]
            \/ \E k \in 1 .. Len(d) : \E x \in 1 .. Len(V[k]) : a = V[k][x]
        BY <4>1, Zenon DEF Covers
      <4> HIDE DEF G, b
      <4>3. QED BY <4>2
    <3>2. CASE \E k \in 1 .. n + 1 : a = d[k]
      <4>1. PICK k \in 1 .. n + 1 : a = d[k] BY <3>2
      <4>2. k # n + 1 BY <4>1
      <4>3. k \in 1 .. n BY <4>2
      <4>4. QED BY <1>3, <4>1, <4>3
    <3>3. CASE \E k \in 1 .. n + 1 : \E x \in 1 .. Len(V[k]) : a = V[k][x]
      <4>1. PICK k \in 1 .. n + 1 : \E x \in 1 .. Len(V[k]) : a = V[k][x] BY <3>3
      <4>2. PICK x \in 1 .. Len(V[k]) : a = V[k][x] BY <4>1
      <4>3. k # n + 1
        <5>1. Len(V[n + 1]) = 0 OBVIOUS
        <5>2. QED BY <4>2, <5>1
      <4>4. k \in 1 .. n BY <4>3
      <4>5. U[k] = V[k] BY <1>4, <4>4
      <4>6. QED BY <4>2, <4>4, <4>5
    <3>4. QED BY <3>1, <3>2, <3>3
  <2>2. QED BY <1>3, <2>1 DEF Covers
<1>14. Tidy(e, U, G)
  <2>1. G \subseteq Blocks /\ Len(U) = Len(e) BY <1>1, <1>3, <1>4
  <2>2. QED BY <1>8, <1>9, <1>10, <1>11, <1>12, <1>13, <2>1 DEF Tidy
<1>15. QED BY <1>5, <1>14 DEF e, U

-----------------------------------------------------------------------------
(* The operations of the free list.                                        *)

\* A list that is entered at None has no nodes, and no other list has none.
LEMMA RisesEmpty ==
  ASSUME NEW f, NEW b, NEW d, Rises(f, b, d)
  PROVE  b = None <=> d = << >>
<1>1. ASSUME d # << >> PROVE b # None
  <2>1. d \in Seq(Blocks) /\ b = d[Len(d)] BY <1>1 DEF Rises
  <2>2. Len(d) \in 1 .. Len(d) BY <1>1, <2>1
  <2>3. b \in Nat BY <2>1, <2>2, FreeListAssumption DEF Blocks
  <2>4. QED BY <2>3, FreeListAssumption
<1>2. QED BY <1>1 DEF Rises

\* The list depends on its nodes only.
LEMMA RisesFrame ==
  ASSUME NEW f, NEW g, NEW b, NEW d, Rises(f, b, d),
         \A k \in 1 .. Len(d) : g[d[k]].link = f[d[k]].link
  PROVE  Rises(g, b, d)
BY DEF Rises

\* A block that is linked to the list comes before it.
LEMMA RisesAppend ==
  ASSUME NEW f, NEW g, NEW h, NEW d, Rises(f, h, d), NEW b \in Blocks,
         \A k \in 1 .. Len(d) : d[k] # b /\ g[d[k]].link = f[d[k]].link,
         g[b].link = h
  PROVE  Rises(g, b, Append(d, b))
<1> DEFINE n == Len(d)
           e == Append(d, b)
<1>1. n \in Nat /\ d \in Seq(Blocks) BY DEF Rises
<1>2. e \in Seq(Blocks) /\ Len(e) = n + 1 /\ e[n + 1] = b /\ \A k \in 1 .. n : e[k] = d[k]
  BY <1>1, AppendProperties
<1> HIDE DEF e, n
<1>3. \A k \in 1 .. n + 1 : k \in 1 .. n \/ k = n + 1 BY <1>1
<1>4. \A k \in 1 .. n : e[k] # b BY <1>2 DEF n
<1>5. e # << >> /\ b = e[Len(e)]
  <2>1. Len(e) # 0 BY <1>1, <1>2
  <2>2. e # << >> BY <2>1
  <2>3. QED BY <1>2, <2>2
<1>6. ASSUME NEW k \in 1 .. n + 1
      PROVE  g[e[k]].link = IF k = 1 THEN None ELSE e[k - 1]
  <2>1. CASE k \in 1 .. n
    <3>1. g[e[k]].link = f[d[k]].link BY <1>2, <2>1 DEF n
    <3>2. f[d[k]].link = IF k = 1 THEN None ELSE d[k - 1] BY <2>1 DEF Rises, n
    <3>3. k # 1 => k - 1 \in 1 .. n BY <1>1, <2>1
    <3>4. QED BY <1>2, <3>1, <3>2, <3>3
  <2>2. CASE k = n + 1
    <3>1. g[e[k]].link = h BY <1>2, <2>2
    <3>2. CASE n = 0
      <4>1. h = None BY <3>2 DEF Rises, n
      <4>2. QED BY <2>2, <3>1, <3>2, <4>1
    <3>3. CASE n # 0
      <4>1. d # << >> BY <3>3 DEF n
      <4>2. h = d[n] BY <4>1 DEF Rises, n
      <4>3. n \in 1 .. n /\ k # 1 /\ k - 1 = n BY <1>1, <2>2, <3>3
      <4>4. QED BY <1>2, <3>1, <4>2, <4>3
    <3>4. QED BY <3>2, <3>3
  <2>3. QED BY <1>3, <2>1, <2>2
<1>7. ASSUME NEW k \in 1 .. n + 1, NEW j \in 1 .. n + 1, e[k] = e[j] PROVE k = j
  <2>1. CASE k \in 1 .. n /\ j \in 1 .. n
    <3>1. d[k] = d[j] BY <1>2, <1>7, <2>1
    <3>2. QED BY <2>1, <3>1 DEF Rises, n
  <2>2. CASE ~(k \in 1 .. n /\ j \in 1 .. n) BY <1>2, <1>3, <1>4, <1>7, <2>2
  <2>3. QED BY <2>1, <2>2
<1>8. Rises(g, b, e) BY <1>2, <1>5, <1>6, <1>7 DEF Rises
<1>9. QED BY <1>8 DEF e

\* The list behind its first block.
LEMMA RisesFront ==
  ASSUME NEW f, NEW h, NEW d, Rises(f, h, d), NEW n \in Nat, Len(d) = n + 1
  PROVE  Rises(f, f[h].link, Front(d))
<1> DEFINE l == f[h].link
           e == Front(d)
<1>1. d \in Seq(Blocks) /\ h = d[n + 1] /\ n + 1 \in 1 .. n + 1
  <2>1. d \in Seq(Blocks) /\ d # << >> BY DEF Rises
  <2>2. QED BY <2>1 DEF Rises
<1>2. e \in Seq(Blocks) /\ Len(e) = n /\ \A k \in 1 .. n : e[k] = d[k] BY <1>1, FrontIs
<1> HIDE DEF e
<1>3. \A k \in 1 .. n : k \in 1 .. n + 1 OBVIOUS
<1>4. l = IF e = << >> THEN None ELSE e[Len(e)]
  <2>1. l = IF n + 1 = 1 THEN None ELSE d[(n + 1) - 1] BY <1>1 DEF Rises
  <2>2. CASE n = 0
    <3>1. e = << >> BY <1>2, <2>2
    <3>2. QED BY <2>1, <2>2, <3>1
  <2>3. CASE n # 0
    <3>1. e # << >> /\ n \in 1 .. n /\ (n + 1) - 1 = n /\ n + 1 # 1 BY <1>2, <2>3
    <3>2. QED BY <1>2, <2>1, <3>1
  <2>4. QED BY <2>2, <2>3
<1>5. ASSUME NEW k \in 1 .. n PROVE f[e[k]].link = IF k = 1 THEN None ELSE e[k - 1]
  <2>1. f[d[k]].link = IF k = 1 THEN None ELSE d[k - 1] BY <1>3 DEF Rises
  <2>2. k # 1 => k - 1 \in 1 .. n OBVIOUS
  <2>3. QED BY <1>2, <2>1, <2>2
<1>6. \A k, j \in 1 .. n : e[k] = e[j] => k = j BY <1>2, <1>3 DEF Rises
<1> HIDE DEF l
<1>7. Rises(f, l, e) BY <1>2, <1>4, <1>5, <1>6 DEF Rises
<1>8. QED BY <1>7 DEF l, e

WithValues(f, h, s) == [f EXCEPT ![h].values = s]

\* What a block holds after a change of its values.
LEMMA ValuesChanged ==
  ASSUME NEW f \in [Blocks -> Nodes], NEW h \in Blocks, NEW s
  PROVE  WithValues(f, h, s)
           = [x \in Blocks |-> IF x = h THEN [link |-> f[h].link, values |-> s] ELSE f[x]]
<1>1. f[h] \in [link : Links, values : Seq(Values \cup Blocks)] BY DEF Nodes
<1>2. [f[h] EXCEPT !.values = s] = [link |-> f[h].link, values |-> s]
  <2> DEFINE r == f[h]
  <2>1. r \in [link : Links, values : Seq(Values \cup Blocks)] BY <1>1
  <2> HIDE DEF r
  <2>2. r = [link |-> r.link, values |-> r.values] BY <2>1
  <2>3. [r EXCEPT !.values = s] = [link |-> r.link, values |-> s] BY <2>2
  <2>4. QED BY <2>3 DEF r
<1>3. [f EXCEPT ![h] = [f[h] EXCEPT !.values = s]]
        = [x \in Blocks |-> IF x = h THEN [f[h] EXCEPT !.values = s] ELSE f[x]] OBVIOUS
<1>4. [f EXCEPT ![h].values = s] = [f EXCEPT ![h] = [f[h] EXCEPT !.values = s]] OBVIOUS
<1>5. QED BY <1>2, <1>3, <1>4 DEF WithValues

\* What push() of a block that is not on the list leaves.
LEMMA PushHolds ==
  ASSUME NEW list \in Lists, NEW F, Holds(list, F), NEW b \in Blocks \ F
  PROVE  /\ Push(list, b) \in Lists
         /\ Holds(Push(list, b), F \cup {b})
         /\ SameBut(Push(list, b), list, F \cup {b})
<1> DEFINE f == list.node
           h == list.head
<1>1. list = [head |-> h, node |-> f] /\ h \in Links /\ f \in [Blocks -> Nodes] BY DEF Lists
<1>2. PICK d : Rises(f, h, d) /\ Tidy(d, ValuesOf(f, d), F) BY DEF Holds
<1> DEFINE n == Len(d)
           V == ValuesOf(f, d)
<1>3. n \in Nat /\ d \in Seq(Blocks) /\ \A k \in 1 .. n : d[k] \in F /\ d[k] \in Blocks
  BY <1>2 DEF Rises, Tidy
<1>4. V \in Seq(Seq(F)) /\ Len(V) = n /\ \A k \in 1 .. n : V[k] = f[d[k]].values
  BY <1>2, <1>3 DEF Tidy, ValuesOf
<1> HIDE DEF V, n, f, h
<1>5. CASE h # None /\ Len(f[h].values) < BlockCapacity
  <2>1. n # 0 /\ h = d[n] /\ n \in 1 .. n /\ h \in F
    <3>1. d # << >> BY <1>2, <1>5, RisesEmpty
    <3>2. n # 0 BY <1>3, <3>1 DEF n
    <3>3. h = d[n] BY <1>2, <3>1 DEF Rises, n
    <3>4. QED BY <1>3, <3>2, <3>3
  <2> DEFINE g == [f EXCEPT ![h].values = Append(@, b)]
             U == [V EXCEPT ![n] = Append(@, b)]
  <2>2. Push(list, b) = [head |-> h, node |-> g] BY <1>1, <1>5 DEF Push, f, h
  <2>3. h \in Blocks /\ f[h] \in Nodes BY <1>1, <1>3, <2>1
  <2>4. g = [x \in Blocks |-> IF x = h THEN [link |-> f[h].link, values |-> Append(f[h].values, b)]
                              ELSE f[x]]
    <3> DEFINE s == Append(f[h].values, b)
    <3>1. g = WithValues(f, h, s) BY DEF WithValues
    <3> HIDE DEF g, s
    <3>2. g = [x \in Blocks |-> IF x = h THEN [link |-> f[h].link, values |-> s] ELSE f[x]]
      BY <1>1, <2>3, <3>1, ValuesChanged
    <3>3. QED BY <3>2 DEF s
  <2>5. g \in [Blocks -> Nodes]
    <3>1. f[h].values \in Seq(Values \cup Blocks) /\ b \in Values \cup Blocks BY <2>3 DEF Nodes
    <3>2. Append(f[h].values, b) \in Seq(Values \cup Blocks) BY <3>1, AppendProperties
    <3>3. [link |-> f[h].link, values |-> Append(f[h].values, b)] \in Nodes BY <2>3, <3>2 DEF Nodes
    <3>4. QED BY <1>1, <2>4, <3>3
  <2> HIDE DEF g
  <2>6. ASSUME NEW k \in 1 .. n
        PROVE  /\ g[d[k]].link = f[d[k]].link
               /\ g[d[k]].values = IF k = n THEN Append(V[n], b) ELSE V[k]
    <3>1. CASE k = n
      <4>1. d[k] = h /\ V[n] = f[h].values BY <1>4, <2>1, <3>1
      <4>2. QED BY <2>3, <2>4, <3>1, <4>1
    <3>2. CASE k # n
      <4>1. d[k] # h /\ d[k] \in Blocks BY <1>2, <1>3, <2>1, <3>2 DEF Tidy, Once, n
      <4>2. QED BY <1>4, <2>4, <3>2, <4>1
    <3>3. QED BY <3>1, <3>2
  <2>7. Rises(g, h, d) BY <1>2, <2>6, RisesFrame DEF n
  <2>8. ValuesOf(g, d) = U
    <3>1. V = [k \in 1 .. n |-> V[k]] BY <1>4
    <3>2. U = [k \in 1 .. n |-> IF k = n THEN Append(V[n], b) ELSE V[k]] BY <2>1, <3>1
    <3>3. QED BY <2>6, <3>2 DEF ValuesOf, n
  <2>9. Tidy(d, U, F \cup {b})
    <3>1. Len(V[n]) < BlockCapacity BY <1>4, <1>5, <2>1
    <3>2. Tidy(d, V, F) BY <1>2 DEF V
    <3>3. QED BY <1>3, <2>1, <3>1, <3>2, TidyPushEntry DEF n
  <2>10. Push(list, b) \in Lists BY <1>1, <2>2, <2>5 DEF Lists
  <2>11. Holds(Push(list, b), F \cup {b})
    <3> HIDE DEF U
    <3>1. Holds([head |-> h, node |-> g], F \cup {b}) BY <2>7, <2>8, <2>9 DEF Holds
    <3>2. QED BY <2>2, <3>1
  <2>12. \A x \in Blocks \ (F \cup {b}) : g[x] = f[x] BY <2>1, <2>4
  <2>13. QED BY <2>2, <2>10, <2>11, <2>12 DEF f, SameBut
<1>6. CASE ~(h # None /\ Len(f[h].values) < BlockCapacity)
  <2> DEFINE g == [f EXCEPT ![b] = [Empty EXCEPT !.link = h]]
             e == Append(d, b)
             U == Append(V, << >>)
  <2>1. Push(list, b) = [head |-> b, node |-> g] BY <1>1, <1>6 DEF Push, f, h
  <2>2. g = [x \in Blocks |-> IF x = b THEN [link |-> h, values |-> << >>] ELSE f[x]]
    <3>1. [Empty EXCEPT !.link = h] = [link |-> h, values |-> << >>] BY DEF Empty
    <3>2. QED BY <1>1, <3>1
  <2>3. g \in [Blocks -> Nodes]
    <3>1. [link |-> h, values |-> << >>] \in Nodes BY <1>1 DEF Nodes
    <3>2. QED BY <1>1, <2>2, <3>1
  <2> HIDE DEF g
  <2>4. e \in Seq(Blocks) /\ Len(e) = n + 1 /\ e[n + 1] = b /\ \A k \in 1 .. n : e[k] = d[k]
    BY <1>3, AppendProperties DEF n
  <2>5. U \in Seq(Seq(F)) /\ Len(U) = n + 1 /\ U[n + 1] = << >> /\ \A k \in 1 .. n : U[k] = V[k]
    <3>1. << >> \in Seq(F) OBVIOUS
    <3>2. QED BY <1>4, <3>1, AppendProperties
  <2> HIDE DEF e, U
  <2>6. \A k \in 1 .. n + 1 : k \in 1 .. n \/ k = n + 1 BY <1>3
  <2>7. \A k \in 1 .. n : e[k] # b /\ g[e[k]] = f[d[k]] BY <1>3, <2>2, <2>4
  <2>8. g[e[n + 1]] = [link |-> h, values |-> << >>] BY <2>2, <2>4
  <2>9. Rises(g, b, e)
    <3>1. \A k \in 1 .. n : d[k] # b /\ g[d[k]].link = f[d[k]].link BY <1>3, <2>4, <2>7
    <3>2. g[b].link = h BY <2>4, <2>8
    <3>3. QED BY <1>2, <3>1, <3>2, RisesAppend DEF n, e
  <2>10. ValuesOf(g, e) = U
    <3>1. ASSUME NEW k \in 1 .. n + 1 PROVE g[e[k]].values = U[k]
      <4>1. CASE k \in 1 .. n BY <1>4, <2>5, <2>7, <4>1
      <4>2. CASE k = n + 1 BY <2>5, <2>8, <4>2
      <4>3. QED BY <2>6, <4>1, <4>2
    <3>2. U = [k \in 1 .. n + 1 |-> U[k]] BY <2>5
    <3>3. QED BY <2>4, <3>1, <3>2 DEF ValuesOf
  <2>11. Tidy(e, U, F \cup {b})
    <3>1. n # 0 => Len(V[n]) >= BlockCapacity
      <4> SUFFICES ASSUME n # 0 PROVE Len(V[n]) >= BlockCapacity OBVIOUS
      <4>1. d # << >> /\ n \in 1 .. n BY <1>3 DEF n
      <4>2. h = d[n] /\ h # None BY <1>2, <4>1, RisesEmpty DEF Rises, n
      <4>3. V[n] = f[h].values /\ V[n] \in Seq(F) BY <1>4, <4>1, <4>2
      <4>4. Len(V[n]) \in Nat BY <4>3
      <4>5. QED BY <1>6, <4>2, <4>3, <4>4, FreeListAssumption
    <3>2. Tidy(d, V, F) BY <1>2 DEF V
    <3>3. QED BY <1>3, <3>1, <3>2, TidyPushNode DEF n, e, U
  <2>12. Push(list, b) \in Lists BY <2>1, <2>3 DEF Lists, Links
  <2>13. Holds(Push(list, b), F \cup {b}) BY <2>1, <2>9, <2>10, <2>11 DEF Holds
  <2>14. \A x \in Blocks \ (F \cup {b}) : g[x] = f[x] BY <2>2
  <2>15. QED BY <2>1, <2>12, <2>13, <2>14 DEF f, SameBut
<1>7. QED BY <1>5, <1>6

\* What pop() of a list that is not empty returns and leaves.
LEMMA PopHolds ==
  ASSUME NEW list \in Lists, NEW F, Holds(list, F), list.head # None
  PROVE  /\ Pop(list).block \in F
         /\ Pop(list).list \in Lists
         /\ Holds(Pop(list).list, F \ {Pop(list).block})
         /\ SameBut(Pop(list).list, list, F)
<1> DEFINE f == list.node
           h == list.head
<1>1. list = [head |-> h, node |-> f] /\ h \in Links /\ f \in [Blocks -> Nodes] BY DEF Lists
<1>2. PICK d : Rises(f, h, d) /\ Tidy(d, ValuesOf(f, d), F) BY DEF Holds
<1> DEFINE n == Len(d) - 1
           V == ValuesOf(f, d)
<1>3. d # << >> BY <1>2, RisesEmpty
<1>4. /\ n \in Nat /\ Len(d) = n + 1 /\ d \in Seq(Blocks) /\ d \in Seq(F)
      /\ \A k \in 1 .. n + 1 : d[k] \in F /\ d[k] \in Blocks
  BY <1>2, <1>3 DEF Rises, Tidy
<1>5. V \in Seq(Seq(F)) /\ Len(V) = n + 1 /\ \A k \in 1 .. n + 1 : V[k] = f[d[k]].values
  BY <1>2, <1>4 DEF Tidy, ValuesOf
<1>6. h = d[n + 1] /\ n + 1 \in 1 .. n + 1 BY <1>2, <1>3, <1>4 DEF Rises
<1>7. h \in F /\ h \in Blocks /\ V[n + 1] = f[h].values /\ f[h] \in Nodes BY <1>1, <1>4, <1>5, <1>6
<1>8. Tidy(d, V, F) BY <1>2
<1> HIDE DEF V, n, f, h
<1>9. CASE f[h].values # << >>
  <2> DEFINE g == [f EXCEPT ![h].values = Front(@)]
             U == [V EXCEPT ![n + 1] = Front(@)]
             b == Last(f[h].values)
  <2>1. Pop(list) = [block |-> b, list |-> [head |-> h, node |-> g]] BY <1>1, <1>9 DEF Pop, f, h
  <2>2. g = [x \in Blocks |-> IF x = h THEN [link |-> f[h].link, values |-> Front(f[h].values)]
                              ELSE f[x]]
    <3> DEFINE s == Front(f[h].values)
    <3>1. g = WithValues(f, h, s) BY DEF WithValues
    <3> HIDE DEF g, s
    <3>2. g = [x \in Blocks |-> IF x = h THEN [link |-> f[h].link, values |-> s] ELSE f[x]]
      BY <1>1, <1>7, <3>1, ValuesChanged
    <3>3. QED BY <3>2 DEF s
  <2>3. g \in [Blocks -> Nodes]
    <3>1. f[h].values \in Seq(Values \cup Blocks) /\ Len(f[h].values) - 1 \in Nat
          /\ Len(f[h].values) = (Len(f[h].values) - 1) + 1
      BY <1>7, <1>9 DEF Nodes
    <3>2. Front(f[h].values) \in Seq(Values \cup Blocks) BY <3>1, FrontIs
    <3>3. [link |-> f[h].link, values |-> Front(f[h].values)] \in Nodes BY <1>7, <3>2 DEF Nodes
    <3>4. QED BY <1>1, <2>2, <3>3
  <2> HIDE DEF g
  <2>4. ASSUME NEW k \in 1 .. n + 1
        PROVE  /\ g[d[k]].link = f[d[k]].link
               /\ g[d[k]].values = IF k = n + 1 THEN Front(V[n + 1]) ELSE V[k]
    <3>1. CASE k = n + 1
      <4>1. d[k] = h BY <1>6, <3>1
      <4>2. QED BY <1>7, <2>2, <3>1, <4>1
    <3>2. CASE k # n + 1
      <4>1. d[k] # h /\ d[k] \in Blocks BY <1>4, <1>6, <1>8, <3>2 DEF Tidy, Once
      <4>2. QED BY <1>5, <2>2, <3>2, <4>1
    <3>3. QED BY <3>1, <3>2
  <2>5. Rises(g, h, d) BY <1>2, <1>4, <2>4, RisesFrame
  <2>6. ValuesOf(g, d) = U
    <3>1. V = [k \in 1 .. n + 1 |-> V[k]] BY <1>5
    <3>2. U = [k \in 1 .. n + 1 |-> IF k = n + 1 THEN Front(V[n + 1]) ELSE V[k]] BY <1>6, <3>1
    <3>3. QED BY <1>4, <2>4, <3>2 DEF ValuesOf
  <2>7. b \in F /\ Tidy(d, U, F \ {b})
    <3>1. n + 1 \in Nat /\ n + 1 # 0 /\ V[n + 1] # << >> /\ b = Last(V[n + 1]) BY <1>4, <1>7, <1>9
    <3> HIDE DEF b
    <3>2. QED BY <1>4, <1>8, <3>1, TidyPopEntry
  <2> HIDE DEF b
  <2>8. Pop(list).list \in Lists BY <1>1, <2>1, <2>3 DEF Lists
  <2>9. Holds([head |-> h, node |-> g], F \ {b}) BY <2>5, <2>6, <2>7 DEF Holds
  <2>10. \A x \in Blocks \ F : g[x] = f[x] BY <1>7, <2>2
  <2>11. QED BY <2>1, <2>7, <2>8, <2>9, <2>10 DEF f, SameBut
<1>10. CASE f[h].values = << >>
  <2> DEFINE l == f[h].link
             e == Front(d)
             U == Front(V)
  <2>1. Pop(list) = [block |-> h, list |-> [head |-> l, node |-> f]] BY <1>1, <1>10 DEF Pop, f, h
  <2>2. e \in Seq(Blocks) /\ Len(e) = n /\ \A k \in 1 .. n : e[k] = d[k] BY <1>4, FrontIs
  <2>3. U \in Seq(Seq(F)) /\ Len(U) = n /\ \A k \in 1 .. n : U[k] = V[k] BY <1>4, <1>5, FrontIs
  <2> HIDE DEF e, U
  <2>4. \A k \in 1 .. n : k \in 1 .. n + 1 BY <1>4
  <2>5. Rises(f, l, e) BY <1>2, <1>4, RisesFront DEF e
  <2>6. ValuesOf(f, e) = U
    <3>1. \A k \in 1 .. n : f[e[k]].values = U[k] BY <1>5, <2>2, <2>3, <2>4
    <3>2. U = [k \in 1 .. n |-> U[k]] BY <2>3
    <3>3. QED BY <2>2, <3>1, <3>2 DEF ValuesOf
  <2>7. Tidy(e, U, F \ {h})
    <3>1. V[n + 1] = << >> BY <1>7, <1>10
    <3>2. QED BY <1>4, <1>6, <1>8, <3>1, TidyPopNode DEF e, U
  <2>8. l \in Links BY <1>7 DEF Nodes
  <2> HIDE DEF l
  <2>9. Pop(list).list \in Lists BY <1>1, <2>1, <2>8 DEF Lists
  <2>10. Holds([head |-> l, node |-> f], F \ {h}) BY <2>5, <2>6, <2>7 DEF Holds
  <2>11. QED BY <1>7, <2>1, <2>9, <2>10 DEF f, SameBut
<1>11. QED BY <1>9, <1>10

\* The list depends on what its own blocks hold.
LEMMA HoldsFrame ==
  ASSUME NEW f, NEW g, NEW h, NEW F, Holds([head |-> h, node |-> f], F),
         \A x \in F : g[x] = f[x]
  PROVE  Holds([head |-> h, node |-> g], F)
<1>1. PICK d : Rises(f, h, d) /\ Tidy(d, ValuesOf(f, d), F) BY DEF Holds
<1>2. \A k \in 1 .. Len(d) : d[k] \in F BY <1>1 DEF Tidy
<1>3. \A k \in 1 .. Len(d) : g[d[k]] = f[d[k]] BY <1>2
<1>4. Rises(g, h, d) BY <1>1, <1>3, RisesFrame
<1>5. ValuesOf(g, d) = ValuesOf(f, d) BY <1>3 DEF ValuesOf
<1>6. QED BY <1>1, <1>4, <1>5 DEF Holds

\* What push() of several blocks leaves, none of which is on the list.
LEMMA PushAllHolds ==
  ASSUME NEW list \in Lists, NEW F, Holds(list, F), NEW blocks \in Seq(Blocks),
         \A k \in 1 .. Len(blocks) : blocks[k] \notin F,
         \A k, j \in 1 .. Len(blocks) : blocks[k] = blocks[j] => k = j
  PROVE  /\ PushAll(list, blocks) \in Lists
         /\ Holds(PushAll(list, blocks), F \cup ToSet(blocks))
         /\ SameBut(PushAll(list, blocks), list, F \cup ToSet(blocks))
<1> DEFINE n == Len(blocks)
           G(k) == { blocks[j] : j \in 1 .. k }
           Good(l, k) == /\ l \in Lists
                         /\ Holds(l, F \cup G(k))
                         /\ SameBut(l, list, F \cup G(k))
<1>1. PICK h : /\ h[0] = list
               /\ \A k \in 1 .. n : h[k] = Push(h[k - 1], blocks[k])
               /\ PushAll(list, blocks) = h[n]
  BY PushAllSteps
<1>2. n \in Nat /\ ToSet(blocks) = G(n) /\ \A k \in 1 .. n : blocks[k] \in Blocks BY DEF ToSet
<1> HIDE DEF n
<1> DEFINE T == { k \in Nat : k <= n => Good(h[k], k) }
<1>3. 0 \in T
  <2>1. G(0) = {} OBVIOUS
  <2>2. F \cup G(0) = F BY <2>1
  <2> HIDE DEF G
  <2>3. QED BY <1>1, <2>2 DEF SameBut
<1>4. ASSUME NEW k \in Nat, k \in T PROVE k + 1 \in T
  <2>1. SUFFICES ASSUME k + 1 <= n PROVE Good(h[k + 1], k + 1) OBVIOUS
  <2>2. k <= n /\ k + 1 \in 1 .. n /\ (k + 1) - 1 = k BY <1>2, <2>1
  <2>3. Good(h[k], k) BY <1>4, <2>2
  <2> DEFINE b == blocks[k + 1]
             H == F \cup G(k)
  <2>4. h[k + 1] = Push(h[k], b) BY <1>1, <2>2
  <2>5. G(k + 1) = G(k) \cup {b}
    <3>1. \A j \in 1 .. k + 1 : j \in 1 .. k \/ j = k + 1 OBVIOUS
    <3>2. \A j \in 1 .. k : j \in 1 .. k + 1 OBVIOUS
    <3>3. k + 1 \in 1 .. k + 1 OBVIOUS
    <3>4. QED BY <3>1, <3>2, <3>3
  <2>6. b \in Blocks \ H
    <3>1. b \in Blocks /\ b \notin F BY <1>2, <2>2 DEF n
    <3>2. ASSUME NEW j \in 1 .. k, b = blocks[j] PROVE FALSE
      <4>1. j \in 1 .. n /\ j # k + 1 BY <1>2, <2>2
      <4>2. QED BY <2>2, <3>2, <4>1 DEF n
    <3>3. QED BY <3>1, <3>2
  <2>7. F \cup G(k + 1) = H \cup {b} BY <2>5
  <2> HIDE DEF b, H, G
  <2>8. h[k] \in Lists /\ Holds(h[k], H) /\ SameBut(h[k], list, H) BY <2>3 DEF H
  <2>9. /\ Push(h[k], b) \in Lists
        /\ Holds(Push(h[k], b), H \cup {b})
        /\ SameBut(Push(h[k], b), h[k], H \cup {b})
    BY <2>6, <2>8, PushHolds
  <2>10. SameBut(Push(h[k], b), list, H \cup {b}) BY <2>8, <2>9 DEF SameBut
  <2>11. QED BY <2>4, <2>7, <2>9, <2>10
<1> HIDE DEF T
<1>5. n \in T BY <1>2, <1>3, <1>4, Induction
<1>6. Good(h[n], n) BY <1>2, <1>5 DEF T
<1>7. QED BY <1>1, <1>2, <1>6

-----------------------------------------------------------------------------
(* The values of the stack.                                                *)

\* The values of all nodes but the last come first.
LEMMA FlattenLast ==
  ASSUME NEW S, NEW V \in Seq(Seq(S)), NEW n \in Nat, Len(V) = n + 1
  PROVE  /\ FlattenSeq(V) \in Seq(S)
         /\ FlattenSeq(Front(V)) \in Seq(S)
         /\ FlattenSeq(V) = FlattenSeq(Front(V)) \o V[n + 1]
<1>1. Front(V) \in Seq(Seq(S)) /\ Len(Front(V)) = n /\ \A k \in 1 .. n : Front(V)[k] = V[k]
  BY FrontIs
<1>2. n + 1 \in 1 .. Len(V) /\ V[n + 1] \in Seq(S) OBVIOUS
<1>3. Append(Front(V), V[n + 1]) = V
  <2> DEFINE e == Front(V)
             s == V[n + 1]
  <2>1. e \in Seq(Seq(S)) /\ Len(e) = n /\ s \in Seq(S) BY <1>1, <1>2
  <2>2. \A k \in 1 .. n : e[k] = V[k] BY <1>1
  <2> HIDE DEF e
  <2>3. /\ Append(e, s) \in Seq(Seq(S)) /\ Len(Append(e, s)) = n + 1
        /\ \A k \in 1 .. n : Append(e, s)[k] = e[k]
        /\ Append(e, s)[n + 1] = s
    BY <2>1, AppendProperties
  <2> DEFINE a == Append(e, s)
  <2>4. ASSUME NEW k \in 1 .. n + 1 PROVE a[k] = V[k]
    <3>1. k \in 1 .. n \/ k = n + 1 OBVIOUS
    <3>2. QED BY <2>2, <2>3, <3>1
  <2>5. a \in Seq(Seq(S)) /\ Len(a) = Len(V) BY <2>3
  <2> HIDE DEF a
  <2>6. a = V BY <2>4, <2>5, SeqEqual
  <2>7. QED BY <2>6 DEF a, e
<1>4. /\ FlattenSeq(Append(Front(V), V[n + 1])) = FlattenSeq(Front(V)) \o V[n + 1]
      /\ FlattenSeq(Front(V)) \in Seq(S)
  BY <1>1, <1>2, FlattenAppend
<1>5. QED BY <1>2, <1>3, <1>4, ConcatProperties

\* The node that is pushed to and popped from: the last one, or the one before it while
\* the last one is empty.
AtTop(V, t) == t \in 1 .. Len(V) /\ (t = Len(V) \/ (t = Len(V) - 1 /\ V[Len(V)] = << >>))

Put(V, t, s) == [V EXCEPT ![t] = s]

\* W are the values of the other nodes.
Below(S, V, t, W) ==
  /\ W \in Seq(S)
  /\ FlattenSeq(V) = W \o V[t]
  /\ \A s \in Seq(S) : FlattenSeq(Put(V, t, s)) = W \o s

\* The values of that node are the last ones of all.
LEMMA FlattenAt ==
  ASSUME NEW S, NEW V \in Seq(Seq(S)), NEW t, AtTop(V, t)
  PROVE  \E W : Below(S, V, t, W)
<1> DEFINE n == Len(V) - 1
           e == Front(V)
           U(s) == Put(V, t, s)
<1>0. V[t] \in Seq(S) /\ U(V[t]) = V
  <2>1. t \in 1 .. Len(V) BY DEF AtTop
  <2>2. QED BY <2>1 DEF Put
<1>1. n \in Nat /\ Len(V) = n + 1 /\ t \in 1 .. n + 1 BY DEF AtTop
<1> HIDE DEF n
<1>2. e \in Seq(Seq(S)) /\ Len(e) = n /\ \A k \in 1 .. n : e[k] = V[k] BY <1>1, FrontIs
<1> HIDE DEF e
<1>3. ASSUME NEW s \in Seq(S)
      PROVE  /\ U(s) \in Seq(Seq(S)) /\ Len(U(s)) = n + 1
             /\ \A k \in 1 .. n + 1 : U(s)[k] = IF k = t THEN s ELSE V[k]
  BY <1>1, ExceptSeq DEF Put
<1> HIDE DEF U
<1>4. ASSUME NEW s \in Seq(S)
      PROVE  /\ Front(U(s)) \in Seq(Seq(S)) /\ Len(Front(U(s))) = n
             /\ \A k \in 1 .. n : Front(U(s))[k] = IF k = t THEN s ELSE V[k]
             /\ FlattenSeq(Front(U(s))) \in Seq(S)
             /\ FlattenSeq(U(s)) = FlattenSeq(Front(U(s))) \o U(s)[n + 1]
  <2> DEFINE u == U(s)
  <2>1. /\ u \in Seq(Seq(S)) /\ Len(u) = n + 1
        /\ \A k \in 1 .. n + 1 : u[k] = IF k = t THEN s ELSE V[k]
    BY <1>3
  <2> HIDE DEF u
  <2>2. Front(u) \in Seq(Seq(S)) /\ Len(Front(u)) = n /\ \A k \in 1 .. n : Front(u)[k] = u[k]
    BY <1>1, <2>1, FrontIs
  <2>3. \A k \in 1 .. n : k \in 1 .. n + 1 BY <1>1
  <2>4. FlattenSeq(Front(u)) \in Seq(S) /\ FlattenSeq(u) = FlattenSeq(Front(u)) \o u[n + 1]
    BY <1>1, <2>1, FlattenLast
  <2>5. QED BY <2>1, <2>2, <2>3, <2>4 DEF u
<1>5. CASE t = n + 1
  <2>1. FlattenSeq(e) \in Seq(S)
    <3>1. << >> \in Seq(S) OBVIOUS
    <3>2. QED BY <1>2, <3>1, FlattenAppend
  <2>2. ASSUME NEW s \in Seq(S) PROVE FlattenSeq(U(s)) = FlattenSeq(e) \o s
    <3> DEFINE u == Front(U(s))
    <3>1. u \in Seq(Seq(S)) /\ Len(u) = n /\ \A k \in 1 .. n : u[k] = e[k]
      BY <1>1, <1>2, <1>4, <1>5
    <3> HIDE DEF u
    <3>2. u = e BY <1>2, <3>1, SeqEqual
    <3>3. U(s)[n + 1] = s BY <1>1, <1>3, <1>5
    <3>4. QED BY <1>4, <3>2, <3>3 DEF u
  <2>3. QED BY <1>0, <2>1, <2>2 DEF U, Below
<1>6. CASE t # n + 1
  <2>1. t = n /\ V[n + 1] = << >> /\ n - 1 \in Nat /\ n = (n - 1) + 1 /\ n \in 1 .. n BY <1>1, <1>6 DEF AtTop
  <2>2. Front(e) \in Seq(Seq(S)) /\ Len(Front(e)) = n - 1 /\ \A k \in 1 .. n - 1 : Front(e)[k] = e[k]
    BY <1>2, <2>1, FrontIs
  <2>3. FlattenSeq(Front(e)) \in Seq(S)
    <3>1. << >> \in Seq(S) OBVIOUS
    <3>2. QED BY <2>2, <3>1, FlattenAppend
  <2>4. ASSUME NEW s \in Seq(S) PROVE FlattenSeq(U(s)) = FlattenSeq(Front(e)) \o s
    <3> DEFINE u == Front(U(s))
    <3>1. /\ u \in Seq(Seq(S)) /\ Len(u) = (n - 1) + 1 /\ u[n] = s
          /\ \A k \in 1 .. n - 1 : u[k] = e[k]
      <4>1. /\ u \in Seq(Seq(S)) /\ Len(u) = n
            /\ \A k \in 1 .. n : u[k] = IF k = t THEN s ELSE V[k]
        BY <1>4
      <4> HIDE DEF u
      <4>2. \A k \in 1 .. n - 1 : k \in 1 .. n /\ k # n BY <1>1, <2>1
      <4>3. QED BY <1>2, <2>1, <4>1, <4>2
    <3>2. FlattenSeq(U(s)) = FlattenSeq(u) \o << >> /\ FlattenSeq(u) \in Seq(S)
      <4>1. n + 1 \in 1 .. n + 1 /\ n + 1 # t BY <1>1, <1>6
      <4>2. U(s)[n + 1] = << >> BY <1>3, <2>1, <4>1
      <4>3. QED BY <1>4, <4>2
    <3> HIDE DEF u
    <3>3. FlattenSeq(U(s)) = FlattenSeq(u) BY <3>2, ConcatEmptySeq
    <3>4. FlattenSeq(u) = FlattenSeq(Front(u)) \o u[n]
      <4>1. FlattenSeq(u) = FlattenSeq(Front(u)) \o u[(n - 1) + 1] BY <2>1, <3>1, FlattenLast
      <4>2. QED BY <2>1, <4>1
    <3>5. Front(u) \in Seq(Seq(S)) /\ Len(Front(u)) = n - 1 /\ \A k \in 1 .. n - 1 : Front(u)[k] = u[k]
      BY <2>1, <3>1, FrontIs
    <3>6. Front(u) = Front(e)
      <4> DEFINE a == Front(u)
                 b == Front(e)
      <4>1. a \in Seq(Seq(S)) /\ b \in Seq(Seq(S)) /\ Len(a) = Len(b) BY <2>2, <3>5
      <4>2. \A k \in 1 .. n - 1 : a[k] = b[k] BY <2>2, <3>1, <3>5
      <4>3. Len(a) = n - 1 BY <3>5
      <4> HIDE DEF a, b
      <4>4. a = b BY <4>1, <4>2, <4>3, SeqEqual
      <4>5. QED BY <4>4 DEF a, b
    <3>7. QED BY <3>1, <3>3, <3>4, <3>6
  <2>5. QED BY <1>0, <2>3, <2>4 DEF U, Below
<1>7. QED BY <1>5, <1>6

-----------------------------------------------------------------------------
(* The inductive invariant.                                                *)

Free == (0 .. engine - 1) \ allocated

\* What the nodes of the stack hold, from the bottom to the top: values, but in the top
\* node none only if a node is below it; every other node has values, and the nodes
\* below the second are full, and the second itself once the top node is not empty.
Shape(V) ==
  /\ V \in Seq(Seq(Values))
  /\ \A k \in 1 .. Len(V) :
       /\ Len(V[k]) <= NodeCapacity
       /\ k < Len(V) => V[k] # << >>
       /\ k < Len(V) - 1 => Len(V[k]) = NodeCapacity
       /\ k = Len(V) - 1 /\ V[Len(V)] # << >> => Len(V[k]) = NodeCapacity
  /\ Len(V) = 1 => V[1] # << >>

\* The nodes of c that are buffered.
BufferFor(c) ==
  IF Len(c) < 2 THEN c ELSE <<c[Len(c) - 1], c[Len(c)]>>

\* The stack has the nodes c, from the bottom to the top; after a read that failed only
\* the topmost one is buffered.
StackOf(c) ==
  /\ Rises(node, top, c)
  /\ \A k \in 1 .. Len(c) : c[k] \in allocated
  /\ Shape(ValuesOf(node, c))
  /\ nodes = Len(c)
  /\ size = Len(FlattenSeq(ValuesOf(node, c)))
  /\ m_buf = BufferFor(c) \/ (Len(c) >= 2 /\ m_buf = <<c[Len(c)]>>)

\* The node_allocator has given away the blocks that are allocated, and no others.
AllocatorInv ==
  /\ engine \in 0 .. MaxBlocks
  /\ total = engine
  /\ allocated \subseteq 0 .. engine - 1
  /\ free = Cardinality(Free)
  /\ List \in Lists
  /\ Holds(List, Free)

Inv == AllocatorInv /\ \E c : StackOf(c)

-----------------------------------------------------------------------------
(* The node_allocator.                                                     *)

\* As many blocks as a sequence that names none twice is long.
LEMMA SeqCardinality ==
  ASSUME NEW S, NEW s \in Seq(S), \A i, j \in 1 .. Len(s) : s[i] = s[j] => i = j
  PROVE  IsFiniteSet(ToSet(s)) /\ Cardinality(ToSet(s)) = Len(s)
<1> DEFINE n == Len(s)
           T == ToSet(s)
<1>1. n \in Nat /\ DOMAIN s = 1 .. n OBVIOUS
<1>2. s \in [1 .. n -> T] BY <1>1 DEF ToSet
<1>3. s \in Bijection(1 .. n, T)
  <2>1. s \in Injection(1 .. n, T) BY <1>2 DEF Injection, IsInjective
  <2>2. \A t \in T : \E i \in 1 .. n : s[i] = t BY <1>1 DEF ToSet
  <2>3. QED BY <1>2, <2>1, <2>2 DEF Bijection, Surjection
<1>4. IsFiniteSet(1 .. n) /\ Cardinality(1 .. n) = n
  <2>1. 1 \in Int /\ n \in Int BY <1>1
  <2>2. IsFiniteSet(1 .. n) /\ Cardinality(1 .. n) = IF 1 > n THEN 0 ELSE n - 1 + 1
    BY <2>1, FS_Interval
  <2>3. QED BY <1>1, <2>2
<1> HIDE DEF T, n
<1>5. Cardinality(T) = n /\ IsFiniteSet(T)
  <2>1. ExistsBijection(1 .. n, T) BY <1>3 DEF ExistsBijection
  <2>2. QED BY <1>4, <2>1, FS_Bijection
<1>6. QED BY <1>5 DEF T, n

\* The blocks of the allocator are blocks, and finitely many.
LEMMA FreeFinite ==
  ASSUME AllocatorInv
  PROVE  /\ engine \in Nat /\ MaxBlocks \in Nat /\ engine <= MaxBlocks
         /\ Free \subseteq Blocks /\ allocated \subseteq Blocks /\ IsFiniteSet(Free)
         /\ free = Cardinality(Free) /\ Cardinality(Free) \in Nat
<1>1. engine \in Nat /\ MaxBlocks \in Nat /\ engine <= MaxBlocks BY FreeListAssumption DEF AllocatorInv
<1>2. IsFiniteSet(0 .. engine - 1)
  <2>1. 0 \in Int /\ engine - 1 \in Int BY <1>1
  <2>2. QED BY <2>1, FS_Interval
<1>3. IsFiniteSet(Free) BY <1>2, FS_Difference DEF Free
<1>4. \A x \in 0 .. engine - 1 : x \in Blocks BY <1>1 DEF Blocks
<1>5. QED BY <1>1, <1>3, <1>4, FS_CardinalityType DEF AllocatorInv, Free

\* do_free() of blocks that are allocated.
LEMMA FreeNodesKeeps ==
  ASSUME AllocatorInv, NEW f \in [Blocks -> Nodes], \A x \in Free : f[x] = node[x],
         NEW blocks \in Seq(allocated),
         \A i, j \in 1 .. Len(blocks) : blocks[i] = blocks[j] => i = j,
         FreeNodes(f, blocks)
  PROVE  /\ AllocatorInv'
         /\ Free' = Free \cup ToSet(blocks)
         /\ allocated' = allocated \ ToSet(blocks)
         /\ \A x \in Blocks \ (Free \cup ToSet(blocks)) : node'[x] = f[x]
<1> DEFINE B == ToSet(blocks)
           wiped == [b \in Blocks |-> IF b \in B THEN Empty ELSE f[b]]
           list == [head |-> head, node |-> wiped]
           pushed == PushAll(list, blocks)
<1>1. /\ engine \in Nat /\ MaxBlocks \in Nat /\ engine <= MaxBlocks
      /\ Free \subseteq Blocks /\ allocated \subseteq Blocks /\ IsFiniteSet(Free)
      /\ free = Cardinality(Free) /\ Cardinality(Free) \in Nat
  BY FreeFinite
<1>2. /\ head' = pushed.head /\ node' = pushed.node
      /\ free' = free + Len(blocks) /\ allocated' = allocated \ B
      /\ engine' = engine /\ total' = total
  BY DEF FreeNodes
<1>3. Len(blocks) \in Nat /\ (\A k \in 1 .. Len(blocks) : blocks[k] \in allocated)
      /\ B \subseteq allocated
  BY DEF ToSet
<1>4. blocks \in Seq(Blocks) BY <1>1, SeqMonotonic
<1>5. allocated \cap Free = {} BY DEF Free
<1> HIDE DEF B, wiped
<1>6. wiped \in [Blocks -> Nodes]
  <2>1. Empty \in Nodes
    <3>1. << >> \in Seq(Values \cup Blocks) OBVIOUS
    <3>2. QED BY <3>1 DEF Empty, Nodes, Links
  <2>2. QED BY <2>1 DEF wiped
<1>7. head \in Links /\ node \in [Blocks -> Nodes] BY DEF AllocatorInv, Lists, List
<1>8. list \in Lists BY <1>6, <1>7 DEF Lists
<1>9. Holds(list, Free)
  <2>1. \A x \in Free : wiped[x] = node[x] BY <1>1, <1>3, <1>5 DEF wiped
  <2>2. Holds([head |-> head, node |-> node], Free) BY DEF AllocatorInv, List
  <2>3. QED BY <2>1, <2>2, HoldsFrame
<1>10. list.node = wiped OBVIOUS
<1> HIDE DEF list
<1>11. pushed \in Lists /\ Holds(pushed, Free \cup B) /\ SameBut(pushed, list, Free \cup B)
  <2>1. \A k \in 1 .. Len(blocks) : blocks[k] \notin Free BY <1>3, <1>5
  <2>2. QED BY <1>4, <1>8, <1>9, <2>1, PushAllHolds DEF B
<1>12. Free' = Free \cup B BY <1>2, <1>3 DEF Free, AllocatorInv
<1>13. List' = pushed
  <2>1. List' = [head |-> head', node |-> node'] BY DEF List
  <2>2. pushed = [head |-> pushed.head, node |-> pushed.node] BY <1>11 DEF Lists
  <2> HIDE DEF pushed
  <2>3. QED BY <1>2, <2>1, <2>2
<1>14. free' = Cardinality(Free')
  <2>1. IsFiniteSet(B) /\ Cardinality(B) = Len(blocks) BY SeqCardinality DEF B
  <2>2. Free \cap B = {} BY <1>3, <1>5
  <2>3. Cardinality(Free \cup B) = Cardinality(Free) + Cardinality(B)
    <3>1. Cardinality(Free \cup B) = Cardinality(Free) + Cardinality(B) - Cardinality(Free \cap B)
      BY <1>1, <2>1, FS_Union
    <3>2. Cardinality(Free \cap B) = 0 BY <2>2, FS_EmptySet
    <3>3. QED BY <1>1, <1>3, <2>1, <3>1, <3>2
  <2>4. QED BY <1>1, <1>2, <1>12, <2>1, <2>3
<1>15. AllocatorInv'
  <2>1. engine' \in 0 .. MaxBlocks /\ total' = engine' /\ allocated' \subseteq 0 .. engine' - 1
    BY <1>2 DEF AllocatorInv
  <2> HIDE DEF pushed
  <2>2. List' \in Lists /\ Holds(List', Free') BY <1>11, <1>12, <1>13
  <2>3. QED BY <1>14, <2>1, <2>2 DEF AllocatorInv
<1>16. ASSUME NEW x \in Blocks \ (Free \cup B) PROVE node'[x] = f[x]
  <2>1. pushed.node[x] = wiped[x] BY <1>10, <1>11 DEF SameBut
  <2> HIDE DEF pushed
  <2>2. QED BY <1>2, <2>1 DEF wiped
<1>17. QED BY <1>2, <1>12, <1>15, <1>16 DEF B

\* What do_allocate() finds, once the engine has grown where the list was empty.
Supply == (0 .. (engine + (IF head = None THEN ChunkSize ELSE 0)) - 1) \ allocated

\* do_allocate(): the block that it returns was free or is new.
LEMMA AllocationIs ==
  ASSUME AllocatorInv, engine + (IF head = None THEN ChunkSize ELSE 0) <= MaxBlocks
  PROVE  /\ Allocation.block \in Supply
         /\ Allocation.list \in Lists
         /\ Holds(Allocation.list, Supply \ {Allocation.block})
         /\ SameBut(Allocation.list, List, Supply)
         /\ Supply \subseteq Blocks
<1>1. /\ engine \in Nat /\ MaxBlocks \in Nat /\ engine <= MaxBlocks
      /\ Free \subseteq Blocks /\ allocated \subseteq Blocks
  BY FreeFinite
<1>2. List \in Lists /\ Holds(List, Free) /\ List.head = head BY DEF AllocatorInv, List
<1>3. ChunkSize \in Nat \ {0} BY NodeAllocatorAssumption
<1>4. Supply \subseteq Blocks BY <1>1, <1>3 DEF Supply, Blocks
<1> DEFINE list == IF head = None THEN PushAll(List, Chunk) ELSE List
<1>5. list \in Lists /\ Holds(list, Supply) /\ SameBut(list, List, Supply) /\ list.head # None
  <2>1. CASE head # None
    <3>1. list = List /\ Supply = Free BY <1>1, <2>1 DEF Supply, Free
    <3> HIDE DEF list
    <3>2. QED BY <1>2, <2>1, <3>1 DEF SameBut
  <2>2. CASE head = None
    <3>1. Chunk = [k \in 1 .. ChunkSize |-> engine + ChunkSize - k] BY DEF Chunk
    <3>2. Len(Chunk) = ChunkSize /\ Chunk \in Seq(Blocks)
      <4>1. \A k \in 1 .. ChunkSize : engine + ChunkSize - k \in Blocks
        BY <1>1, <1>3, <2>2 DEF Blocks
      <4>2. QED BY <1>3, <3>1, <4>1
    <3>3. \A k \in 1 .. ChunkSize : Chunk[k] = engine + ChunkSize - k BY <3>1
    <3> HIDE DEF Chunk
    <3>4. \A k \in 1 .. ChunkSize : Chunk[k] \notin Free BY <1>1, <1>3, <3>3 DEF Free
    <3>5. \A k, j \in 1 .. ChunkSize : Chunk[k] = Chunk[j] => k = j BY <1>1, <1>3, <3>3
    <3>6. ToSet(Chunk) = engine .. (engine + ChunkSize) - 1
      <4>1. ToSet(Chunk) = { Chunk[k] : k \in 1 .. ChunkSize } BY <3>2 DEF ToSet
      <4>2. ASSUME NEW x \in engine .. (engine + ChunkSize) - 1
            PROVE  x \in ToSet(Chunk)
        <5>1. engine + ChunkSize - x \in 1 .. ChunkSize BY <1>1, <1>3
        <5>2. Chunk[engine + ChunkSize - x] = x BY <1>1, <1>3, <3>3, <5>1
        <5>3. QED BY <4>1, <5>1, <5>2
      <4>3. \A k \in 1 .. ChunkSize : Chunk[k] \in engine .. (engine + ChunkSize) - 1
        BY <1>1, <1>3, <3>3
      <4>4. QED BY <4>1, <4>2, <4>3
    <3>7. Supply = Free \cup ToSet(Chunk)
      <4>1. allocated \subseteq 0 .. engine - 1 BY DEF AllocatorInv
      <4>2. Supply = (0 .. (engine + ChunkSize) - 1) \ allocated BY <2>2 DEF Supply
      <4>3. QED BY <1>1, <1>3, <3>6, <4>1, <4>2 DEF Free
    <3>8. list = PushAll(List, Chunk) BY <2>2
    <3>9. PushAll(List, Chunk) \in Lists /\ Holds(PushAll(List, Chunk), Supply)
          /\ SameBut(PushAll(List, Chunk), List, Supply)
      BY <1>2, <3>2, <3>4, <3>5, <3>7, PushAllHolds
    <3> HIDE DEF list
    <3>10. list \in Lists /\ Holds(list, Supply) /\ SameBut(list, List, Supply) BY <3>8, <3>9
    <3>11. list.head # None
      <4>1. PICK d : Rises(list.node, list.head, d) /\ Tidy(d, ValuesOf(list.node, d), Supply)
        BY <3>10 DEF Holds
      <4>2. engine \in Supply
        <5>1. engine \in ToSet(Chunk) BY <1>1, <1>3, <3>6
        <5>2. QED BY <3>7, <5>1
      <4>3. d # << >>
        <5>1. \/ \E k \in 1 .. Len(d) : engine = d[k]
              \/ \E k \in 1 .. Len(d) : \E x \in 1 .. Len(ValuesOf(list.node, d)[k]) :
                   engine = ValuesOf(list.node, d)[k][x]
          BY <4>1, <4>2, Zenon DEF Tidy, Covers
        <5>2. \E k \in 1 .. Len(d) : TRUE BY <5>1, Zenon
        <5>3. QED BY <5>2
      <4>4. QED BY <4>1, <4>3, RisesEmpty
    <3>12. QED BY <3>10, <3>11
  <2>3. QED BY <2>1, <2>2
<1>6. Allocation = Pop(list) BY DEF Allocation
<1> HIDE DEF list
<1>7. /\ Pop(list).block \in Supply /\ Pop(list).list \in Lists
      /\ Holds(Pop(list).list, Supply \ {Pop(list).block})
      /\ SameBut(Pop(list).list, list, Supply)
  BY <1>5, PopHolds
<1>8. SameBut(Pop(list).list, List, Supply) BY <1>5, <1>7 DEF SameBut
<1>9. QED BY <1>4, <1>6, <1>7, <1>8

\* do_allocate() keeps the allocator's invariant, whatever is then written to the block.
LEMMA AllocateKeeps ==
  ASSUME AllocatorInv, Allocate, node' \in [Blocks -> Nodes],
         \A x \in Supply \ {Allocation.block} : node'[x] = Allocation.list.node[x]
  PROVE  /\ AllocatorInv'
         /\ Free' = Supply \ {Allocation.block}
<1> DEFINE b == Allocation.block
           l == Allocation.list
           grown == IF head = None THEN ChunkSize ELSE 0
<1>1. /\ engine + grown <= MaxBlocks /\ head' = l.head
      /\ engine' = engine + grown /\ total' = total + grown
      /\ free' = free + grown - 1 /\ allocated' = allocated \cup {b}
  BY DEF Allocate
<1>2. /\ b \in Supply /\ l \in Lists /\ Holds(l, Supply \ {b}) /\ Supply \subseteq Blocks
  BY <1>1, AllocationIs
<1>3. /\ engine \in Nat /\ MaxBlocks \in Nat /\ engine <= MaxBlocks
      /\ Free \subseteq Blocks /\ allocated \subseteq Blocks /\ IsFiniteSet(Free)
      /\ free = Cardinality(Free) /\ Cardinality(Free) \in Nat
  BY FreeFinite
<1>4. grown \in Nat BY NodeAllocatorAssumption
<1>5. Supply = (0 .. (engine + grown) - 1) \ allocated BY DEF Supply
<1>6. total = engine /\ allocated \subseteq 0 .. engine - 1 BY DEF AllocatorInv
<1> HIDE DEF b, l, grown
<1>7. Free' = Supply \ {b} BY <1>1, <1>2, <1>5 DEF Free
<1>8. IsFiniteSet(Supply) /\ Cardinality(Supply) = free + grown
  <2> DEFINE N == engine .. (engine + grown) - 1
  <2>1. engine \in Int /\ (engine + grown) - 1 \in Int BY <1>3, <1>4
  <2>2. IsFiniteSet(N) /\ Cardinality(N) = IF engine > (engine + grown) - 1 THEN 0
                                           ELSE ((engine + grown) - 1) - engine + 1
    BY <2>1, FS_Interval
  <2>3. Cardinality(N) = grown BY <1>3, <1>4, <2>2
  <2>4. Supply = Free \cup N /\ Free \cap N = {} BY <1>3, <1>4, <1>5, <1>6 DEF Free
  <2> HIDE DEF N
  <2>5. IsFiniteSet(Free \cup N)
        /\ Cardinality(Free \cup N) = Cardinality(Free) + Cardinality(N) - Cardinality(Free \cap N)
    BY <1>3, <2>2, FS_Union
  <2>6. Cardinality(Free \cap N) = 0 BY <2>4, FS_EmptySet
  <2>7. QED BY <1>3, <1>4, <2>3, <2>4, <2>5, <2>6
<1>9. free' = Cardinality(Free')
  <2>1. Cardinality(Supply \ {b}) = Cardinality(Supply) - 1 BY <1>2, <1>8, FS_RemoveElement
  <2>2. QED BY <1>1, <1>3, <1>4, <1>7, <1>8, <2>1
<1>10. List' \in Lists /\ Holds(List', Free')
  <2>1. List' = [head |-> head', node |-> node'] BY DEF List
  <2>2. l = [head |-> l.head, node |-> l.node] /\ l.head \in Links BY <1>2 DEF Lists
  <2>3. List' \in Lists BY <1>1, <2>1, <2>2 DEF Lists
  <2>4. Holds([head |-> l.head, node |-> l.node], Supply \ {b}) BY <1>2, <2>2
  <2>5. \A x \in Supply \ {b} : node'[x] = l.node[x] BY DEF l, b
  <2>6. Holds([head |-> l.head, node |-> node'], Supply \ {b}) BY <2>4, <2>5, HoldsFrame
  <2>7. QED BY <1>1, <1>7, <2>1, <2>3, <2>6
<1>11. engine' \in 0 .. MaxBlocks /\ total' = engine' /\ allocated' \subseteq 0 .. engine' - 1
  BY <1>1, <1>2, <1>3, <1>4, <1>5, <1>6
<1>12. QED BY <1>7, <1>9, <1>10, <1>11 DEF AllocatorInv, b

-----------------------------------------------------------------------------
(* Values pushed and popped.                                               *)

\* A value pushed to that node is the last of all.
LEMMA FlattenPush ==
  ASSUME NEW S, NEW V \in Seq(Seq(S)), NEW t, AtTop(V, t), NEW v \in S
  PROVE  /\ FlattenSeq(V) \in Seq(S)
         /\ FlattenSeq(Put(V, t, Append(V[t], v))) = Append(FlattenSeq(V), v)
<1>0. PICK W : Below(S, V, t, W) BY FlattenAt
<1>1. /\ W \in Seq(S) /\ FlattenSeq(V) = W \o V[t]
      /\ \A s \in Seq(S) : FlattenSeq(Put(V, t, s)) = W \o s
  BY <1>0 DEF Below
<1> DEFINE s == V[t]
<1>2. s \in Seq(S) /\ Append(s, v) \in Seq(S)
  <2>1. t \in 1 .. Len(V) BY DEF AtTop
  <2>2. s \in Seq(S) BY <2>1
  <2>3. QED BY <2>2, AppendProperties
<1> DEFINE a == Append(s, v)
<1> HIDE DEF s, a
<1>3. FlattenSeq(Put(V, t, Append(s, v))) = W \o Append(s, v)
  <2>1. a \in Seq(S) BY <1>2 DEF a
  <2>2. FlattenSeq(Put(V, t, a)) = W \o a BY <1>1, <2>1
  <2>3. QED BY <2>2 DEF a
<1>4. W \o Append(s, v) = Append(W \o s, v) /\ W \o s \in Seq(S)
  <2>1. <<v>> \in Seq(S) /\ v \in S /\ s \in Seq(S) /\ W \in Seq(S) BY <1>1, <1>2
  <2>2. W \o s \in Seq(S) BY ONLY <2>1, ConcatProperties
  <2>3. Append(s, v) = s \o <<v>> /\ Append(W \o s, v) = (W \o s) \o <<v>>
    BY ONLY <2>1, <2>2, AppendIsConcat
  <2>4. (W \o s) \o <<v>> = W \o (s \o <<v>>) BY ONLY <2>1, ConcatAssociative
  <2>5. QED BY ONLY <2>2, <2>3, <2>4
<1>5. QED BY <1>1, <1>3, <1>4 DEF s

\* A value popped from it was the last of all.
LEMMA FlattenPop ==
  ASSUME NEW S, NEW V \in Seq(Seq(S)), NEW t, AtTop(V, t), V[t] # << >>
  PROVE  /\ FlattenSeq(V) \in Seq(S) /\ FlattenSeq(V) # << >>
         /\ Last(FlattenSeq(V)) = Last(V[t])
         /\ FlattenSeq(Put(V, t, Front(V[t]))) = Front(FlattenSeq(V))
<1>0. PICK W : Below(S, V, t, W) BY FlattenAt
<1>1. /\ W \in Seq(S) /\ FlattenSeq(V) = W \o V[t]
      /\ \A s \in Seq(S) : FlattenSeq(Put(V, t, s)) = W \o s
  BY <1>0 DEF Below
<1> DEFINE s == V[t]
           m == Len(s) - 1
           p == Front(s)
           w == Len(W)
           C == W \o s
<1>2. s \in Seq(S) /\ m \in Nat /\ Len(s) = m + 1 /\ w \in Nat
  <2>1. t \in 1 .. Len(V) BY DEF AtTop
  <2>2. s \in Seq(S) BY <2>1
  <2> HIDE DEF s
  <2>3. s # << >> BY DEF s
  <2>4. QED BY <2>2, <2>3
<1>3. p \in Seq(S) /\ Len(p) = m /\ \A k \in 1 .. m : p[k] = s[k] BY <1>2, FrontIs
<1>4. FlattenSeq(Put(V, t, p)) = W \o p BY <1>1, <1>3
<1> HIDE DEF s, p, m
<1>5. C \in Seq(S) /\ Len(C) = (w + m) + 1
      /\ (\A k \in 1 .. Len(C) : C[k] = IF k <= w THEN W[k] ELSE s[k - w])
  <2>1. C \in Seq(S) /\ Len(C) = Len(W) + Len(s) BY <1>1, <1>2, ConcatProperties
  <2>2. Len(C) = (w + m) + 1 BY <1>2, <2>1
  <2>3. \A k \in 1 .. Len(W) + Len(s) : C[k] = IF k <= Len(W) THEN W[k] ELSE s[k - Len(W)]
    BY <1>1, <1>2, ConcatProperties
  <2>4. QED BY <2>1, <2>2, <2>3
<1> HIDE DEF C
<1>6. C # << >> BY <1>2, <1>5
<1>7. Last(C) = Last(s)
  <2>1. Last(C) = C[(w + m) + 1] /\ Last(s) = s[m + 1] BY <1>2, <1>5 DEF Last
  <2>2. (w + m) + 1 \in 1 .. Len(C) /\ ~((w + m) + 1 <= w) /\ ((w + m) + 1) - w = m + 1
    BY <1>2, <1>5
  <2>3. C[(w + m) + 1] = s[((w + m) + 1) - w] BY <1>5, <2>2
  <2>4. QED BY <2>1, <2>2, <2>3
<1>8. W \o p = Front(C)
  <2>1. Front(C) \in Seq(S) /\ Len(Front(C)) = w + m /\ \A k \in 1 .. w + m : Front(C)[k] = C[k]
    <3>1. w + m \in Nat BY <1>2
    <3> HIDE DEF w
    <3>2. QED BY <1>5, <3>1, FrontIs
  <2>2. /\ W \o p \in Seq(S) /\ Len(W \o p) = w + m
        /\ \A k \in 1 .. w + m : (W \o p)[k] = IF k <= w THEN W[k] ELSE p[k - w]
    BY <1>1, <1>2, <1>3, ConcatProperties
  <2>3. ASSUME NEW k \in 1 .. w + m PROVE (W \o p)[k] = Front(C)[k]
    <3>1. k \in 1 .. Len(C) BY <1>2, <1>5
    <3>2. Front(C)[k] = IF k <= w THEN W[k] ELSE s[k - w] BY <1>5, <2>1, <3>1
    <3>3. ~(k <= w) => k - w \in 1 .. m BY <1>2
    <3>4. QED BY <1>3, <2>2, <3>2, <3>3
  <2> DEFINE a == W \o p
             b == Front(C)
  <2>4. a \in Seq(S) /\ b \in Seq(S) /\ Len(a) = w + m /\ Len(b) = w + m
        /\ \A k \in 1 .. w + m : a[k] = b[k]
    BY <2>1, <2>2, <2>3
  <2> HIDE DEF a, b
  <2>5. a = b BY <2>4, SeqEqual
  <2>6. QED BY <2>5 DEF a, b
<1>9. FlattenSeq(V) = C BY <1>1 DEF C, s
<1>10. QED BY <1>4, <1>5, <1>6, <1>7, <1>8, <1>9 DEF p, s

-----------------------------------------------------------------------------
(* The shape of the stack.                                                 *)

\* The parts of Shape, for one node.
Fits(V, k) ==
  /\ Len(V[k]) <= NodeCapacity
  /\ k < Len(V) => V[k] # << >>
  /\ k < Len(V) - 1 => Len(V[k]) = NodeCapacity
  /\ k = Len(V) - 1 /\ V[Len(V)] # << >> => Len(V[k]) = NodeCapacity

\* A value is pushed to the node that has room.
LEMMA ShapePush ==
  ASSUME NEW V, Shape(V), NEW t, AtTop(V, t), NEW v \in Values, Len(V[t]) < NodeCapacity,
         t = Len(V) /\ Len(V) >= 2 => Len(V[Len(V) - 1]) = NodeCapacity
  PROVE  Shape(Put(V, t, Append(V[t], v)))
<1> DEFINE n == Len(V)
           s == Append(V[t], v)
           U == Put(V, t, s)
<1>1. V \in Seq(Seq(Values)) /\ n \in Nat /\ t \in 1 .. n BY DEF Shape, AtTop
<1>2. s \in Seq(Values) /\ Len(s) = Len(V[t]) + 1 /\ s # << >> /\ Len(V[t]) \in Nat
  <2>1. V[t] \in Seq(Values) BY <1>1
  <2>2. s \in Seq(Values) /\ Len(s) = Len(V[t]) + 1 BY <2>1, AppendProperties
  <2>3. Len(s) # 0 BY <2>1, <2>2
  <2> HIDE DEF s
  <2>4. QED BY <2>1, <2>2, <2>3
<1>3. U \in Seq(Seq(Values)) /\ Len(U) = n /\ \A k \in 1 .. n : U[k] = IF k = t THEN s ELSE V[k]
  BY <1>1, <1>2, ExceptSeq DEF Put
<1> HIDE DEF U, s
<1>4. ASSUME NEW k \in 1 .. n PROVE Fits(U, k)
  <2>1. Fits(V, k) BY DEF Shape, Fits
  <2>2. Len(U[k]) <= NodeCapacity
    <3>1. CASE k = t
      <4>1. U[k] = s BY <1>3, <3>1
      <4>2. Len(V[t]) \in Nat /\ Len(V[t]) < NodeCapacity /\ NodeCapacity \in Nat
        BY <1>2, StackAssumption
      <4>3. Len(V[t]) + 1 <= NodeCapacity BY ONLY <4>2
      <4>4. QED BY <1>2, <4>1, <4>3
    <3>2. CASE k # t
      <4>1. U[k] = V[k] BY <1>3, <3>2
      <4>2. QED BY <2>1, <4>1 DEF Fits
    <3>3. QED BY <3>1, <3>2
  <2>3. k < n => U[k] # << >> BY <1>2, <1>3, <2>1 DEF Fits
  <2>4. ASSUME k < n - 1 PROVE Len(U[k]) = NodeCapacity
    <3>1. t = n \/ t = n - 1 BY DEF AtTop
    <3>2. k # t BY <1>1, <2>4, <3>1
    <3>3. U[k] = V[k] BY <1>3, <3>2
    <3>4. Len(V[k]) = NodeCapacity BY <2>1, <2>4 DEF Fits
    <3>5. QED BY <3>3, <3>4
  <2>5. ASSUME k = n - 1, U[n] # << >> PROVE Len(U[k]) = NodeCapacity
    <3>1. n \in 1 .. n /\ n >= 2 /\ n - 1 \in 1 .. n /\ n - 1 # n BY <1>1, <2>5
    <3>2. CASE t = n
      <4>1. U[k] = V[n - 1] BY <1>3, <2>5, <3>1, <3>2
      <4>2. QED BY <3>1, <3>2, <4>1
    <3>3. CASE t # n
      <4>1. U[n] = V[n] /\ V[n] = << >> BY <1>3, <3>1, <3>3 DEF AtTop
      <4>2. QED BY <2>5, <4>1
    <3>4. QED BY <3>2, <3>3
  <2>6. QED BY <1>3, <2>2, <2>3, <2>4, <2>5 DEF Fits
<1>5. n = 1 => U[1] # << >> BY <1>1, <1>2, <1>3
<1>6. Shape(U) BY <1>3, <1>4, <1>5 DEF Shape, Fits
<1>7. QED BY <1>6 DEF U, s

\* A value is popped that is not the last one of the lower buffered node.
LEMMA ShapePop ==
  ASSUME NEW V, Shape(V), NEW t, AtTop(V, t), V[t] # << >>,
         t = Len(V) - 1 => Len(V[t]) > 1, Len(V) = 1 => Len(V[t]) > 1
  PROVE  Shape(Put(V, t, Front(V[t])))
<1> DEFINE n == Len(V)
           m == Len(V[t]) - 1
           s == Front(V[t])
           U == Put(V, t, s)
<1>1. V \in Seq(Seq(Values)) /\ n \in Nat /\ t \in 1 .. n BY DEF Shape, AtTop
<1>2. V[t] \in Seq(Values) /\ m \in Nat /\ Len(V[t]) = m + 1
  <2>1. V[t] \in Seq(Values) BY <1>1
  <2>2. Len(V[t]) \in Nat /\ Len(V[t]) # 0 BY <2>1
  <2>3. QED BY <2>1, <2>2
<1>3. s \in Seq(Values) /\ Len(s) = m BY <1>2, FrontIs
<1>4. U \in Seq(Seq(Values)) /\ Len(U) = n /\ \A k \in 1 .. n : U[k] = IF k = t THEN s ELSE V[k]
  BY <1>1, <1>3, ExceptSeq DEF Put
<1> HIDE DEF U, s, m
<1>5. m > 0 => s # << >> BY <1>2, <1>3
<1>6. ASSUME NEW k \in 1 .. n PROVE Fits(U, k)
  <2>1. Fits(V, k) BY DEF Shape, Fits
  <2>2. Len(U[k]) <= NodeCapacity BY <1>2, <1>3, <1>4, <2>1, StackAssumption DEF Fits
  <2>3. k < n => U[k] # << >>
    <3>1. CASE k = t
      <4>1. k < n => m > 0 BY <1>1, <1>2, <3>1 DEF AtTop
      <4>2. QED BY <1>4, <1>5, <3>1, <4>1
    <3>2. CASE k # t BY <1>4, <2>1, <3>2 DEF Fits
    <3>3. QED BY <3>1, <3>2
  <2>4. ASSUME k < n - 1 PROVE Len(U[k]) = NodeCapacity
    <3>1. t = n \/ t = n - 1 BY DEF AtTop
    <3>2. k # t BY <1>1, <2>4, <3>1
    <3>3. U[k] = V[k] BY <1>4, <3>2
    <3>4. Len(V[k]) = NodeCapacity BY <2>1, <2>4 DEF Fits
    <3>5. QED BY <3>3, <3>4
  <2>5. ASSUME k = n - 1, U[n] # << >> PROVE Len(U[k]) = NodeCapacity
    <3>1. n \in 1 .. n /\ n - 1 \in 1 .. n /\ n - 1 # n BY <1>1, <2>5
    <3>2. CASE t = n
      <4>1. U[k] = V[k] BY <1>4, <2>5, <3>1, <3>2
      <4>2. V[n] # << >> BY <3>2
      <4>3. QED BY <2>1, <2>5, <4>1, <4>2 DEF Fits
    <3>3. CASE t # n
      <4>1. U[n] = V[n] /\ V[n] = << >> BY <1>4, <3>1, <3>3 DEF AtTop
      <4>2. QED BY <2>5, <4>1
    <3>4. QED BY <3>2, <3>3
  <2>6. QED BY <1>4, <2>2, <2>3, <2>4, <2>5 DEF Fits
<1>7. n = 1 => U[1] # << >>
  <2>1. n = 1 => t = 1 /\ m > 0 BY <1>1, <1>2
  <2>2. QED BY <1>1, <1>4, <1>5, <2>1
<1>8. Shape(U) BY <1>4, <1>6, <1>7 DEF Shape, Fits
<1>9. QED BY <1>8 DEF U, s

\* A node with one value on top of full ones.
LEMMA ShapeNewNode ==
  ASSUME NEW V, Shape(V), NEW v \in Values, Len(V) # 0 => Len(V[Len(V)]) = NodeCapacity
  PROVE  Shape(Append(V, <<v>>))
<1> DEFINE n == Len(V)
           s == <<v>>
           U == Append(V, s)
<1>1. V \in Seq(Seq(Values)) /\ n \in Nat BY DEF Shape
<1>2. s \in Seq(Values) /\ Len(s) = 1 /\ s # << >> OBVIOUS
<1> HIDE DEF s
<1>3. U \in Seq(Seq(Values)) /\ Len(U) = n + 1 /\ U[n + 1] = s /\ \A k \in 1 .. n : U[k] = V[k]
  BY <1>1, <1>2, AppendProperties
<1> HIDE DEF U, n
<1>4. ASSUME NEW k \in 1 .. n + 1 PROVE Fits(U, k)
  <2>1. CASE k = n + 1
    <3>1. Len(U[k]) = 1 /\ ~(k < n + 1) /\ ~(k < (n + 1) - 1) /\ k # (n + 1) - 1
      BY <1>1, <1>2, <1>3, <2>1
    <3>2. QED BY <1>3, <3>1, StackAssumption DEF Fits
  <2>2. CASE k \in 1 .. n
    <3>1. Fits(V, k) /\ U[k] = V[k] /\ V[k] \in Seq(Values)
      <4>1. k \in 1 .. Len(V) BY <2>2 DEF n
      <4>2. Fits(V, k) BY <4>1 DEF Shape, Fits
      <4>3. V[k] \in Seq(Values) BY <1>1, <4>1
      <4>4. QED BY <1>3, <2>2, <4>2, <4>3
    <3>2. Len(V[k]) = NodeCapacity
      <4>1. CASE k = n BY <1>1, <2>2, <4>1 DEF n
      <4>2. CASE k # n
        <5>1. n # 0 /\ n \in 1 .. n /\ V[n] \in Seq(Values) BY <1>1, <2>2 DEF n
        <5>2. Len(V[n]) # 0 BY <5>1, StackAssumption DEF n
        <5>3. V[n] # << >> BY <5>2
        <5>4. k < n - 1 \/ k = n - 1 BY <1>1, <2>2, <4>2
        <5>5. QED BY <3>1, <5>3, <5>4 DEF Fits, n
      <4>3. QED BY <4>1, <4>2
    <3>3. V[k] # << >>
      <4>1. Len(V[k]) # 0 BY <3>2, StackAssumption
      <4>2. QED BY <4>1
    <3>4. QED BY <1>1, <1>3, <2>2, <3>1, <3>2, <3>3, StackAssumption DEF Fits
  <2>3. QED BY <1>1, <2>1, <2>2
<1>5. n + 1 = 1 => U[1] # << >> BY <1>1, <1>2, <1>3
<1>6. Shape(U) BY <1>3, <1>4, <1>5 DEF Shape, Fits
<1>7. QED BY <1>6 DEF U, s

\* The top node is dropped, when it and the node below it are empty.
LEMMA ShapeDropTop ==
  ASSUME NEW V, Shape(V), NEW n \in Nat, Len(V) = n + 1, n >= 2
  PROVE  Shape(Front(Put(V, n, << >>)))
<1> DEFINE P == Put(V, n, << >>)
           U == Front(P)
<1>1. V \in Seq(Seq(Values)) /\ << >> \in Seq(Values) /\ n \in 1 .. Len(V) BY DEF Shape
<1>2. P \in Seq(Seq(Values)) /\ Len(P) = n + 1
      /\ \A k \in 1 .. n + 1 : P[k] = IF k = n THEN << >> ELSE V[k]
  BY <1>1, ExceptSeq DEF Put
<1> HIDE DEF P
<1>3. U \in Seq(Seq(Values)) /\ Len(U) = n /\ \A k \in 1 .. n : U[k] = P[k] BY <1>2, FrontIs
<1>4. ASSUME NEW k \in 1 .. n PROVE U[k] = IF k = n THEN << >> ELSE V[k]
  <2>1. k \in 1 .. n + 1 OBVIOUS
  <2>2. QED BY <1>2, <1>3, <2>1
<1> HIDE DEF U
<1>5. ASSUME NEW k \in 1 .. n PROVE Fits(U, k)
  <2>1. k \in 1 .. Len(V) OBVIOUS
  <2>2. Fits(V, k) BY <2>1 DEF Shape, Fits
  <2>3. CASE k = n
    <3>1. U[k] = << >> BY <1>4, <2>3
    <3>2. Len(U[k]) = 0 BY <3>1
    <3>3. QED BY <1>3, <2>3, <3>2, StackAssumption DEF Fits
  <2>4. CASE k # n
    <3>1. U[k] = V[k] /\ k < Len(V) - 1 BY <1>4, <2>4
    <3>2. Len(V[k]) = NodeCapacity /\ V[k] # << >> BY <2>2, <3>1 DEF Fits
    <3>3. QED BY <1>3, <2>4, <3>1, <3>2, StackAssumption DEF Fits
  <2>5. QED BY <2>3, <2>4
<1>6. Shape(U) BY <1>3, <1>5 DEF Shape, Fits
<1>7. QED BY <1>6 DEF U, P

-----------------------------------------------------------------------------
(* The nodes of the stack.                                                 *)

Held(f, c) == FlattenSeq(ValuesOf(f, c))

\* What the invariant says of the nodes c.
LEMMA NodesAre ==
  ASSUME AllocatorInv, NEW c, StackOf(c)
  PROVE  /\ c \in Seq(Blocks) /\ Len(c) \in Nat /\ nodes = Len(c)
         /\ node \in [Blocks -> Nodes]
         /\ \A k \in 1 .. Len(c) : c[k] \in Blocks /\ c[k] \in allocated /\ c[k] \notin Free
         /\ \A k, j \in 1 .. Len(c) : c[k] = c[j] => k = j
         /\ Shape(ValuesOf(node, c)) /\ ValuesOf(node, c) \in Seq(Seq(Values))
         /\ Len(ValuesOf(node, c)) = Len(c)
         /\ \A k \in 1 .. Len(c) : ValuesOf(node, c)[k] = node[c[k]].values
         /\ \A k \in 1 .. Len(c) : node[c[k]].values \in Seq(Values)
         /\ \A k \in 1 .. Len(c) : node[c[k]].link = IF k = 1 THEN None ELSE c[k - 1]
         /\ Held(node, c) \in Seq(Values) /\ size = Len(Held(node, c))
<1>1. c \in Seq(Blocks) /\ Len(c) \in Nat BY DEF StackOf, Rises
<1>2. \A k \in 1 .. Len(c) : c[k] \in Blocks /\ c[k] \in allocated /\ c[k] \notin Free
  BY <1>1 DEF StackOf, Free
<1>3. Shape(ValuesOf(node, c)) /\ ValuesOf(node, c) \in Seq(Seq(Values)) BY DEF StackOf, Shape
<1>4. Len(ValuesOf(node, c)) = Len(c) /\ \A k \in 1 .. Len(c) : ValuesOf(node, c)[k] = node[c[k]].values
  BY <1>1 DEF ValuesOf
<1>5. \A k \in 1 .. Len(c) : node[c[k]].values \in Seq(Values)
  <2> DEFINE V == ValuesOf(node, c)
  <2>1. V \in Seq(Seq(Values)) /\ Len(V) = Len(c) BY <1>3, <1>4
  <2> HIDE DEF V
  <2>2. \A k \in 1 .. Len(c) : V[k] \in Seq(Values) BY <2>1
  <2>3. QED BY <1>4, <2>2 DEF V
<1>6. Held(node, c) \in Seq(Values)
  <2>1. << >> \in Seq(Values) OBVIOUS
  <2>2. QED BY <1>3, <2>1, FlattenAppend DEF Held
<1>7. node \in [Blocks -> Nodes] BY DEF AllocatorInv, List, Lists
<1>8. nodes = Len(c) /\ size = Len(Held(node, c)) BY DEF StackOf, Held
<1>9. /\ \A k, j \in 1 .. Len(c) : c[k] = c[j] => k = j
      /\ \A k \in 1 .. Len(c) : node[c[k]].link = IF k = 1 THEN None ELSE c[k - 1]
  BY DEF StackOf, Rises
<1>10. QED BY <1>1, <1>2, <1>3, <1>4, <1>5, <1>6, <1>7, <1>8, <1>9

\* The values of one node change.
LEMMA NodeChanged ==
  ASSUME AllocatorInv, NEW c, StackOf(c), NEW t \in 1 .. Len(c), NEW s \in Seq(Values)
  PROVE  /\ WithValues(node, c[t], s) \in [Blocks -> Nodes]
         /\ \A x \in Blocks : x # c[t] => WithValues(node, c[t], s)[x] = node[x]
         /\ Rises(WithValues(node, c[t], s), top, c)
         /\ ValuesOf(WithValues(node, c[t], s), c) = Put(ValuesOf(node, c), t, s)
<1> DEFINE g == WithValues(node, c[t], s)
           V == ValuesOf(node, c)
           n == Len(c)
           b == c[t]
<1>1. /\ c \in Seq(Blocks) /\ n \in Nat /\ node \in [Blocks -> Nodes]
      /\ \A k \in 1 .. n : c[k] \in Blocks
      /\ \A k, j \in 1 .. n : c[k] = c[j] => k = j
      /\ V \in Seq(Seq(Values)) /\ Len(V) = n
      /\ \A k \in 1 .. n : V[k] = node[c[k]].values
  BY NodesAre
<1>2. b \in Blocks /\ node[b] \in Nodes BY <1>1
<1>3. g = [x \in Blocks |-> IF x = b THEN [link |-> node[b].link, values |-> s] ELSE node[x]]
  <2> HIDE DEF b
  <2>1. WithValues(node, b, s)
          = [x \in Blocks |-> IF x = b THEN [link |-> node[b].link, values |-> s] ELSE node[x]]
    <3>1. node \in [Blocks -> Nodes] /\ b \in Blocks BY <1>1, <1>2
    <3>2. QED BY <3>1, ValuesChanged
  <2>2. QED BY <2>1 DEF b
<1> HIDE DEF g, V
<1>4. g \in [Blocks -> Nodes]
  <2>1. s \in Seq(Values \cup Blocks) BY SeqMonotonic
  <2>2. [link |-> node[b].link, values |-> s] \in Nodes BY <1>2, <2>1 DEF Nodes
  <2> HIDE DEF b
  <2>3. QED BY <1>1, <1>3, <2>2
<1>5. \A x \in Blocks : x # b => g[x] = node[x] BY <1>3
<1>6. ASSUME NEW k \in 1 .. n
      PROVE  g[c[k]].link = node[c[k]].link /\ g[c[k]].values = IF k = t THEN s ELSE V[k]
  <2>1. CASE k = t
    <3>1. g[b] = [link |-> node[b].link, values |-> s] BY <1>2, <1>3
    <3>2. QED BY <2>1, <3>1
  <2>2. CASE k # t
    <3>1. c[k] # b /\ c[k] \in Blocks BY <1>1, <2>2
    <3>2. g[c[k]] = node[c[k]] BY <1>5, <3>1
    <3>3. QED BY <1>1, <2>2, <3>2
  <2>3. QED BY <2>1, <2>2
<1>7. Rises(g, top, c)
  <2>1. Rises(node, top, c) BY DEF StackOf
  <2>2. QED BY <1>6, <2>1, RisesFrame
<1>8. ValuesOf(g, c) = Put(V, t, s)
  <2>1. V = [k \in 1 .. n |-> V[k]] BY <1>1
  <2>2. Put(V, t, s) = [k \in 1 .. n |-> IF k = t THEN s ELSE V[k]] BY <2>1 DEF Put
  <2>3. QED BY <1>6, <2>2 DEF ValuesOf
<1>9. QED BY <1>4, <1>5, <1>7, <1>8 DEF g, V

\* check_buffer_invariants() is what the invariant says of a buffer that was loaded.
LEMMA BufferIs ==
  ASSUME AllocatorInv, NEW c, StackOf(c)
  PROVE  /\ size = 0 <=> Len(c) = 0
         /\ BufferInvariants <=> m_buf = BufferFor(c)
<1> DEFINE V == ValuesOf(node, c)
           n == Len(c)
<1>1. /\ c \in Seq(Blocks) /\ n \in Nat /\ nodes = n
      /\ \A k \in 1 .. n : c[k] \in Blocks
      /\ Shape(V) /\ V \in Seq(Seq(Values)) /\ Len(V) = n
      /\ \A k \in 1 .. n : V[k] = node[c[k]].values
      /\ \A k \in 1 .. n : node[c[k]].link = IF k = 1 THEN None ELSE c[k - 1]
      /\ size = Len(FlattenSeq(V))
  BY NodesAre DEF Held
<1> HIDE DEF V
<1>2. n = 0 => size = 0
  <2> SUFFICES ASSUME n = 0 PROVE size = 0 OBVIOUS
  <2>0. V \in Seq(Seq(Values)) BY <1>1
  <2>1. PICK h : /\ h[0] = << >> /\ FlattenSeq(V) = h[Len(V)]
    BY ONLY <2>0, FlattenSteps
  <2>2. FlattenSeq(V) = << >> BY <1>1, <2>1
  <2>3. QED BY <1>1, <2>2
<1>3. n # 0 => size # 0
  <2> SUFFICES ASSUME n # 0 PROVE size # 0 OBVIOUS
  <2>1. \E t \in 1 .. n : AtTop(V, t) /\ V[t] # << >>
    <3>1. CASE V[n] # << >> BY <1>1, <3>1 DEF AtTop
    <3>2. CASE V[n] = << >>
      <4>1. n # 1 BY <1>1, <3>2 DEF Shape
      <4>2. n - 1 \in 1 .. n /\ n - 1 < n BY <1>1, <4>1
      <4>3. V[n - 1] # << >> BY <1>1, <4>2 DEF Shape
      <4>4. QED BY <1>1, <3>2, <4>2, <4>3 DEF AtTop
    <3>3. QED BY <3>1, <3>2
  <2>2. PICK t \in 1 .. n : AtTop(V, t) /\ V[t] # << >> BY <2>1
  <2>3. FlattenSeq(V) \in Seq(Values) /\ FlattenSeq(V) # << >> BY <1>1, <2>2, FlattenPop
  <2> DEFINE C == FlattenSeq(V)
  <2> HIDE DEF C
  <2>4. Len(C) # 0 BY <2>3 DEF C
  <2>5. QED BY <1>1, <2>4 DEF C
<1>4. top = IF c = << >> THEN None ELSE c[n] BY DEF StackOf, Rises
<1>5. CASE n = 0
  <2>1. BufferFor(c) = << >> BY <1>1, <1>5 DEF BufferFor
  <2>2. QED BY <1>2, <1>5, <2>1 DEF BufferInvariants
<1>6. CASE n = 1
  <2>1. c # << >> /\ top = c[1]
    <3>1. c # << >> BY <1>6
    <3>2. QED BY <1>4, <1>6, <3>1
  <2>2. c = <<c[1]>> BY <1>1, <1>6
  <2>3. BufferFor(c) = <<top>> BY <1>6, <2>1, <2>2 DEF BufferFor
  <2>4. QED BY <1>1, <1>3, <1>6, <2>3 DEF BufferInvariants
<1>7. CASE n >= 2
  <2>1. c # << >> /\ top = c[n] BY <1>1, <1>4, <1>7
  <2>2. n \in 1 .. n /\ n - 1 \in 1 .. n /\ n # 1 /\ n # 0
    <3>1. n \in Nat BY <1>1
    <3> HIDE DEF n
    <3>2. QED BY ONLY <1>7, <3>1
  <2>3. node[top].link = c[n - 1] BY <1>1, <2>1, <2>2
  <2>4. BufferFor(c) = <<c[n - 1], c[n]>> BY <1>1, <1>7 DEF BufferFor
  <2>5. ~IsEmpty(c[n - 1])
    <3>1. n - 1 \in 1 .. Len(V) /\ n - 1 < Len(V) BY <1>1, <2>2
    <3>2. V[n - 1] # << >> BY <1>1, <3>1 DEF Shape
    <3>3. QED BY <1>1, <2>2, <3>2 DEF IsEmpty
  <2>6. m_buf = <<c[n - 1], c[n]>> \/ m_buf = <<c[n]>> BY <2>4 DEF StackOf
  <2>7. <<c[n]>> # <<c[n - 1], c[n]>> /\ Len(<<c[n]>>) = 1 OBVIOUS
  <2>8. BufferInvariants <=> /\ Len(m_buf) = 2 /\ m_buf[2] = top
                             /\ m_buf[1] = node[top].link /\ ~IsEmpty(m_buf[1])
    BY <1>1, <1>3, <2>2 DEF BufferInvariants
  <2>9. ASSUME m_buf = <<c[n - 1], c[n]>> PROVE BufferInvariants <=> m_buf = BufferFor(c)
    <3>1. Len(m_buf) = 2 /\ m_buf[1] = c[n - 1] /\ m_buf[2] = c[n] BY <2>9
    <3>2. ~IsEmpty(m_buf[1]) BY <2>5, <3>1
    <3>3. QED BY <2>1, <2>3, <2>4, <2>8, <2>9, <3>1, <3>2
  <2>10. ASSUME m_buf = <<c[n]>> PROVE BufferInvariants <=> m_buf = BufferFor(c)
    <3>1. Len(m_buf) = 1 BY <2>10
    <3>2. ~BufferInvariants BY <2>8, <3>1
    <3>3. m_buf # BufferFor(c) BY <2>4, <2>7, <2>10
    <3>4. QED BY <3>2, <3>3
  <2>11. BufferInvariants <=> m_buf = BufferFor(c) BY <2>6, <2>9, <2>10
  <2>12. QED BY <1>3, <2>2, <2>11
<1>8. QED BY <1>1, <1>2, <1>3, <1>5, <1>6, <1>7

\* The ends of the buffer.
LEMMA BufferEnds ==
  ASSUME NEW c \in Seq(Blocks)
  PROVE  /\ Len(c) = 0 => BufferFor(c) = << >>
         /\ Len(c) # 0 => BufferFor(c) # << >> /\ Last(BufferFor(c)) = c[Len(c)]
         /\ Len(c) = 1 => /\ BufferFor(c) = <<c[1]>> /\ Len(BufferFor(c)) = 1
                          /\ Head(BufferFor(c)) = c[1]
         /\ Len(c) >= 2 => /\ BufferFor(c) = <<c[Len(c) - 1], c[Len(c)]>> /\ Len(BufferFor(c)) = 2
                           /\ Head(BufferFor(c)) = c[Len(c) - 1] /\ Tail(BufferFor(c)) = <<c[Len(c)]>>
<1> DEFINE n == Len(c)
<1>1. n \in Nat OBVIOUS
<1> HIDE DEF n
<1>0. (n = 0 \/ n = 1 \/ n >= 2) /\ (n >= 2 => n # 0 /\ n # 1) BY <1>1
<1>2. CASE Len(c) = 0
  <2>1. c = << >> BY <1>2
  <2>2. BufferFor(c) = << >> BY <1>2, <2>1 DEF BufferFor
  <2>3. QED BY <1>2, <2>2
<1>3. CASE Len(c) = 1
  <2>1. c = <<c[1]>> BY <1>3
  <2>2. BufferFor(c) = <<c[1]>> BY <1>3, <2>1 DEF BufferFor
  <2>3. QED BY <1>3, <2>2 DEF Last
<1>4. CASE Len(c) >= 2
  <2> DEFINE a == c[Len(c) - 1]
             b == c[Len(c)]
  <2>1. BufferFor(c) = <<a, b>> BY <1>1, <1>4 DEF BufferFor, n
  <2> HIDE DEF a, b
  <2>2. Last(<<a, b>>) = b /\ Len(<<a, b>>) = 2 /\ Head(<<a, b>>) = a /\ Tail(<<a, b>>) = <<b>>
        /\ <<a, b>> # << >>
    BY DEF Last
  <2>3. Len(c) # 0 /\ Len(c) # 1 BY <1>0, <1>4 DEF n
  <2>4. QED BY <2>1, <2>2, <2>3 DEF a, b
<1>5. Len(c) = 0 \/ Len(c) = 1 \/ Len(c) >= 2 BY <1>0 DEF n
<1>6. QED BY <1>2, <1>3, <1>4, <1>5, Zenon

\* What the blocks of the free list hold is all that the allocator depends on.
LEMMA AllocatorFrame ==
  ASSUME AllocatorInv, UNCHANGED allocatorVars, node' \in [Blocks -> Nodes],
         \A x \in Free : node'[x] = node[x]
  PROVE  AllocatorInv'
<1>1. head' = head /\ engine' = engine /\ total' = total /\ free' = free /\ allocated' = allocated
  BY DEF allocatorVars
<1>2. Free' = Free BY <1>1 DEF Free
<1>3. List' = [head |-> head, node |-> node'] BY <1>1 DEF List
<1>4. List' \in Lists BY <1>3 DEF AllocatorInv, List, Lists
<1>5. Holds([head |-> head, node |-> node], Free) BY DEF AllocatorInv, List
<1>6. Holds([head |-> head, node |-> node'], Free) BY <1>5, HoldsFrame
<1>7. QED BY <1>1, <1>2, <1>3, <1>4, <1>6 DEF AllocatorInv

\* An operation leaves the nodes e, and in them the values C.
Leaves(e, C) == AllocatorInv' /\ StackOf(e)' /\ Held(node', e) = C

\* It takes no block off the list of nodes that stays allocated.
NoLoss(c, e) == allocated' \ ToSet(e) \subseteq allocated \ ToSet(c)

\* The values of one node change, and nothing else.
LEMMA ValuesStep ==
  ASSUME AllocatorInv, NEW c, StackOf(c), NEW t \in 1 .. Len(c), NEW s \in Seq(Values),
         node' = WithValues(node, c[t], s), UNCHANGED <<allocatorVars, top, nodes, m_buf>>,
         Shape(Put(ValuesOf(node, c), t, s)),
         size' = Len(FlattenSeq(Put(ValuesOf(node, c), t, s)))
  PROVE  Leaves(c, FlattenSeq(Put(ValuesOf(node, c), t, s))) /\ NoLoss(c, c)
<1> DEFINE g == WithValues(node, c[t], s)
           U == Put(ValuesOf(node, c), t, s)
<1>1. /\ g \in [Blocks -> Nodes] /\ Rises(g, top, c) /\ ValuesOf(g, c) = U
      /\ \A x \in Blocks : x # c[t] => g[x] = node[x]
  BY NodeChanged
<1>2. allocated' = allocated /\ top' = top /\ nodes' = nodes /\ m_buf' = m_buf BY DEF allocatorVars
<1>3. c[t] \notin Free /\ Free \subseteq Blocks BY NodesAre, FreeFinite
<1> HIDE DEF g, U
<1>4. node' = g BY DEF g
<1>5. \A x \in Free : node'[x] = node[x] BY <1>1, <1>3, <1>4
<1>6. AllocatorInv' BY <1>1, <1>4, <1>5, AllocatorFrame
<1>7. ValuesOf(node', c) = U /\ Rises(node', top', c) BY <1>1, <1>2, <1>4
<1>8. StackOf(c)'
  <2>1. \A k \in 1 .. Len(c) : c[k] \in allocated' BY <1>2 DEF StackOf
  <2>2. Shape(U) /\ size' = Len(FlattenSeq(U)) BY DEF U
  <2>3. nodes' = Len(c) BY <1>2 DEF StackOf
  <2>4. m_buf' = BufferFor(c) \/ (Len(c) >= 2 /\ m_buf' = <<c[Len(c)]>>) BY <1>2 DEF StackOf
  <2>5. QED BY <1>7, <2>1, <2>2, <2>3, <2>4 DEF StackOf
<1>9. QED BY <1>2, <1>6, <1>7, <1>8 DEF Leaves, NoLoss, Held, U

\* push() where the last buffered node has room.
LEMMA PushExistingStep ==
  ASSUME AllocatorInv, NEW c, StackOf(c), NEW v \in Values, PushExisting(v)
  PROVE  Leaves(c, Append(Held(node, c), v)) /\ NoLoss(c, c) /\ m_buf' = BufferFor(c)
<1> DEFINE V == ValuesOf(node, c)
           n == Len(c)
<1>1. /\ c \in Seq(Blocks) /\ n \in Nat /\ nodes = n
      /\ \A k \in 1 .. n : c[k] \in Blocks
      /\ Shape(V) /\ V \in Seq(Seq(Values)) /\ Len(V) = n
      /\ \A k \in 1 .. n : V[k] = node[c[k]].values
      /\ FlattenSeq(V) \in Seq(Values) /\ size = Len(FlattenSeq(V))
  BY NodesAre DEF Held
<1>2. m_buf = BufferFor(c) BY BufferIs DEF PushExisting
<1>3. n # 0 /\ n \in 1 .. n
  <2>1. m_buf # << >> BY DEF PushExisting
  <2>2. n # 0 BY <1>1, <1>2, <2>1, BufferEnds
  <2>3. QED BY <1>1, <2>2
<1> HIDE DEF V
<1>4. \A k \in 1 .. n : V[k] \in Seq(Values) /\ Len(V[k]) \in Nat /\ Len(V[k]) <= NodeCapacity
  BY <1>1 DEF Shape
<1>5. Len(V[n]) < NodeCapacity
  <2>1. ~IsFull(c[n]) BY <1>1, <1>2, <1>3, BufferEnds DEF PushExisting
  <2>2. Len(V[n]) # NodeCapacity BY <1>1, <1>3, <2>1 DEF IsFull
  <2>3. QED BY <1>3, <1>4, <2>2, StackAssumption
<1>6. \E t \in 1 .. n : /\ PushTarget(node, m_buf) = c[t] /\ AtTop(V, t) /\ Len(V[t]) < NodeCapacity
                        /\ t = n /\ n >= 2 => Len(V[n - 1]) = NodeCapacity
  <2>1. CASE n = 1
    <3>1. Head(m_buf) = c[n] /\ Last(m_buf) = c[n] BY <1>1, <1>2, <2>1, BufferEnds
    <3>2. PushTarget(node, m_buf) = c[n] BY <3>1 DEF PushTarget
    <3>3. QED BY <1>1, <1>3, <1>5, <2>1, <3>2 DEF AtTop
  <2>2. CASE n >= 2
    <3>1. Head(m_buf) = c[n - 1] /\ Last(m_buf) = c[n] BY <1>1, <1>2, <1>3, <2>2, BufferEnds
    <3>2. n - 1 \in 1 .. n /\ n - 1 # n /\ n - 1 \in 1 .. Len(V) /\ n - 1 = Len(V) - 1
      BY <1>1, <2>2
    <3>3. CASE Len(V[n - 1]) < NodeCapacity
      <4>1. PushTarget(node, m_buf) = c[n - 1] BY <1>1, <3>1, <3>2, <3>3 DEF PushTarget
      <4>2. V[n] = << >>
        <5>1. Fits(V, n - 1) BY <1>1, <3>2 DEF Shape, Fits
        <5>2. V[n] # << >> => Len(V[n - 1]) = NodeCapacity BY <1>1, <3>2, <5>1 DEF Fits
        <5>3. QED BY <1>4, <3>2, <3>3, <5>2, StackAssumption
      <4>3. AtTop(V, n - 1) BY <1>1, <3>2, <4>2 DEF AtTop
      <4>4. QED BY <3>2, <3>3, <4>1, <4>3
    <3>4. CASE ~(Len(V[n - 1]) < NodeCapacity)
      <4>1. PushTarget(node, m_buf) = c[n] BY <1>1, <3>1, <3>2, <3>4 DEF PushTarget
      <4>2. Len(V[n - 1]) = NodeCapacity BY <1>4, <3>2, <3>4, StackAssumption
      <4>3. AtTop(V, n) BY <1>1, <1>3 DEF AtTop
      <4>4. QED BY <1>3, <1>5, <4>1, <4>2, <4>3
    <3>5. QED BY <3>3, <3>4
  <2>3. QED BY <1>1, <1>3, <2>1, <2>2
<1>7. PICK t \in 1 .. n : /\ PushTarget(node, m_buf) = c[t] /\ AtTop(V, t) /\ Len(V[t]) < NodeCapacity
                          /\ t = n /\ n >= 2 => Len(V[n - 1]) = NodeCapacity
  BY <1>6
<1> DEFINE s == Append(V[t], v)
<1>8. s \in Seq(Values) BY <1>4, AppendProperties
<1>9. node' = WithValues(node, c[t], s)
  <2>1. node' = [node EXCEPT ![c[t]].values = Append(@, v)] BY <1>7 DEF PushExisting, PushValue
  <2>2. V[t] = node[c[t]].values BY <1>1
  <2>3. QED BY <2>1, <2>2 DEF WithValues
<1>10. UNCHANGED <<allocatorVars, top, nodes, m_buf>> BY DEF PushExisting
<1>11. Shape(Put(V, t, s)) BY <1>1, <1>7, ShapePush
<1>12. FlattenSeq(Put(V, t, s)) = Append(FlattenSeq(V), v) BY <1>1, <1>7, FlattenPush
<1>13. size' = Len(FlattenSeq(Put(V, t, s)))
  <2>1. size' = size + 1 BY DEF PushExisting, PushValue
  <2>2. Len(Append(FlattenSeq(V), v)) = Len(FlattenSeq(V)) + 1 BY <1>1, AppendProperties
  <2>3. QED BY <1>1, <1>12, <2>1, <2>2
<1> HIDE DEF s
<1>14. Leaves(c, FlattenSeq(Put(V, t, s))) /\ NoLoss(c, c)
  BY <1>8, <1>9, <1>10, <1>11, <1>13, ValuesStep DEF V
<1>15. m_buf' = BufferFor(c) BY <1>2, <1>10
<1>16. QED BY <1>12, <1>14, <1>15 DEF Held, V

\* pop() of a value that is not the last one of the lower buffered node.
LEMMA PopStep ==
  ASSUME AllocatorInv, NEW c, StackOf(c), NEW t \in 1 .. Len(c), AtTop(ValuesOf(node, c), t),
         node[c[t]].values # << >>,
         t = Len(c) - 1 => Len(node[c[t]].values) > 1, Len(c) = 1 => Len(node[c[t]].values) > 1,
         node' = Popped(c[t]), size' = size - 1, UNCHANGED <<allocatorVars, top, nodes, m_buf>>
  PROVE  /\ Held(node, c) # << >> /\ Leaves(c, Front(Held(node, c))) /\ NoLoss(c, c)
<1> DEFINE V == ValuesOf(node, c)
           n == Len(c)
           s == Front(V[t])
<1>1. /\ n \in Nat /\ Shape(V) /\ V \in Seq(Seq(Values)) /\ Len(V) = n
      /\ V[t] = node[c[t]].values /\ V[t] \in Seq(Values)
      /\ FlattenSeq(V) \in Seq(Values) /\ size = Len(FlattenSeq(V))
  BY NodesAre DEF Held
<1> HIDE DEF V
<1>2. s \in Seq(Values)
  <2> DEFINE m == Len(V[t]) - 1
  <2>1. Len(V[t]) \in Nat /\ Len(V[t]) # 0 BY <1>1
  <2>2. m \in Nat /\ Len(V[t]) = m + 1 BY <2>1
  <2>3. QED BY <1>1, <2>2, FrontIs
<1>3. node' = WithValues(node, c[t], s)
  <2>1. node' = [node EXCEPT ![c[t]].values = Front(@)] BY DEF Popped
  <2>2. QED BY <1>1, <2>1 DEF WithValues
<1>4. Shape(Put(V, t, s))
  <2>1. AtTop(V, t) /\ V[t] # << >> BY <1>1 DEF V
  <2>2. (t = Len(V) - 1 => Len(V[t]) > 1) /\ (Len(V) = 1 => Len(V[t]) > 1) BY <1>1
  <2>3. QED BY <1>1, <2>1, <2>2, ShapePop
<1>5. FlattenSeq(V) # << >> /\ FlattenSeq(Put(V, t, s)) = Front(FlattenSeq(V))
  <2>1. AtTop(V, t) /\ V[t] # << >> BY <1>1 DEF V
  <2>2. QED BY <1>1, <2>1, FlattenPop
<1>6. size' = Len(FlattenSeq(Put(V, t, s)))
  <2> DEFINE C == FlattenSeq(V)
             m == Len(C) - 1
  <2>1. C \in Seq(Values) /\ C # << >> BY <1>1, <1>5
  <2> HIDE DEF C
  <2>2. Len(C) \in Nat /\ Len(C) # 0 BY <2>1
  <2>3. m \in Nat /\ Len(C) = m + 1 BY <2>2
  <2>4. Len(Front(C)) = m BY <2>1, <2>3, FrontIs
  <2>5. QED BY <1>1, <1>5, <2>4 DEF C
<1> HIDE DEF s
<1>7. Leaves(c, FlattenSeq(Put(V, t, s))) /\ NoLoss(c, c)
  BY <1>2, <1>3, <1>4, <1>6, ValuesStep DEF V
<1>8. QED BY <1>5, <1>7 DEF Held, V

\* pop() from the topmost node.
LEMMA PopBackStep ==
  ASSUME AllocatorInv, NEW c, StackOf(c), PopBack
  PROVE  /\ Held(node, c) # << >> /\ Leaves(c, Front(Held(node, c))) /\ NoLoss(c, c)
         /\ m_buf' = BufferFor(c)
<1> DEFINE n == Len(c)
<1>1. c \in Seq(Blocks) /\ n \in Nat /\ Len(ValuesOf(node, c)) = n BY NodesAre
<1>2. m_buf = BufferFor(c) BY BufferIs DEF PopBack
<1> HIDE DEF n
<1>3. n >= 2
  <2>1. Len(m_buf) > 1 BY DEF PopBack
  <2>2. n = 0 => Len(m_buf) = 0
    <3>1. n = 0 => m_buf = << >> BY <1>1, <1>2, BufferEnds DEF n
    <3>2. QED BY <3>1
  <2>3. n = 1 => Len(m_buf) = 1 BY <1>1, <1>2, BufferEnds DEF n
  <2>4. n = 0 \/ n = 1 \/ n >= 2 BY <1>1
  <2>5. n # 0 BY ONLY <2>1, <2>2
  <2>6. n # 1 BY ONLY <2>1, <2>3
  <2>7. QED BY ONLY <2>4, <2>5, <2>6
<1>4. n \in 1 .. n /\ n # n - 1 /\ n # 1 /\ n # 0 BY <1>1, <1>3
<1>5. Last(m_buf) = c[n] BY <1>1, <1>2, <1>4, BufferEnds DEF n
<1>6. node[c[n]].values # << >> /\ node' = Popped(c[n]) BY <1>5 DEF PopBack, IsEmpty
<1>7. size' = size - 1 /\ UNCHANGED <<allocatorVars, top, nodes, m_buf>> BY DEF PopBack
<1>8. AtTop(ValuesOf(node, c), n) BY <1>1, <1>4 DEF AtTop
<1>9. Held(node, c) # << >> /\ Leaves(c, Front(Held(node, c))) /\ NoLoss(c, c)
  BY <1>4, <1>6, <1>7, <1>8, PopStep DEF n
<1>10. QED BY <1>2, <1>7, <1>9

\* pop() that uses the first buffered node, which is the one at the top of the values.
LEMMA PopsFrontAt ==
  ASSUME AllocatorInv, NEW c, StackOf(c), PopsFront
  PROVE  /\ m_buf = BufferFor(c)
         /\ \E t \in 1 .. Len(c) : /\ t = IF Len(c) = 1 THEN 1 ELSE Len(c) - 1
                                   /\ Head(m_buf) = c[t]
                                   /\ AtTop(ValuesOf(node, c), t)
                                   /\ node[c[t]].values # << >>
<1> DEFINE V == ValuesOf(node, c)
           n == Len(c)
<1>1. /\ c \in Seq(Blocks) /\ n \in Nat /\ Shape(V) /\ Len(V) = n
      /\ \A k \in 1 .. n : V[k] = node[c[k]].values
  BY NodesAre
<1>2. m_buf = BufferFor(c) /\ n # 0
  <2>1. BufferInvariants /\ size # 0 BY DEF PopsFront
  <2>2. QED BY <2>1, BufferIs
<1> HIDE DEF V, n
<1>3. CASE n = 1
  <2>1. Head(m_buf) = c[1] BY <1>1, <1>2, <1>3, BufferEnds DEF n
  <2>2. 1 \in 1 .. n /\ V[1] # << >> BY <1>1, <1>3 DEF Shape
  <2>3. AtTop(V, 1) /\ node[c[1]].values # << >> BY <1>1, <1>3, <2>2 DEF AtTop
  <2>4. QED BY <1>2, <1>3, <2>1, <2>2, <2>3 DEF V, n
<1>4. CASE n >= 2
  <2>1. Head(m_buf) = c[n - 1] /\ Last(m_buf) = c[n] /\ Len(m_buf) = 2
    BY <1>1, <1>2, <1>4, BufferEnds DEF n
  <2>2. n - 1 \in 1 .. n /\ n \in 1 .. n /\ n - 1 < n /\ n # 1 BY <1>1, <1>4
  <2>3. V[n] = << >> BY <1>1, <2>1, <2>2 DEF PopsFront, IsEmpty
  <2>4. V[n - 1] # << >> BY <1>1, <2>2 DEF Shape
  <2>5. AtTop(V, n - 1) /\ node[c[n - 1]].values # << >> BY <1>1, <2>2, <2>3, <2>4 DEF AtTop
  <2>6. QED BY <1>2, <2>1, <2>2, <2>5 DEF V, n
<1>5. QED BY <1>1, <1>2, <1>3, <1>4

LEMMA PopFrontStep ==
  ASSUME AllocatorInv, NEW c, StackOf(c), PopFront
  PROVE  /\ Held(node, c) # << >> /\ Leaves(c, Front(Held(node, c))) /\ NoLoss(c, c)
         /\ m_buf' = BufferFor(c)
<1>1. m_buf = BufferFor(c) BY PopsFrontAt DEF PopFront
<1>2. PICK t \in 1 .. Len(c) : /\ Head(m_buf) = c[t] /\ AtTop(ValuesOf(node, c), t)
                               /\ node[c[t]].values # << >>
  BY PopsFrontAt DEF PopFront
<1>3. Len(node[c[t]].values) > 1 /\ node' = Popped(c[t]) BY <1>2 DEF PopFront
<1>4. size' = size - 1 /\ UNCHANGED <<allocatorVars, top, nodes, m_buf>> BY DEF PopFront
<1>5. Held(node, c) # << >> /\ Leaves(c, Front(Held(node, c))) /\ NoLoss(c, c)
  BY <1>2, <1>3, <1>4, PopStep
<1>6. QED BY <1>1, <1>4, <1>5

\* The stack object is constructed again.
LEMMA ReopenStep ==
  ASSUME AllocatorInv, NEW c, StackOf(c), Reopen
  PROVE  Leaves(c, Held(node, c)) /\ NoLoss(c, c) /\ m_buf' = BufferFor(c)
<1> DEFINE n == Len(c)
<1>1. /\ c \in Seq(Blocks) /\ n \in Nat /\ node \in [Blocks -> Nodes]
      /\ \A k \in 1 .. n : node[c[k]].link = IF k = 1 THEN None ELSE c[k - 1]
      /\ \A k \in 1 .. n : c[k] \in Blocks
  BY NodesAre
<1>2. node' = node /\ top' = top /\ size' = size /\ nodes' = nodes /\ UNCHANGED allocatorVars
      /\ allocated' = allocated
  BY DEF Reopen, allocatorVars
<1>3. Rises(node, top, c) BY DEF StackOf
<1> HIDE DEF n
<1>4. m_buf' = BufferFor(c)
  <2>1. CASE n = 0
    <3>1. c = << >> BY <1>1, <2>1 DEF n
    <3>2. top = None BY <1>3, <3>1, RisesEmpty
    <3>3. QED BY <1>1, <2>1, <3>2, BufferEnds DEF Reopen, n
  <2>2. CASE n # 0
    <3>1. c # << >> BY <2>2 DEF n
    <3>2. top # None /\ top = c[n] /\ n \in 1 .. n
      <4>1. top # None BY <1>3, <3>1, RisesEmpty
      <4>2. top = c[n] BY <1>3, <3>1 DEF Rises, n
      <4>3. QED BY <1>1, <2>2, <4>1, <4>2
    <3>3. node[top].link = IF n = 1 THEN None ELSE c[n - 1] BY <1>1, <3>2
    <3>4. CASE n = 1
      <4>1. m_buf' = <<top>> BY <3>2, <3>3, <3>4 DEF Reopen
      <4>2. BufferFor(c) = <<c[1]>> BY <1>1, <3>4, BufferEnds DEF n
      <4>3. QED BY <3>2, <3>4, <4>1, <4>2
    <3>5. CASE n # 1
      <4>1. n >= 2 /\ n - 1 \in 1 .. n BY <1>1, <2>2, <3>5
      <4>2. c[n - 1] # None
        <5>1. c[n - 1] \in Nat BY <1>1, <4>1, FreeListAssumption DEF Blocks
        <5>2. QED BY <5>1, FreeListAssumption
      <4>3. m_buf' = <<node[top].link, top>> BY <3>2, <3>3, <3>5, <4>2 DEF Reopen
      <4>4. BufferFor(c) = <<c[n - 1], c[n]>> BY <1>1, <4>1, BufferEnds DEF n
      <4>5. QED BY <3>2, <3>3, <3>5, <4>3, <4>4
    <3>6. QED BY <3>4, <3>5
  <2>3. QED BY <2>1, <2>2
<1>5. AllocatorInv' BY <1>1, <1>2, AllocatorFrame
<1>6. StackOf(c)' BY <1>2, <1>4 DEF StackOf
<1>7. QED BY <1>2, <1>4, <1>5, <1>6 DEF Leaves, NoLoss, Held

LEMMA AppendToOne ==
  ASSUME NEW S, NEW y \in S, NEW z \in S
  PROVE  Len(<<y>>) = 1 /\ Append(<<y>>, z) = <<y, z>>
<1> DEFINE p == <<y>>
           q == <<y, z>>
           a == Append(p, z)
<1>1. p \in Seq(S) /\ Len(p) = 1 /\ p[1] = y OBVIOUS
<1>2. q \in Seq(S) /\ Len(q) = 2 /\ q[1] = y /\ q[2] = z OBVIOUS
<1> HIDE DEF p, q
<1>3. a \in Seq(S) /\ Len(a) = 2 /\ a[1] = y /\ a[2] = z
  <2>1. a \in Seq(S) /\ Len(a) = Len(p) + 1 /\ (\A i \in 1 .. Len(p) : a[i] = p[i])
        /\ a[Len(p) + 1] = z
    BY <1>1, AppendProperties, ZenonT(40)
  <2> HIDE DEF a
  <2>2. Len(p) + 1 = 2 /\ 1 \in 1 .. Len(p) BY <1>1
  <2>3. QED BY <1>1, <2>1, <2>2
<1> HIDE DEF a
<1>4. \A i \in 1 .. 2 : i = 1 \/ i = 2 OBVIOUS
<1>5. a = q BY <1>2, <1>3, <1>4, SeqEqual
<1>6. QED BY <1>1, <1>5 DEF p, q, a

\* A block for a new node: it is none of the nodes, and they stay as they are.
LEMMA AllocationApart ==
  ASSUME AllocatorInv, NEW c, StackOf(c), Allocate
  PROVE  /\ Allocation.block \in Blocks /\ Allocation.list.node \in [Blocks -> Nodes]
         /\ allocated' = allocated \cup {Allocation.block}
         /\ \A k \in 1 .. Len(c) : /\ c[k] # Allocation.block
                                   /\ Allocation.list.node[c[k]] = node[c[k]]
<1>1. engine + (IF head = None THEN ChunkSize ELSE 0) <= MaxBlocks
      /\ allocated' = allocated \cup {Allocation.block}
  BY DEF Allocate
<1>2. /\ Allocation.block \in Supply /\ Allocation.list \in Lists
      /\ SameBut(Allocation.list, List, Supply) /\ Supply \subseteq Blocks
  BY <1>1, AllocationIs
<1>3. \A x \in Blocks \ Supply : Allocation.list.node[x] = node[x]
  <2>1. List.node = node BY DEF List
  <2>2. QED BY <1>2, <2>1 DEF SameBut
<1>4. \A k \in 1 .. Len(c) : c[k] \in Blocks /\ c[k] \in allocated BY NodesAre
<1>5. \A k \in 1 .. Len(c) : c[k] \in Blocks \ Supply BY <1>4 DEF Supply
<1>6. Allocation.list.node \in [Blocks -> Nodes] BY <1>2 DEF Lists
<1>7. QED BY <1>1, <1>2, <1>3, <1>5, <1>6

\* push() whose create_node() throws.
LEMMA PushCreateFailsStep ==
  ASSUME AllocatorInv, NEW c, StackOf(c), PushCreateFails
  PROVE  Leaves(c, Held(node, c)) /\ m_buf' = BufferFor(c)
<1>1. /\ Allocate /\ node' = Allocation.list.node /\ top' = top /\ size' = size
      /\ nodes' = nodes /\ m_buf' = m_buf /\ m_buf = BufferFor(c)
  BY BufferIs DEF PushCreateFails, NeedsNode
<1>2. node' \in [Blocks -> Nodes] /\ allocated \subseteq allocated'
      /\ \A k \in 1 .. Len(c) : node'[c[k]] = node[c[k]]
  BY <1>1, AllocationApart
<1>3. AllocatorInv' BY <1>1, <1>2, AllocateKeeps
<1>4. ValuesOf(node', c) = ValuesOf(node, c) BY <1>2 DEF ValuesOf
<1>5. Rises(node', top', c)
  <2>1. Rises(node, top, c) BY DEF StackOf
  <2>2. QED BY <1>1, <1>2, <2>1, RisesFrame
<1>6. StackOf(c)'
  <2>1. \A k \in 1 .. Len(c) : c[k] \in allocated' BY <1>2 DEF StackOf
  <2>2. QED BY <1>1, <1>4, <1>5, <2>1 DEF StackOf
<1>7. QED BY <1>1, <1>3, <1>4, <1>6 DEF Leaves, Held

\* push() that needs a new node.
LEMMA PushNewNodeStep ==
  ASSUME AllocatorInv, NEW c, StackOf(c), NEW v \in Values, PushNewNode(v)
  PROVE  \E e : /\ Leaves(e, Append(Held(node, c), v)) /\ NoLoss(c, e)
                /\ m_buf' = BufferFor(e)
<1>0. PICK b : b = Allocation.block OBVIOUS
<1> DEFINE V == ValuesOf(node, c)
           n == Len(c)
           f == Allocation.list.node
           e == Append(c, b)
           g == NodeCreated
<1>1. /\ c \in Seq(Blocks) /\ n \in Nat /\ nodes = n
      /\ \A k \in 1 .. n : c[k] \in Blocks /\ c[k] \in allocated
      /\ \A k, j \in 1 .. n : c[k] = c[j] => k = j
      /\ Shape(V) /\ V \in Seq(Seq(Values)) /\ Len(V) = n
      /\ \A k \in 1 .. n : V[k] = node[c[k]].values
      /\ FlattenSeq(V) \in Seq(Values) /\ size = Len(FlattenSeq(V))
  BY NodesAre DEF Held
<1>2. /\ BufferInvariants /\ (m_buf # << >> => IsFull(Last(m_buf)))
      /\ Allocate /\ nodes' = nodes + 1 /\ top' = b /\ m_buf' = Buffered(b)
      /\ node' = [g EXCEPT ![PushTarget(g, Buffered(b))].values = Append(@, v)]
      /\ size' = size + 1
  BY <1>0 DEF PushNewNode, NeedsNode, PushValue
<1>3. m_buf = BufferFor(c) BY <1>2, BufferIs
<1>4. /\ b \in Blocks /\ f \in [Blocks -> Nodes] /\ allocated' = allocated \cup {b}
      /\ \A k \in 1 .. n : c[k] # b /\ f[c[k]] = node[c[k]]
  BY <1>0, <1>2, AllocationApart
<1>5. g = [f EXCEPT ![b] = [Empty EXCEPT !.link = IF m_buf = << >> THEN None ELSE Last(m_buf)]]
  BY <1>0 DEF NodeCreated
<1>6. Rises(node, top, c) BY DEF StackOf
<1>7. c \in Seq(Blocks) /\ b \in Blocks /\ e \in Seq(Blocks) /\ Len(e) = n + 1 /\ e[n + 1] = b
      /\ \A k \in 1 .. n : e[k] = c[k]
  BY <1>1, <1>4, AppendProperties
<1> HIDE DEF g, f, V, n, e
<1>8. n # 0 => /\ m_buf # << >> /\ Last(m_buf) = c[n] /\ n \in 1 .. n /\ Len(V[n]) = NodeCapacity
  <2> SUFFICES ASSUME n # 0 PROVE m_buf # << >> /\ Last(m_buf) = c[n] /\ n \in 1 .. n
                                  /\ Len(V[n]) = NodeCapacity
    OBVIOUS
  <2>1. m_buf # << >> /\ Last(m_buf) = c[n] BY <1>1, <1>3, BufferEnds DEF n
  <2>2. n \in 1 .. n BY <1>1
  <2>3. QED BY <1>1, <1>2, <2>1, <2>2 DEF IsFull
<1>9. (IF m_buf = << >> THEN None ELSE Last(m_buf)) = top
  <2>1. CASE n = 0
    <3>0. c = << >> BY <1>1, <2>1 DEF n
    <3>1. c = << >> /\ m_buf = << >> BY <1>1, <1>3, <2>1, <3>0, BufferEnds DEF n
    <3>2. top = None BY <1>6, <3>1 DEF Rises
    <3>3. QED BY <3>1, <3>2
  <2>2. CASE n # 0
    <3>1. c # << >> BY <2>2 DEF n
    <3>2. top = c[n] BY <1>6, <3>1 DEF Rises, n
    <3>3. QED BY <1>8, <2>2, <3>2
  <2>3. QED BY <2>1, <2>2
<1>10. g = [x \in Blocks |-> IF x = b THEN [link |-> top, values |-> << >>] ELSE f[x]]
  <2>1. [Empty EXCEPT !.link = top] = [link |-> top, values |-> << >>] BY DEF Empty
  <2>2. QED BY <1>4, <1>5, <1>9, <2>1
<1>11. Buffered(b) = BufferFor(e)
  <2>1. CASE n = 0
    <3>1. m_buf = << >> BY <1>1, <1>3, <2>1, BufferEnds DEF n
    <3>2. Buffered(b) = <<b>> BY <3>1 DEF Buffered
    <3>3. Len(e) = 1 /\ e[1] = b BY <1>7, <2>1
    <3>4. BufferFor(e) = <<e[1]>> BY <1>7, <3>3, BufferEnds
    <3>5. QED BY <3>2, <3>3, <3>4
  <2>2. CASE n # 0
    <3>1. Len(e) >= 2 /\ n \in 1 .. n /\ (n + 1) - 1 = n BY <1>1, <1>7, <2>2
    <3>2. BufferFor(e) = <<e[Len(e) - 1], e[Len(e)]>> BY <1>7, <3>1, BufferEnds
    <3>3. BufferFor(e) = <<c[n], b>> BY <1>7, <3>1, <3>2
    <3>4. CASE n = 1
      <4>1. m_buf = <<c[1]>> BY <1>1, <1>3, <3>4, BufferEnds DEF n
      <4>2. Len(m_buf) = 1 /\ Append(m_buf, b) = <<c[1], b>>
        <5>1. c[1] \in Blocks BY <1>1, <3>1, <3>4
        <5>2. QED BY <1>4, <4>1, <5>1, AppendToOne
      <4>3. Buffered(b) = <<c[1], b>> BY <4>2 DEF Buffered
      <4>4. QED BY <3>3, <3>4, <4>3
    <3>5. CASE n # 1
      <4>1. n >= 2 BY <1>1, <2>2, <3>5
      <4>2. m_buf = <<c[n - 1], c[n]>> BY <1>1, <1>3, <4>1, BufferEnds DEF n
      <4>3. Buffered(b) = <<c[n], b>> BY <4>2 DEF Buffered
      <4>4. QED BY <3>3, <4>3
    <3>6. QED BY <3>4, <3>5
  <2>3. QED BY <2>1, <2>2
<1>12. PushTarget(g, Buffered(b)) = b
  <2>1. Last(BufferFor(e)) = b
    <3>1. Len(e) # 0 BY <1>1, <1>7
    <3>2. QED BY <1>7, <3>1, BufferEnds
  <2>2. CASE n = 0
    <3>1. Len(e) = 1 /\ e[1] = b BY <1>7, <2>2
    <3>2. Head(BufferFor(e)) = b BY <1>7, <3>1, BufferEnds
    <3>3. QED BY <1>11, <2>1, <3>2 DEF PushTarget
  <2>3. CASE n # 0
    <3>1. Len(e) >= 2 /\ n \in 1 .. n /\ (n + 1) - 1 = n BY <1>1, <1>7, <2>3
    <3>2. Head(BufferFor(e)) = c[n] BY <1>7, <3>1, BufferEnds
    <3>3. g[c[n]] = node[c[n]] BY <1>1, <1>4, <1>10, <3>1
    <3>4. ~(Len(g[c[n]].values) < NodeCapacity) BY <1>1, <1>8, <2>3, <3>1, <3>3, StackAssumption
    <3>5. QED BY <1>11, <2>1, <3>2, <3>4 DEF PushTarget
  <2>4. QED BY <2>2, <2>3
<1>13. node' = [x \in Blocks |-> IF x = b THEN [link |-> top, values |-> <<v>>] ELSE f[x]]
  <2>1. top \in Links BY <1>6, <1>1 DEF Rises, Links, n
  <2>2. g \in [Blocks -> Nodes] /\ g[b] = [link |-> top, values |-> << >>]
    <3>1. << >> \in Seq(Values \cup Blocks) OBVIOUS
    <3>2. [link |-> top, values |-> << >>] \in Nodes BY <2>1, <3>1 DEF Nodes
    <3>3. QED BY <1>4, <1>10, <3>2
  <2> DEFINE s == Append(g[b].values, v)
  <2>3. s = <<v>> BY <2>2
  <2>4. node' = WithValues(g, b, s) BY <1>2, <1>12 DEF WithValues
  <2> HIDE DEF s
  <2>5. WithValues(g, b, s) = [x \in Blocks |-> IF x = b THEN [link |-> g[b].link, values |-> s] ELSE g[x]]
    BY <1>4, <2>2, ValuesChanged
  <2>6. QED BY <1>10, <2>2, <2>3, <2>4, <2>5
<1>14. node' \in [Blocks -> Nodes]
  <2>1. top \in Links BY <1>6, <1>1 DEF Rises, Links, n
  <2>2. <<v>> \in Seq(Values \cup Blocks) OBVIOUS
  <2>3. [link |-> top, values |-> <<v>>] \in Nodes BY <2>1, <2>2 DEF Nodes
  <2>4. QED BY <1>4, <1>13, <2>3
<1>15. AllocatorInv'
  <2>1. Supply \subseteq Blocks BY <1>2, AllocationIs DEF Allocate
  <2>2. \A x \in Supply \ {Allocation.block} : node'[x] = Allocation.list.node[x]
    BY <1>0, <1>13, <2>1 DEF f
  <2>3. QED BY <1>2, <1>14, <2>2, AllocateKeeps
<1>16. \A k \in 1 .. n : node'[c[k]] = node[c[k]] BY <1>1, <1>4, <1>13
<1>17. node'[b] = [link |-> top, values |-> <<v>>] BY <1>4, <1>13
<1>18. Rises(node', b, e)
  <2>1. \A k \in 1 .. n : c[k] # b /\ node'[c[k]].link = node[c[k]].link BY <1>4, <1>16
  <2>2. node'[b].link = top BY <1>17
  <2>3. QED BY <1>4, <1>6, <2>1, <2>2, RisesAppend DEF e, n
<1>19. ValuesOf(node', e) = Append(V, <<v>>)
  <2> DEFINE s == <<v>>
             U == Append(V, s)
  <2>1. s \in Seq(Values) OBVIOUS
  <2> HIDE DEF s
  <2>2. U \in Seq(Seq(Values)) /\ Len(U) = n + 1 /\ U[n + 1] = s /\ \A k \in 1 .. n : U[k] = V[k]
    BY <1>1, <2>1, AppendProperties
  <2> HIDE DEF U
  <2>3. ASSUME NEW k \in 1 .. n + 1 PROVE node'[e[k]].values = U[k]
    <3>1. CASE k = n + 1 BY <1>7, <1>17, <2>2, <3>1 DEF s
    <3>2. CASE k \in 1 .. n
      <4>1. node'[e[k]] = node[c[k]] BY <1>7, <1>16, <3>2
      <4>2. QED BY <1>1, <2>2, <3>2, <4>1
    <3>3. QED BY <1>1, <3>1, <3>2
  <2>4. U = [k \in 1 .. n + 1 |-> U[k]] BY <2>2
  <2>5. ValuesOf(node', e) = [k \in 1 .. n + 1 |-> node'[e[k]].values] BY <1>7 DEF ValuesOf
  <2>6. QED BY <2>3, <2>4, <2>5 DEF U, s
<1>20. Shape(Append(V, <<v>>)) BY <1>1, <1>8, ShapeNewNode
<1>21. FlattenSeq(Append(V, <<v>>)) = Append(FlattenSeq(V), v)
  <2>1. <<v>> \in Seq(Values) OBVIOUS
  <2>2. FlattenSeq(Append(V, <<v>>)) = FlattenSeq(V) \o <<v>>
    <3> DEFINE s == <<v>>
    <3>1. s \in Seq(Values) BY <2>1
    <3> HIDE DEF s
    <3>2. FlattenSeq(Append(V, s)) = FlattenSeq(V) \o s BY <1>1, <3>1, FlattenAppend
    <3>3. QED BY <3>2 DEF s
  <2>3. FlattenSeq(V) \o <<v>> = Append(FlattenSeq(V), v) BY <1>1
  <2>4. QED BY <2>2, <2>3
<1>22. size' = Len(FlattenSeq(Append(V, <<v>>)))
  <2>1. Len(Append(FlattenSeq(V), v)) = Len(FlattenSeq(V)) + 1 BY <1>1, AppendProperties
  <2>2. QED BY <1>1, <1>2, <1>21, <2>1
<1>23. \A k \in 1 .. Len(e) : e[k] \in allocated'
  <2>1. \A k \in 1 .. n + 1 : k \in 1 .. n \/ k = n + 1 BY <1>1
  <2>2. QED BY <1>1, <1>4, <1>7, <2>1
<1>24. StackOf(e)'
  <2>1. nodes' = Len(e) BY <1>1, <1>2, <1>7
  <2>2. m_buf' = BufferFor(e) BY <1>2, <1>11
  <2>3. Rises(node', top', e) BY <1>2, <1>18
  <2>4. QED BY <1>19, <1>20, <1>22, <1>23, <2>1, <2>2, <2>3 DEF StackOf
<1>25. NoLoss(c, e)
  <2>1. ASSUME NEW k \in 1 .. n PROVE c[k] \in ToSet(e)
    <3>1. k \in DOMAIN e /\ e[k] = c[k] BY <1>1, <1>7
    <3>2. QED BY <3>1 DEF ToSet
  <2>2. b \in ToSet(e)
    <3>1. n + 1 \in DOMAIN e BY <1>1, <1>7
    <3>2. QED BY <1>7, <3>1 DEF ToSet
  <2>3. ToSet(c) = { c[k] : k \in 1 .. n }
    <3>1. DOMAIN c = 1 .. n BY <1>1 DEF n
    <3>2. QED BY <3>1 DEF ToSet
  <2>4. QED BY <1>4, <2>1, <2>2, <2>3 DEF NoLoss
<1>26. Leaves(e, Append(Held(node, c), v))
  <2>1. Held(node', e) = Append(FlattenSeq(V), v) BY <1>19, <1>21 DEF Held
  <2>2. QED BY <1>15, <1>24, <2>1 DEF Leaves, Held, V
<1>27. QED BY <1>2, <1>11, <1>25, <1>26

\* The first node becomes empty, and the empty node above it is freed.
LEMMA PopToPreviousStep ==
  ASSUME AllocatorInv, NEW c, StackOf(c), PopToPrevious,
         \/ m_buf' = <<node[Head(m_buf)].link, Head(m_buf)>>
         \/ m_buf' = <<Head(m_buf)>>
  PROVE  /\ Held(node, c) # << >>
         /\ \E e : /\ Leaves(e, Front(Held(node, c))) /\ NoLoss(c, e)
                   /\ m_buf' = BufferFor(e) \/ m_buf' = <<Head(m_buf)>>
<1> DEFINE V == ValuesOf(node, c)
           n == Len(c) - 1
           e == Front(c)
<1>1. /\ c \in Seq(Blocks) /\ Len(c) \in Nat /\ nodes = Len(c) /\ node \in [Blocks -> Nodes]
      /\ \A k \in 1 .. Len(c) : c[k] \in Blocks /\ c[k] \in allocated /\ c[k] \notin Free
      /\ \A k, j \in 1 .. Len(c) : c[k] = c[j] => k = j
      /\ Shape(V) /\ V \in Seq(Seq(Values)) /\ Len(V) = Len(c)
      /\ \A k \in 1 .. Len(c) : V[k] = node[c[k]].values
      /\ \A k \in 1 .. Len(c) : node[c[k]].link = IF k = 1 THEN None ELSE c[k - 1]
      /\ FlattenSeq(V) \in Seq(Values) /\ size = Len(FlattenSeq(V))
  BY NodesAre DEF Held
<1>2. /\ PopsFront /\ Len(node[Head(m_buf)].values) = 1 /\ node[Head(m_buf)].link # None
      /\ size' = size - 1 /\ FreeNodes(Popped(Head(m_buf)), Tail(m_buf))
      /\ nodes' = nodes - Len(Tail(m_buf)) /\ top' = Head(m_buf)
  BY DEF PopToPrevious
<1>3. m_buf = BufferFor(c) BY <1>2, PopsFrontAt
<1>4. PICK t \in 1 .. Len(c) : /\ t = IF Len(c) = 1 THEN 1 ELSE Len(c) - 1
                               /\ Head(m_buf) = c[t] /\ AtTop(V, t) /\ node[c[t]].values # << >>
  BY <1>2, PopsFrontAt
<1>5. t # 1 BY <1>1, <1>2, <1>4
<1>6. n \in Nat /\ n >= 2 /\ Len(c) = n + 1 /\ t = n
  <2> DEFINE m == Len(c)
  <2>1. m \in Nat /\ t \in 1 .. m /\ t = (IF m = 1 THEN 1 ELSE m - 1) BY <1>1, <1>4
  <2> HIDE DEF m
  <2>2. m # 1 /\ t = m - 1 BY <1>5, <2>1
  <2>3. m - 1 \in Nat /\ m - 1 >= 2 /\ m = (m - 1) + 1 BY <1>5, <2>1, <2>2
  <2>4. QED BY <2>2, <2>3 DEF m
<1> HIDE DEF V, n
<1>7. n \in 1 .. n + 1 /\ n + 1 \in 1 .. n + 1 /\ n # n + 1 /\ n - 1 \in 1 .. n + 1 /\ n # 1 BY <1>6
<1>8. V[n] = node[c[n]].values /\ Len(V[n]) = 1 /\ V[n] \in Seq(Values) /\ V[n + 1] = << >>
  BY <1>1, <1>2, <1>4, <1>6, <1>7 DEF AtTop
<1>9. Front(V[n]) = << >>
  <2> DEFINE q == V[n]
  <2>1. q \in Seq(Values) /\ Len(q) = 0 + 1 BY <1>8
  <2> HIDE DEF q
  <2>2. Front(q) \in Seq(Values) /\ Len(Front(q)) = 0 BY <2>1, FrontIs
  <2>3. Front(q) = << >> BY <2>2
  <2>4. QED BY <2>3 DEF q
<1> DEFINE f == WithValues(node, c[n], << >>)
           P == Put(V, n, << >>)
           B == <<c[n + 1]>>
<1>10. Popped(Head(m_buf)) = f
  <2>1. Popped(c[n]) = [node EXCEPT ![c[n]].values = Front(@)] BY DEF Popped
  <2>2. QED BY <1>4, <1>6, <1>8, <1>9, <2>1 DEF WithValues
<1>11. << >> \in Seq(Values) OBVIOUS
<1>12. /\ f \in [Blocks -> Nodes] /\ Rises(f, top, c) /\ ValuesOf(f, c) = P
       /\ \A x \in Blocks : x # c[n] => f[x] = node[x]
  BY <1>6, <1>7, <1>11, NodeChanged DEF V
<1> HIDE DEF f
<1>13. Tail(m_buf) = B /\ Len(B) = 1
  <2>1. Len(c) >= 2 BY <1>6
  <2>2. Tail(m_buf) = <<c[Len(c)]>> BY <1>1, <1>3, <2>1, BufferEnds
  <2>3. QED BY <1>6, <2>2
<1>14. B \in Seq(allocated) /\ (\A i, j \in 1 .. Len(B) : B[i] = B[j] => i = j) /\ ToSet(B) = {c[n + 1]}
  <2>1. c[n + 1] \in allocated BY <1>1, <1>6, <1>7
  <2> DEFINE y == c[n + 1]
  <2> HIDE DEF y
  <2>2. <<y>> \in Seq(allocated) /\ (\A i, j \in 1 .. Len(<<y>>) : <<y>>[i] = <<y>>[j] => i = j)
    BY <2>1 DEF y
  <2>3. ToSet(<<y>>) = {y} BY DEF ToSet
  <2>4. QED BY <2>2, <2>3 DEF y
<1> HIDE DEF B
<1>15. /\ AllocatorInv' /\ allocated' = allocated \ {c[n + 1]}
       /\ \A x \in Blocks \ (Free \cup {c[n + 1]}) : node'[x] = f[x]
  <2>1. \A x \in Free : f[x] = node[x]
    <3>1. Free \subseteq Blocks BY FreeFinite
    <3>2. c[n] \notin Free BY <1>1, <1>6, <1>7
    <3>3. QED BY <1>12, <3>1, <3>2
  <2>2. FreeNodes(f, B) BY <1>2, <1>10, <1>13
  <2>3. QED BY <1>12, <1>14, <2>1, <2>2, FreeNodesKeeps
<1>16. e \in Seq(Blocks) /\ Len(e) = n /\ \A k \in 1 .. n : e[k] = c[k] BY <1>1, <1>6, FrontIs
<1> HIDE DEF e
<1>17. \A k \in 1 .. n : k \in 1 .. n + 1 /\ k # n + 1 BY <1>6
<1>18. ASSUME NEW k \in 1 .. n PROVE node'[e[k]] = f[e[k]] /\ e[k] \in allocated'
  <2>1. e[k] = c[k] /\ c[k] \in Blocks /\ c[k] \notin Free /\ c[k] \in allocated /\ c[k] # c[n + 1]
    BY <1>1, <1>6, <1>7, <1>16, <1>17
  <2>2. QED BY <1>15, <2>1
<1>19. Rises(node', top', e)
  <2>1. top = c[n + 1]
    <3>1. c # << >> BY <1>1, <1>6
    <3>2. QED BY <1>6, <3>1 DEF StackOf, Rises
  <2>2. f[top].link = c[n]
    <3>1. c[n + 1] # c[n] /\ c[n + 1] \in Blocks BY <1>1, <1>6, <1>7
    <3>2. f[top] = node[c[n + 1]] BY <1>12, <2>1, <3>1
    <3>3. node[c[n + 1]].link = IF n + 1 = 1 THEN None ELSE c[(n + 1) - 1] BY <1>1, <1>6, <1>7
    <3>4. n + 1 # 1 /\ (n + 1) - 1 = n BY <1>6
    <3>5. QED BY <3>2, <3>3, <3>4
  <2>3. Rises(f, f[top].link, e) BY <1>6, <1>12, RisesFront DEF e
  <2>4. top' = c[n] BY <1>2, <1>4, <1>6
  <2>5. QED BY <1>16, <1>18, <2>2, <2>3, <2>4, RisesFrame
<1>20. P \in Seq(Seq(Values)) /\ Len(P) = n + 1 /\ P[n + 1] = << >>
  <2>1. n \in 1 .. Len(V) BY <1>1, <1>6, <1>7
  <2>2. P \in Seq(Seq(Values)) /\ Len(P) = Len(V) /\ \A k \in 1 .. Len(V) : P[k] = IF k = n THEN << >> ELSE V[k]
    BY <1>1, <1>11, <2>1, ExceptSeq DEF Put
  <2> HIDE DEF P
  <2>3. QED BY <1>1, <1>6, <1>7, <1>8, <2>2
<1>21. ValuesOf(node', e) = Front(P)
  <2>1. \A k \in 1 .. n : P[k] = f[c[k]].values BY <1>6, <1>12, <1>17 DEF ValuesOf
  <2> HIDE DEF P
  <2>2. Front(P) \in Seq(Seq(Values)) /\ Len(Front(P)) = n /\ \A k \in 1 .. n : Front(P)[k] = P[k]
    BY <1>6, <1>20, FrontIs
  <2> DEFINE Q == Front(P)
  <2> HIDE DEF Q
  <2>3. Q = [k \in 1 .. n |-> Q[k]] BY <2>2 DEF Q
  <2>4. \A k \in 1 .. n : node'[e[k]].values = Q[k] BY <1>16, <1>18, <2>1, <2>2 DEF Q
  <2>5. ValuesOf(node', e) = [k \in 1 .. n |-> node'[e[k]].values] BY <1>16 DEF ValuesOf
  <2>6. QED BY <2>3, <2>4, <2>5 DEF Q
<1>22. Shape(Front(P)) BY <1>1, <1>6, ShapeDropTop
<1>23. /\ FlattenSeq(V) # << >> /\ FlattenSeq(Front(P)) = Front(FlattenSeq(V))
  <2>1. AtTop(V, n) /\ V[n] # << >> BY <1>4, <1>6, <1>8
  <2>2. FlattenSeq(V) # << >> /\ FlattenSeq(P) = Front(FlattenSeq(V))
    BY <1>1, <1>9, <2>1, FlattenPop
  <2> HIDE DEF P
  <2>3. FlattenSeq(Front(P)) \in Seq(Values) /\ FlattenSeq(P) = FlattenSeq(Front(P)) \o P[n + 1]
    BY <1>6, <1>20, FlattenLast
  <2>4. FlattenSeq(Front(P)) \o << >> = FlattenSeq(Front(P)) BY <2>3, ConcatEmptySeq
  <2>5. QED BY <1>20, <2>2, <2>3, <2>4
<1> HIDE DEF P
<1>24. size' = Len(FlattenSeq(Front(P)))
  <2> DEFINE C == FlattenSeq(V)
             m == Len(C) - 1
  <2>1. C \in Seq(Values) /\ C # << >> BY <1>1, <1>23
  <2> HIDE DEF C
  <2>2. Len(C) \in Nat /\ Len(C) # 0 BY <2>1
  <2>3. m \in Nat /\ Len(C) = m + 1 BY <2>2
  <2>4. Len(Front(C)) = m BY <2>1, <2>3, FrontIs
  <2>5. QED BY <1>1, <1>2, <1>23, <2>4 DEF C
<1>25. (Len(e) >= 2 /\ m_buf' = BufferFor(e)) \/ m_buf' = <<c[n]>>
  <2>1. BufferFor(e) = <<e[n - 1], e[n]>> BY <1>6, <1>16, BufferEnds
  <2>2. n - 1 \in 1 .. n /\ n \in 1 .. n BY <1>6
  <2>3. BufferFor(e) = <<c[n - 1], c[n]>> BY <1>16, <2>1, <2>2
  <2>4. node[c[n]].link = c[n - 1] BY <1>1, <1>6, <1>7
  <2>5. Head(m_buf) = c[n] BY <1>4, <1>6
  <2>6. QED BY <1>6, <1>16, <2>3, <2>4, <2>5
<1>26. StackOf(e)'
  <2>1. nodes' = Len(e)
    <3>1. nodes' = (n + 1) - 1
      <4>1. nodes = n + 1 /\ Len(Tail(m_buf)) = 1 BY <1>1, <1>6, <1>13
      <4>2. QED BY <1>2, <4>1
    <3>2. QED BY <1>6, <1>16, <3>1
  <2>2. m_buf' = BufferFor(e) \/ (Len(e) >= 2 /\ m_buf' = <<e[Len(e)]>>)
    <3>1. e[Len(e)] = c[n] /\ Len(e) >= 2 BY <1>6, <1>16
    <3>2. QED BY <1>25, <3>1
  <2>3. \A k \in 1 .. Len(e) : e[k] \in allocated' BY <1>16, <1>18
  <2>4. QED BY <1>19, <1>21, <1>22, <1>24, <2>1, <2>2, <2>3 DEF StackOf
<1>27. NoLoss(c, e)
  <2>1. DOMAIN c = 1 .. n + 1 /\ DOMAIN e = 1 .. n BY <1>1, <1>6, <1>16
  <2>2. ToSet(c) = { c[k] : k \in 1 .. n + 1 } /\ ToSet(e) = { e[k] : k \in 1 .. n } BY <2>1 DEF ToSet
  <2>3. ASSUME NEW k \in 1 .. n + 1, c[k] # c[n + 1] PROVE c[k] \in ToSet(e)
    <3>1. k \in 1 .. n BY <1>6, <2>3
    <3>2. e[k] = c[k] BY <1>16, <3>1
    <3>3. QED BY <2>2, <3>1, <3>2
  <2>4. QED BY <1>15, <2>2, <2>3 DEF NoLoss
<1>28. Leaves(e, Front(Held(node, c))) BY <1>15, <1>21, <1>23, <1>26 DEF Leaves, Held, V
<1>29. Head(m_buf) = c[n] /\ Held(node, c) # << >> BY <1>4, <1>6, <1>23 DEF Held, V
<1>30. QED BY <1>25, <1>27, <1>28, <1>29

\* Without nodes there are no values.
LEMMA NoNodes ==
  ASSUME NEW f
  PROVE  /\ ValuesOf(f, << >>) = << >> /\ Shape(<< >>) /\ FlattenSeq(<< >>) = << >>
         /\ Rises(f, None, << >>) /\ BufferFor(<< >>) = << >>
<1>1. << >> \in Seq(Seq(Values)) /\ << >> \in Seq(Blocks) /\ Len(<< >>) = 0 OBVIOUS
<1>2. FlattenSeq(<< >>) = << >>
  <2>1. PICK h : h[0] = << >> /\ FlattenSeq(<< >>) = h[Len(<< >>)] BY <1>1, FlattenSteps
  <2>2. QED BY <1>1, <2>1
<1>3. ValuesOf(f, << >>) = << >> BY <1>1 DEF ValuesOf
<1>4. Shape(<< >>) BY <1>1 DEF Shape
<1>5. Rises(f, None, << >>) BY <1>1 DEF Rises
<1>6. BufferFor(<< >>) = << >> BY <1>1 DEF BufferFor
<1>7. QED BY <1>2, <1>3, <1>4, <1>5, <1>6

\* A sequence back to front has the same elements.
LEMMA ReverseIs ==
  ASSUME NEW S, NEW c \in Seq(S)
  PROVE  /\ Reverse(c) \in Seq(S) /\ Len(Reverse(c)) = Len(c)
         /\ \A k \in 1 .. Len(c) : Reverse(c)[k] = c[(Len(c) - k) + 1]
         /\ ToSet(Reverse(c)) = ToSet(c)
         /\ Reverse(Reverse(c)) = c
<1> DEFINE n == Len(c)
           r == Reverse(c)
<1>1. n \in Nat /\ DOMAIN c = 1 .. n /\ \A k \in 1 .. n : c[k] \in S OBVIOUS
<1> HIDE DEF n
<1>2. r = [k \in 1 .. n |-> c[(n - k) + 1]] BY DEF Reverse, n
<1>3. \A k \in 1 .. n : (n - k) + 1 \in 1 .. n BY <1>1
<1> HIDE DEF r
<1>4. r \in Seq(S) /\ Len(r) = n /\ \A k \in 1 .. n : r[k] = c[(n - k) + 1] BY <1>1, <1>2, <1>3
<1>5. DOMAIN r = 1 .. n BY <1>2
<1>6. ToSet(r) = ToSet(c)
  <2>1. ToSet(c) = { c[k] : k \in 1 .. n } /\ ToSet(r) = { r[k] : k \in 1 .. n } BY <1>1, <1>5 DEF ToSet
  <2>2. ASSUME NEW k \in 1 .. n PROVE c[k] \in ToSet(r) /\ r[k] \in ToSet(c)
    <3>1. (n - k) + 1 \in 1 .. n /\ (n - ((n - k) + 1)) + 1 = k BY <1>1
    <3>2. r[(n - k) + 1] = c[k] BY <1>4, <3>1
    <3>3. QED BY <1>4, <2>1, <3>1, <3>2
  <2>3. QED BY <2>1, <2>2
<1>7. Reverse(r) = c
  <2>1. Reverse(r) = [k \in 1 .. n |-> r[(n - k) + 1]] BY <1>4 DEF Reverse
  <2>2. ASSUME NEW k \in 1 .. n PROVE r[(n - k) + 1] = c[k]
    <3>1. (n - k) + 1 \in 1 .. n /\ (n - ((n - k) + 1)) + 1 = k BY <1>1
    <3>2. QED BY <1>4, <3>1
  <2>3. c = [k \in 1 .. n |-> c[k]] BY <1>1
  <2>4. QED BY <2>1, <2>2, <2>3
<1>8. QED BY <1>4, <1>6, <1>7 DEF r, n

\* All nodes are freed.
LEMMA ClearStep ==
  ASSUME AllocatorInv, NEW c, StackOf(c), NEW f \in [Blocks -> Nodes],
         \A x \in Free : f[x] = node[x], FreeNodes(f, Reverse(c)),
         top' = None, size' = 0, nodes' = 0, m_buf' = << >>
  PROVE  Leaves(<< >>, << >>) /\ NoLoss(c, << >>) /\ m_buf' = BufferFor(<< >>)
<1> DEFINE n == Len(c)
           r == Reverse(c)
<1>1. /\ c \in Seq(Blocks) /\ n \in Nat
      /\ \A k \in 1 .. n : c[k] \in allocated
      /\ \A k, j \in 1 .. n : c[k] = c[j] => k = j
  BY NodesAre
<1>2. c \in Seq(allocated)
  <2>1. c = [k \in 1 .. n |-> c[k]] BY <1>1
  <2>2. QED BY <1>1, <2>1
<1>3. r \in Seq(allocated) /\ Len(r) = n /\ (\A k \in 1 .. n : r[k] = c[(n - k) + 1])
      /\ ToSet(r) = ToSet(c)
  BY <1>2, ReverseIs
<1> HIDE DEF r, n
<1>4. ASSUME NEW i \in 1 .. n, NEW j \in 1 .. n, r[i] = r[j] PROVE i = j
  <2>1. (n - i) + 1 \in 1 .. n /\ (n - j) + 1 \in 1 .. n BY <1>1
  <2>2. c[(n - i) + 1] = c[(n - j) + 1] BY <1>3, <1>4
  <2>3. (n - i) + 1 = (n - j) + 1 BY <1>1, <2>1, <2>2
  <2>4. n \in Nat BY <1>1
  <2>5. QED BY ONLY <2>3, <2>4, i \in 1 .. n, j \in 1 .. n
<1>5. AllocatorInv' /\ allocated' = allocated \ ToSet(c)
  <2>1. FreeNodes(f, r) BY DEF r
  <2>2. QED BY <1>3, <1>4, <2>1, FreeNodesKeeps
<1>6. /\ ValuesOf(node', << >>) = << >> /\ Shape(<< >>) /\ FlattenSeq(<< >>) = << >>
      /\ Rises(node', None, << >>) /\ BufferFor(<< >>) = << >>
  BY NoNodes
<1>7. Len(<< >>) = 0 OBVIOUS
<1>8. StackOf(<< >>)'
  <2>1. \A k \in 1 .. Len(<< >>) : << >>[k] \in allocated' BY <1>7
  <2>2. Rises(node', top', << >>) BY <1>6
  <2>3. QED BY <1>6, <1>7, <2>1, <2>2 DEF StackOf
<1>9. QED BY <1>5, <1>6, <1>8 DEF Leaves, NoLoss, Held

\* clear() and reset().
LEMMA ResetStep ==
  ASSUME AllocatorInv, NEW c, StackOf(c), Reset
  PROVE  Leaves(<< >>, << >>) /\ NoLoss(c, << >>) /\ m_buf' = BufferFor(<< >>)
<1>1. Chain = Reverse(c)
  <2>1. Rises(node, top, c) BY DEF StackOf
  <2>2. LinkedIn(node, top) = Reverse(c) BY <2>1, LinkedIs
  <2>3. QED BY <2>2 DEF Chain, Linked, LinkedIn
<1>2. /\ FreeNodes(node, Reverse(c)) /\ top' = None /\ size' = 0 /\ nodes' = 0 /\ m_buf' = << >>
  BY <1>1 DEF Reset
<1>3. node \in [Blocks -> Nodes] BY NodesAre
<1>4. QED BY <1>2, <1>3, ClearStep

\* pop() of the last value.
LEMMA PopLastStep ==
  ASSUME AllocatorInv, NEW c, StackOf(c), PopLast
  PROVE  /\ Held(node, c) # << >> /\ Leaves(<< >>, Front(Held(node, c))) /\ NoLoss(c, << >>)
         /\ m_buf' = BufferFor(<< >>)
<1> DEFINE V == ValuesOf(node, c)
           n == Len(c)
<1>1. /\ c \in Seq(Blocks) /\ n \in Nat /\ nodes = n /\ node \in [Blocks -> Nodes]
      /\ \A k \in 1 .. n : c[k] \in Blocks /\ c[k] \notin Free
      /\ V \in Seq(Seq(Values)) /\ Len(V) = n
      /\ \A k \in 1 .. n : V[k] = node[c[k]].values
      /\ \A k \in 1 .. n : node[c[k]].link = IF k = 1 THEN None ELSE c[k - 1]
      /\ FlattenSeq(V) \in Seq(Values) /\ size = Len(FlattenSeq(V))
  BY NodesAre DEF Held
<1>2. /\ PopsFront /\ Len(node[Head(m_buf)].values) = 1 /\ node[Head(m_buf)].link = None
      /\ size' = size - 1 /\ FreeNodes(Popped(Head(m_buf)), Reverse(m_buf))
      /\ nodes' = nodes - Len(m_buf) /\ top' = None /\ m_buf' = << >>
  BY DEF PopLast
<1>3. m_buf = BufferFor(c) BY <1>2, PopsFrontAt
<1>4. PICK t \in 1 .. n : /\ t = IF n = 1 THEN 1 ELSE n - 1
                          /\ Head(m_buf) = c[t] /\ AtTop(V, t) /\ node[c[t]].values # << >>
  BY <1>2, PopsFrontAt
<1> HIDE DEF V, n
<1>5. t = 1
  <2> SUFFICES ASSUME t # 1 PROVE FALSE OBVIOUS
  <2>1. t - 1 \in 1 .. n /\ node[c[t]].link = c[t - 1] BY <1>1
  <2>2. c[t - 1] \in Nat BY <1>1, <2>1, FreeListAssumption DEF Blocks
  <2>3. QED BY <1>2, <1>4, <2>1, <2>2, FreeListAssumption
<1>6. (n = 1 \/ n = 2) /\ 1 \in 1 .. n BY <1>1, <1>4, <1>5
<1>7. V[1] = node[c[1]].values /\ V[1] \in Seq(Values) /\ Len(V[1]) = 1
  BY <1>1, <1>2, <1>4, <1>5, <1>6
<1>8. n = 2 => V[2] = << >>
  <2>1. n = 2 => t # Len(V) BY <1>1, <1>5
  <2>2. QED BY <1>1, <1>4, <2>1 DEF AtTop
<1>9. m_buf = c
  <2>1. CASE n = 1
    <3>1. Len(c) < 2 BY <2>1 DEF n
    <3>2. QED BY <1>3, <3>1 DEF BufferFor
  <2>2. CASE n = 2
    <3>1. Len(c) >= 2 /\ n - 1 = 1 BY <2>2 DEF n
    <3>2. BufferFor(c) = <<c[1], c[2]>>
      <4>1. BufferFor(c) = <<c[Len(c) - 1], c[Len(c)]>> BY <1>1, <3>1, BufferEnds
      <4>2. Len(c) - 1 = 1 /\ Len(c) = 2 BY <2>2 DEF n
      <4>3. QED BY <4>1, <4>2
    <3>3. c = <<c[1], c[2]>>
      <4> DEFINE p == <<c[1], c[2]>>
      <4>1. c[1] \in Blocks /\ c[2] \in Blocks BY <1>1, <2>2
      <4>2. p \in Seq(Blocks) /\ Len(p) = 2 /\ p[1] = c[1] /\ p[2] = c[2] BY <4>1
      <4> HIDE DEF p
      <4>3. Len(c) = 2 BY <2>2 DEF n
      <4>4. \A i \in 1 .. Len(c) : c[i] = p[i]
        <5>1. \A i \in 1 .. 2 : i = 1 \/ i = 2 OBVIOUS
        <5>2. QED BY <4>2, <4>3, <5>1
      <4>5. Len(c) = Len(p) BY <4>2, <4>3
      <4>7. c = p BY <1>1, <4>2, <4>4, <4>5, SeqEqual
      <4>8. QED BY <4>7 DEF p
    <3>4. QED BY <1>3, <3>2, <3>3
  <2>3. QED BY <1>6, <2>1, <2>2
<1>10. FlattenSeq(V) = V[1]
  <2>1. ASSUME NEW U \in Seq(Seq(Values)), Len(U) = 1 PROVE FlattenSeq(U) = U[1]
    <3>0. Len(U) = 0 + 1 /\ 0 \in Nat BY <2>1
    <3>1. FlattenSeq(U) = FlattenSeq(Front(U)) \o U[0 + 1] BY <3>0, FlattenLast
    <3>2. Front(U) \in Seq(Seq(Values)) /\ Len(Front(U)) = 0
      <4>1. Len(U) = 0 + 1 BY <2>1
      <4>2. QED BY <4>1, FrontIs
    <3>3. Front(U) = << >> BY <3>2
    <3>4. FlattenSeq(Front(U)) = << >> BY <3>3, NoNodes
    <3>5. U[1] \in Seq(Values) BY <2>1
    <3>6. << >> \o U[1] = U[1] BY <3>5, ConcatEmptySeq
    <3>7. QED BY <3>1, <3>4, <3>6
  <2>2. CASE n = 1 BY <1>1, <2>1, <2>2
  <2>3. CASE n = 2
    <3>0. PICK m \in Nat : m = 1 OBVIOUS
    <3>1. Len(V) = m + 1 /\ 1 \in 1 .. m BY <1>1, <2>3, <3>0
    <3>2. Front(V) \in Seq(Seq(Values)) /\ Len(Front(V)) = m /\ Front(V)[1] = V[1]
      BY <1>1, <3>1, FrontIs
    <3>3. FlattenSeq(V) = FlattenSeq(Front(V)) \o V[m + 1] BY <1>1, <3>1, FlattenLast
    <3>4. FlattenSeq(Front(V)) = V[1] BY <2>1, <3>0, <3>2
    <3>5. V[1] \o << >> = V[1] BY <1>7, ConcatEmptySeq
    <3>6. V[m + 1] = << >>
      <4>1. m + 1 = 2 BY <3>0
      <4>2. V[2] = << >> BY <1>8, <2>3
      <4>3. QED BY <4>1, <4>2
    <3>7. QED BY <3>3, <3>4, <3>5, <3>6
  <2>4. QED BY <1>6, <2>2, <2>3
<1>11. Held(node, c) # << >> /\ Front(Held(node, c)) = << >>
  <2> DEFINE q == V[1]
  <2>1. q \in Seq(Values) /\ Len(q) = 0 + 1 BY <1>7
  <2> HIDE DEF q
  <2>2. Front(q) \in Seq(Values) /\ Len(Front(q)) = 0 BY <2>1, FrontIs
  <2>3. Front(q) = << >> /\ q # << >>
    <3>1. Front(q) = << >> BY <2>2, EmptySeq
    <3>2. Len(q) # 0 BY ONLY <2>1
    <3>3. Len(<< >>) = 0 OBVIOUS
    <3>4. QED BY ONLY <3>1, <3>2, <3>3, Zenon
  <2>4. Held(node, c) = q BY <1>10 DEF Held, V, q
  <2>5. QED BY <2>3, <2>4
<1>12. size' = 0 /\ nodes' = 0 BY <1>1, <1>2, <1>7, <1>9, <1>10 DEF n
<1> DEFINE f == WithValues(node, c[1], << >>)
<1>13. Popped(Head(m_buf)) = f
  <2>0. V[1] = node[c[1]].values BY <1>7
  <2>1. Front(node[c[1]].values) = << >>
    <3>1. Held(node, c) = V[1] BY <1>10 DEF Held, V
    <3>2. QED BY <1>11, <2>0, <3>1
  <2>2. Popped(c[1]) = [node EXCEPT ![c[1]].values = Front(@)] BY DEF Popped
  <2>3. QED BY <1>4, <1>5, <2>1, <2>2 DEF WithValues
<1>14. f \in [Blocks -> Nodes] /\ \A x \in Blocks : x # c[1] => f[x] = node[x]
  <2>1. << >> \in Seq(Values) /\ 1 \in 1 .. Len(c) BY <1>6 DEF n
  <2>2. QED BY <2>1, NodeChanged
<1> HIDE DEF f
<1>15. \A x \in Free : f[x] = node[x]
  <2>1. Free \subseteq Blocks BY FreeFinite
  <2>2. c[1] \notin Free BY <1>1, <1>6
  <2>3. QED BY <1>14, <2>1, <2>2
<1>16. FreeNodes(f, Reverse(c)) BY <1>2, <1>9, <1>13
<1>17. Leaves(<< >>, << >>) /\ NoLoss(c, << >>) /\ m_buf' = BufferFor(<< >>)
  BY <1>2, <1>12, <1>14, <1>15, <1>16, ClearStep
<1>18. QED BY <1>11, <1>17

-----------------------------------------------------------------------------
(* The invariant holds.                                                    *)

LEMMA InitEstablishes ==
  ASSUME Init
  PROVE  AllocatorInv /\ StackOf(<< >>) /\ m_buf = BufferFor(<< >>) /\ Held(node, << >>) = << >>
<1>1. /\ head = None /\ node = [b \in Blocks |-> Empty] /\ engine = 0 /\ total = 0 /\ free = 0
      /\ allocated = {} /\ top = None /\ size = 0 /\ nodes = 0 /\ m_buf = << >>
  BY DEF Init, NodeAllocatorInit, FreeListInit
<1>2. MaxBlocks \in Nat BY FreeListAssumption
<1>3. Free = {} /\ Cardinality(Free) = 0
  <2>1. Free = {} BY <1>1 DEF Free
  <2>2. QED BY <2>1, FS_EmptySet
<1>4. List \in Lists
  <2>1. Empty \in Nodes
    <3>1. << >> \in Seq(Values \cup Blocks) OBVIOUS
    <3>2. QED BY <3>1 DEF Empty, Nodes, Links
  <2>2. QED BY <1>1, <2>1 DEF List, Lists, Links
<1>5. /\ ValuesOf(node, << >>) = << >> /\ Shape(<< >>) /\ FlattenSeq(<< >>) = << >>
      /\ Rises(node, None, << >>) /\ BufferFor(<< >>) = << >>
  BY NoNodes
<1>6. Len(<< >>) = 0 OBVIOUS
<1>7. Tidy(<< >>, << >>, {})
  <2>1. << >> \in Seq({}) /\ << >> \in Seq(Seq({})) /\ {} \subseteq Blocks OBVIOUS
  <2>2. Filled(<< >>, << >>) /\ Once(<< >>) /\ NamedOnce(<< >>, << >>) /\ NoNodeNamed(<< >>, << >>)
        /\ Covers(<< >>, << >>, {})
    BY <1>6 DEF Filled, Once, NamedOnce, NoNodeNamed, Covers
  <2>3. QED BY <2>1, <2>2 DEF Tidy
<1>8. Holds(List, Free)
  <2>1. List = [head |-> head, node |-> node] BY DEF List
  <2>2. Holds([head |-> head, node |-> node], {}) BY <1>1, <1>5, <1>7 DEF Holds
  <2>3. QED BY <1>3, <2>1, <2>2
<1>9. AllocatorInv BY <1>1, <1>2, <1>3, <1>4, <1>8 DEF AllocatorInv
<1>10. StackOf(<< >>)
  <2>1. \A k \in 1 .. Len(<< >>) : << >>[k] \in allocated BY <1>6
  <2>2. Rises(node, top, << >>) BY <1>1, <1>5
  <2>3. QED BY <1>1, <1>5, <1>6, <2>1, <2>2 DEF StackOf
<1>11. QED BY <1>1, <1>5, <1>9, <1>10 DEF Held

\* What an operation may do to the values: nothing, push one, pop the last, or drop all.
Effect(C, D) ==
  \/ D = C
  \/ \E v \in Values : D = Append(C, v)
  \/ C # << >> /\ D = Front(C)
  \/ D = << >>

\* What every step does.
Result(c, e) ==
  /\ AllocatorInv' /\ StackOf(e)'
  /\ Effect(Held(node, c), Held(node', e))
  /\ NoLoss(c, e) \/ PushCreateFails
  /\ m_buf' = BufferFor(e) \/ PopReadFails

LEMMA NextResult ==
  ASSUME AllocatorInv, NEW c, StackOf(c), Next
  PROVE  \E e : Result(c, e)
<1>1. ASSUME NEW v \in Values, PushExisting(v) PROVE \E e : Result(c, e)
  <2>1. Leaves(c, Append(Held(node, c), v)) /\ NoLoss(c, c) /\ m_buf' = BufferFor(c)
    BY <1>1, PushExistingStep
  <2>2. QED BY <2>1 DEF Result, Leaves, Effect
<1>2. ASSUME NEW v \in Values, PushNewNode(v) PROVE \E e : Result(c, e)
  <2>1. PICK e : Leaves(e, Append(Held(node, c), v)) /\ NoLoss(c, e) /\ m_buf' = BufferFor(e)
    BY <1>2, PushNewNodeStep
  <2>2. QED BY <2>1 DEF Result, Leaves, Effect
<1>3. CASE PushCreateFails
  <2>1. Leaves(c, Held(node, c)) /\ m_buf' = BufferFor(c) BY <1>3, PushCreateFailsStep
  <2>2. QED BY <1>3, <2>1 DEF Result, Leaves, Effect
<1>4. CASE PopBack
  <2>1. Held(node, c) # << >> /\ Leaves(c, Front(Held(node, c))) /\ NoLoss(c, c) /\ m_buf' = BufferFor(c)
    BY <1>4, PopBackStep
  <2>2. QED BY <2>1 DEF Result, Leaves, Effect
<1>5. CASE PopFront
  <2>1. Held(node, c) # << >> /\ Leaves(c, Front(Held(node, c))) /\ NoLoss(c, c) /\ m_buf' = BufferFor(c)
    BY <1>5, PopFrontStep
  <2>2. QED BY <2>1 DEF Result, Leaves, Effect
<1>6. CASE PopLoadsPrevious
  <2>1. PopToPrevious /\ m_buf' = <<node[Head(m_buf)].link, Head(m_buf)>> BY <1>6 DEF PopLoadsPrevious
  <2>2. Held(node, c) # << >> BY <2>1, PopToPreviousStep
  <2>3. PICK e : /\ Leaves(e, Front(Held(node, c))) /\ NoLoss(c, e)
                 /\ m_buf' = BufferFor(e) \/ m_buf' = <<Head(m_buf)>>
    BY <2>1, PopToPreviousStep
  <2>4. m_buf' # <<Head(m_buf)>> BY <2>1
  <2>5. QED BY <2>2, <2>3, <2>4 DEF Result, Leaves, Effect
<1>7. CASE PopReadFails
  <2>1. PopToPrevious /\ m_buf' = <<Head(m_buf)>> BY <1>7 DEF PopReadFails
  <2>2. Held(node, c) # << >> BY <2>1, PopToPreviousStep
  <2>3. PICK e : Leaves(e, Front(Held(node, c))) /\ NoLoss(c, e) BY <2>1, PopToPreviousStep
  <2>4. QED BY <1>7, <2>2, <2>3 DEF Result, Leaves, Effect
<1>8. CASE PopLast
  <2>1. /\ Held(node, c) # << >> /\ Leaves(<< >>, Front(Held(node, c))) /\ NoLoss(c, << >>)
        /\ m_buf' = BufferFor(<< >>)
    BY <1>8, PopLastStep
  <2>2. Result(c, << >>) BY <2>1 DEF Result, Leaves, Effect
  <2>3. QED BY <2>2
<1>9. CASE Reset
  <2>1. Leaves(<< >>, << >>) /\ NoLoss(c, << >>) /\ m_buf' = BufferFor(<< >>) BY <1>9, ResetStep
  <2>2. Result(c, << >>) BY <2>1 DEF Result, Leaves, Effect
  <2>3. QED BY <2>2
<1>10. CASE Reopen
  <2>1. Leaves(c, Held(node, c)) /\ NoLoss(c, c) /\ m_buf' = BufferFor(c) BY <1>10, ReopenStep
  <2>2. QED BY <2>1 DEF Result, Leaves, Effect
<1>11. QED BY <1>1, <1>2, <1>3, <1>4, <1>5, <1>6, <1>7, <1>8, <1>9, <1>10, Zenon DEF Next

\* The invariant is inductive.
LEMMA InvHolds == Spec => []Inv
<1>1. Init => Inv
  <2> SUFFICES ASSUME Init PROVE Inv OBVIOUS
  <2>1. AllocatorInv /\ StackOf(<< >>) BY InitEstablishes
  <2>2. QED BY <2>1 DEF Inv
<1>2. Inv /\ [Next]_vars => Inv'
  <2> SUFFICES ASSUME Inv, [Next]_vars PROVE Inv' OBVIOUS
  <2>1. PICK c : StackOf(c) BY DEF Inv
  <2>2. CASE Next
    <3>1. PICK e : Result(c, e) BY <2>1, <2>2, NextResult DEF Inv
    <3>2. AllocatorInv' /\ StackOf(e)' BY <3>1 DEF Result
    <3>3. QED BY <3>2 DEF Inv
  <2>3. CASE UNCHANGED vars
    <3>1. /\ head' = head /\ node' = node /\ engine' = engine /\ total' = total /\ free' = free
          /\ allocated' = allocated /\ top' = top /\ size' = size /\ nodes' = nodes /\ m_buf' = m_buf
      BY <2>3 DEF vars
    <3>2. Free' = Free /\ List' = List BY <3>1 DEF Free, List
    <3>3. AllocatorInv' BY <3>1, <3>2 DEF Inv, AllocatorInv
    <3>4. StackOf(c)' BY <2>1, <3>1 DEF StackOf
    <3>5. QED BY <3>3, <3>4 DEF Inv
  <2>4. QED BY <2>2, <2>3
<1>3. QED BY <1>1, <1>2, PTL DEF Spec

-----------------------------------------------------------------------------
(* The properties.                                                         *)

\* What the properties read off the links, for any contents f of the blocks.
ContentsIn(f, b) ==
  LET chain == Reverse(LinkedIn(f, b)) IN FlattenSeq([k \in DOMAIN chain |-> f[chain[k]].values])

LEMMA ContentsAre ==
  ASSUME NEW f, NEW b, NEW c, Rises(f, b, c)
  PROVE  /\ LinkedIn(f, b) = Reverse(c) /\ ToSet(LinkedIn(f, b)) = ToSet(c)
         /\ ContentsIn(f, b) = Held(f, c)
<1>1. c \in Seq(Blocks) /\ DOMAIN c = 1 .. Len(c) BY DEF Rises
<1>2. LinkedIn(f, b) = Reverse(c) BY LinkedIs
<1>3. Reverse(LinkedIn(f, b)) = c /\ ToSet(LinkedIn(f, b)) = ToSet(c) BY <1>1, <1>2, ReverseIs
<1>4. ContentsIn(f, b) = FlattenSeq([k \in 1 .. Len(c) |-> f[c[k]].values])
  <2>1. ContentsIn(f, b) = FlattenSeq([k \in DOMAIN Reverse(LinkedIn(f, b)) |->
                                         f[Reverse(LinkedIn(f, b))[k]].values])
    BY DEF ContentsIn
  <2>2. QED BY <1>1, <1>3, <2>1
<1>5. QED BY <1>2, <1>3, <1>4 DEF Held, ValuesOf

\* The list of half-empty nodes, seen from outside, is a stack: what pop() removes is
\* the value pushed last, for every capacity of the nodes and every number of blocks.
THEOREM StackRefines == Spec => ImplementsStack
<1>1. Init => Simple!Init
  <2> SUFFICES ASSUME Init PROVE Contents = << >> BY DEF Simple!Init
  <2>1. StackOf(<< >>) /\ Held(node, << >>) = << >> BY InitEstablishes
  <2>2. ContentsIn(node, top) = << >> BY <2>1, ContentsAre DEF StackOf
  <2>3. QED BY <2>2 DEF Contents, Chain, Linked, ContentsIn, LinkedIn
<1>2. Inv /\ [Next]_vars => [Simple!Next]_Contents
  <2> SUFFICES ASSUME Inv, [Next]_vars PROVE Simple!Next \/ Contents' = Contents OBVIOUS
  <2>1. Contents = ContentsIn(node, top) /\ Contents' = ContentsIn(node', top')
    BY DEF Contents, Chain, Linked, ContentsIn, LinkedIn
  <2>2. PICK c : StackOf(c) BY DEF Inv
  <2>3. Contents = Held(node, c) BY <2>1, <2>2, ContentsAre DEF StackOf
  <2>4. CASE Next
    <3>1. PICK e : Result(c, e) BY <2>2, <2>4, NextResult DEF Inv
    <3>2. Rises(node', top', e) BY <3>1 DEF Result, StackOf
    <3>3. Contents' = Held(node', e) BY <2>1, <3>2, ContentsAre
    <3>4. Effect(Contents, Contents') BY <2>3, <3>1, <3>3 DEF Result
    <3>5. Front(Contents) = SubSeq(Contents, 1, Len(Contents) - 1) BY DEF Front
    <3> HIDE DEF Contents
    <3>6. QED BY <3>4, <3>5 DEF Effect, Simple!Next, Simple!Pop, Simple!Clear, Simple!Push
  <2>5. CASE UNCHANGED vars
    <3>1. node' = node /\ top' = top BY <2>5 DEF vars
    <3>2. QED BY <2>1, <3>1
  <2>6. QED BY <2>4, <2>5
<1>3. QED BY <1>1, <1>2, InvHolds, PTL DEF Spec, ImplementsStack, Simple!Spec

\* No operation but a push() that fails in create_node() takes a block off the list of
\* nodes and leaves it allocated.
THEOREM StackLeaksNothing == Spec => NothingLeaked
<1>1. Inv /\ [Next]_vars => [Leaked' \subseteq Leaked \/ PushCreateFails]_vars
  <2> SUFFICES ASSUME Inv, Next PROVE Leaked' \subseteq Leaked \/ PushCreateFails BY DEF vars
  <2>1. PICK c : StackOf(c) BY DEF Inv
  <2>2. PICK e : Result(c, e) BY <2>1, NextResult DEF Inv
  <2>3. Rises(node, top, c) /\ Rises(node', top', e) BY <2>1, <2>2 DEF Result, StackOf
  <2>4. ToSet(LinkedIn(node, top)) = ToSet(c) /\ ToSet(LinkedIn(node', top')) = ToSet(e)
    BY <2>3, ContentsAre
  <2>5. Chain = LinkedIn(node, top) /\ Chain' = LinkedIn(node', top') BY DEF Chain, Linked, LinkedIn
  <2>6. Leaked = allocated \ ToSet(c) BY <2>4, <2>5 DEF Leaked
  <2>7. Leaked' = allocated' \ ToSet(e)
    <3>1. Leaked' = allocated' \ ToSet(Chain)' BY DEF Leaked
    <3>2. ToSet(Chain)' = ToSet(Chain') BY DEF ToSet
    <3>3. QED BY <2>4, <2>5, <3>1, <3>2
  <2>8. QED BY <2>2, <2>6, <2>7 DEF Result, NoLoss
<1>2. QED BY <1>1, InvHolds, PTL DEF Spec, NothingLeaked

\* check_buffer_invariants() tells whether the buffered nodes are the topmost ones.
BufferRule == \A c : StackOf(c) => (BufferInvariants <=> m_buf = BufferFor(c))

\* Every operation that returns leaves the buffer as check_buffer_invariants() wants to
\* find it.
THEOREM StackBufferMaintained == Spec => BufferMaintained
<1>1. Inv => BufferRule
  <2> SUFFICES ASSUME Inv, NEW c, StackOf(c) PROVE BufferInvariants <=> m_buf = BufferFor(c)
    BY DEF BufferRule
  <2>1. QED BY BufferIs DEF Inv
<1>2. Inv /\ BufferRule' /\ [Next]_vars => [BufferInvariants' \/ PopReadFails]_vars
  <2> SUFFICES ASSUME Inv, BufferRule', Next PROVE BufferInvariants' \/ PopReadFails BY DEF vars
  <2>1. PICK c : StackOf(c) BY DEF Inv
  <2>2. PICK e : Result(c, e) BY <2>1, NextResult DEF Inv
  <2>3. StackOf(e)' /\ (m_buf' = BufferFor(e) \/ PopReadFails) BY <2>2 DEF Result
  <2>4. BufferInvariants' <=> m_buf' = BufferFor(e) BY <2>3 DEF BufferRule
  <2>5. QED BY <2>3, <2>4
<1>3. QED BY <1>1, <1>2, InvHolds, PTL DEF Spec, BufferMaintained

\* validate(), and more: the counters, which nodes are empty and which are full, and
\* where top() finds the value pushed last.
THEOREM StackListValid == Spec => []ListValid
<1>1. Inv => ListValid
  <2> SUFFICES ASSUME Inv PROVE ListValid OBVIOUS
  <2>1. PICK c : StackOf(c) BY DEF Inv
  <2> DEFINE n == Len(c)
             V == ValuesOf(node, c)
             r == Reverse(c)
  <2>2. /\ c \in Seq(Blocks) /\ n \in Nat /\ nodes = n
        /\ \A k \in 1 .. n : c[k] \in allocated
        /\ Shape(V) /\ V \in Seq(Seq(Values)) /\ Len(V) = n
        /\ \A k \in 1 .. n : V[k] = node[c[k]].values
        /\ Held(node, c) = FlattenSeq(V) /\ size = Len(Held(node, c))
    BY <2>1, NodesAre DEF Inv, Held
  <2>3. Chain = r /\ Contents = Held(node, c) /\ ToSet(Chain) = ToSet(c)
    <3>1. LinkedIn(node, top) = r /\ ContentsIn(node, top) = Held(node, c)
          /\ ToSet(LinkedIn(node, top)) = ToSet(c)
      BY <2>1, ContentsAre DEF StackOf
    <3>2. Contents = ContentsIn(node, top) /\ Chain = LinkedIn(node, top)
      BY DEF Contents, Chain, Linked, ContentsIn, LinkedIn
    <3>3. QED BY <3>1, <3>2
  <2>4. Len(r) = n /\ \A k \in 1 .. n : r[k] = c[(n - k) + 1] BY <2>2, ReverseIs
  <2>5. ToSet(c) \subseteq allocated
    <3>1. DOMAIN c = 1 .. n BY <2>2
    <3>2. QED BY <2>2, <3>1 DEF ToSet
  <2> HIDE DEF n, V, r
  <2>6. \A k \in 1 .. n : Fits(V, k) BY <2>2 DEF Shape, Fits
  <2>7. ASSUME NEW k \in 2 .. n PROVE ~IsEmpty(r[k]) /\ (k >= 3 => IsFull(r[k]))
    <3> DEFINE i == (n - k) + 1
    <3>1. k \in 1 .. n /\ i \in 1 .. n /\ i < n /\ (k >= 3 => i < n - 1) BY <2>2
    <3>2. r[k] = c[i] BY <2>4, <3>1
    <3> HIDE DEF i
    <3>3. V[i] # << >> /\ (k >= 3 => Len(V[i]) = NodeCapacity) BY <2>2, <2>6, <3>1 DEF Fits
    <3>4. QED BY <2>2, <3>1, <3>2, <3>3 DEF IsEmpty, IsFull
  <2>8. ASSUME size > 0, BufferInvariants PROVE Top = Last(Contents)
    <3>1. m_buf = BufferFor(c) /\ n # 0
      <4>1. size = 0 <=> n = 0 BY <2>1, BufferIs DEF Inv, n
      <4>2. BufferInvariants <=> m_buf = BufferFor(c) BY <2>1, BufferIs DEF Inv
      <4>3. QED BY <2>8, <4>1, <4>2
    <3>2. \E t \in 1 .. n : AtTop(V, t) /\ V[t] # << >> /\ Top = Last(node[c[t]].values)
      <4>1. CASE n = 1
        <5>1. Len(m_buf) = 1 /\ Head(m_buf) = c[1] BY <2>2, <3>1, <4>1, BufferEnds DEF n
        <5>2. 1 \in 1 .. n /\ V[1] # << >> BY <2>2, <4>1 DEF Shape
        <5>3. Top = Last(node[c[1]].values) BY <5>1 DEF Top
        <5>4. AtTop(V, 1) BY <2>2, <4>1 DEF AtTop
        <5>5. QED BY <5>2, <5>3, <5>4
      <4>2. CASE n >= 2
        <5>1. Len(m_buf) = 2 /\ Head(m_buf) = c[n - 1] /\ Last(m_buf) = c[n]
          BY <2>2, <3>1, <4>2, BufferEnds DEF n
        <5>2. n \in 1 .. n /\ n - 1 \in 1 .. n /\ n - 1 < n BY <2>2, <4>2
        <5>3. CASE V[n] # << >>
          <6>1. ~IsEmpty(c[n]) BY <2>2, <5>2, <5>3 DEF IsEmpty
          <6>2. Top = Last(node[c[n]].values) BY <5>1, <6>1 DEF Top
          <6>3. AtTop(V, n) BY <2>2, <5>2 DEF AtTop
          <6>4. QED BY <5>2, <5>3, <6>2, <6>3
        <5>4. CASE V[n] = << >>
          <6>1. IsEmpty(c[n]) BY <2>2, <5>2, <5>4 DEF IsEmpty
          <6>2. Top = Last(node[c[n - 1]].values) BY <5>1, <6>1 DEF Top
          <6>3. AtTop(V, n - 1) BY <2>2, <5>2, <5>4 DEF AtTop
          <6>4. V[n - 1] # << >> BY <2>2, <2>6, <5>2 DEF Fits
          <6>5. QED BY <5>2, <6>2, <6>3, <6>4
        <5>5. QED BY <5>3, <5>4
      <4>3. n = 1 \/ n >= 2 BY <2>2, <3>1
      <4>4. QED BY <4>1, <4>2, <4>3
    <3>3. PICK t \in 1 .. n : AtTop(V, t) /\ V[t] # << >> /\ Top = Last(node[c[t]].values) BY <3>2
    <3>4. Last(FlattenSeq(V)) = Last(V[t]) BY <2>2, <3>3, FlattenPop
    <3>5. QED BY <2>2, <2>3, <3>3, <3>4
  <2>9. Len(Contents) = size /\ Len(Chain) = nodes BY <2>2, <2>3, <2>4
  <2>10. \A k \in 2 .. Len(Chain) : ~IsEmpty(Chain[k]) BY <2>3, <2>4, <2>7
  <2>11. \A k \in 3 .. Len(Chain) : IsFull(Chain[k])
    <3>1. \A k \in 3 .. n : k \in 2 .. n /\ k >= 3 BY <2>2
    <3>2. QED BY <2>3, <2>4, <2>7, <3>1
  <2>12. ToSet(Chain) \subseteq allocated BY <2>3, <2>5
  <2> HIDE DEF Chain, Contents, Top
  <2>13. QED BY <2>8, <2>9, <2>10, <2>11, <2>12 DEF ListValid
<1>2. QED BY <1>1, InvHolds, PTL

-----------------------------------------------------------------------------
(* What is on the list, written out.                                       *)

Distinct(s) == \A i, j \in 1 .. Len(s) : s[i] = s[j] => i = j

\* Two sequences, one after the other.
LEMMA ConcatMembers ==
  ASSUME NEW S, NEW s \in Seq(S), NEW t \in Seq(S)
  PROVE  /\ s \o t \in Seq(S) /\ ToSet(s \o t) = ToSet(s) \cup ToSet(t)
         /\ Distinct(s) /\ Distinct(t) /\ ToSet(s) \cap ToSet(t) = {} => Distinct(s \o t)
<1> DEFINE m == Len(s)
           n == Len(t)
           u == s \o t
<1>1. /\ m \in Nat /\ n \in Nat /\ u \in Seq(S) /\ Len(u) = m + n
      /\ \A i \in 1 .. m + n : u[i] = IF i <= m THEN s[i] ELSE t[i - m]
  BY ConcatProperties
<1>2. DOMAIN s = 1 .. m /\ DOMAIN t = 1 .. n /\ DOMAIN u = 1 .. m + n BY <1>1
<1> HIDE DEF m, n, u
<1>3. ASSUME NEW i \in 1 .. m PROVE i \in 1 .. m + n /\ u[i] = s[i] /\ s[i] \in ToSet(s)
  <2>1. i \in 1 .. m + n /\ i <= m BY <1>1
  <2>2. QED BY <1>1, <1>2, <2>1 DEF ToSet
<1>4. ASSUME NEW i \in 1 .. n PROVE m + i \in 1 .. m + n /\ u[m + i] = t[i] /\ t[i] \in ToSet(t)
  <2>1. m + i \in 1 .. m + n /\ ~(m + i <= m) /\ (m + i) - m = i BY <1>1
  <2>2. u[m + i] = t[(m + i) - m] BY <1>1, <2>1
  <2>3. QED BY <1>2, <2>1, <2>2 DEF ToSet
<1>5. ASSUME NEW i \in 1 .. m + n PROVE (i \in 1 .. m) \/ (i - m \in 1 .. n /\ i = m + (i - m)) BY <1>1
<1>6. ToSet(u) \subseteq ToSet(s) \cup ToSet(t)
  <2> SUFFICES ASSUME NEW i \in 1 .. m + n PROVE u[i] \in ToSet(s) \cup ToSet(t) BY <1>2 DEF ToSet
  <2>1. CASE i \in 1 .. m BY <1>3, <2>1
  <2>2. CASE i - m \in 1 .. n /\ i = m + (i - m) BY <1>4, <2>2
  <2>3. QED BY <1>5, <2>1, <2>2
<1>7. ToSet(s) \subseteq ToSet(u)
  <2> SUFFICES ASSUME NEW i \in 1 .. m PROVE s[i] \in ToSet(u) BY <1>2 DEF ToSet
  <2>1. QED BY <1>2, <1>3 DEF ToSet
<1>8. ToSet(t) \subseteq ToSet(u)
  <2> SUFFICES ASSUME NEW i \in 1 .. n PROVE t[i] \in ToSet(u) BY <1>2 DEF ToSet
  <2>1. QED BY <1>2, <1>4 DEF ToSet
<1>9. ASSUME Distinct(s), Distinct(t), ToSet(s) \cap ToSet(t) = {} PROVE Distinct(u)
  <2> SUFFICES ASSUME NEW i \in 1 .. m + n, NEW j \in 1 .. m + n, u[i] = u[j] PROVE i = j
    BY <1>1 DEF Distinct
  <2>1. CASE i \in 1 .. m /\ j \in 1 .. m
    <3>1. s[i] = s[j] BY <1>3, <2>1
    <3>2. QED BY <1>9, <2>1, <3>1 DEF Distinct, m
  <2>2. CASE i - m \in 1 .. n /\ i = m + (i - m) /\ j - m \in 1 .. n /\ j = m + (j - m)
    <3>1. t[i - m] = t[j - m] BY <1>4, <2>2
    <3>2. i - m = j - m BY <1>9, <2>2, <3>1 DEF Distinct, n
    <3>3. QED BY <2>2, <3>2
  <2>3. CASE i \in 1 .. m /\ j - m \in 1 .. n /\ j = m + (j - m)
    <3>1. u[i] \in ToSet(s) /\ u[j] \in ToSet(t) BY <1>3, <1>4, <2>3
    <3>2. QED BY <1>9, <3>1
  <2>4. CASE j \in 1 .. m /\ i - m \in 1 .. n /\ i = m + (i - m)
    <3>1. u[j] \in ToSet(s) /\ u[i] \in ToSet(t) BY <1>3, <1>4, <2>4
    <3>2. QED BY <1>9, <3>1
  <2>5. QED BY <1>5, <2>1, <2>2, <2>3, <2>4
<1>10. QED BY <1>1, <1>6, <1>7, <1>8, <1>9 DEF u

\* A sequence of sequences has what they have, and nothing twice if they have not.
LEMMA FlattenMembers ==
  ASSUME NEW S, NEW ss \in Seq(Seq(S))
  PROVE  /\ FlattenSeq(ss) \in Seq(S)
         /\ \A x : x \in ToSet(FlattenSeq(ss)) <=> \E k \in 1 .. Len(ss) : x \in ToSet(ss[k])
         /\ NamedOnce(ss, ss) => Distinct(FlattenSeq(ss))
<1> DEFINE n == Len(ss)
<1>1. n \in Nat /\ \A k \in 1 .. n : ss[k] \in Seq(S) /\ DOMAIN ss[k] = 1 .. Len(ss[k]) OBVIOUS
<1> HIDE DEF n
<1>2. PICK h : /\ h[0] = << >>
               /\ \A i \in 1 .. n : h[i] = h[i - 1] \o ss[i]
               /\ \A i \in 0 .. n : h[i] \in Seq(S)
               /\ FlattenSeq(ss) = h[n]
  BY FlattenSteps DEF n
<1> DEFINE Has(i) == \A x : x \in ToSet(h[i]) <=> \E k \in 1 .. i : x \in ToSet(ss[k])
           T == { i \in Nat : i <= n => Has(i) /\ (NamedOnce(ss, ss) => Distinct(h[i])) }
<1>3. 0 \in T
  <2>1. ToSet(h[0]) = {} /\ Len(h[0]) = 0 BY <1>2 DEF ToSet
  <2>2. Has(0) BY <2>1
  <2>3. Distinct(h[0]) BY <2>1 DEF Distinct
  <2>4. QED BY <2>2, <2>3
<1>4. ASSUME NEW i \in Nat, i \in T PROVE i + 1 \in T
  <2> SUFFICES ASSUME i + 1 <= n
               PROVE  Has(i + 1) /\ (NamedOnce(ss, ss) => Distinct(h[i + 1]))
    OBVIOUS
  <2>1. /\ i + 1 \in 1 .. n /\ (i + 1) - 1 = i /\ i \in 0 .. n /\ i <= n /\ i + 1 \in 1 .. i + 1
        /\ \A k \in 1 .. i : k \in 1 .. i + 1 /\ k \in 1 .. n /\ k # i + 1
        /\ \A k \in 1 .. i + 1 : k \in 1 .. i \/ k = i + 1
    BY <1>1
  <2>2. Has(i) /\ (NamedOnce(ss, ss) => Distinct(h[i])) BY <1>4, <2>1
  <2> DEFINE p == h[i]
             q == ss[i + 1]
  <2>3. h[i + 1] = p \o q BY <1>2, <2>1
  <2>4. p \in Seq(S) /\ q \in Seq(S) BY <1>1, <1>2, <2>1
  <2> HIDE DEF p, q
  <2>5. ToSet(h[i + 1]) = ToSet(p) \cup ToSet(q) BY <2>3, <2>4, ConcatMembers
  <2>6. Has(i + 1) BY <2>1, <2>2, <2>5 DEF p, q
  <2>7. ASSUME NamedOnce(ss, ss) PROVE Distinct(h[i + 1])
    <3>1. Distinct(p) BY <2>2, <2>7 DEF p
    <3>2. Distinct(q) BY <2>1, <2>7 DEF NamedOnce, Distinct, q, n
    <3>3. ASSUME NEW x, x \in ToSet(p), x \in ToSet(q) PROVE FALSE
      <4>1. PICK k \in 1 .. i : x \in ToSet(ss[k]) BY <2>2, <3>3 DEF p
      <4>2. k \in 1 .. n /\ k # i + 1 BY <2>1
      <4>3. PICK y \in 1 .. Len(ss[k]) : x = ss[k][y] BY <1>1, <4>1, <4>2 DEF ToSet
      <4>4. PICK z \in 1 .. Len(ss[i + 1]) : x = ss[i + 1][z] BY <1>1, <2>1, <3>3 DEF ToSet, q
      <4>5. ss[k][y] = ss[i + 1][z] BY <4>3, <4>4
      <4>6. k = i + 1 BY <2>1, <2>7, <4>2, <4>5 DEF NamedOnce, n
      <4>7. QED BY <4>2, <4>6
    <3>4. ToSet(p) \cap ToSet(q) = {} BY <3>3
    <3>5. QED BY <2>3, <2>4, <3>1, <3>2, <3>4, ConcatMembers
  <2>8. QED BY <2>6, <2>7
<1> HIDE DEF T
<1>5. n \in T BY <1>1, <1>3, <1>4, Induction
<1>6. Has(n) /\ (NamedOnce(ss, ss) => Distinct(h[n])) BY <1>1, <1>5 DEF T
<1>7. h[n] \in Seq(S) BY <1>1, <1>2
<1>8. QED BY <1>2, <1>6, <1>7 DEF n

\* The blocks of a tidy list, written out from its head.
LEMMA TidyListed ==
  ASSUME NEW d, NEW V, NEW F, Tidy(d, V, F), NEW r, r = Reverse(d),
         NEW W, W = [k \in 1 .. Len(d) |-> V[(Len(d) - k) + 1]]
  PROVE  /\ r \o FlattenSeq(W) \in Seq(F) /\ Distinct(r \o FlattenSeq(W))
         /\ ToSet(r \o FlattenSeq(W)) = F
         /\ Len(r) = Len(d) /\ \A k \in 2 .. Len(r) : Len(W[k]) = BlockCapacity
<1> DEFINE n == Len(d)
           g == FlattenSeq(W)
<1>1. /\ d \in Seq(F) /\ n \in Nat /\ V \in Seq(Seq(F)) /\ Len(V) = n
      /\ \A k \in 1 .. n : V[k] \in Seq(F) /\ DOMAIN V[k] = 1 .. Len(V[k])
  BY DEF Tidy
<1>2. r \in Seq(F) /\ Len(r) = n /\ ToSet(r) = ToSet(d) BY <1>1, ReverseIs
<1>3. \A k \in 1 .. n : r[k] = d[(n - k) + 1] BY <1>1, ReverseIs
<1>4. W = [k \in 1 .. n |-> V[(n - k) + 1]] OBVIOUS
<1>5. DOMAIN d = 1 .. n BY <1>1
<1> HIDE DEF n
<1>6. ASSUME NEW k \in 1 .. n
      PROVE  /\ (n - k) + 1 \in 1 .. n /\ (n - ((n - k) + 1)) + 1 = k
             /\ W[k] = V[(n - k) + 1] /\ W[k] \in Seq(F) /\ DOMAIN W[k] = 1 .. Len(W[k])
             /\ W[(n - k) + 1] = V[k]
  <2>1. (n - k) + 1 \in 1 .. n /\ (n - ((n - k) + 1)) + 1 = k BY <1>1
  <2>2. W[k] = V[(n - k) + 1] BY <1>4
  <2>3. W[(n - k) + 1] = V[k]
    <3> DEFINE a == (n - k) + 1
    <3>1. a \in 1 .. n /\ (n - a) + 1 = k BY <2>1
    <3> HIDE DEF a
    <3>2. W[a] = V[(n - a) + 1] BY <1>4, <3>1
    <3>3. QED BY <3>1, <3>2 DEF a
  <2>4. QED BY <1>1, <2>1, <2>2, <2>3
<1>7. W \in Seq(Seq(F)) /\ Len(W) = n BY <1>1, <1>4, <1>6
<1>8. NamedOnce(W, W)
  <2>1. ASSUME NEW k \in 1 .. n, NEW j \in 1 .. n, NEW x \in 1 .. Len(W[k]),
               NEW y \in 1 .. Len(W[j]), W[k][x] = W[j][y]
        PROVE  k = j /\ x = y
    <3> DEFINE a == (n - k) + 1
               b == (n - j) + 1
    <3>1. a \in 1 .. n /\ b \in 1 .. n /\ W[k] = V[a] /\ W[j] = V[b] BY <1>6
    <3>2. a = b => k = j BY <1>1
    <3> HIDE DEF a, b
    <3>3. x \in 1 .. Len(V[a]) /\ y \in 1 .. Len(V[b]) /\ V[a][x] = V[b][y] BY <2>1, <3>1
    <3>4. NamedOnce(d, V) BY DEF Tidy
    <3>5. a = b /\ x = y BY <3>1, <3>3, <3>4 DEF NamedOnce, n
    <3>6. QED BY <3>2, <3>5
  <2>2. \A k, j \in 1 .. n : \A x \in 1 .. Len(W[k]), y \in 1 .. Len(W[j]) :
          W[k][x] = W[j][y] => k = j /\ x = y
    BY <2>1
  <2>3. Len(W) = n BY <1>7
  <2>4. QED BY ONLY <2>2, <2>3, Zenon DEF NamedOnce
<1>9. /\ g \in Seq(F) /\ Distinct(g)
      /\ \A x : x \in ToSet(g) <=> \E k \in 1 .. n : x \in ToSet(W[k])
  BY <1>7, <1>8, FlattenMembers
<1> HIDE DEF g
<1>10. Distinct(r)
  <2> SUFFICES ASSUME NEW k \in 1 .. n, NEW j \in 1 .. n, r[k] = r[j] PROVE k = j
    BY <1>2 DEF Distinct
  <2> DEFINE a == (n - k) + 1
             b == (n - j) + 1
  <2>0. r[k] = d[a] /\ r[j] = d[b] BY <1>3
  <2>1. a \in 1 .. n /\ b \in 1 .. n /\ d[a] = d[b]
    <3>1. a \in 1 .. n /\ b \in 1 .. n BY <1>1
    <3>2. QED BY <2>0, <3>1
  <2>2. a = b => k = j BY <1>1
  <2> HIDE DEF a, b
  <2>3. Once(d) BY DEF Tidy
  <2>4. QED BY <2>1, <2>2, <2>3 DEF Once, n
<1>11. ASSUME NEW x, x \in ToSet(d), x \in ToSet(g) PROVE FALSE
  <2>1. PICK j \in 1 .. n : x = d[j] BY <1>5, <1>11 DEF ToSet
  <2>2. PICK k \in 1 .. n : x \in ToSet(W[k]) BY <1>9, <1>11
  <2>3. PICK y \in 1 .. Len(W[k]) : x = W[k][y]
    <3>1. W[k] \in Seq(F) BY <1>6
    <3>2. DOMAIN W[k] = 1 .. Len(W[k]) BY ONLY <3>1, LenProperties
    <3>3. PICK y \in DOMAIN W[k] : x = W[k][y] BY <2>2 DEF ToSet
    <3>4. QED BY <3>2, <3>3
  <2> DEFINE a == (n - k) + 1
  <2>4. a \in 1 .. n /\ W[k] = V[a] BY <1>6
  <2> HIDE DEF a
  <2>5. y \in 1 .. Len(V[a]) /\ V[a][y] = d[j] BY <2>1, <2>3, <2>4
  <2>6. NoNodeNamed(d, V) BY DEF Tidy
  <2>7. QED BY <2>1, <2>4, <2>5, <2>6 DEF NoNodeNamed, n
<1>12. ToSet(r) \cap ToSet(g) = {} BY <1>2, <1>11
<1>13. /\ r \o g \in Seq(F) /\ Distinct(r \o g)
       /\ ToSet(r \o g) = ToSet(d) \cup ToSet(g)
  BY <1>2, <1>9, <1>10, <1>12, ConcatMembers
<1>14. ToSet(d) \cup ToSet(g) \subseteq F
  <2>1. ToSet(d) \subseteq F BY <1>1, <1>5 DEF ToSet, n
  <2>2. ToSet(g) \subseteq F BY <1>9 DEF ToSet
  <2>3. QED BY <2>1, <2>2
<1>15. ASSUME NEW x \in F PROVE x \in ToSet(d) \cup ToSet(g)
  <2>1. Covers(d, V, F) BY DEF Tidy
  <2>2. CASE \E k \in 1 .. n : x = d[k] BY <1>5, <2>2 DEF ToSet
  <2>3. CASE \E k \in 1 .. n : \E y \in 1 .. Len(V[k]) : x = V[k][y]
    <3>1. PICK k \in 1 .. n : \E y \in 1 .. Len(V[k]) : x = V[k][y] BY <2>3
    <3>2. x \in ToSet(V[k]) BY <1>1, <3>1 DEF ToSet
    <3> DEFINE a == (n - k) + 1
    <3>3. a \in 1 .. n /\ W[a] = V[k] BY <1>6
    <3> HIDE DEF a
    <3>4. QED BY <1>9, <3>2, <3>3
  <2>4. QED BY <2>1, <2>2, <2>3 DEF Covers, n
<1>16. ASSUME NEW k \in 2 .. n PROVE Len(W[k]) = BlockCapacity
  <2> DEFINE a == (n - k) + 1
  <2>1. k \in 1 .. n /\ a \in 1 .. n /\ a < n BY <1>1
  <2>2. W[k] = V[a] BY <1>6, <2>1
  <2> HIDE DEF a
  <2>3. Filled(d, V) BY DEF Tidy
  <2>4. QED BY <2>1, <2>2, <2>3 DEF Filled, n
<1>17. QED BY <1>2, <1>13, <1>14, <1>15, <1>16 DEF n, g

\* Every block of the engine is in use or on the free list, in exactly one place, and
\* the counters of the node_allocator say how many there are.
THEOREM StackEachBlockOnce == Spec => []EachBlockOnce
<1>1. Inv => EachBlockOnce
  <2> SUFFICES ASSUME Inv PROVE EachBlockOnce OBVIOUS
  <2>1. AllocatorInv BY DEF Inv
  <2>2. PICK d : Rises(node, head, d) /\ Tidy(d, ValuesOf(node, d), Free)
    BY <2>1 DEF AllocatorInv, Holds, List
  <2> DEFINE n == Len(d)
             V == ValuesOf(node, d)
             r == Reverse(d)
             W == [k \in 1 .. n |-> V[(n - k) + 1]]
             s == r \o FlattenSeq(W)
  <2>3. d \in Seq(Free) /\ n \in Nat BY <2>2 DEF Tidy
  <2>4. Linked(head) = r
    <3>1. LinkedIn(node, head) = r BY <2>2, LinkedIs
    <3>2. QED BY <3>1 DEF Linked, LinkedIn
  <2>5. /\ s \in Seq(Free) /\ Distinct(s) /\ ToSet(s) = Free /\ Len(r) = n
        /\ \A k \in 2 .. n : Len(W[k]) = BlockCapacity
    <3>1. Tidy(d, V, Free) /\ r = Reverse(d) /\ W = [k \in 1 .. Len(d) |-> V[(Len(d) - k) + 1]]
      BY <2>2
    <3> HIDE DEF V, r, W
    <3>2. Len(r) = Len(d) /\ \A k \in 2 .. Len(r) : Len(W[k]) = BlockCapacity
      BY <3>1, TidyListed
    <3>3. s \in Seq(Free) /\ Distinct(s) /\ ToSet(s) = Free BY <3>1, TidyListed
    <3>4. QED BY <3>2, <3>3
  <2>6. \A k \in 1 .. n : r[k] = d[(n - k) + 1] BY <2>3, ReverseIs
  <2>7. DOMAIN r = 1 .. n BY <2>3, <2>5, ReverseIs
  <2>8. ASSUME NEW k \in 1 .. n PROVE W[k] = node[r[k]].values
    <3>1. (n - k) + 1 \in 1 .. n BY <2>3
    <3>2. W[k] = V[(n - k) + 1] OBVIOUS
    <3>3. V[(n - k) + 1] = node[d[(n - k) + 1]].values BY <3>1 DEF ValuesOf
    <3>4. QED BY <2>6, <3>2, <3>3
  <2>9. W = [k \in DOMAIN r |-> node[r[k]].values] BY <2>7, <2>8
  <2> HIDE DEF W, r
  <2>10. Listed = s
    <3>1. Listed = Linked(head) \o FlattenSeq([k \in DOMAIN Linked(head) |-> node[Linked(head)[k]].values])
      BY DEF Listed
    <3>2. QED BY <2>4, <2>9, <3>1
  <2> HIDE DEF s
  <2>11. IsInjective(s)
    <3>1. DOMAIN s = 1 .. Len(s) BY <2>5
    <3>2. QED BY <2>5, <3>1 DEF IsInjective, Distinct
  <2>12. free = Len(s)
    <3>1. Cardinality(ToSet(s)) = Len(s) BY <2>5, SeqCardinality DEF Distinct
    <3>2. QED BY <2>1, <2>5, <3>1 DEF AllocatorInv
  <2>13. OnlyHeadHasRoom
    <3>1. \A k \in 2 .. n : k \in 1 .. n BY <2>3
    <3>2. QED BY <2>4, <2>5, <2>8, <3>1 DEF OnlyHeadHasRoom
  <2>14. total = engine BY <2>1 DEF AllocatorInv
  <2>15. ToSet(Listed) = (0 .. engine - 1) \ allocated BY <2>5, <2>10 DEF Free
  <2> HIDE DEF Listed, OnlyHeadHasRoom
  <2>16. QED BY <2>10, <2>11, <2>12, <2>13, <2>14, <2>15 DEF EachBlockOnce
<1>2. QED BY <1>1, InvHolds, PTL
=============================================================================
