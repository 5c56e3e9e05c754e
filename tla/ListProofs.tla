----------------------------- MODULE ListProofs -----------------------------
(***************************************************************************)
(* The list's nodes stay one chain, its values stay in order and its       *)
(* cursors stay put, for every capacity of two values or more.             *)
(*                                                                         *)
(* A list is described by its marks: how many values are before each       *)
(* node, and how many there are. Inserting, erasing, splitting, taking     *)
(* over a value and merging are operations on marks; a cursor is at a      *)
(* place, with so many values before it, whatever node and index that is.  *)
(***************************************************************************)
EXTENDS List, FiniteSetTheorems, SequenceTheorems, WellFoundedInduction, TLAPS

-----------------------------------------------------------------------------
(* Numbers.                                                                *)

\* A set of natural numbers that is not empty has a least element.
LEMMA LeastNumber ==
  ASSUME NEW T \in SUBSET Nat, T # {}
  PROVE  \E m \in T : \A k \in T : m <= k
<1> DEFINE R == OpToRel(<, Nat)
<1>1. IsWellFoundedOn(R, Nat) BY NatLessThanWellFounded
<1>2. PICK m \in T : \A k \in T : ~(<<k, m>> \in R)
  <2> HIDE DEF R
  <2> QED BY <1>1, WFMin
<1>3. \A k \in T : ~(k < m) BY <1>2 DEF OpToRel
<1>4. QED BY <1>3

\* Induction, for the numbers that are in a set.
LEMMA Induction ==
  ASSUME NEW S, 0 \in S, \A n \in Nat : n \in S => n + 1 \in S
  PROVE  \A n \in Nat : n \in S
<1> SUFFICES ASSUME NEW n \in Nat, n \notin S PROVE FALSE OBVIOUS
<1> DEFINE T == { k \in Nat : k \notin S }
<1>1. PICK m \in T : \A k \in T : m <= k BY LeastNumber
<1>2. m # 0 BY <1>1
<1>3. m - 1 \in Nat /\ m - 1 \in S BY <1>1, <1>2
<1>4. QED BY <1>1, <1>3

-----------------------------------------------------------------------------
(* Lists as chains and marks.                                              *)

\* The values behind the first x, up to the one with number y.
Piece(x, y) == [j \in 1 .. y - x |-> x + j]

\* Marks: how many values are before each node, and how many there are.
Count(b) == Len(b) - 1

MarkSeq(b) ==
  /\ b \in Seq(Nat) /\ Len(b) # 0 /\ b[1] = 0
  /\ \A i \in 1 .. Len(b) - 1 : b[i] <= b[i + 1]

Nth(o, i) == IF i \in 1 .. Len(o) THEN o[i] ELSE NoNode

\* The node at place i of the chain o, with the values V[i].
NodeOf(o, V, i) == [prev |-> Nth(o, i - 1), next |-> Nth(o, i + 1), vals |-> V[i]]

Chain(o) ==
  /\ o \in Seq(Nat \ {0})
  /\ \A i, j \in 1 .. Len(o) : o[i] = o[j] => i = j

Record(first, last, size, count, nodes) ==
  [first |-> first, last |-> last, size |-> size, count |-> count, nodes |-> nodes]

\* The list l has the nodes o, in this order, and they have the values V.
Linked(l, o, s, V) ==
  /\ Chain(o)
  /\ l = Record(Nth(o, 1), Nth(o, Len(o)), s, Len(o), l.nodes)
  /\ DOMAIN l.nodes = { o[i] : i \in 1 .. Len(o) }
  /\ \A i \in 1 .. Len(o) : l.nodes[o[i]] = NodeOf(o, V, i)

Upto(n) == [i \in 1 .. n |-> i]

\* A list of n nodes with the names 1 .. n.
Straight(n, s, V) ==
  Record(Nth(Upto(n), 1), Nth(Upto(n), n), s, n, [i \in 1 .. n |-> NodeOf(Upto(n), V, i)])

Pieces(b) == [i \in 1 .. Count(b) |-> Piece(b[i], b[i + 1])]

Shape(b) == Straight(Count(b), b[Len(b)], Pieces(b))

\* The place of a node in the chain.
Named(o, n) ==
  IF \E i \in DOMAIN o : o[i] = n THEN CHOOSE i \in DOMAIN o : o[i] = n ELSE NoNode

Prefix(o, n) == [i \in 1 .. n |-> o[i]]

\* A list is a record of five parts.
LEMMA Parts ==
  ASSUME NEW f, NEW a, NEW s, NEW k, NEW q
  PROVE  /\ Record(f, a, s, k, q).first = f /\ Record(f, a, s, k, q).last = a
         /\ Record(f, a, s, k, q).size = s /\ Record(f, a, s, k, q).count = k
         /\ Record(f, a, s, k, q).nodes = q
BY DEF Record

WithFirst(l, x) == [l EXCEPT !.first = x]
WithLast(l, x) == [l EXCEPT !.last = x]
WithSize(l, x) == [l EXCEPT !.size = x]
WithCount(l, x) == [l EXCEPT !.count = x]
WithNodes(l, x) == [l EXCEPT !.nodes = x]

LEMMA WithParts ==
  ASSUME NEW f, NEW a, NEW s, NEW k, NEW q, NEW x
  PROVE  /\ WithFirst(Record(f, a, s, k, q), x) = Record(x, a, s, k, q)
         /\ WithLast(Record(f, a, s, k, q), x) = Record(f, x, s, k, q)
         /\ WithSize(Record(f, a, s, k, q), x) = Record(f, a, x, k, q)
         /\ WithCount(Record(f, a, s, k, q), x) = Record(f, a, s, x, q)
         /\ WithNodes(Record(f, a, s, k, q), x) = Record(f, a, s, k, x)
<1>1. WithFirst(Record(f, a, s, k, q), x) = Record(x, a, s, k, q) BY DEF Record, WithFirst
<1>2. WithLast(Record(f, a, s, k, q), x) = Record(f, x, s, k, q) BY DEF Record, WithLast
<1>3. WithSize(Record(f, a, s, k, q), x) = Record(f, a, x, k, q) BY DEF Record, WithSize
<1>4. WithCount(Record(f, a, s, k, q), x) = Record(f, a, s, x, q) BY DEF Record, WithCount
<1>5. WithNodes(Record(f, a, s, k, q), x) = Record(f, a, s, k, x) BY DEF Record, WithNodes
<1>6. QED BY <1>1, <1>2, <1>3, <1>4, <1>5

\* There are as many nodes as the chain is long.
LEMMA ChainCount ==
  ASSUME NEW o, Chain(o)
  PROVE  Cardinality({ o[i] : i \in 1 .. Len(o) }) = Len(o)
<1> DEFINE n == Len(o)
           T == { o[i] : i \in 1 .. n }
<1>1. n \in Nat /\ DOMAIN o = 1 .. n BY DEF Chain
<1>2. \A i, j \in 1 .. n : o[i] = o[j] => i = j BY DEF Chain
<1>3. o \in [1 .. n -> T] BY <1>1 DEF Chain
<1> HIDE DEF n
<1>4. o \in Bijection(1 .. n, T)
  <2>1. o \in Injection(1 .. n, T) BY <1>2, <1>3 DEF Injection, IsInjective
  <2>2. o \in Surjection(1 .. n, T) BY <1>3 DEF Surjection
  <2>3. QED BY <2>1, <2>2 DEF Bijection
<1>5. IsFiniteSet(1 .. n) /\ Cardinality(1 .. n) = n
  <2>1. 1 \in Int /\ n \in Int /\ (IF 1 > n THEN 0 ELSE n - 1 + 1) = n BY <1>1
  <2>2. QED BY <2>1, FS_Interval
<1>6. QED
  <2> HIDE DEF T
  <2>1. ExistsBijection(1 .. n, T) BY <1>4 DEF ExistsBijection
  <2>2. Cardinality(T) = n BY <1>5, <2>1, FS_Bijection
  <2>3. QED BY <2>2 DEF n, T

\* One step further along the links of a list.
LEMMA FurtherStep ==
  ASSUME NEW l, NEW o, NEW s, NEW V, Linked(l, o, s, V), NEW k \in 1 .. Len(o)
  PROVE  Further(l, Prefix(o, k - 1)) = Prefix(o, k)
<1> DEFINE p == Prefix(o, k - 1)
           S == Nat \ {0}
<1>1. o \in Seq(S) /\ Len(o) \in Nat BY DEF Linked, Chain
<1>2. p \in Seq(S) /\ Len(p) = k - 1 /\ \A i \in 1 .. k - 1 : p[i] = o[i] BY <1>1 DEF Prefix
<1>3. o[k] \in DOMAIN l.nodes BY DEF Linked
<1>4. (IF p = << >> THEN l.first ELSE l.nodes[Last(p)].next) = o[k]
  <2>1. CASE k = 1
    <3>1. p = << >> BY <2>1 DEF Prefix
    <3>2. l.first = Nth(o, 1) BY Parts DEF Linked
    <3>3. QED BY <1>1, <2>1, <3>1, <3>2 DEF Nth
  <2>2. CASE k # 1
    <3>1. p # << >> BY <1>2, <2>2
    <3>2. Last(p) = o[k - 1] /\ k - 1 \in 1 .. Len(o) BY <1>1, <1>2, <2>2 DEF Last
    <3>3. l.nodes[o[k - 1]] = NodeOf(o, V, k - 1) BY <3>2 DEF Linked
    <3>4. NodeOf(o, V, k - 1).next = Nth(o, (k - 1) + 1) BY DEF NodeOf
    <3>5. Nth(o, (k - 1) + 1) = o[k] BY <1>1 DEF Nth
    <3>6. QED BY <3>1, <3>2, <3>3, <3>4, <3>5
  <2>3. QED BY <2>1, <2>2
<1>5. o[k] \notin ToSet(p)
  <2>1. SUFFICES ASSUME NEW i \in DOMAIN p, p[i] = o[k] PROVE FALSE BY DEF ToSet
  <2>2. i \in 1 .. k - 1 BY ONLY <1>2, <2>1
  <2>3. p[i] = o[i] BY ONLY <1>2, <2>2
  <2>4. i \in 1 .. Len(o) /\ i # k BY ONLY <1>1, <2>2, k \in 1 .. Len(o)
  <2>5. QED BY <2>1, <2>3, <2>4 DEF Linked, Chain
<1>6. Append(p, o[k]) = Prefix(o, k)
  <2>1. Prefix(o, k) \in Seq(S) /\ Len(Prefix(o, k)) = k /\ \A i \in 1 .. k : Prefix(o, k)[i] = o[i]
    BY <1>1 DEF Prefix
  <2>2. o[k] \in S BY <1>1
  <2> HIDE DEF p, S
  <2>3. Append(p, o[k]) \in Seq(S) /\ Len(Append(p, o[k])) = k BY <1>2, <2>2
  <2>4. \A i \in 1 .. k : Append(p, o[k])[i] = o[i] BY <1>2, <2>2
  <2>5. QED BY <2>1, <2>3, <2>4
<1> HIDE DEF p
<1>7. Further(l, p) = Prefix(o, k) BY <1>3, <1>4, <1>5, <1>6 DEF Further
<1>8. QED BY <1>7 DEF p

\* visit_nodes meets the nodes in the order of the chain.
LEMMA OrderOfChain ==
  ASSUME NEW l, NEW o, NEW s, NEW V, Linked(l, o, s, V)
  PROVE  Order(l) = o
<1> DEFINE n == Len(o)
           F(w) == w = [k \in 0 .. n |-> IF k = 0 THEN << >> ELSE Further(l, w[k - 1])]
           v == [k \in 0 .. n |-> Prefix(o, k)]
<1>1. n \in Nat /\ o \in Seq(Nat \ {0}) BY DEF Linked, Chain
<1>2. Cardinality(DOMAIN l.nodes) = n BY ChainCount DEF Linked
<1>3. Prefix(o, 0) = << >> BY DEF Prefix
<1> HIDE DEF n
<1>4. F(v)
  <2>1. ASSUME NEW k \in 0 .. n
        PROVE  Prefix(o, k) = IF k = 0 THEN << >> ELSE Further(l, v[k - 1])
    <3>1. CASE k = 0 BY <1>3, <3>1
    <3>2. CASE k # 0
      <4>1. k \in 1 .. n /\ k - 1 \in 0 .. n BY <1>1, <3>2
      <4>2. v[k - 1] = Prefix(o, k - 1) BY <4>1
      <4>3. Further(l, Prefix(o, k - 1)) = Prefix(o, k) BY <4>1, FurtherStep DEF n
      <4>4. QED BY <3>2, <4>2, <4>3
    <3>3. QED BY <3>1, <3>2
  <2>2. QED BY <2>1
<1> DEFINE w == CHOOSE q : F(q)
<1>5. F(w)
  <2> HIDE DEF F, v
  <2> QED BY <1>4
<1>6. Order(l) = w[n] BY <1>2 DEF Order
<1> HIDE DEF w
<1>7. \A k \in 0 .. n : w[k] = IF k = 0 THEN << >> ELSE Further(l, w[k - 1]) BY <1>5
<1> HIDE DEF F, v
<1> DEFINE T == { k \in Nat : k <= n => w[k] = Prefix(o, k) }
<1>8. 0 \in T BY <1>1, <1>3, <1>7
<1>9. ASSUME NEW k \in Nat, k \in T PROVE k + 1 \in T
  <2>1. SUFFICES ASSUME k + 1 <= n PROVE w[k + 1] = Prefix(o, k + 1) OBVIOUS
  <2>2. k + 1 \in 0 .. n /\ k + 1 # 0 /\ (k + 1) - 1 = k /\ k + 1 \in 1 .. n BY <1>1, <2>1
  <2>3. w[k] = Prefix(o, k) BY <1>1, <1>9, <2>1
  <2>4. w[k + 1] = Further(l, Prefix(o, k)) BY <1>7, <2>2, <2>3
  <2>5. Further(l, Prefix(o, (k + 1) - 1)) = Prefix(o, k + 1) BY <2>2, FurtherStep DEF n
  <2>6. QED BY <2>2, <2>4, <2>5
<1> HIDE DEF T
<1>10. n \in T BY <1>1, <1>8, <1>9, Induction
<1>11. w[n] = Prefix(o, n) BY <1>1, <1>10 DEF T
<1>12. Prefix(o, n) = o BY <1>1 DEF Prefix, n
<1>13. QED BY <1>6, <1>11, <1>12

\* Nodes that no link leads to: there are none.
LEMMA NoneLeft == SetToSeq({}) = << >>
<1>1. Cardinality({}) = 0 BY FS_EmptySet
<1>2. << >> \in [1 .. 0 -> {}] /\ IsInjective(<< >>) BY DEF IsInjective
<1>3. SetToSeq({}) \in [1 .. 0 -> {}]
  <2>1. SetToSeq({}) = CHOOSE f \in [1 .. 0 -> {}] : IsInjective(f) BY <1>1 DEF SetToSeq
  <2> HIDE DEF SetToSeq
  <2>2. QED BY <1>2, <2>1
<1>4. QED BY <1>3

LEMMA NamedInChain ==
  ASSUME NEW o, Chain(o)
  PROVE  /\ \A i \in 1 .. Len(o) : Named(o, o[i]) = i
         /\ Named(o, NoNode) = NoNode
         /\ \A i \in Int : Named(o, Nth(o, i)) = Nth(Upto(Len(o)), i)
<1>1. Len(o) \in Nat /\ DOMAIN o = 1 .. Len(o) /\ \A i \in 1 .. Len(o) : o[i] \in Nat \ {0} BY DEF Chain
<1>2. ASSUME NEW i \in 1 .. Len(o) PROVE Named(o, o[i]) = i
  <2>1. \A j \in DOMAIN o : o[j] = o[i] <=> j = i BY <1>1 DEF Chain
  <2>2. (CHOOSE j \in DOMAIN o : o[j] = o[i]) = i BY <1>1, <2>1
  <2>3. QED BY <1>1, <2>2 DEF Named
<1>3. Named(o, NoNode) = NoNode BY <1>1 DEF Named, NoNode
<1>4. ASSUME NEW i \in Int PROVE Named(o, Nth(o, i)) = Nth(Upto(Len(o)), i)
  <2>1. Len(Upto(Len(o))) = Len(o) BY <1>1 DEF Upto
  <2>2. CASE i \in 1 .. Len(o)
    <3>1. Nth(o, i) = o[i] /\ Nth(Upto(Len(o)), i) = i BY <2>1, <2>2 DEF Nth, Upto
    <3>2. QED BY <1>2, <2>2, <3>1
  <2>3. CASE i \notin 1 .. Len(o)
    <3>1. Nth(o, i) = NoNode /\ Nth(Upto(Len(o)), i) = NoNode BY <2>1, <2>3 DEF Nth
    <3>2. QED BY <1>3, <3>1
  <2>4. QED BY <2>2, <2>3
<1>5. QED BY <1>2, <1>3, <1>4

\* Every node has a number for a name, 0 if it is gone.
LEMMA NamedNat ==
  ASSUME NEW o, Chain(o), NEW n
  PROVE  Named(o, n) \in Nat
<1>1. DOMAIN o = 1 .. Len(o) /\ Len(o) \in Nat BY DEF Chain
<1>2. CASE \E i \in DOMAIN o : o[i] = n
  <2>1. Named(o, n) \in DOMAIN o BY <1>2 DEF Named
  <2>2. QED BY <1>1, <2>1
<1>3. CASE ~\E i \in DOMAIN o : o[i] = n BY <1>3 DEF Named, NoNode
<1>4. QED BY <1>2, <1>3

\* Renaming the nodes by their order.
RenamedNodes(l, o) ==
  [l EXCEPT !.first = Named(o, @), !.last = Named(o, @),
            !.nodes = [i \in DOMAIN o |-> [prev |-> Named(o, @[o[i]].prev), next |-> Named(o, @[o[i]].next),
                                           vals |-> @[o[i]].vals]]]

RenamedCursors(cs, o) == [c \in DOMAIN cs |-> [cs[c] EXCEPT !.node = Named(o, @)]]

Sorted(l) == Order(l) \o SetToSeq(DOMAIN l.nodes \ ToSet(Order(l)))

LEMMA RenumberedIs ==
  ASSUME NEW r
  PROVE  Renumbered(r) = [list |-> RenamedNodes(r.list, Sorted(r.list)),
                          cursors |-> RenamedCursors(r.cursors, Sorted(r.list))]
BY Zenon DEF Renumbered, RenamedNodes, RenamedCursors, Sorted, Named

LEMMA RenumberedChain ==
  ASSUME NEW l, NEW cs, NEW o, NEW s, NEW V, Linked(l, o, s, V)
  PROVE  Renumbered([list |-> l, cursors |-> cs])
           = [list |-> Straight(Len(o), s, V),
              cursors |-> [c \in DOMAIN cs |-> [cs[c] EXCEPT !.node = Named(o, @)]]]
<1> DEFINE r == [list |-> l, cursors |-> cs]
           N == Len(o)
<1>1. N \in Nat /\ DOMAIN o = 1 .. N /\ o \in Seq(Nat \ {0}) BY DEF Linked, Chain
<1>2. Order(l) = o BY OrderOfChain
<1>3. DOMAIN l.nodes \ ToSet(Order(l)) = {} BY <1>1, <1>2 DEF Linked, ToSet
<1>4. Sorted(l) = o
  <2>1. o \o << >> = o BY <1>1, ConcatEmptySeq
  <2>2. PICK none : none = DOMAIN l.nodes \ ToSet(Order(l)) OBVIOUS
  <2>3. Sorted(l) = Order(l) \o SetToSeq(none) BY ONLY <2>2 DEF Sorted
  <2>4. none = {} BY ONLY <1>3, <2>2
  <2>5. SetToSeq(none) = << >> BY ONLY <2>4, NoneLeft
  <2>6. QED BY ONLY <1>2, <2>1, <2>3, <2>5
<1>5. Renumbered(r) = [list |-> RenamedNodes(l, o), cursors |-> RenamedCursors(cs, o)]
  <2>1. r.list = l /\ r.cursors = cs OBVIOUS
  <2> HIDE DEF r
  <2>2. QED BY ONLY <1>4, <2>1, RenumberedIs
<1> DEFINE new == [i \in DOMAIN o |->
                     [prev |-> Named(o, l.nodes[o[i]].prev), next |-> Named(o, l.nodes[o[i]].next),
                      vals |-> l.nodes[o[i]].vals]]
<1>6. new = Straight(N, s, V).nodes
  <2>1. ASSUME NEW i \in 1 .. N
        PROVE  [prev |-> Named(o, l.nodes[o[i]].prev), next |-> Named(o, l.nodes[o[i]].next),
                vals |-> l.nodes[o[i]].vals] = NodeOf(Upto(N), V, i)
    <3>1. l.nodes[o[i]] = NodeOf(o, V, i) BY DEF Linked
    <3>2. i - 1 \in Int /\ i + 1 \in Int OBVIOUS
    <3>3. Named(o, Nth(o, i - 1)) = Nth(Upto(N), i - 1) /\ Named(o, Nth(o, i + 1)) = Nth(Upto(N), i + 1)
      BY <3>2, NamedInChain DEF Linked
    <3>4. QED BY <3>1, <3>3 DEF NodeOf
  <2>2. Straight(N, s, V).nodes = [i \in 1 .. N |-> NodeOf(Upto(N), V, i)] BY Parts DEF Straight
  <2>3. QED BY <1>1, <2>1, <2>2
<1>7. [l EXCEPT !.first = Named(o, @), !.last = Named(o, @), !.nodes = new] = Straight(N, s, V)
  <2> DEFINE f == Nth(o, 1)
             a == Nth(o, N)
             q == l.nodes
             g == Named(o, l.first)
             h == Named(o, l.last)
  <2>1. l = Record(f, a, s, N, q) BY DEF Linked
  <2>2. Named(o, Nth(o, 1)) = Nth(Upto(N), 1) /\ Named(o, Nth(o, N)) = Nth(Upto(N), N)
    BY <1>1, NamedInChain DEF Linked
  <2>3. Straight(N, s, V) = Record(Nth(Upto(N), 1), Nth(Upto(N), N), s, N, Straight(N, s, V).nodes)
    BY Parts DEF Straight
  <2> HIDE DEF new, N, q
  <2>4. l.first = f /\ l.last = a
    <3> HIDE DEF f, a
    <3>1. QED BY <2>1, Parts
  <2>5. g = Nth(Upto(N), 1) /\ h = Nth(Upto(N), N) BY <2>2, <2>4
  <2> HIDE DEF f, a, g, h
  <2>6. [l EXCEPT !.first = g, !.last = h, !.nodes = new] = WithNodes(WithLast(WithFirst(l, g), h), new)
    BY DEF WithFirst, WithLast, WithNodes
  <2>7. [l EXCEPT !.first = g, !.last = h, !.nodes = new] = Record(g, h, s, N, new)
    BY <2>1, <2>6, WithParts
  <2>8. [l EXCEPT !.first = g, !.last = h, !.nodes = new] = Straight(N, s, V) BY <1>6, <2>3, <2>5, <2>7
  <2>9. QED BY <2>8 DEF g, h
<1>8. RenamedNodes(l, o) = Straight(N, s, V) BY ONLY <1>7 DEF RenamedNodes
<1>9. QED BY ONLY <1>5, <1>8 DEF RenamedCursors

\* A list with the names 1 .. n.
LEMMA StraightLinked ==
  ASSUME NEW n \in Nat, NEW s, NEW V
  PROVE  /\ Linked(Straight(n, s, V), Upto(n), s, V)
         /\ Order(Straight(n, s, V)) = Upto(n)
         /\ DOMAIN Straight(n, s, V).nodes = 1 .. n
         /\ \A i \in 1 .. n : Straight(n, s, V).nodes[i] = NodeOf(Upto(n), V, i)
<1> DEFINE o == Upto(n)
           l == Straight(n, s, V)
<1>1. Len(o) = n /\ \A i \in 1 .. n : o[i] = i BY DEF Upto
<1>2. Chain(o)
  <2>1. o \in Seq(Nat \ {0}) BY DEF Upto
  <2>2. QED BY <1>1, <2>1 DEF Chain
<1>3. DOMAIN l.nodes = 1 .. n /\ \A i \in 1 .. n : l.nodes[i] = NodeOf(o, V, i)
  <2> DEFINE q == [i \in 1 .. n |-> NodeOf(o, V, i)]
  <2>1. l = Record(Nth(o, 1), Nth(o, n), s, n, q) BY DEF Straight
  <2>2. DOMAIN q = 1 .. n /\ \A i \in 1 .. n : q[i] = NodeOf(o, V, i) OBVIOUS
  <2> HIDE DEF q, o, l
  <2>3. l.nodes = q BY <2>1, Parts
  <2>4. QED BY <2>2, <2>3
<1>4. { o[i] : i \in 1 .. n } = 1 .. n BY <1>1
<1>5. l = Record(Nth(o, 1), Nth(o, n), s, n, l.nodes)
  BY Parts DEF Straight
<1> HIDE DEF o, l
<1>6. Linked(l, o, s, V) BY <1>1, <1>2, <1>3, <1>4, <1>5 DEF Linked
<1>7. QED BY <1>3, <1>6, OrderOfChain DEF o, l

-----------------------------------------------------------------------------
(* Sequences of sequences.                                                 *)

\* FlattenSeq concatenates one sequence after the other.
LEMMA FlattenSteps ==
  ASSUME NEW S, NEW ss \in Seq(Seq(S))
  PROVE  \E h : /\ h[0] = << >>
                /\ \A i \in 1 .. Len(ss) : h[i] = h[i - 1] \o ss[i]
                /\ \A i \in 0 .. Len(ss) : h[i] \in Seq(S)
                /\ FlattenSeq(ss) = h[Len(ss)]
<1> DEFINE n == Len(ss)
           Step(i, p) == IF i = 1 THEN ss[i] ELSE p \o ss[i]
           F(h, m) == h = [i \in 1 .. m |-> Step(i, h[i - 1])]
           T == { m \in Nat : \E h : F(h, m) }
<1>1. n \in Nat /\ \A i \in 1 .. n : ss[i] \in Seq(S) OBVIOUS
<1> HIDE DEF n
<1>2. \A p, q : Step(1, p) = Step(1, q) OBVIOUS
<1> HIDE DEF Step
<1>3. 0 \in T
  <2>1. F([i \in 1 .. 0 |-> 0], 0) OBVIOUS
  <2>2. QED BY <2>1
<1>4. ASSUME NEW m \in Nat, m \in T PROVE m + 1 \in T
  <2>1. PICK h : F(h, m) BY <1>4
  <2> DEFINE g == [i \in 1 .. m + 1 |-> Step(i, h[i - 1])]
  <2>2. ASSUME NEW i \in 1 .. m PROVE g[i] = h[i]
    <3>1. i \in 1 .. m + 1 OBVIOUS
    <3>2. h[i] = Step(i, h[i - 1]) BY <2>1
    <3>3. QED BY <3>1, <3>2
  <2>3. ASSUME NEW i \in 1 .. m + 1 PROVE Step(i, h[i - 1]) = Step(i, g[i - 1])
    <3>1. CASE i = 1 BY <1>2, <3>1
    <3>2. CASE i # 1
      <4>1. i - 1 \in 1 .. m BY <3>2
      <4>2. QED BY <2>2, <4>1
    <3>3. QED BY <3>1, <3>2
  <2>4. F(g, m + 1) BY <2>3
  <2> HIDE DEF g, F
  <2>5. QED BY <2>4
<1> HIDE DEF T
<1>5. n \in T BY <1>1, <1>3, <1>4, Induction
<1>6. PICK g : F(g, n) BY <1>5 DEF T
<1> DEFINE w == CHOOSE h : F(h, n)
<1>7. F(w, n)
  <2> HIDE DEF F
  <2> QED BY <1>6
<1>8. n # 0 => FlattenSeq(ss) = w[n] BY DEF FlattenSeq, n, Step
<1>9. n = 0 => FlattenSeq(ss) = << >>
  <2>1. FlattenSeq(ss) = IF n = 0 THEN ss ELSE w[n] BY DEF FlattenSeq, n, Step
  <2>2. QED BY <2>1 DEF n
<1> HIDE DEF w
<1>10. \A i \in 1 .. n : w[i] = Step(i, w[i - 1]) BY <1>7
<1> DEFINE h == [i \in 0 .. n |-> IF i = 0 THEN << >> ELSE w[i]]
<1>11. h[0] = << >> BY <1>1
<1>12. ASSUME NEW i \in 1 .. n PROVE h[i] = h[i - 1] \o ss[i]
  <2>1. h[i] = Step(i, w[i - 1]) BY <1>1, <1>10
  <2>2. CASE i = 1
    <3>1. h[i - 1] = << >> BY <1>1, <2>2
    <3>2. h[i] = ss[i] BY <2>1, <2>2 DEF Step
    <3>3. << >> \o ss[i] = ss[i] BY <1>1, ConcatEmptySeq
    <3>4. QED BY <3>1, <3>2, <3>3
  <2>3. CASE i # 1
    <3>1. i - 1 \in 0 .. n /\ i - 1 # 0 BY <1>1, <2>3
    <3>2. h[i - 1] = w[i - 1] BY <3>1
    <3>3. QED BY <2>1, <2>3, <3>2 DEF Step
  <2>4. QED BY <2>2, <2>3
<1>13. FlattenSeq(ss) = h[n] BY <1>1, <1>8, <1>9
<1> HIDE DEF h, F
<1> DEFINE U == { i \in Nat : i <= n => h[i] \in Seq(S) }
<1>14. 0 \in U
  <2>1. << >> \in Seq(S) OBVIOUS
  <2>2. QED BY <1>11, <2>1
<1>15. ASSUME NEW i \in Nat, i \in U PROVE i + 1 \in U
  <2>1. SUFFICES ASSUME i + 1 <= n PROVE h[i + 1] \in Seq(S) OBVIOUS
  <2>2. i + 1 \in 1 .. n /\ (i + 1) - 1 = i /\ h[i] \in Seq(S) BY <1>1, <1>15, <2>1
  <2>3. h[i + 1] = h[i] \o ss[i + 1] BY <1>12, <2>2
  <2>4. QED BY <1>1, <2>2, <2>3
<1> HIDE DEF U
<1>16. \A i \in Nat : i \in U BY <1>14, <1>15, Induction
<1>17. \A i \in 0 .. n : h[i] \in Seq(S) BY <1>1, <1>16 DEF U
<1>18. QED BY <1>11, <1>12, <1>13, <1>17 DEF n


LEMMA PieceType ==
  ASSUME NEW x \in Nat, NEW y \in Nat, x <= y
  PROVE  /\ Piece(x, y) \in Seq(Nat) /\ Len(Piece(x, y)) = y - x
         /\ \A j \in 1 .. y - x : Piece(x, y)[j] = x + j
BY DEF Piece

\* One piece behind the other.
LEMMA PieceSteps ==
  ASSUME NEW x \in Nat, NEW y \in Nat, NEW z \in Nat, x <= y, y <= z
  PROVE  Piece(x, y) \o Piece(y, z) = Piece(x, z)
<1>1. \A u, v \in Nat : u <= v => Piece(u, v) \in Seq(Nat) /\ Len(Piece(u, v)) = v - u
  BY PieceType
<1>2. Piece(x, y) \o Piece(y, z) \in Seq(Nat) /\ Len(Piece(x, y) \o Piece(y, z)) = z - x
  <2>1. (y - x) + (z - y) = z - x OBVIOUS
  <2>2. Piece(x, y) \in Seq(Nat) /\ Piece(y, z) \in Seq(Nat) /\ Len(Piece(x, y)) = y - x
        /\ Len(Piece(y, z)) = z - y BY <1>1
  <2>3. QED BY <2>1, <2>2
<1>3. Piece(x, z) \in Seq(Nat) /\ Len(Piece(x, z)) = z - x BY <1>1
<1>4. \A j \in 1 .. z - x : (Piece(x, y) \o Piece(y, z))[j] = Piece(x, z)[j]
  <2>1. SUFFICES ASSUME NEW j \in 1 .. z - x
                 PROVE  (Piece(x, y) \o Piece(y, z))[j] = Piece(x, z)[j]
    OBVIOUS
  <2>2. Piece(x, y) \in Seq(Nat) /\ Piece(y, z) \in Seq(Nat) /\ Len(Piece(x, y)) = y - x
        /\ Len(Piece(y, z)) = z - y BY <1>1
  <2>3. Piece(x, z)[j] = x + j BY DEF Piece
  <2>4. CASE j <= y - x
    <3>1. Piece(x, y)[j] = x + j BY <2>4 DEF Piece
    <3>2. QED BY <2>2, <2>3, <2>4, <3>1
  <2>5. CASE j > y - x
    <3>1. PICK k \in 1 .. z - y : k = j - (y - x) BY <2>5
    <3>2. Piece(y, z)[k] = y + k BY PieceType
    <3>3. (Piece(x, y) \o Piece(y, z))[j] = Piece(y, z)[k]
      <4> DEFINE u == Piece(x, y)
                 v == Piece(y, z)
      <4>1. u \in Seq(Nat) /\ v \in Seq(Nat) /\ Len(u) = y - x /\ Len(v) = z - y BY <2>2
      <4> HIDE DEF u, v
      <4>2. j \in 1 .. Len(u) + Len(v) /\ ~(j <= Len(u)) /\ k = j - Len(u) BY <2>5, <3>1, <4>1
      <4>3. (u \o v)[j] = v[j - Len(u)] BY ONLY <4>1, <4>2, ConcatProperties
      <4>4. QED BY <4>2, <4>3 DEF u, v
    <3>4. y + k = x + j BY <3>1
    <3>5. QED BY <2>3, <3>2, <3>3, <3>4
  <2>6. j <= y - x \/ j > y - x OBVIOUS
  <2>7. QED BY ONLY <2>4, <2>5, <2>6
<1> DEFINE u == Piece(x, y) \o Piece(y, z)
           v == Piece(x, z)
<1>5. u \in Seq(Nat) /\ v \in Seq(Nat) /\ Len(u) = Len(v) /\ \A j \in 1 .. Len(u) : u[j] = v[j]
  BY <1>2, <1>3, <1>4
<1> HIDE DEF u, v
<1>6. u = v BY ONLY <1>5, SeqEqual
<1>7. QED BY <1>6 DEF u, v

\* The nodes' values, one node after the other, are all values in order.
LEMMA PiecesInOrder ==
  ASSUME NEW b, MarkSeq(b)
  PROVE  FlattenSeq([i \in 1 .. Count(b) |-> Piece(b[i], b[i + 1])]) = Piece(0, b[Len(b)])
<1> DEFINE N == Count(b)
           ss == [i \in 1 .. N |-> Piece(b[i], b[i + 1])]
<1>1. N \in Nat /\ Len(b) = N + 1 BY DEF MarkSeq, Count
<1>2. \A i \in 1 .. N + 1 : b[i] \in Nat BY <1>1 DEF MarkSeq
<1>3. \A i \in 1 .. N : b[i] <= b[i + 1] BY <1>1 DEF MarkSeq
<1>4. b[1] = 0 BY DEF MarkSeq
<1> HIDE DEF N
<1>5. ASSUME NEW i \in 1 .. N
      PROVE  /\ b[i] \in Nat /\ b[i + 1] \in Nat /\ b[i] <= b[i + 1]
             /\ Piece(b[i], b[i + 1]) \in Seq(Nat)
  <2>1. b[i] \in Nat /\ b[i + 1] \in Nat /\ b[i] <= b[i + 1] BY <1>1, <1>2, <1>3
  <2>2. QED BY <2>1, PieceType
<1>6. ss \in Seq(Seq(Nat)) /\ Len(ss) = N BY <1>1, <1>5
<1>7. \A i \in 1 .. N : ss[i] = Piece(b[i], b[i + 1]) OBVIOUS
<1> HIDE DEF ss
<1>8. PICK h : /\ h[0] = << >>
               /\ \A i \in 1 .. N : h[i] = h[i - 1] \o ss[i]
               /\ FlattenSeq(ss) = h[N]
  <2>1. PICK h : /\ h[0] = << >>
                 /\ \A i \in 1 .. Len(ss) : h[i] = h[i - 1] \o ss[i]
                 /\ FlattenSeq(ss) = h[Len(ss)]
    BY <1>6, FlattenSteps
  <2>2. QED BY <1>6, <2>1
<1> DEFINE T == { k \in Nat : k <= N => h[k] = Piece(0, b[k + 1]) }
<1>9. 0 \in T
  <2>1. Piece(0, 0) = << >> BY DEF Piece
  <2>2. QED BY <1>4, <1>8, <2>1
<1>10. ASSUME NEW k \in Nat, k \in T PROVE k + 1 \in T
  <2>1. SUFFICES ASSUME k + 1 <= N PROVE h[k + 1] = Piece(0, b[(k + 1) + 1]) OBVIOUS
  <2>2. k + 1 \in 1 .. N /\ (k + 1) - 1 = k BY <1>1, <2>1
  <2>3. h[k] = Piece(0, b[k + 1]) BY <1>1, <1>10, <2>1
  <2>4. h[k + 1] = Piece(0, b[k + 1]) \o Piece(b[k + 1], b[(k + 1) + 1]) BY <1>7, <1>8, <2>2, <2>3
  <2>5. b[k + 1] \in Nat /\ b[(k + 1) + 1] \in Nat /\ b[k + 1] <= b[(k + 1) + 1] BY <1>5, <2>2
  <2>6. 0 \in Nat /\ 0 <= b[k + 1] BY <2>5
  <2>7. QED BY <2>4, <2>5, <2>6, PieceSteps
<1> HIDE DEF T
<1>11. N \in T BY <1>1, <1>9, <1>10, Induction
<1>12. h[N] = Piece(0, b[N + 1]) BY <1>1, <1>11 DEF T
<1>13. QED BY <1>1, <1>8, <1>12 DEF ss, N

-----------------------------------------------------------------------------
(* Lists that change.                                                      *)

LEMMA NthUpto ==
  ASSUME NEW n \in Nat
  PROVE  /\ Len(Upto(n)) = n /\ Chain(Upto(n))
         /\ \A i \in 1 .. n : Upto(n)[i] = i
         /\ \A i \in Int : Nth(Upto(n), i) = IF i \in 1 .. n THEN i ELSE 0
<1>1. Len(Upto(n)) = n /\ Upto(n) \in Seq(Nat \ {0}) /\ \A i \in 1 .. n : Upto(n)[i] = i BY DEF Upto
<1>2. Chain(Upto(n)) BY <1>1 DEF Chain
<1>3. QED BY <1>1, <1>2 DEF Nth, NoNode

\* A list whose nodes are named by their order.
LEMMA StraightParts ==
  ASSUME NEW n \in Nat, NEW l, NEW s, NEW V, Linked(l, Upto(n), s, V)
  PROVE  /\ l = Record(IF n = 0 THEN 0 ELSE 1, n, s, n, l.nodes)
         /\ l.first = IF n = 0 THEN 0 ELSE 1
         /\ l.last = n /\ l.size = s /\ l.count = n
         /\ DOMAIN l.nodes = 1 .. n
         /\ \A i \in 1 .. n : l.nodes[i] = [prev |-> i - 1, next |-> IF i = n THEN 0 ELSE i + 1, vals |-> V[i]]
<1> DEFINE o == Upto(n)
<1>1. Len(o) = n /\ (\A i \in 1 .. n : o[i] = i)
      /\ \A i \in Int : Nth(o, i) = IF i \in 1 .. n THEN i ELSE 0
  BY NthUpto
<1> HIDE DEF o
<1>2. /\ l = Record(Nth(o, 1), Nth(o, n), s, n, l.nodes)
      /\ DOMAIN l.nodes = { o[i] : i \in 1 .. n }
      /\ \A i \in 1 .. n : l.nodes[o[i]] = NodeOf(o, V, i)
  BY <1>1 DEF Linked, o
<1>3. Nth(o, 1) = (IF n = 0 THEN 0 ELSE 1) /\ Nth(o, n) = n BY <1>1
<1>4. l = Record(IF n = 0 THEN 0 ELSE 1, n, s, n, l.nodes) BY <1>2, <1>3
<1>5. DOMAIN l.nodes = 1 .. n BY <1>1, <1>2
<1>6. ASSUME NEW i \in 1 .. n
      PROVE  l.nodes[i] = [prev |-> i - 1, next |-> IF i = n THEN 0 ELSE i + 1, vals |-> V[i]]
  <2>1. l.nodes[i] = [prev |-> Nth(o, i - 1), next |-> Nth(o, i + 1), vals |-> V[i]] BY <1>1, <1>2 DEF NodeOf
  <2>2. i - 1 \in Int /\ i + 1 \in Int OBVIOUS
  <2>3. Nth(o, i - 1) = i - 1
    <3>1. CASE i = 1 BY <1>1, <2>2, <3>1
    <3>2. CASE i # 1
      <4>1. i - 1 \in 1 .. n BY <3>2
      <4>2. QED BY <1>1, <2>2, <4>1
    <3>3. QED BY <3>1, <3>2
  <2>4. Nth(o, i + 1) = IF i = n THEN 0 ELSE i + 1
    <3>1. i + 1 \in 1 .. n <=> i # n OBVIOUS
    <3>2. QED BY <1>1, <2>2, <3>1
  <2>5. QED BY <2>1, <2>3, <2>4
<1> DEFINE f == IF n = 0 THEN 0 ELSE 1
<1>7. l.first = f /\ l.last = n /\ l.size = s /\ l.count = n
  <2>1. l = Record(f, n, s, n, l.nodes) BY <1>4
  <2> HIDE DEF f
  <2>2. QED BY <2>1, Parts
<1>8. QED BY <1>4, <1>5, <1>6, <1>7

\* Only what the nodes have counts.
LEMMA StraightSame ==
  ASSUME NEW n \in Nat, NEW s, NEW V, NEW W, \A i \in 1 .. n : V[i] = W[i]
  PROVE  Straight(n, s, V) = Straight(n, s, W)
<1>1. \A i \in 1 .. n : NodeOf(Upto(n), V, i) = NodeOf(Upto(n), W, i) BY DEF NodeOf
<1>2. [i \in 1 .. n |-> NodeOf(Upto(n), V, i)] = [i \in 1 .. n |-> NodeOf(Upto(n), W, i)] BY <1>1
<1>3. QED BY <1>2 DEF Straight

\* The list becomes the one that marks describe.
LEMMA BecomesShape ==
  ASSUME NEW l, NEW cs, NEW o, NEW s, NEW V, Linked(l, o, s, V), NEW b, MarkSeq(b),
         Len(b) = Len(o) + 1, s = b[Len(b)],
         \A i \in 1 .. Len(o) : V[i] = Piece(b[i], b[i + 1])
  PROVE  Renumbered([list |-> l, cursors |-> cs])
           = [list |-> Shape(b),
              cursors |-> [c \in DOMAIN cs |-> [cs[c] EXCEPT !.node = Named(o, @)]]]
<1>1. Len(o) \in Nat BY DEF Linked, Chain
<1>2. Count(b) = Len(o) BY <1>1 DEF Count
<1>3. \A i \in 1 .. Len(o) : V[i] = Pieces(b)[i] BY <1>2 DEF Pieces
<1>4. Straight(Len(o), s, V) = Straight(Len(o), s, Pieces(b)) BY <1>1, <1>3, StraightSame
<1>5. Straight(Len(o), s, V) = Shape(b) BY <1>2, <1>4 DEF Shape
<1>6. QED BY <1>5, RenumberedChain

\* The values of one node.
Put(V, n, k, v) == [i \in 1 .. n |-> IF i = k THEN v ELSE V[i]]

LEMMA ValuesSet ==
  ASSUME NEW l, NEW o, NEW s, NEW V, Linked(l, o, s, V), NEW k \in 1 .. Len(o), NEW v
  PROVE  Linked([l EXCEPT !.nodes[o[k]].vals = v], o, s, Put(V, Len(o), k, v))
<1> DEFINE n == Len(o)
           x == o[k]
           q == l.nodes
           p == [q EXCEPT ![x].vals = v]
           W == Put(V, n, k, v)
<1>1. /\ Chain(o) /\ l = Record(Nth(o, 1), Nth(o, n), s, n, q) /\ DOMAIN q = { o[i] : i \in 1 .. n }
      /\ (\A i \in 1 .. n : q[o[i]] = NodeOf(o, V, i)) /\ n \in Nat
  BY DEF Linked, Chain
<1>2. [l EXCEPT !.nodes[o[k]].vals = v] = WithNodes(l, p) BY DEF WithNodes
<1>3. DOMAIN p = DOMAIN q OBVIOUS
<1>4. ASSUME NEW i \in 1 .. n PROVE p[o[i]] = NodeOf(o, W, i)
  <2>1. o[i] \in DOMAIN q /\ q[o[i]] = NodeOf(o, V, i) BY <1>1
  <2>2. CASE i = k
    <3>1. p[o[i]] = [q[o[i]] EXCEPT !.vals = v] BY <2>1, <2>2
    <3>2. [NodeOf(o, V, i) EXCEPT !.vals = v] = [prev |-> Nth(o, i - 1), next |-> Nth(o, i + 1), vals |-> v]
      BY DEF NodeOf
    <3>3. W[i] = v BY <2>2 DEF Put
    <3>4. QED BY <2>1, <3>1, <3>2, <3>3 DEF NodeOf
  <2>3. CASE i # k
    <3>1. o[i] # x BY <1>1, <2>3 DEF Chain
    <3>2. p[o[i]] = q[o[i]] BY <2>1, <3>1
    <3>3. W[i] = V[i] BY <2>3 DEF Put
    <3>4. QED BY <2>1, <3>2, <3>3 DEF NodeOf
  <2>4. QED BY <2>2, <2>3
<1> DEFINE f == Nth(o, 1)
           a == Nth(o, n)
<1> HIDE DEF p, q, W, n
<1>5. WithNodes(l, p) = Record(f, a, s, n, p) BY <1>1, WithParts
<1>6. WithNodes(l, p).nodes = p /\ WithNodes(l, p) = Record(f, a, s, n, WithNodes(l, p).nodes)
  <2> HIDE DEF f, a
  <2>1. QED BY <1>5, Parts
<1>7. Linked(WithNodes(l, p), o, s, W) BY <1>1, <1>3, <1>4, <1>6 DEF Linked, n
<1>8. QED BY <1>2, <1>7 DEF W, n

\* A new node n + 1 at place k + 1 of the chain.
Wedge(n, k) == [i \in 1 .. n + 1 |-> IF i <= k THEN i ELSE IF i = k + 1 THEN n + 1 ELSE i - 1]

Wedged(V, n, k, v) == [i \in 1 .. n + 1 |-> IF i <= k THEN V[i] ELSE IF i = k + 1 THEN v ELSE V[i - 1]]

LEMMA WedgeChain ==
  ASSUME NEW n \in Nat, NEW k \in 1 .. n
  PROVE  /\ Chain(Wedge(n, k)) /\ Len(Wedge(n, k)) = n + 1
         /\ { Wedge(n, k)[i] : i \in 1 .. n + 1 } = 1 .. n + 1
         /\ \A i \in 1 .. n + 1 :
              Wedge(n, k)[i] = IF i <= k THEN i ELSE IF i = k + 1 THEN n + 1 ELSE i - 1
<1> DEFINE o == Wedge(n, k)
<1>1. \A i \in 1 .. n + 1 : o[i] = IF i <= k THEN i ELSE IF i = k + 1 THEN n + 1 ELSE i - 1 BY DEF Wedge
<1>2. o \in Seq(Nat \ {0}) /\ Len(o) = n + 1
  <2>1. o \in [1 .. n + 1 -> Nat \ {0}] BY DEF Wedge
  <2>2. QED BY <2>1
<1> HIDE DEF o
<1>3. \A i, j \in 1 .. n + 1 : o[i] = o[j] => i = j BY <1>1
<1>4. ASSUME NEW x \in 1 .. n + 1 PROVE \E i \in 1 .. n + 1 : o[i] = x
  <2>1. CASE x <= k BY <1>1, <2>1
  <2>2. CASE x = n + 1
    <3>1. k + 1 \in 1 .. n + 1 /\ o[k + 1] = n + 1 BY <1>1
    <3>2. QED BY <2>2, <3>1
  <2>3. CASE x > k /\ x # n + 1
    <3>1. x + 1 \in 1 .. n + 1 /\ o[x + 1] = x BY <1>1, <2>3
    <3>2. QED BY <3>1
  <2>4. QED BY <2>1, <2>2, <2>3
<1>5. \A i \in 1 .. n + 1 : o[i] \in 1 .. n + 1 BY <1>1
<1>6. { o[i] : i \in 1 .. n + 1 } = 1 .. n + 1 BY <1>4, <1>5
<1>7. Chain(o) BY <1>2, <1>3 DEF Chain
<1>8. QED BY <1>1, <1>2, <1>6, <1>7 DEF o

\* The name that is free.
LEMMA FreeName ==
  ASSUME NEW n \in Nat, NEW l, DOMAIN l.nodes = 1 .. n
  PROVE  FreeNode(l) = n + 1
<1>1. Cardinality(1 .. n) = n
  <2>1. 1 \in Int /\ n \in Int /\ (IF 1 > n THEN 0 ELSE n - 1 + 1) = n OBVIOUS
  <2>2. QED BY <2>1, FS_Interval
<1>2. \A x \in 1 .. n + 1 : x \notin 1 .. n <=> x = n + 1 OBVIOUS
<1>3. n + 1 \in 1 .. n + 1 OBVIOUS
<1>4. FreeNode(l) = CHOOSE x \in 1 .. n + 1 : x \notin 1 .. n BY <1>1 DEF FreeNode
<1>5. QED BY <1>2, <1>3, <1>4

\* create_node behind the node k.
LEMMA NodeBehindIs ==
  ASSUME NEW n \in Nat, NEW l, NEW s, NEW V, Linked(l, Upto(n), s, V), NEW k \in 1 .. n
  PROVE  /\ Linked(NodeBehind(l, k), Wedge(n, k), s, Wedged(V, n, k, << >>))
         /\ NodeBehind(l, k).nodes[k].next = n + 1
<1> DEFINE m == n + 1
           next == IF k = n THEN 0 ELSE k + 1
           q == [x \in DOMAIN l.nodes \cup {m} |->
                  CASE x = m -> [prev |-> k, next |-> next, vals |-> << >>]
                    [] x = k -> [l.nodes[k] EXCEPT !.next = m]
                    [] x = next -> [l.nodes[next] EXCEPT !.prev = m]
                    [] OTHER -> l.nodes[x]]
           a == IF next = NoNode THEN m ELSE l.last
           c == l.count + 1
           o == Wedge(n, k)
           W == Wedged(V, n, k, << >>)
           f == Nth(o, 1)
           e == Nth(o, n + 1)
<1>1. /\ l = Record(1, n, s, n, l.nodes) /\ l.last = n /\ l.count = n
      /\ DOMAIN l.nodes = 1 .. n
      /\ \A i \in 1 .. n : l.nodes[i] = [prev |-> i - 1, next |-> IF i = n THEN 0 ELSE i + 1, vals |-> V[i]]
  BY StraightParts
<1>2. FreeNode(l) = m BY <1>1, FreeName
<1>3. l.nodes[k].next = next /\ l.nodes[k] = [prev |-> k - 1, next |-> next, vals |-> V[k]]
  <2>1. l.nodes[k] = [prev |-> k - 1, next |-> IF k = n THEN 0 ELSE k + 1, vals |-> V[k]] BY <1>1
  <2> HIDE DEF q
  <2>2. QED BY <2>1
<1>4. NodeBehind(l, k) = [l EXCEPT !.nodes = q, !.count = c, !.last = a]
  BY <1>2, <1>3 DEF NodeBehind
<1>5. /\ Chain(o) /\ Len(o) = n + 1 /\ { o[i] : i \in 1 .. n + 1 } = 1 .. n + 1
      /\ \A i \in 1 .. n + 1 : o[i] = IF i <= k THEN i ELSE IF i = k + 1 THEN n + 1 ELSE i - 1
  BY WedgeChain
<1>6. DOMAIN q = 1 .. n + 1 BY <1>1
<1>7. \A i \in 1 .. n + 1 : W[i] = IF i <= k THEN V[i] ELSE IF i = k + 1 THEN << >> ELSE V[i - 1]
  BY DEF Wedged
<1>8. /\ q[m] = [prev |-> k, next |-> next, vals |-> << >>]
      /\ q[k] = [prev |-> k - 1, next |-> m, vals |-> V[k]]
      /\ k # n => q[k + 1] = [prev |-> m, next |-> IF k + 1 = n THEN 0 ELSE k + 2, vals |-> V[k + 1]]
      /\ \A x \in 1 .. n : x # k /\ x # k + 1 => q[x] = l.nodes[x]
  <2>1. k # m /\ next # m /\ next # k BY <1>1
  <2>2. q[m] = [prev |-> k, next |-> next, vals |-> << >>] OBVIOUS
  <2>3. q[k] = [l.nodes[k] EXCEPT !.next = m] BY <1>1, <2>1
  <2>4. k # n => q[k + 1] = [l.nodes[k + 1] EXCEPT !.prev = m] BY <1>1
  <2>5. \A x \in 1 .. n : x # k /\ x # k + 1 => q[x] = l.nodes[x] BY <1>1
  <2> HIDE DEF q, m
  <2>6. [l.nodes[k] EXCEPT !.next = m] = [prev |-> k - 1, next |-> m, vals |-> V[k]]
    <3> HIDE DEF next
    <3> QED BY <1>3
  <2>7. ASSUME k # n
        PROVE  [l.nodes[k + 1] EXCEPT !.prev = m]
                 = [prev |-> m, next |-> IF k + 1 = n THEN 0 ELSE k + 2, vals |-> V[k + 1]]
    <3>1. k + 1 \in 1 .. n /\ (k + 1) + 1 = k + 2 BY <2>7
    <3>2. l.nodes[k + 1] = [prev |-> (k + 1) - 1, next |-> IF k + 1 = n THEN 0 ELSE (k + 1) + 1, vals |-> V[k + 1]]
      BY <1>1, <3>1
    <3>3. QED BY <3>1, <3>2
  <2>8. QED BY <2>2, <2>3, <2>4, <2>5, <2>6, <2>7
<1> HIDE DEF q, W, o
<1>9. \A i \in Int : Nth(o, i) = IF i \in 1 .. n + 1 THEN o[i] ELSE 0 BY <1>5 DEF Nth, NoNode
<1>10. ASSUME NEW i \in 1 .. n + 1 PROVE q[o[i]] = NodeOf(o, W, i)
  <2>1. i - 1 \in Int /\ i + 1 \in Int OBVIOUS
  <2>2. CASE i < k
    <3>1. o[i] = i /\ i \in 1 .. n /\ i # k /\ i # k + 1 /\ i # n /\ W[i] = V[i] BY <1>5, <1>7, <2>2
    <3>2. Nth(o, i + 1) = i + 1 BY <1>5, <1>9, <2>1, <2>2
    <3>3. Nth(o, i - 1) = i - 1 BY <1>5, <1>9, <2>1, <2>2
    <3>4. q[i] = [prev |-> i - 1, next |-> i + 1, vals |-> V[i]] BY <1>1, <1>8, <3>1
    <3>5. QED BY <3>1, <3>2, <3>3, <3>4 DEF NodeOf
  <2>3. CASE i = k
    <3>1. o[i] = k /\ W[i] = V[k] BY <1>5, <1>7, <2>3
    <3>2. Nth(o, i + 1) = m BY <1>5, <1>9, <2>1, <2>3
    <3>3. Nth(o, i - 1) = k - 1 BY <1>5, <1>9, <2>1, <2>3
    <3>4. QED BY <1>8, <3>1, <3>2, <3>3 DEF NodeOf
  <2>4. CASE i = k + 1
    <3>1. o[i] = m /\ W[i] = << >> BY <1>5, <1>7, <2>4
    <3>2. Nth(o, i + 1) = next BY <1>5, <1>9, <2>1, <2>4
    <3>3. Nth(o, i - 1) = k BY <1>5, <1>9, <2>1, <2>4
    <3>4. QED BY <1>8, <3>1, <3>2, <3>3 DEF NodeOf
  <2>5. CASE i = k + 2
    <3>1. o[i] = k + 1 /\ W[i] = V[k + 1] /\ k # n BY <1>5, <1>7, <2>5
    <3>2. Nth(o, i + 1) = IF k + 1 = n THEN 0 ELSE k + 2 BY <1>5, <1>9, <2>1, <2>5
    <3>3. Nth(o, i - 1) = m BY <1>5, <1>9, <2>1, <2>5
    <3>4. QED BY <1>8, <3>1, <3>2, <3>3 DEF NodeOf
  <2>6. CASE i > k + 2
    <3>1. PICK x \in 1 .. n : x = i - 1 BY <2>6
    <3>2. o[i] = x /\ W[i] = V[x] /\ x # k /\ x # k + 1 BY <1>5, <1>7, <2>6, <3>1
    <3>3. Nth(o, i + 1) = IF x = n THEN 0 ELSE x + 1 BY <1>5, <1>9, <2>1, <2>6, <3>1
    <3>4. Nth(o, i - 1) = x - 1 BY <1>5, <1>9, <2>1, <2>6, <3>1
    <3>5. q[x] = [prev |-> x - 1, next |-> IF x = n THEN 0 ELSE x + 1, vals |-> V[x]] BY <1>1, <1>8, <3>2
    <3>6. QED BY <3>2, <3>3, <3>4, <3>5 DEF NodeOf
  <2>7. QED BY <2>2, <2>3, <2>4, <2>5, <2>6
<1>11. f = 1 /\ e = a /\ c = n + 1
  <2>1. f = 1 BY <1>5, <1>9
  <2>2. e = o[n + 1] BY <1>9
  <2>3. o[n + 1] = a BY <1>1, <1>5 DEF NoNode
  <2>4. QED BY <1>1, <2>1, <2>2, <2>3
<1> HIDE DEF f, e, a, c
<1> DEFINE r == NodeBehind(l, k)
<1>12. r = WithLast(WithCount(WithNodes(l, q), c), a) BY <1>4 DEF WithLast, WithCount, WithNodes
<1>13. r = Record(1, a, s, c, q) BY <1>1, <1>12, WithParts
<1> HIDE DEF r
<1>14. r.nodes = q BY <1>13, Parts
<1>15. r = Record(f, e, s, n + 1, r.nodes) BY <1>11, <1>13, <1>14
<1>16. Linked(r, o, s, W) BY <1>5, <1>6, <1>10, <1>14, <1>15 DEF Linked, f, e
<1>17. r.nodes[k].next = n + 1 BY <1>8, <1>14
<1>18. QED BY <1>16, <1>17 DEF r, o, W

\* The node k is missing in the chain.
Gap(n, k) == [i \in 1 .. n - 1 |-> IF i < k THEN i ELSE i + 1]

Gapped(V, n, k) == [i \in 1 .. n - 1 |-> IF i < k THEN V[i] ELSE V[i + 1]]

LEMMA GapChain ==
  ASSUME NEW n \in Nat, NEW k \in 1 .. n
  PROVE  /\ Chain(Gap(n, k)) /\ Len(Gap(n, k)) = n - 1
         /\ { Gap(n, k)[i] : i \in 1 .. n - 1 } = (1 .. n) \ {k}
         /\ \A i \in 1 .. n - 1 : Gap(n, k)[i] = IF i < k THEN i ELSE i + 1
<1> DEFINE o == Gap(n, k)
<1>1. \A i \in 1 .. n - 1 : o[i] = IF i < k THEN i ELSE i + 1 BY DEF Gap
<1>2. o \in Seq(Nat \ {0}) /\ Len(o) = n - 1
  <2>1. o \in [1 .. n - 1 -> Nat \ {0}] BY DEF Gap
  <2>2. QED BY <2>1
<1> HIDE DEF o
<1>3. \A i, j \in 1 .. n - 1 : o[i] = o[j] => i = j BY <1>1
<1>4. ASSUME NEW x \in 1 .. n, x # k PROVE \E i \in 1 .. n - 1 : o[i] = x
  <2>1. CASE x < k BY <1>1, <2>1
  <2>2. CASE x > k
    <3>1. x - 1 \in 1 .. n - 1 /\ o[x - 1] = x BY <1>1, <2>2
    <3>2. QED BY <3>1
  <2>3. QED BY <1>4, <2>1, <2>2
<1>5. \A i \in 1 .. n - 1 : o[i] \in 1 .. n /\ o[i] # k BY <1>1
<1>6. { o[i] : i \in 1 .. n - 1 } = (1 .. n) \ {k} BY <1>4, <1>5
<1>7. Chain(o) BY <1>2, <1>3 DEF Chain
<1>8. QED BY <1>1, <1>2, <1>6, <1>7 DEF o

\* destroy_node
LEMMA DestroyNodeIs ==
  ASSUME NEW n \in Nat, NEW l, NEW s, NEW V, Linked(l, Upto(n), s, V), NEW k \in 1 .. n
  PROVE  Linked(DestroyNode(l, k), Gap(n, k), s, Gapped(V, n, k))
<1> DEFINE prev == k - 1
           next == IF k = n THEN 0 ELSE k + 1
           q == [x \in DOMAIN l.nodes \ {k} |->
                  CASE x = prev -> [l.nodes[x] EXCEPT !.next = next]
                    [] x = next -> [l.nodes[x] EXCEPT !.prev = prev]
                    [] OTHER -> l.nodes[x]]
           h == IF prev = NoNode THEN next ELSE l.first
           a == IF next = NoNode THEN prev ELSE l.last
           c == l.count - 1
           o == Gap(n, k)
           W == Gapped(V, n, k)
           f == Nth(o, 1)
           e == Nth(o, n - 1)
<1>1. /\ l = Record(1, n, s, n, l.nodes) /\ l.first = 1 /\ l.last = n /\ l.count = n
      /\ DOMAIN l.nodes = 1 .. n
      /\ \A i \in 1 .. n : l.nodes[i] = [prev |-> i - 1, next |-> IF i = n THEN 0 ELSE i + 1, vals |-> V[i]]
  <2>1. n # 0 /\ n \in Nat /\ Linked(l, Upto(n), s, V) OBVIOUS
  <2>2. QED BY ONLY <2>1, StraightParts
<1>2. l.nodes[k].next = next /\ l.nodes[k].prev = prev
  <2>1. l.nodes[k] = [prev |-> k - 1, next |-> IF k = n THEN 0 ELSE k + 1, vals |-> V[k]] BY <1>1
  <2> HIDE DEF q
  <2>2. QED BY <2>1
<1>3. DestroyNode(l, k) = [l EXCEPT !.first = h, !.last = a, !.count = c, !.nodes = q]
  BY <1>2 DEF DestroyNode
<1>4. /\ Chain(o) /\ Len(o) = n - 1 /\ { o[i] : i \in 1 .. n - 1 } = (1 .. n) \ {k}
      /\ \A i \in 1 .. n - 1 : o[i] = IF i < k THEN i ELSE i + 1
  BY GapChain
<1>5. DOMAIN q = (1 .. n) \ {k} BY <1>1
<1>6. \A i \in 1 .. n - 1 : W[i] = IF i < k THEN V[i] ELSE V[i + 1] BY DEF Gapped
<1>7. ASSUME NEW x \in 1 .. n, x # k
      PROVE  q[x] = [prev |-> IF x = k + 1 THEN prev ELSE x - 1,
                     next |-> IF x = prev THEN next ELSE IF x = n THEN 0 ELSE x + 1, vals |-> V[x]]
  <2>1. l.nodes[x] = [prev |-> x - 1, next |-> IF x = n THEN 0 ELSE x + 1, vals |-> V[x]] BY <1>1
  <2>2. q[x] = CASE x = prev -> [l.nodes[x] EXCEPT !.next = next]
                 [] x = next -> [l.nodes[x] EXCEPT !.prev = prev]
                 [] OTHER -> l.nodes[x]
    BY <1>1, <1>7
  <2>3. x = next <=> x = k + 1 BY <1>7
  <2>4. prev # k + 1 OBVIOUS
  <2> HIDE DEF q, next, prev
  <2>5. CASE x = prev
    <3>1. x # k + 1 BY <2>4, <2>5
    <3>2. q[x] = [l.nodes[x] EXCEPT !.next = next] BY <2>2, <2>3, <2>5, <3>1
    <3>3. QED BY <2>1, <2>5, <3>2, <3>1
  <2>6. CASE x # prev /\ x = k + 1
    <3>1. q[x] = [l.nodes[x] EXCEPT !.prev = prev] BY <2>2, <2>3, <2>6
    <3>2. QED BY <2>1, <2>6, <3>1
  <2>7. CASE x # prev /\ x # k + 1
    <3>1. q[x] = l.nodes[x] BY <2>2, <2>3, <2>7
    <3>2. QED BY <2>1, <2>7, <3>1
  <2>8. QED BY <2>5, <2>6, <2>7
<1> HIDE DEF q, W, o
<1>8. \A i \in Int : Nth(o, i) = IF i \in 1 .. n - 1 THEN o[i] ELSE 0 BY <1>4 DEF Nth, NoNode
<1>9. ASSUME NEW i \in 1 .. n - 1 PROVE q[o[i]] = NodeOf(o, W, i)
  <2>1. PICK x \in 1 .. n : x # k /\ x = o[i] /\ x = (IF i < k THEN i ELSE i + 1) BY <1>4
  <2>2. W[i] = V[x] BY <1>6, <2>1
  <2>3. Nth(o, i - 1) = IF x = k + 1 THEN prev ELSE x - 1
    <3>1. i - 1 \in Int OBVIOUS
    <3>2. Nth(o, i - 1) = IF i - 1 \in 1 .. n - 1 THEN o[i - 1] ELSE 0 BY <1>8, <3>1
    <3>3. i - 1 \in 1 .. n - 1 => o[i - 1] = IF i - 1 < k THEN i - 1 ELSE i BY <1>4
    <3>4. QED BY <2>1, <3>2, <3>3
  <2>4. Nth(o, i + 1) = IF x = prev THEN next ELSE IF x = n THEN 0 ELSE x + 1
    <3>1. i + 1 \in Int OBVIOUS
    <3>2. Nth(o, i + 1) = IF i + 1 \in 1 .. n - 1 THEN o[i + 1] ELSE 0 BY <1>8, <3>1
    <3>3. i + 1 \in 1 .. n - 1 => o[i + 1] = IF i + 1 < k THEN i + 1 ELSE i + 2 BY <1>4
    <3>4. QED BY <2>1, <3>2, <3>3
  <2>5. q[x] = [prev |-> IF x = k + 1 THEN prev ELSE x - 1,
                next |-> IF x = prev THEN next ELSE IF x = n THEN 0 ELSE x + 1, vals |-> V[x]]
    BY <1>7, <2>1
  <2> HIDE DEF prev, next
  <2>6. QED BY <2>1, <2>2, <2>3, <2>4, <2>5 DEF NodeOf
<1>10. f = h /\ e = a /\ c = n - 1
  <2>1. f = h
    <3>1. f = IF 1 \in 1 .. n - 1 THEN o[1] ELSE 0 BY <1>8
    <3>2. 1 \in 1 .. n - 1 => o[1] = IF 1 < k THEN 1 ELSE 2 BY <1>4
    <3>3. QED BY <1>1, <3>1, <3>2 DEF NoNode
  <2>2. e = a
    <3>1. e = IF n - 1 \in 1 .. n - 1 THEN o[n - 1] ELSE 0 BY <1>8
    <3>2. n - 1 \in 1 .. n - 1 => o[n - 1] = IF n - 1 < k THEN n - 1 ELSE n BY <1>4
    <3>3. QED BY <1>1, <3>1, <3>2 DEF NoNode
  <2>3. QED BY <1>1, <2>1, <2>2
<1> HIDE DEF f, e, a, c, h
<1> DEFINE r == DestroyNode(l, k)
<1>11. r = WithNodes(WithCount(WithLast(WithFirst(l, h), a), c), q)
  BY <1>3 DEF WithFirst, WithLast, WithCount, WithNodes
<1>12. r = Record(h, a, s, c, q) BY <1>1, <1>11, WithParts
<1> HIDE DEF r
<1>13. r.nodes = q BY <1>12, Parts
<1>14. r = Record(f, e, s, n - 1, r.nodes) BY <1>10, <1>12, <1>13
<1>15. Linked(r, o, s, W) BY <1>4, <1>5, <1>9, <1>13, <1>14 DEF Linked, f, e
<1>16. QED BY <1>15 DEF r, o, W

\* The list with other nodes at the same places, or with another size.
LEMMA NodesSet ==
  ASSUME NEW l, NEW o, NEW s, NEW V, Linked(l, o, s, V), NEW q, NEW W,
         DOMAIN q = DOMAIN l.nodes, \A i \in 1 .. Len(o) : q[o[i]] = NodeOf(o, W, i)
  PROVE  Linked(WithNodes(l, q), o, s, W)
<1> DEFINE n == Len(o)
           f == Nth(o, 1)
           a == Nth(o, n)
           p == l.nodes
           r == WithNodes(l, q)
<1>1. l = Record(f, a, s, n, p) BY DEF Linked
<1> HIDE DEF f, a, n, p
<1>2. r = Record(f, a, s, n, q) BY <1>1, WithParts
<1> HIDE DEF r
<1>3. r.nodes = q BY <1>2, Parts
<1>4. Linked(r, o, s, W) BY <1>2, <1>3 DEF Linked, f, a, n
<1>5. QED BY <1>4 DEF r

LEMMA SizeSet ==
  ASSUME NEW l, NEW o, NEW s, NEW V, Linked(l, o, s, V), NEW x
  PROVE  Linked(WithSize(l, x), o, x, V)
<1> DEFINE n == Len(o)
           f == Nth(o, 1)
           a == Nth(o, n)
           p == l.nodes
           r == WithSize(l, x)
<1>1. l = Record(f, a, s, n, p) BY DEF Linked
<1> HIDE DEF f, a, n
<1>2. r = Record(f, a, x, n, p)
  <2> HIDE DEF p
  <2> QED BY <1>1, WithParts
<1> HIDE DEF r
<1>3. r.nodes = p
  <2> HIDE DEF p
  <2> QED BY <1>2, Parts
<1>4. Linked(r, o, x, V) BY <1>2, <1>3 DEF Linked, f, a, n
<1>5. QED BY <1>4 DEF r

\* The names of the values behind r change.
OpenVals(v, r) == [j \in DOMAIN v |-> IF v[j] > r THEN v[j] + 1 ELSE v[j]]
CloseVals(v, r) == [j \in DOMAIN v |-> IF v[j] > r THEN v[j] - 1 ELSE v[j]]

LEMMA OpenedIs ==
  ASSUME NEW l, NEW o, NEW s, NEW V, Linked(l, o, s, V), NEW r
  PROVE  Linked(Opened(l, r), o, s, [i \in 1 .. Len(o) |-> OpenVals(V[i], r)])
<1> DEFINE q == [x \in DOMAIN l.nodes |-> [l.nodes[x] EXCEPT !.vals = OpenVals(l.nodes[x].vals, r)]]
           W == [i \in 1 .. Len(o) |-> OpenVals(V[i], r)]
<1>1. Opened(l, r) = WithNodes(l, q) BY DEF Opened, Rename, WithNodes, OpenVals
<1>2. ASSUME NEW i \in 1 .. Len(o) PROVE q[o[i]] = NodeOf(o, W, i)
  <2>1. o[i] \in DOMAIN l.nodes /\ l.nodes[o[i]] = NodeOf(o, V, i) BY DEF Linked
  <2>2. q[o[i]] = [NodeOf(o, V, i) EXCEPT !.vals = OpenVals(NodeOf(o, V, i).vals, r)] BY <2>1
  <2>3. W[i] = OpenVals(V[i], r) OBVIOUS
  <2>4. NodeOf(o, V, i).vals = V[i] BY DEF NodeOf
  <2> HIDE DEF W, q
  <2>5. q[o[i]] = [NodeOf(o, V, i) EXCEPT !.vals = W[i]] BY <2>2, <2>3, <2>4
  <2>6. QED BY <2>5 DEF NodeOf
<1>3. DOMAIN q = DOMAIN l.nodes OBVIOUS
<1> HIDE DEF q, W
<1>4. Linked(WithNodes(l, q), o, s, W) BY <1>2, <1>3, NodesSet
<1>5. QED BY <1>1, <1>4 DEF W

LEMMA ClosedIs ==
  ASSUME NEW l, NEW o, NEW s, NEW V, Linked(l, o, s, V), NEW r
  PROVE  Linked(Closed(l, r), o, s, [i \in 1 .. Len(o) |-> CloseVals(V[i], r)])
<1> DEFINE q == [x \in DOMAIN l.nodes |-> [l.nodes[x] EXCEPT !.vals = CloseVals(l.nodes[x].vals, r)]]
           W == [i \in 1 .. Len(o) |-> CloseVals(V[i], r)]
<1>1. Closed(l, r) = WithNodes(l, q) BY DEF Closed, Rename, WithNodes, CloseVals
<1>2. ASSUME NEW i \in 1 .. Len(o) PROVE q[o[i]] = NodeOf(o, W, i)
  <2>1. o[i] \in DOMAIN l.nodes /\ l.nodes[o[i]] = NodeOf(o, V, i) BY DEF Linked
  <2>2. q[o[i]] = [NodeOf(o, V, i) EXCEPT !.vals = CloseVals(NodeOf(o, V, i).vals, r)] BY <2>1
  <2>3. W[i] = CloseVals(V[i], r) OBVIOUS
  <2>4. NodeOf(o, V, i).vals = V[i] BY DEF NodeOf
  <2> HIDE DEF W, q
  <2>5. q[o[i]] = [NodeOf(o, V, i) EXCEPT !.vals = W[i]] BY <2>2, <2>3, <2>4
  <2>6. QED BY <2>5 DEF NodeOf
<1>3. DOMAIN q = DOMAIN l.nodes OBVIOUS
<1> HIDE DEF q, W
<1>4. Linked(WithNodes(l, q), o, s, W) BY <1>2, <1>3, NodesSet
<1>5. QED BY <1>1, <1>4 DEF W

\* Lists with the same values at all places are linked the same.
LEMMA LinkedSame ==
  ASSUME NEW l, NEW o, NEW s, NEW V, NEW W, Linked(l, o, s, V), \A i \in 1 .. Len(o) : V[i] = W[i]
  PROVE  Linked(l, o, s, W)
<1>1. \A i \in 1 .. Len(o) : NodeOf(o, V, i) = NodeOf(o, W, i) BY DEF NodeOf
<1>2. QED BY <1>1 DEF Linked

-----------------------------------------------------------------------------
(* Marks.                                                                  *)

\* The marks rise.
LEMMA MarksRise ==
  ASSUME NEW b, MarkSeq(b), NEW i \in 1 .. Len(b), NEW j \in 1 .. Len(b), i <= j
  PROVE  b[i] \in Nat /\ b[j] \in Nat /\ b[i] <= b[j]
<1> DEFINE n == Len(b)
<1>1. n \in Nat /\ (\A x \in 1 .. n : b[x] \in Nat) /\ \A x \in 1 .. n - 1 : b[x] <= b[x + 1] BY DEF MarkSeq
<1> HIDE DEF n
<1>2. i \in 1 .. n /\ j \in 1 .. n BY DEF n
<1> DEFINE T == { m \in Nat : i + m <= n => b[i] <= b[i + m] }
<1>3. 0 \in T BY <1>1, <1>2
<1>4. ASSUME NEW m \in Nat, m \in T PROVE m + 1 \in T
  <2>1. SUFFICES ASSUME i + (m + 1) <= n PROVE b[i] <= b[i + (m + 1)] OBVIOUS
  <2>2. i + m \in 1 .. n - 1 /\ (i + m) + 1 = i + (m + 1) /\ i + m <= n BY <1>1, <1>2, <2>1
  <2>3. b[i] <= b[i + m] BY <1>4, <2>2
  <2>4. b[i + m] <= b[i + (m + 1)] BY <1>1, <2>2
  <2>5. b[i] \in Nat /\ b[i + m] \in Nat /\ b[i + (m + 1)] \in Nat BY <1>1, <1>2, <2>1
  <2>6. QED BY <2>3, <2>4, <2>5
<1> HIDE DEF T
<1>5. j - i \in Nat /\ i + (j - i) = j BY <1>2
<1>6. j - i \in T BY <1>3, <1>4, <1>5, Induction
<1>7. b[i] <= b[j] BY <1>2, <1>5, <1>6 DEF T
<1>8. QED BY <1>1, <1>2, <1>7

\* One value more in the node k, one less, one taken over from the next node, a node
\* in two, a mark less.
OpenMarks(b, k) == [i \in 1 .. Len(b) |-> IF i > k THEN b[i] + 1 ELSE b[i]]
CloseMarks(b, k) == [i \in 1 .. Len(b) |-> IF i > k THEN b[i] - 1 ELSE b[i]]
StealMarks(b, k) == [i \in 1 .. Len(b) |-> IF i = k + 1 THEN b[i] + 1 ELSE b[i]]
SplitMarks(b, k, mid) ==
  [i \in 1 .. Len(b) + 1 |-> IF i <= k THEN b[i] ELSE IF i = k + 1 THEN b[k] + mid ELSE b[i - 1]]
DropMark(b, k) == [i \in 1 .. Len(b) - 1 |-> IF i < k THEN b[i] ELSE b[i + 1]]

LEMMA MarkFacts ==
  ASSUME NEW b, MarkSeq(b)
  PROVE  /\ Len(b) \in Nat /\ Len(b) >= 1 /\ b[1] = 0 /\ b \in Seq(Nat)
         /\ \A i \in 1 .. Len(b) : b[i] \in Nat
         /\ \A i \in 1 .. Len(b) - 1 : b[i] <= b[i + 1]
BY DEF MarkSeq

\* A sequence of marks from its values.
LEMMA MarksFrom ==
  ASSUME NEW n \in Nat, n >= 1, NEW b, b \in [1 .. n -> Nat], b[1] = 0,
         \A i \in 1 .. n - 1 : b[i] <= b[i + 1]
  PROVE  MarkSeq(b) /\ Len(b) = n
<1>1. b \in Seq(Nat) /\ Len(b) = n OBVIOUS
<1>2. QED BY <1>1 DEF MarkSeq

LEMMA OpenMarksAre ==
  ASSUME NEW b, MarkSeq(b), NEW k \in 1 .. Count(b)
  PROVE  /\ MarkSeq(OpenMarks(b, k)) /\ Len(OpenMarks(b, k)) = Len(b)
         /\ \A i \in 1 .. Len(b) : OpenMarks(b, k)[i] = IF i > k THEN b[i] + 1 ELSE b[i]
<1> DEFINE d == OpenMarks(b, k)
           n == Len(b)
<1>1. n \in Nat /\ n >= 1 /\ b[1] = 0 /\ (\A i \in 1 .. n : b[i] \in Nat)
      /\ (\A i \in 1 .. n - 1 : b[i] <= b[i + 1]) /\ k \in 1 .. n - 1
  BY MarkFacts DEF Count
<1>2. d = [i \in 1 .. n |-> IF i > k THEN b[i] + 1 ELSE b[i]] BY DEF OpenMarks
<1> HIDE DEF d, n
<1>3. d \in [1 .. n -> Nat] BY <1>1, <1>2
<1>4. d[1] = 0 BY <1>1, <1>2
<1>5. \A i \in 1 .. n - 1 : d[i] <= d[i + 1] BY <1>1, <1>2
<1>6. MarkSeq(d) /\ Len(d) = n BY <1>1, <1>3, <1>4, <1>5, MarksFrom
<1>7. QED BY <1>2, <1>6 DEF d, n

LEMMA CloseMarksAre ==
  ASSUME NEW b, MarkSeq(b), NEW k \in 1 .. Count(b), b[k] < b[k + 1]
  PROVE  /\ MarkSeq(CloseMarks(b, k)) /\ Len(CloseMarks(b, k)) = Len(b)
         /\ \A i \in 1 .. Len(b) : CloseMarks(b, k)[i] = IF i > k THEN b[i] - 1 ELSE b[i]
<1> DEFINE d == CloseMarks(b, k)
           n == Len(b)
<1>1. n \in Nat /\ n >= 1 /\ b[1] = 0 /\ (\A i \in 1 .. n : b[i] \in Nat)
      /\ (\A i \in 1 .. n - 1 : b[i] <= b[i + 1]) /\ k \in 1 .. n - 1
  BY MarkFacts DEF Count
<1>2. d = [i \in 1 .. n |-> IF i > k THEN b[i] - 1 ELSE b[i]] BY DEF CloseMarks
<1>3. \A i \in k + 1 .. n : b[i] >= 1
  <2>1. SUFFICES ASSUME NEW i \in k + 1 .. n PROVE b[i] >= 1 OBVIOUS
  <2>2. k + 1 \in 1 .. n /\ i \in 1 .. n /\ k \in 1 .. n /\ k + 1 <= i BY <1>1
  <2>3. b[k + 1] <= b[i] BY <2>2, MarksRise
  <2>4. QED BY <1>1, <2>2, <2>3
<1> HIDE DEF d, n
<1>4. d \in [1 .. n -> Nat] BY <1>1, <1>2, <1>3
<1>5. d[1] = 0 BY <1>1, <1>2
<1>6. \A i \in 1 .. n - 1 : d[i] <= d[i + 1]
  <2>1. SUFFICES ASSUME NEW i \in 1 .. n - 1 PROVE d[i] <= d[i + 1] OBVIOUS
  <2>2. i \in 1 .. n /\ i + 1 \in 1 .. n /\ b[i] \in Nat /\ b[i + 1] \in Nat /\ b[i] <= b[i + 1] BY <1>1
  <2>3. d[i] = (IF i > k THEN b[i] - 1 ELSE b[i]) /\ d[i + 1] = (IF i + 1 > k THEN b[i + 1] - 1 ELSE b[i + 1])
    BY <1>2, <2>2
  <2>4. QED BY <1>1, <2>2, <2>3
<1>7. MarkSeq(d) /\ Len(d) = n BY <1>1, <1>4, <1>5, <1>6, MarksFrom
<1>8. QED BY <1>2, <1>7 DEF d, n

LEMMA StealMarksAre ==
  ASSUME NEW b, MarkSeq(b), NEW k \in 1 .. Count(b) - 1, b[k + 1] < b[k + 2]
  PROVE  /\ MarkSeq(StealMarks(b, k)) /\ Len(StealMarks(b, k)) = Len(b)
         /\ \A i \in 1 .. Len(b) : StealMarks(b, k)[i] = IF i = k + 1 THEN b[i] + 1 ELSE b[i]
<1> DEFINE d == StealMarks(b, k)
           n == Len(b)
<1>1. n \in Nat /\ n >= 1 /\ b[1] = 0 /\ (\A i \in 1 .. n : b[i] \in Nat)
      /\ (\A i \in 1 .. n - 1 : b[i] <= b[i + 1]) /\ k \in 1 .. n - 2
  BY MarkFacts DEF Count
<1>2. d = [i \in 1 .. n |-> IF i = k + 1 THEN b[i] + 1 ELSE b[i]] BY DEF StealMarks
<1> HIDE DEF d, n
<1>3. d \in [1 .. n -> Nat] BY <1>1, <1>2
<1>4. d[1] = 0 BY <1>1, <1>2
<1>5. \A i \in 1 .. n - 1 : d[i] <= d[i + 1]
  <2>1. SUFFICES ASSUME NEW i \in 1 .. n - 1 PROVE d[i] <= d[i + 1] OBVIOUS
  <2>2. i \in 1 .. n /\ i + 1 \in 1 .. n /\ b[i] \in Nat /\ b[i + 1] \in Nat /\ b[i] <= b[i + 1] BY <1>1
  <2>3. d[i] = (IF i = k + 1 THEN b[i] + 1 ELSE b[i]) /\ d[i + 1] = (IF i + 1 = k + 1 THEN b[i + 1] + 1 ELSE b[i + 1])
    BY <1>2, <2>2
  <2>4. i = k + 1 => b[i] < b[i + 1]
    <3>1. i = k + 1 => i + 1 = k + 2 OBVIOUS
    <3>2. QED BY <3>1
  <2>5. QED BY <2>2, <2>3, <2>4
<1>6. MarkSeq(d) /\ Len(d) = n BY <1>1, <1>3, <1>4, <1>5, MarksFrom
<1>7. QED BY <1>2, <1>6 DEF d, n

LEMMA SplitMarksAre ==
  ASSUME NEW b, MarkSeq(b), NEW k \in 1 .. Count(b), NEW mid \in Nat, b[k] + mid <= b[k + 1]
  PROVE  /\ MarkSeq(SplitMarks(b, k, mid)) /\ Len(SplitMarks(b, k, mid)) = Len(b) + 1
         /\ \A i \in 1 .. Len(b) + 1 :
              SplitMarks(b, k, mid)[i] = IF i <= k THEN b[i] ELSE IF i = k + 1 THEN b[k] + mid ELSE b[i - 1]
<1> DEFINE d == SplitMarks(b, k, mid)
           n == Len(b)
<1>1. n \in Nat /\ n >= 1 /\ b[1] = 0 /\ (\A i \in 1 .. n : b[i] \in Nat)
      /\ (\A i \in 1 .. n - 1 : b[i] <= b[i + 1]) /\ k \in 1 .. n - 1
  BY MarkFacts DEF Count
<1>2. d = [i \in 1 .. n + 1 |-> IF i <= k THEN b[i] ELSE IF i = k + 1 THEN b[k] + mid ELSE b[i - 1]]
  BY DEF SplitMarks
<1> HIDE DEF d, n
<1>3. \A i \in 1 .. n + 1 : d[i] = IF i <= k THEN b[i] ELSE IF i = k + 1 THEN b[k] + mid ELSE b[i - 1] BY <1>2
<1>4. d \in [1 .. n + 1 -> Nat]
  <2>1. \A i \in 1 .. n + 1 : d[i] \in Nat BY <1>1, <1>3
  <2>2. QED BY <1>2, <2>1
<1>5. d[1] = 0 BY <1>1, <1>3
<1>6. \A i \in 1 .. (n + 1) - 1 : d[i] <= d[i + 1]
  <2>1. SUFFICES ASSUME NEW i \in 1 .. n PROVE d[i] <= d[i + 1] BY <1>1
  <2>2. i \in 1 .. n + 1 /\ i + 1 \in 1 .. n + 1 /\ (i + 1) - 1 = i BY <1>1
  <2>3. CASE i < k BY <1>1, <1>3, <2>2, <2>3
  <2>4. CASE i = k
    <3>1. d[i] = b[k] /\ d[i + 1] = b[k] + mid BY <1>1, <1>3, <2>2, <2>4
    <3>2. QED BY <1>1, <3>1
  <2>5. CASE i = k + 1
    <3>1. d[i] = b[k] + mid /\ d[i + 1] = b[k + 1] BY <1>1, <1>3, <2>2, <2>5
    <3>2. QED BY <3>1
  <2>6. CASE i > k + 1
    <3>1. d[i] = b[i - 1] /\ d[i + 1] = b[i] /\ i - 1 \in 1 .. n - 1 /\ (i - 1) + 1 = i
      BY <1>1, <1>3, <2>2, <2>6
    <3>2. QED BY <1>1, <3>1
  <2>7. QED BY <1>1, <2>3, <2>4, <2>5, <2>6
<1>7. MarkSeq(d) /\ Len(d) = n + 1
  <2>1. n + 1 \in Nat /\ n + 1 >= 1 BY <1>1
  <2>2. QED BY <1>4, <1>5, <1>6, <2>1, MarksFrom
<1>8. QED BY <1>3, <1>7 DEF d, n

LEMMA DropMarkIs ==
  ASSUME NEW b, MarkSeq(b), NEW k \in 2 .. Len(b)
  PROVE  /\ MarkSeq(DropMark(b, k)) /\ Len(DropMark(b, k)) = Len(b) - 1
         /\ \A i \in 1 .. Len(b) - 1 : DropMark(b, k)[i] = IF i < k THEN b[i] ELSE b[i + 1]
<1> DEFINE d == DropMark(b, k)
           n == Len(b)
<1>1. n \in Nat /\ n >= 1 /\ b[1] = 0 /\ (\A i \in 1 .. n : b[i] \in Nat)
      /\ (\A i \in 1 .. n - 1 : b[i] <= b[i + 1]) /\ k \in 2 .. n
  BY MarkFacts
<1>2. d = [i \in 1 .. n - 1 |-> IF i < k THEN b[i] ELSE b[i + 1]] BY DEF DropMark
<1> HIDE DEF d, n
<1>3. \A i \in 1 .. n - 1 : d[i] = IF i < k THEN b[i] ELSE b[i + 1] BY <1>2
<1>4. d \in [1 .. n - 1 -> Nat]
  <2>1. \A i \in 1 .. n - 1 : d[i] \in Nat BY <1>1, <1>3
  <2>2. QED BY <1>2, <2>1
<1>5. d[1] = 0 BY <1>1, <1>3
<1>6. \A i \in 1 .. (n - 1) - 1 : d[i] <= d[i + 1]
  <2>1. SUFFICES ASSUME NEW i \in 1 .. n - 2 PROVE d[i] <= d[i + 1] BY <1>1
  <2>2. i \in 1 .. n - 1 /\ i + 1 \in 1 .. n - 1 /\ (i + 1) + 1 = i + 2 /\ i + 2 \in 1 .. n BY <1>1
  <2>3. b[i] <= b[i + 1] /\ b[i + 1] <= b[i + 2] BY <1>1, <2>2
  <2>4. b[i] \in Nat /\ b[i + 1] \in Nat /\ b[i + 2] \in Nat BY <1>1, <2>2
  <2>5. d[i] = (IF i < k THEN b[i] ELSE b[i + 1]) /\ d[i + 1] = (IF i + 1 < k THEN b[i + 1] ELSE b[i + 2])
    BY <1>3, <2>2
  <2>6. QED BY <2>3, <2>4, <2>5
<1>7. MarkSeq(d) /\ Len(d) = n - 1
  <2>1. n - 1 \in Nat /\ n - 1 >= 1 BY <1>1
  <2>2. QED BY <1>4, <1>5, <1>6, <2>1, MarksFrom
<1>8. QED BY <1>3, <1>7 DEF d, n

-----------------------------------------------------------------------------
(* The values of a node.                                                   *)

\* A sequence of numbers that follow each other.
LEMMA IsPiece ==
  ASSUME NEW u \in Seq(Nat), NEW x \in Nat, NEW y \in Nat, x <= y, Len(u) = y - x,
         \A j \in 1 .. y - x : u[j] = x + j
  PROVE  u = Piece(x, y)
<1>1. Piece(x, y) \in Seq(Nat) /\ Len(Piece(x, y)) = y - x /\ \A j \in 1 .. y - x : Piece(x, y)[j] = x + j
  BY PieceType
<1> DEFINE v == Piece(x, y)
<1> HIDE DEF v
<1>2. v \in Seq(Nat) /\ Len(u) = Len(v) /\ \A j \in 1 .. Len(u) : u[j] = v[j] BY <1>1 DEF v
<1>3. u = v BY <1>2, SeqEqual
<1>4. QED BY <1>3 DEF v

\* The elements m .. n of a sequence are the numbers behind a.
Follow(u, m, n, a) == \A j \in m .. n : u[j] = a + (j - m) + 1

LEMMA SubSeqPiece ==
  ASSUME NEW u \in Seq(Nat), NEW m \in Nat, NEW n \in Nat, 1 <= m, m <= n + 1, n <= Len(u),
         NEW a \in Nat, Follow(u, m, n, a), NEW y \in Nat, y = a + (n - m) + 1
  PROVE  SubSeq(u, m, n) = Piece(a, y)
<1>1. a <= y /\ y - a = n - m + 1 OBVIOUS
<1>2. CASE m <= n
  <2> DEFINE w == SubSeq(u, m, n)
  <2>1. m \in 1 .. Len(u) + 1 /\ n \in m - 1 .. Len(u) BY <1>2
  <2>2. w \in Seq(Nat) /\ Len(w) = n - m + 1 /\ \A i \in 1 .. n - m + 1 : w[i] = u[m + i - 1]
    <3>1. \A i \in m .. n : u[i] \in Nat BY ONLY <2>1, u \in Seq(Nat), m \in Nat, n \in Nat
    <3>2. m \in Int /\ n \in Int OBVIOUS
    <3>3. w \in Seq(Nat) /\ Len(w) = (IF m <= n THEN n - m + 1 ELSE 0) /\ \A i \in 1 .. n - m + 1 : w[i] = u[m + i - 1]
      BY ONLY <3>1, <3>2, SubSeqProperties
    <3>4. QED BY ONLY <1>2, <3>3
  <2>3. ASSUME NEW j \in 1 .. n - m + 1 PROVE w[j] = a + j
    <3>1. m + j - 1 \in m .. n /\ a + ((m + j - 1) - m) + 1 = a + j OBVIOUS
    <3>2. u[m + j - 1] = a + ((m + j - 1) - m) + 1 BY <3>1 DEF Follow
    <3>3. QED BY <2>2, <3>1, <3>2
  <2> HIDE DEF w
  <2>4. Len(w) = y - a /\ \A j \in 1 .. y - a : w[j] = a + j BY <1>1, <2>2, <2>3
  <2>5. w \in Seq(Nat) BY <2>2
  <2>6. w = Piece(a, y) BY ONLY a \in Nat, y \in Nat, <1>1, <2>4, <2>5, IsPiece
  <2>7. QED BY <2>6 DEF w
<1>3. CASE m = n + 1
  <2>1. SubSeq(u, m, n) = << >> BY <1>3, SubSeqEmpty
  <2>2. y = a BY <1>3
  <2>3. Piece(a, a) = << >> BY DEF Piece
  <2>4. QED BY <2>1, <2>2, <2>3
<1>4. QED BY <1>2, <1>3

\* The values of a node, when some are renamed.
LEMMA OpenPiece ==
  ASSUME NEW x \in Nat, NEW y \in Nat, x <= y, NEW r \in Nat
  PROVE  /\ y <= r => OpenVals(Piece(x, y), r) = Piece(x, y)
         /\ r <= x => OpenVals(Piece(x, y), r) = Piece(x + 1, y + 1)
         /\ OpenVals(Piece(x, y), r) \in Seq(Nat) /\ Len(OpenVals(Piece(x, y), r)) = y - x
         /\ \A j \in 1 .. y - x :
              OpenVals(Piece(x, y), r)[j] = IF x + j > r THEN (x + j) + 1 ELSE x + j
<1> DEFINE v == Piece(x, y)
           w == OpenVals(v, r)
<1>1. v \in Seq(Nat) /\ Len(v) = y - x /\ \A j \in 1 .. y - x : v[j] = x + j BY PieceType
<1> HIDE DEF v
<1>2. DOMAIN v = 1 .. y - x BY <1>1
<1>3. w = [j \in 1 .. y - x |-> IF v[j] > r THEN v[j] + 1 ELSE v[j]] BY <1>2 DEF OpenVals
<1>4. \A j \in 1 .. y - x : w[j] = IF x + j > r THEN (x + j) + 1 ELSE x + j BY <1>1, <1>3
<1>5. w \in Seq(Nat) /\ Len(w) = y - x
  <2>1. y - x \in Nat OBVIOUS
  <2>2. w \in [1 .. y - x -> Nat] BY <1>1, <1>3
  <2>3. QED BY <2>1, <2>2
<1> HIDE DEF w
<1>6. ASSUME y <= r PROVE w = Piece(x, y)
  <2>1. \A j \in 1 .. y - x : w[j] = x + j BY <1>4, <1>6
  <2>2. QED BY <1>5, <2>1, IsPiece
<1>7. ASSUME r <= x PROVE w = Piece(x + 1, y + 1)
  <2>1. x + 1 \in Nat /\ y + 1 \in Nat /\ x + 1 <= y + 1 /\ (y + 1) - (x + 1) = y - x OBVIOUS
  <2>2. \A j \in 1 .. y - x : w[j] = (x + 1) + j BY <1>4, <1>7
  <2>3. QED BY <1>5, <2>1, <2>2, IsPiece
<1>8. QED BY <1>4, <1>5, <1>6, <1>7 DEF v, w

LEMMA InsertPiece ==
  ASSUME NEW x \in Nat, NEW y \in Nat, x <= y, NEW i \in 0 .. y - x
  PROVE  InsertAt(OpenVals(Piece(x, y), x + i), i + 1, (x + i) + 1) = Piece(x, y + 1)
<1> DEFINE r == x + i
           w == OpenVals(Piece(x, y), r)
<1>1. /\ w \in Seq(Nat) /\ Len(w) = y - x
      /\ \A j \in 1 .. y - x : w[j] = IF x + j > r THEN (x + j) + 1 ELSE x + j
  <2>1. r \in Nat OBVIOUS
  <2> HIDE DEF r
  <2>2. QED BY <2>1, OpenPiece
<1> HIDE DEF w
<1>2. SubSeq(w, 1, i) = Piece(x, r)
  <2>1. w \in Seq(Nat) BY <1>1
  <2>2. 1 \in Nat /\ i \in Nat /\ 1 <= 1 /\ 1 <= i + 1 /\ i <= Len(w) /\ r \in Nat /\ r = x + (i - 1) + 1 BY <1>1
  <2>3. Follow(w, 1, i, x) BY <1>1 DEF Follow
  <2>4. QED BY ONLY <2>1, <2>2, <2>3, x \in Nat, y \in Nat, SubSeqPiece
<1>3. SubSeq(w, i + 1, y - x) = Piece(r + 1, y + 1)
  <2>1. w \in Seq(Nat) BY <1>1
  <2>2. i + 1 \in Nat /\ y - x \in Nat /\ 1 <= i + 1 /\ i + 1 <= (y - x) + 1 /\ y - x <= Len(w) /\ r + 1 \in Nat
        /\ y + 1 \in Nat /\ y + 1 = (r + 1) + ((y - x) - (i + 1)) + 1
    BY <1>1
  <2>3. Follow(w, i + 1, y - x, (r + 1)) BY <1>1 DEF Follow
  <2>4. PICK m, n, a, z : m = i + 1 /\ n = y - x /\ a = r + 1 /\ z = y + 1 OBVIOUS
  <2>5. m \in Nat /\ n \in Nat /\ 1 <= m /\ m <= n + 1 /\ n <= Len(w) /\ a \in Nat /\ z \in Nat /\ z = a + (n - m) + 1
    BY ONLY <2>2, <2>4
  <2>6. Follow(w, m, n, a) BY ONLY <2>3, <2>4
  <2>7. SubSeq(w, m, n) = Piece(a, z) BY ONLY <2>1, <2>5, <2>6, SubSeqPiece
  <2>8. QED BY ONLY <2>4, <2>7
<1>4. << r + 1 >> = Piece(r, r + 1)
  <2>1. << r + 1 >> \in Seq(Nat) /\ Len(<< r + 1 >>) = (r + 1) - r /\ r \in Nat /\ r + 1 \in Nat /\ r <= r + 1
        /\ \A j \in 1 .. (r + 1) - r : << r + 1 >>[j] = r + j
    OBVIOUS
  <2>2. QED BY <2>1, IsPiece
<1>5. InsertAt(w, i + 1, r + 1) = SubSeq(w, 1, i) \o << r + 1 >> \o SubSeq(w, i + 1, y - x)
  <2>1. (i + 1) - 1 = i OBVIOUS
  <2>2. QED BY <1>1, <2>1 DEF InsertAt
<1>6. Piece(x, r) \o Piece(r, r + 1) = Piece(x, r + 1)
  <2>1. r \in Nat /\ r + 1 \in Nat /\ x <= r /\ r <= r + 1 OBVIOUS
  <2>2. QED BY <2>1, PieceSteps
<1>7. Piece(x, r + 1) \o Piece(r + 1, y + 1) = Piece(x, y + 1)
  <2>1. r + 1 \in Nat /\ y + 1 \in Nat /\ x <= r + 1 /\ r + 1 <= y + 1 OBVIOUS
  <2>2. QED BY <2>1, PieceSteps
<1>8. QED BY <1>2, <1>3, <1>4, <1>5, <1>6, <1>7 DEF w

LEMMA ClosePiece ==
  ASSUME NEW x \in Nat, NEW y \in Nat, x <= y, NEW r \in Nat
  PROVE  /\ y <= r => CloseVals(Piece(x, y), r) = Piece(x, y)
         /\ r <= x /\ 1 <= x => CloseVals(Piece(x, y), r) = Piece(x - 1, y - 1)
<1> DEFINE v == Piece(x, y)
           w == CloseVals(v, r)
<1>1. v \in Seq(Nat) /\ Len(v) = y - x /\ \A j \in 1 .. y - x : v[j] = x + j BY PieceType
<1> HIDE DEF v
<1>2. DOMAIN v = 1 .. y - x BY <1>1
<1>3. w = [j \in 1 .. y - x |-> IF v[j] > r THEN v[j] - 1 ELSE v[j]] BY <1>2 DEF CloseVals
<1>4. \A j \in 1 .. y - x : w[j] = IF x + j > r THEN (x + j) - 1 ELSE x + j BY <1>1, <1>3
<1>5. w \in Seq(Nat) /\ Len(w) = y - x
  <2>1. y - x \in Nat OBVIOUS
  <2>2. w \in [1 .. y - x -> Nat] BY <1>1, <1>3
  <2>3. QED BY <2>1, <2>2
<1> HIDE DEF w
<1>6. ASSUME y <= r PROVE w = Piece(x, y)
  <2>1. \A j \in 1 .. y - x : w[j] = x + j BY <1>4, <1>6
  <2>2. QED BY <1>5, <2>1, IsPiece
<1>7. ASSUME r <= x, 1 <= x PROVE w = Piece(x - 1, y - 1)
  <2>1. x - 1 \in Nat /\ y - 1 \in Nat /\ x - 1 <= y - 1 /\ (y - 1) - (x - 1) = y - x BY <1>7
  <2>2. \A j \in 1 .. y - x : w[j] = (x - 1) + j BY <1>4, <1>7
  <2>3. QED BY <1>5, <2>1, <2>2, IsPiece
<1>8. QED BY <1>6, <1>7 DEF v, w

LEMMA RemovePiece ==
  ASSUME NEW x \in Nat, NEW y \in Nat, NEW i \in 0 .. y - x - 1
  PROVE  CloseVals(RemoveAt(Piece(x, y), i + 1), x + i + 1) = Piece(x, y - 1)
<1> DEFINE v == Piece(x, y)
           r == x + i + 1
           p == SubSeq(v, 1, i)
           q == SubSeq(v, i + 2, y - x)
           u == RemoveAt(v, i + 1)
           w == CloseVals(u, r)
<1>1. v \in Seq(Nat) /\ Len(v) = y - x /\ \A j \in 1 .. y - x : v[j] = x + j
  <2>1. x <= y OBVIOUS
  <2>2. QED BY <2>1, PieceType
<1> HIDE DEF v
<1>2. p = Piece(x, x + i)
  <2>1. v \in Seq(Nat) BY <1>1
  <2>2. 1 \in Nat /\ i \in Nat /\ 1 <= 1 /\ 1 <= i + 1 /\ i <= Len(v) /\ x + i \in Nat /\ x + i = x + (i - 1) + 1 BY <1>1
  <2>3. Follow(v, 1, i, x) BY <1>1 DEF Follow
  <2>4. QED BY ONLY <2>1, <2>2, <2>3, x \in Nat, y \in Nat, SubSeqPiece
<1>3. q = Piece(x + i + 1, y)
  <2>1. v \in Seq(Nat) BY <1>1
  <2>2. i + 2 \in Nat /\ y - x \in Nat /\ 1 <= i + 2 /\ i + 2 <= (y - x) + 1 /\ y - x <= Len(v) /\ r \in Nat
        /\ y = r + ((y - x) - (i + 2)) + 1
    BY <1>1
  <2>3. Follow(v, i + 2, y - x, r) BY <1>1 DEF Follow
  <2>4. QED BY ONLY <2>1, <2>2, <2>3, x \in Nat, y \in Nat, SubSeqPiece
<1>4. u = p \o q
  <2>1. (i + 1) - 1 = i /\ (i + 1) + 1 = i + 2 OBVIOUS
  <2>2. QED BY <1>1, <2>1 DEF RemoveAt
<1>5. p \in Seq(Nat) /\ Len(p) = i /\ \A j \in 1 .. i : p[j] = x + j
  <2>1. PICK z : z = x + i OBVIOUS
  <2>2. z \in Nat /\ x <= z /\ z - x = i BY ONLY <2>1, x \in Nat, i \in 0 .. y - x - 1, y \in Nat
  <2>3. p = Piece(x, z) BY <1>2, <2>1
  <2>4. QED BY ONLY <2>2, <2>3, x \in Nat, PieceType
<1>6. q \in Seq(Nat) /\ Len(q) = y - x - 1 - i /\ \A j \in 1 .. y - x - 1 - i : q[j] = x + i + 1 + j
  <2>1. x + i + 1 \in Nat /\ x + i + 1 <= y /\ y - (x + i + 1) = y - x - 1 - i OBVIOUS
  <2>2. Piece(r, y) \in Seq(Nat) /\ Len(Piece(r, y)) = y - r /\ \A j \in 1 .. y - r : Piece(r, y)[j] = r + j
    BY <2>1, PieceType
  <2>3. QED BY <1>3, <2>1, <2>2
<1> HIDE DEF p, q, u
<1>7. /\ u \in Seq(Nat) /\ Len(u) = y - x - 1
      /\ \A j \in 1 .. y - x - 1 : u[j] = IF j <= i THEN x + j ELSE x + j + 1
  <2>1. p \in Seq(Nat) /\ q \in Seq(Nat) BY <1>5, <1>6
  <2>2. u \in Seq(Nat) /\ Len(u) = Len(p) + Len(q) BY <1>4, <2>1
  <2>3. ASSUME NEW j \in 1 .. y - x - 1 PROVE u[j] = IF j <= i THEN x + j ELSE x + j + 1
    <3>1. CASE j <= i
      <4>1. u[j] = p[j] BY <1>4, <1>5, <1>6, <3>1
      <4>2. QED BY <1>5, <3>1, <4>1
    <3>2. CASE j > i
      <4>1. j - i \in 1 .. y - x - 1 - i BY <3>2
      <4>2. u[j] = q[j - i] BY <1>4, <1>5, <1>6, <3>2, <4>1
      <4>3. q[j - i] = x + i + 1 + (j - i) BY <1>6, <4>1
      <4>4. QED BY <3>2, <4>2, <4>3
    <3>3. QED BY <3>1, <3>2
  <2>4. QED BY <1>5, <1>6, <2>2, <2>3
<1>8. w = [j \in 1 .. y - x - 1 |-> IF u[j] > r THEN u[j] - 1 ELSE u[j]]
  <2>1. DOMAIN u = 1 .. y - x - 1 BY <1>7
  <2>2. QED BY <2>1 DEF CloseVals
<1>9. ASSUME NEW j \in 1 .. y - x - 1 PROVE w[j] = x + j
  <2>1. w[j] = IF u[j] > r THEN u[j] - 1 ELSE u[j] BY <1>8
  <2>2. u[j] = IF j <= i THEN x + j ELSE x + j + 1 BY <1>7
  <2>3. QED BY ONLY <2>1, <2>2, j \in 1 .. y - x - 1, i \in 0 .. y - x - 1, x \in Nat, y \in Nat, r = x + i + 1
<1>10. w \in Seq(Nat) /\ Len(w) = y - x - 1
  <2>1. y - x - 1 \in Nat OBVIOUS
  <2>2. w \in [1 .. y - x - 1 -> Nat] BY <1>8, <1>9
  <2>3. QED BY <2>1, <2>2
<1> HIDE DEF w
<1>11. w = Piece(x, y - 1)
  <2>1. y - 1 \in Nat /\ x <= y - 1 /\ (y - 1) - x = y - x - 1 OBVIOUS
  <2>2. QED BY <1>9, <1>10, <2>1, IsPiece
<1>12. QED BY <1>11 DEF w, u, v

\* A node in two.
LEMMA SplitPiece ==
  ASSUME NEW x \in Nat, NEW y \in Nat, x <= y, NEW m \in 0 .. y - x
  PROVE  /\ SubSeq(Piece(x, y), 1, m) = Piece(x, x + m)
         /\ SubSeq(Piece(x, y), m + 1, Len(Piece(x, y))) = Piece(x + m, y)
<1> DEFINE v == Piece(x, y)
<1>1. v \in Seq(Nat) /\ Len(v) = y - x /\ \A j \in 1 .. y - x : v[j] = x + j BY PieceType
<1> HIDE DEF v
<1>2. SubSeq(v, 1, m) = Piece(x, x + m)
  <2>1. v \in Seq(Nat) BY <1>1
  <2>2. 1 \in Nat /\ m \in Nat /\ 1 <= 1 /\ 1 <= m + 1 /\ m <= Len(v) /\ x + m \in Nat /\ x + m = x + (m - 1) + 1 BY <1>1
  <2>3. Follow(v, 1, m, x) BY <1>1 DEF Follow
  <2>4. QED BY ONLY <2>1, <2>2, <2>3, x \in Nat, y \in Nat, SubSeqPiece
<1>3. SubSeq(v, m + 1, y - x) = Piece(x + m, y)
  <2> DEFINE a == x + m
             k == m + 1
             n == y - x
  <2>1. v \in Seq(Nat) BY <1>1
  <2>2. k \in Nat /\ n \in Nat /\ 1 <= k /\ k <= n + 1 /\ n <= Len(v) /\ a \in Nat /\ y = a + (n - k) + 1 BY <1>1
  <2>3. Follow(v, k, n, a) BY <1>1 DEF Follow
  <2> HIDE DEF a, k, n
  <2>4. SubSeq(v, k, n) = Piece(a, y) BY ONLY <2>1, <2>2, <2>3, y \in Nat, SubSeqPiece
  <2>5. QED BY <2>4 DEF a, k, n
<1>4. QED BY <1>1, <1>2, <1>3 DEF v

\* One value of the next node.
LEMMA StealPiece ==
  ASSUME NEW x \in Nat, NEW y \in Nat, NEW z \in Nat, x <= y, y < z
  PROVE  /\ Append(Piece(x, y), Head(Piece(y, z))) = Piece(x, y + 1)
         /\ Tail(Piece(y, z)) = Piece(y + 1, z)
<1> DEFINE u == Piece(x, y)
           v == Piece(y, z)
           a == Append(u, y + 1)
           t == Tail(v)
<1>1. u \in Seq(Nat) /\ Len(u) = y - x /\ \A j \in 1 .. y - x : u[j] = x + j BY PieceType
<1>2. v \in Seq(Nat) /\ Len(v) = z - y /\ \A j \in 1 .. z - y : v[j] = y + j BY PieceType
<1> HIDE DEF u, v
<1>3. Head(v) = y + 1 BY <1>2
<1>4. a \in Seq(Nat) /\ Len(a) = (y + 1) - x /\ \A j \in 1 .. (y + 1) - x : a[j] = x + j
  <2>1. a \in Seq(Nat) /\ Len(a) = (y + 1) - x BY <1>1
  <2>2. \A j \in 1 .. (y + 1) - x : a[j] = x + j BY <1>1
  <2>3. QED BY <2>1, <2>2
<1>5. t \in Seq(Nat) /\ Len(t) = z - (y + 1) /\ \A j \in 1 .. z - (y + 1) : t[j] = (y + 1) + j
  <2>1. v # << >> BY <1>2
  <2>2. t \in Seq(Nat) /\ Len(t) = z - (y + 1) BY <1>2, <2>1
  <2>3. \A j \in 1 .. z - (y + 1) : t[j] = v[j + 1] BY <1>2, <2>1
  <2>4. \A j \in 1 .. z - (y + 1) : j + 1 \in 1 .. z - y /\ v[j + 1] = y + (j + 1) BY <1>2
  <2>5. QED BY <2>2, <2>3, <2>4
<1> HIDE DEF a, t
<1>6. a = Piece(x, y + 1)
  <2>1. y + 1 \in Nat /\ x <= y + 1 OBVIOUS
  <2>2. QED BY <1>4, <2>1, IsPiece
<1>7. t = Piece(y + 1, z)
  <2>1. y + 1 \in Nat /\ y + 1 <= z OBVIOUS
  <2>2. QED BY <1>5, <2>1, IsPiece
<1>8. QED BY <1>3, <1>6, <1>7 DEF a, t, u, v

-----------------------------------------------------------------------------
(* insert_at                                                               *)

LEMMA ShapeParts ==
  ASSUME NEW b, MarkSeq(b)
  PROVE  /\ Count(b) \in Nat /\ Len(b) = Count(b) + 1
         /\ Linked(Shape(b), Upto(Count(b)), b[Len(b)], Pieces(b))
         /\ Shape(b).first = (IF Count(b) = 0 THEN 0 ELSE 1)
         /\ Shape(b).last = Count(b) /\ Shape(b).size = b[Len(b)] /\ Shape(b).count = Count(b)
         /\ Order(Shape(b)) = Upto(Count(b))
         /\ DOMAIN Shape(b).nodes = 1 .. Count(b)
         /\ \A i \in 1 .. Count(b) :
              /\ b[i] \in Nat /\ b[i + 1] \in Nat /\ b[i] <= b[i + 1]
              /\ Shape(b).nodes[i] = [prev |-> i - 1, next |-> IF i = Count(b) THEN 0 ELSE i + 1,
                                      vals |-> Piece(b[i], b[i + 1])]
              /\ Size(Shape(b), i) = b[i + 1] - b[i]
<1> DEFINE N == Count(b)
           l == Shape(b)
           s == b[Len(b)]
           V == Pieces(b)
<1>1. N \in Nat /\ Len(b) = N + 1 BY MarkFacts DEF Count
<1>2. \A i \in 1 .. N : b[i] \in Nat /\ b[i + 1] \in Nat /\ b[i] <= b[i + 1]
  <2>1. SUFFICES ASSUME NEW i \in 1 .. N PROVE b[i] \in Nat /\ b[i + 1] \in Nat /\ b[i] <= b[i + 1] OBVIOUS
  <2>2. i \in 1 .. Len(b) /\ i + 1 \in 1 .. Len(b) /\ i \in 1 .. Len(b) - 1 BY <1>1
  <2>3. QED BY <2>2, MarkFacts
<1>3. l = Straight(N, s, V) BY DEF Shape
<1>4. \A i \in 1 .. N : V[i] = Piece(b[i], b[i + 1]) BY DEF Pieces
<1> HIDE DEF N, l, s, V
<1>5. Linked(l, Upto(N), s, V) /\ Order(l) = Upto(N) BY <1>1, <1>3, StraightLinked
<1>6. /\ l.first = (IF N = 0 THEN 0 ELSE 1) /\ l.last = N /\ l.size = s /\ l.count = N
      /\ DOMAIN l.nodes = 1 .. N
      /\ \A i \in 1 .. N : l.nodes[i] = [prev |-> i - 1, next |-> IF i = N THEN 0 ELSE i + 1, vals |-> V[i]]
  BY <1>1, <1>5, StraightParts
<1>7. ASSUME NEW i \in 1 .. N
      PROVE  /\ l.nodes[i] = [prev |-> i - 1, next |-> IF i = N THEN 0 ELSE i + 1, vals |-> Piece(b[i], b[i + 1])]
             /\ Size(l, i) = b[i + 1] - b[i]
  <2>1. l.nodes[i] = [prev |-> i - 1, next |-> IF i = N THEN 0 ELSE i + 1, vals |-> Piece(b[i], b[i + 1])]
    BY <1>4, <1>6
  <2>2. l.nodes[i].vals = Piece(b[i], b[i + 1]) BY <2>1
  <2>3. Len(Piece(b[i], b[i + 1])) = b[i + 1] - b[i] BY <1>2, PieceType
  <2>4. QED BY <2>1, <2>2, <2>3 DEF Size
<1>8. QED BY <1>1, <1>2, <1>5, <1>6, <1>7 DEF N, l, s, V

\* The list with room for a value in the node k, behind i others.
Opening(b, k, i) == [Opened(Shape(b), b[k] + i) EXCEPT !.size = @ + 1]

OpenPieces(b, r) == [j \in 1 .. Count(b) |-> OpenVals(Pieces(b)[j], r)]

LEMMA OpeningIs ==
  ASSUME NEW b, MarkSeq(b), NEW k \in 1 .. Count(b), NEW i \in 0 .. b[k + 1] - b[k]
  PROVE  /\ Linked(Opening(b, k, i), Upto(Count(b)), b[Len(b)] + 1, OpenPieces(b, b[k] + i))
         /\ Opening(b, k, i).nodes[k].vals = OpenPieces(b, b[k] + i)[k]
         /\ \A j \in 1 .. Count(b) : j # k =>
              OpenPieces(b, b[k] + i)[j] = Piece(OpenMarks(b, k)[j], OpenMarks(b, k)[j + 1])
         /\ InsertAt(OpenPieces(b, b[k] + i)[k], i + 1, (b[k] + i) + 1)
              = Piece(OpenMarks(b, k)[k], OpenMarks(b, k)[k + 1])
<1> DEFINE N == Count(b)
           r == b[k] + i
           s == b[Len(b)]
           W == OpenPieces(b, r)
           c == OpenMarks(b, k)
           o == Upto(N)
           X == Opened(Shape(b), r)
<1>1. /\ N \in Nat /\ Len(b) = N + 1 /\ Linked(Shape(b), o, s, Pieces(b)) /\ Len(o) = N
      /\ \A j \in 1 .. N : b[j] \in Nat /\ b[j + 1] \in Nat /\ b[j] <= b[j + 1]
  BY ShapeParts, NthUpto
<1>2. Linked(X, o, s, W)
  <2>1. Linked(X, o, s, [j \in 1 .. Len(o) |-> OpenVals(Pieces(b)[j], r)])
    <3> HIDE DEF r, o, s
    <3> QED BY <1>1, OpenedIs
  <2>2. QED BY <1>1, <2>1 DEF OpenPieces
<1>3. X.size = s
  <2> DEFINE h == Nth(o, 1)
             a == Nth(o, Len(o))
             m == Len(o)
             q == X.nodes
  <2>1. X = Record(h, a, s, m, q) BY <1>2 DEF Linked
  <2> HIDE DEF h, a, s, m, q, X
  <2>2. QED BY <2>1, Parts
<1>4. Opening(b, k, i) = WithSize(X, s + 1) BY <1>3 DEF Opening, WithSize
<1>5. Linked(Opening(b, k, i), o, s + 1, W)
  <2> HIDE DEF X, o, s, W
  <2> QED BY <1>2, <1>4, SizeSet
<1>6. Opening(b, k, i).nodes[k].vals = W[k]
  <2>1. Opening(b, k, i).nodes[o[k]] = NodeOf(o, W, k) /\ o[k] = k BY <1>1, <1>5, NthUpto DEF Linked
  <2>2. QED BY <2>1 DEF NodeOf
<1>7. \A j \in 1 .. N + 1 : c[j] = IF j > k THEN b[j] + 1 ELSE b[j] BY <1>1, OpenMarksAre
<1>8. \A j \in 1 .. N : W[j] = OpenVals(Piece(b[j], b[j + 1]), r) BY DEF OpenPieces, Pieces
<1>9. r \in Nat /\ b[k] \in Nat /\ b[k + 1] \in Nat /\ b[k] <= b[k + 1] /\ i \in 0 .. b[k + 1] - b[k] BY <1>1
<1> HIDE DEF W, c
<1>10. ASSUME NEW j \in 1 .. N, j # k PROVE W[j] = Piece(c[j], c[j + 1])
  <2>1. b[j] \in Nat /\ b[j + 1] \in Nat /\ b[j] <= b[j + 1] BY <1>1
  <2>2. CASE j < k
    <3>1. j + 1 \in 1 .. Len(b) /\ k \in 1 .. Len(b) /\ j + 1 <= k BY <1>1, <2>2
    <3>2. b[j + 1] <= b[k] BY <3>1, MarksRise
    <3>3. b[j + 1] <= r BY <1>9, <2>1, <3>2
    <3> HIDE DEF r
    <3>4. OpenVals(Piece(b[j], b[j + 1]), r) = Piece(b[j], b[j + 1])
      <4>1. r \in Nat BY <1>9
      <4>2. QED BY ONLY <2>1, <3>3, <4>1, OpenPiece
    <3>5. W[j] = Piece(b[j], b[j + 1]) BY <1>8, <3>4
    <3>6. c[j] = b[j] /\ c[j + 1] = b[j + 1] BY <1>1, <1>7, <2>2
    <3>7. QED BY <3>5, <3>6
  <2>3. CASE j > k
    <3>1. k + 1 \in 1 .. Len(b) /\ j \in 1 .. Len(b) /\ k + 1 <= j BY <1>1, <2>3
    <3>2. b[k + 1] <= b[j] BY <3>1, MarksRise
    <3>3. r <= b[j] BY <1>9, <2>1, <3>2
    <3> HIDE DEF r
    <3>4. OpenVals(Piece(b[j], b[j + 1]), r) = Piece(b[j] + 1, b[j + 1] + 1)
      <4>1. r \in Nat BY <1>9
      <4>2. QED BY ONLY <2>1, <3>3, <4>1, OpenPiece
    <3>5. W[j] = Piece(b[j] + 1, b[j + 1] + 1) BY <1>8, <3>4
    <3>6. c[j] = b[j] + 1 /\ c[j + 1] = b[j + 1] + 1 BY <1>1, <1>7, <2>3
    <3>7. QED BY <3>5, <3>6
  <2>4. QED BY <1>10, <2>2, <2>3
<1>11. InsertAt(W[k], i + 1, r + 1) = Piece(c[k], c[k + 1])
  <2>1. W[k] = OpenVals(Piece(b[k], b[k + 1]), b[k] + i) BY <1>8
  <2>2. InsertAt(OpenVals(Piece(b[k], b[k + 1]), b[k] + i), i + 1, (b[k] + i) + 1) = Piece(b[k], b[k + 1] + 1)
    BY <1>9, InsertPiece
  <2>3. c[k] = b[k] /\ c[k + 1] = b[k + 1] + 1 BY <1>1, <1>7
  <2>4. QED BY <2>1, <2>2, <2>3
<1>12. QED BY <1>5, <1>6, <1>10, <1>11 DEF W, c

\* The value is put into a node that has room for it.
LEMMA PlainInsert ==
  ASSUME NEW b, MarkSeq(b), NEW k \in 1 .. Count(b), NEW i \in 0 .. b[k + 1] - b[k],
         NEW v, v = Piece(OpenMarks(b, k)[k], OpenMarks(b, k)[k + 1]), NEW cs
  PROVE  Renumbered([list |-> [Opening(b, k, i) EXCEPT !.nodes[k].vals = v], cursors |-> cs])
           = [list |-> Shape(OpenMarks(b, k)),
              cursors |-> [x \in DOMAIN cs |-> [cs[x] EXCEPT !.node = Named(Upto(Count(b)), @)]]]
<1> DEFINE N == Count(b)
           o == Upto(N)
           c == OpenMarks(b, k)
           W == OpenPieces(b, b[k] + i)
           O == Opening(b, k, i)
           s == b[Len(b)] + 1
           V == Put(W, Len(o), k, v)
           l == [O EXCEPT !.nodes[k].vals = v]
<1>1. Linked(O, o, s, W) /\ \A j \in 1 .. N : j # k => W[j] = Piece(c[j], c[j + 1]) BY OpeningIs
<1>2. N \in Nat /\ Len(b) = N + 1 /\ Len(o) = N /\ k \in 1 .. Len(o) /\ o[k] = k BY ShapeParts, NthUpto
<1>3. MarkSeq(c) /\ Len(c) = N + 1 /\ c[N + 1] = s
  <2>1. MarkSeq(c) /\ Len(c) = N + 1 /\ \A j \in 1 .. N + 1 : c[j] = IF j > k THEN b[j] + 1 ELSE b[j]
    BY <1>2, OpenMarksAre
  <2>2. QED BY <1>2, <2>1
<1>4. \A j \in 1 .. N : V[j] = Piece(c[j], c[j + 1]) BY <1>1, <1>2 DEF Put
<1> HIDE DEF O, W, s, V, c
<1>5. Linked(l, o, s, V)
  <2> HIDE DEF o
  <2>1. Linked([O EXCEPT !.nodes[o[k]].vals = v], o, s, V) BY <1>1, <1>2, ValuesSet DEF V
  <2>2. QED BY <1>2, <2>1
<1> HIDE DEF l, o
<1>6. Renumbered([list |-> l, cursors |-> cs])
        = [list |-> Shape(c), cursors |-> [x \in DOMAIN cs |-> [cs[x] EXCEPT !.node = Named(o, @)]]]
  <2>1. Len(c) = Len(o) + 1 /\ s = c[Len(c)] /\ MarkSeq(c) BY <1>2, <1>3
  <2>2. \A j \in 1 .. Len(o) : V[j] = Piece(c[j], c[j + 1]) BY <1>2, <1>4
  <2>3. QED BY ONLY <1>5, <2>1, <2>2, BecomesShape
<1>7. QED BY <1>6 DEF l, o, O, c

\* The node k is full: a new one is put behind it.
Splitting(b, k, i) == NodeBehind(Opening(b, k, i), k)

LEMMA SplittingIs ==
  ASSUME NEW b, MarkSeq(b), NEW k \in 1 .. Count(b), NEW i \in 0 .. b[k + 1] - b[k]
  PROVE  /\ Linked(Splitting(b, k, i), Wedge(Count(b), k), b[Len(b)] + 1,
                   Wedged(OpenPieces(b, b[k] + i), Count(b), k, << >>))
         /\ Splitting(b, k, i).nodes[k].next = Count(b) + 1
         /\ Mid(Splitting(b, k, i), k) = IF k = Count(b) THEN NodeCapacity
                                         ELSE IF k = 1 THEN 1 ELSE (NodeCapacity + 2) \div 2
<1> DEFINE N == Count(b)
           o == Wedge(N, k)
           s == b[Len(b)] + 1
           W == OpenPieces(b, b[k] + i)
           O == Opening(b, k, i)
           S == NodeBehind(O, k)
           V == Wedged(W, N, k, << >>)
<1>1. N \in Nat BY ShapeParts
<1>2. Linked(O, Upto(N), s, W) BY OpeningIs
<1> HIDE DEF N, s, W, O
<1>3. k \in 1 .. N BY DEF N
<1>4. Linked(S, o, s, V) /\ S.nodes[k].next = N + 1 BY <1>1, <1>2, <1>3, NodeBehindIs
<1>5. Len(o) = N + 1 /\ \A j \in 1 .. N + 1 : o[j] = IF j <= k THEN j ELSE IF j = k + 1 THEN N + 1 ELSE j - 1
  BY <1>1, <1>3, WedgeChain
<1>6. S.first = 1 /\ S.last = IF k = N THEN N + 1 ELSE N
  <2> DEFINE f == Nth(o, 1)
             a == Nth(o, Len(o))
             m == Len(o)
             q == S.nodes
  <2>1. S = Record(f, a, s, m, q) BY <1>4 DEF Linked
  <2>2. f = 1 /\ a = IF k = N THEN N + 1 ELSE N BY <1>1, <1>3, <1>5 DEF Nth
  <2> HIDE DEF f, a, m, q, S
  <2>3. S.first = f /\ S.last = a BY <2>1, Parts
  <2>4. QED BY <2>2, <2>3
<1> HIDE DEF S
<1>7. Mid(S, k) = IF k = N THEN NodeCapacity ELSE IF k = 1 THEN 1 ELSE (NodeCapacity + 2) \div 2
  <2>1. CASE k = N BY <1>1, <1>3, <1>4, <1>6, <2>1 DEF Mid
  <2>2. CASE k # N
    <3>1. S.nodes[k].next # S.last BY <1>1, <1>3, <1>4, <1>6, <2>2
    <3>2. QED BY <1>6, <2>2, <3>1 DEF Mid
  <2>3. QED BY <2>1, <2>2
<1>8. QED BY <1>4, <1>7 DEF S, O, W, N, s, Splitting, V, o

\* The first mid of the values v are in the node k, the others in m.
Halves(l, k, m, v, mid) ==
  [l EXCEPT !.nodes[k].vals = SubSeq(v, 1, mid), !.nodes[m].vals = SubSeq(v, mid + 1, Len(v))]

LEMMA SplitInsert ==
  ASSUME NEW b, MarkSeq(b), NEW k \in 1 .. Count(b), NEW i \in 0 .. b[k + 1] - b[k],
         NEW v, v = Piece(OpenMarks(b, k)[k], OpenMarks(b, k)[k + 1]),
         NEW mid \in 0 .. (b[k + 1] - b[k]) + 1, NEW cs
  PROVE  Renumbered([list |-> Halves(Splitting(b, k, i), k, Count(b) + 1, v, mid), cursors |-> cs])
           = [list |-> Shape(SplitMarks(OpenMarks(b, k), k, mid)),
              cursors |-> [x \in DOMAIN cs |-> [cs[x] EXCEPT !.node = Named(Wedge(Count(b), k), @)]]]
<1> DEFINE N == Count(b)
           o == Wedge(N, k)
           c == OpenMarks(b, k)
           d == SplitMarks(c, k, mid)
           W == OpenPieces(b, b[k] + i)
           S == Splitting(b, k, i)
           s == b[Len(b)] + 1
           U == Wedged(W, N, k, << >>)
           p == SubSeq(v, 1, mid)
           q == SubSeq(v, mid + 1, Len(v))
           V == Put(U, Len(o), k, p)
           Y == Put(V, Len(o), k + 1, q)
           l == [S EXCEPT !.nodes[k].vals = p]
           m == [l EXCEPT !.nodes[N + 1].vals = q]
<1>1. /\ N \in Nat /\ Len(b) = N + 1
      /\ b[k] \in Nat /\ b[k + 1] \in Nat /\ b[k] <= b[k + 1]
  BY ShapeParts
<1>2. Linked(S, o, s, U) BY SplittingIs
<1>3. Len(o) = N + 1 /\ o[k] = k /\ o[k + 1] = N + 1 /\ k \in 1 .. Len(o) /\ k + 1 \in 1 .. Len(o)
  <2>1. k \in 1 .. N OBVIOUS
  <2> HIDE DEF N, o
  <2>2. Len(o) = N + 1 /\ \A j \in 1 .. N + 1 : o[j] = IF j <= k THEN j ELSE IF j = k + 1 THEN N + 1 ELSE j - 1
    BY <1>1, <2>1, WedgeChain DEF o
  <2>3. k \in 1 .. N + 1 /\ k + 1 \in 1 .. N + 1 BY <1>1, <2>1
  <2>4. QED BY <2>2, <2>3
<1>4. MarkSeq(c) /\ Len(c) = N + 1 /\ \A j \in 1 .. N + 1 : c[j] = IF j > k THEN b[j] + 1 ELSE b[j]
  BY <1>1, OpenMarksAre
<1>5. c[k] = b[k] /\ c[k + 1] = b[k + 1] + 1 /\ c[N + 1] = s BY <1>1, <1>4
<1>6. MarkSeq(d) /\ Len(d) = N + 2
      /\ \A j \in 1 .. N + 2 : d[j] = IF j <= k THEN c[j] ELSE IF j = k + 1 THEN c[k] + mid ELSE c[j - 1]
  <2>1. mid \in Nat /\ c[k] + mid <= c[k + 1] /\ k \in 1 .. Count(c) BY <1>1, <1>4, <1>5 DEF Count
  <2>2. (N + 1) + 1 = N + 2 BY <1>1
  <2> HIDE DEF c
  <2>3. QED BY <1>4, <2>1, <2>2, SplitMarksAre
<1>7. d[N + 2] = s BY <1>1, <1>5, <1>6
<1>8. p = Piece(c[k], c[k] + mid) /\ q = Piece(c[k] + mid, c[k + 1])
  <2>1. c[k] \in Nat /\ c[k + 1] \in Nat /\ c[k] <= c[k + 1] /\ mid \in 0 .. c[k + 1] - c[k] BY <1>1, <1>5
  <2> DEFINE x == c[k]
             y == c[k + 1]
  <2>2. v = Piece(x, y) OBVIOUS
  <2>3. x \in Nat /\ y \in Nat /\ x <= y /\ mid \in 0 .. y - x BY <2>1
  <2> HIDE DEF c, x, y
  <2>4. /\ SubSeq(Piece(x, y), 1, mid) = Piece(x, x + mid)
        /\ SubSeq(Piece(x, y), mid + 1, Len(Piece(x, y))) = Piece(x + mid, y)
    BY <2>3, SplitPiece
  <2>5. p = Piece(x, x + mid) /\ q = Piece(x + mid, y) BY ONLY <2>2, <2>4 DEF p, q
  <2>6. QED BY <2>5 DEF x, y
<1>9. \A j \in 1 .. N : j # k => W[j] = Piece(c[j], c[j + 1]) BY OpeningIs
<1>10. \A j \in 1 .. N + 1 : U[j] = IF j <= k THEN W[j] ELSE IF j = k + 1 THEN << >> ELSE W[j - 1]
  BY DEF Wedged
<1>11. \A j \in 1 .. N + 1 : Y[j] = IF j = k + 1 THEN q ELSE IF j = k THEN p ELSE U[j] BY <1>3 DEF Put
<1> HIDE DEF U, Y, p, q, W, c, d, s, S, o
<1>12. ASSUME NEW j \in 1 .. N + 1 PROVE Y[j] = Piece(d[j], d[j + 1])
  <2>1. j \in 1 .. N + 2 /\ j + 1 \in 1 .. N + 2 /\ (j + 1) - 1 = j BY <1>1
  <2>2. CASE j < k
    <3>1. Y[j] = W[j] /\ j \in 1 .. N BY <1>1, <1>10, <1>11, <2>2
    <3>2. d[j] = c[j] /\ d[j + 1] = c[j + 1] BY <1>6, <2>1, <2>2
    <3>3. QED BY <1>9, <2>2, <3>1, <3>2
  <2>3. CASE j = k
    <3>1. Y[j] = p BY <1>11, <2>3
    <3>2. d[j] = c[k] /\ d[j + 1] = c[k] + mid BY <1>6, <2>1, <2>3
    <3>3. QED BY <1>8, <3>1, <3>2
  <2>4. CASE j = k + 1
    <3>1. Y[j] = q BY <1>11, <2>4
    <3>2. d[j] = c[k] + mid /\ d[j + 1] = c[j] BY <1>6, <2>1, <2>4
    <3>3. QED BY <1>8, <2>4, <3>1, <3>2
  <2>5. CASE j > k + 1
    <3>1. Y[j] = W[j - 1] /\ j - 1 \in 1 .. N /\ j - 1 # k /\ (j - 1) + 1 = j BY <1>1, <1>10, <1>11, <2>5
    <3>2. d[j] = c[j - 1] /\ d[j + 1] = c[j] BY <1>6, <2>1, <2>5
    <3>3. W[j - 1] = Piece(c[j - 1], c[(j - 1) + 1]) BY <1>9, <3>1
    <3>4. QED BY <3>1, <3>2, <3>3
  <2>6. QED BY <2>2, <2>3, <2>4, <2>5
<1>13. Linked(l, o, s, V)
  <2>1. Linked([S EXCEPT !.nodes[o[k]].vals = p], o, s, V) BY <1>2, <1>3, ValuesSet DEF V
  <2>2. QED BY <1>3, <2>1
<1> HIDE DEF l, V
<1>14. Linked(m, o, s, Y)
  <2>1. Linked([l EXCEPT !.nodes[o[k + 1]].vals = q], o, s, Y) BY <1>3, <1>13, ValuesSet DEF Y
  <2>2. QED BY <1>3, <2>1
<1>15. Halves(S, k, N + 1, v, mid) = m BY DEF Halves, l, m, p, q
<1> HIDE DEF m
<1>16. Renumbered([list |-> m, cursors |-> cs])
        = [list |-> Shape(d), cursors |-> [x \in DOMAIN cs |-> [cs[x] EXCEPT !.node = Named(o, @)]]]
  <2>1. Len(d) = Len(o) + 1 /\ s = d[Len(d)] BY <1>1, <1>3, <1>6, <1>7
  <2>2. \A j \in 1 .. Len(o) : Y[j] = Piece(d[j], d[j + 1]) BY <1>3, <1>12
  <2>3. MarkSeq(d) BY <1>6
  <2>4. QED BY ONLY <1>14, <2>1, <2>2, <2>3, BecomesShape
<1>17. QED BY <1>15, <1>16 DEF S, o, d, c, N

-----------------------------------------------------------------------------
(* erase_at                                                                *)

\* The list without the value behind the first i of the node k.
Closing(b, k, i) ==
  Closed([Shape(b) EXCEPT !.size = @ - 1, !.nodes[k].vals = RemoveAt(@, i + 1)], b[k] + i + 1)

\* The list l has the nodes and the values that marks describe.
Shaped(l, b) == Linked(l, Upto(Count(b)), b[Len(b)], Pieces(b))

LEMMA ShapedParts ==
  ASSUME NEW b, MarkSeq(b), NEW l, Shaped(l, b)
  PROVE  /\ Count(b) \in Nat /\ Len(b) = Count(b) + 1
         /\ l.first = (IF Count(b) = 0 THEN 0 ELSE 1)
         /\ l.last = Count(b) /\ l.size = b[Len(b)]
         /\ DOMAIN l.nodes = 1 .. Count(b)
         /\ \A i \in 1 .. Count(b) :
              /\ b[i] \in Nat /\ b[i + 1] \in Nat /\ b[i] <= b[i + 1]
              /\ l.nodes[i] = [prev |-> i - 1, next |-> IF i = Count(b) THEN 0 ELSE i + 1,
                               vals |-> Piece(b[i], b[i + 1])]
              /\ l.nodes[i].vals = Piece(b[i], b[i + 1])
              /\ Size(l, i) = b[i + 1] - b[i]
<1> DEFINE N == Count(b)
           s == b[Len(b)]
           V == Pieces(b)
<1>1. N \in Nat /\ Len(b) = N + 1 /\ \A i \in 1 .. N : b[i] \in Nat /\ b[i + 1] \in Nat /\ b[i] <= b[i + 1]
  BY ShapeParts
<1>2. \A i \in 1 .. N : V[i] = Piece(b[i], b[i + 1]) BY DEF Pieces
<1>3. Linked(l, Upto(N), s, V) BY DEF Shaped
<1> HIDE DEF N, s, V
<1>4. /\ l.first = (IF N = 0 THEN 0 ELSE 1) /\ l.last = N /\ l.size = s
      /\ DOMAIN l.nodes = 1 .. N
      /\ \A i \in 1 .. N : l.nodes[i] = [prev |-> i - 1, next |-> IF i = N THEN 0 ELSE i + 1, vals |-> V[i]]
  BY <1>1, <1>3, StraightParts
<1>5. ASSUME NEW i \in 1 .. N
      PROVE  /\ l.nodes[i] = [prev |-> i - 1, next |-> IF i = N THEN 0 ELSE i + 1, vals |-> Piece(b[i], b[i + 1])]
             /\ l.nodes[i].vals = Piece(b[i], b[i + 1])
             /\ Size(l, i) = b[i + 1] - b[i]
  <2>1. l.nodes[i] = [prev |-> i - 1, next |-> IF i = N THEN 0 ELSE i + 1, vals |-> Piece(b[i], b[i + 1])]
    BY <1>2, <1>4
  <2>2. l.nodes[i].vals = Piece(b[i], b[i + 1]) BY <2>1
  <2>3. Len(Piece(b[i], b[i + 1])) = b[i + 1] - b[i] BY <1>1, PieceType
  <2>4. QED BY <2>1, <2>2, <2>3 DEF Size
<1>6. QED BY <1>1, <1>4, <1>5 DEF N, s, V

LEMMA ClosingIs ==
  ASSUME NEW b, MarkSeq(b), NEW k \in 1 .. Count(b), NEW i \in 0 .. b[k + 1] - b[k] - 1
  PROVE  Shaped(Closing(b, k, i), CloseMarks(b, k))
<1> DEFINE N == Count(b)
           e == b[k] + i + 1
           s == b[Len(b)]
           V == Pieces(b)
           c == CloseMarks(b, k)
           o == Upto(N)
           l == Shape(b)
           v == RemoveAt(Piece(b[k], b[k + 1]), i + 1)
           W == Put(V, Len(o), k, v)
           m == WithSize(l, s - 1)
           X == [m EXCEPT !.nodes[k].vals = v]
           Y == [j \in 1 .. Len(o) |-> CloseVals(W[j], e)]
<1>1. /\ N \in Nat /\ Len(b) = N + 1 /\ Linked(l, o, s, V) /\ Len(o) = N /\ o[k] = k
      /\ l.size = s /\ l.nodes[k].vals = Piece(b[k], b[k + 1])
      /\ \A j \in 1 .. N : b[j] \in Nat /\ b[j + 1] \in Nat /\ b[j] <= b[j + 1]
  <2>1. /\ N \in Nat /\ Len(b) = N + 1 /\ Linked(l, o, s, V) /\ Len(o) = N /\ o[k] = k /\ l.size = s
        /\ \A j \in 1 .. N : b[j] \in Nat /\ b[j + 1] \in Nat /\ b[j] <= b[j + 1]
    BY ShapeParts, NthUpto
  <2>2. l.nodes[k] = [prev |-> k - 1, next |-> IF k = N THEN 0 ELSE k + 1, vals |-> Piece(b[k], b[k + 1])]
    BY ShapeParts
  <2>3. QED BY <2>1, <2>2
<1>2. [l EXCEPT !.size = @ - 1, !.nodes[k].vals = RemoveAt(@, i + 1)] = X
  <2> HIDE DEF s, l
  <2>1. [l EXCEPT !.size = @ - 1, !.nodes[k].vals = RemoveAt(@, i + 1)]
          = [l EXCEPT !.size = s - 1, !.nodes[k].vals = v]
    BY <1>1
  <2> HIDE DEF v
  <2>2. QED BY <2>1 DEF WithSize
<1>3. \A j \in 1 .. N : V[j] = Piece(b[j], b[j + 1]) BY DEF Pieces
<1>4. b[k] \in Nat /\ b[k + 1] \in Nat /\ b[k] < b[k + 1] /\ e \in Nat /\ k \in 1 .. N BY <1>1
<1>5. MarkSeq(c) /\ Len(c) = N + 1 /\ \A j \in 1 .. N + 1 : c[j] = IF j > k THEN b[j] - 1 ELSE b[j]
  <2>1. MarkSeq(c) /\ Len(c) = Len(b) /\ \A j \in 1 .. Len(b) : c[j] = IF j > k THEN b[j] - 1 ELSE b[j]
    BY ONLY <1>4, MarkSeq(b), CloseMarksAre
  <2>2. QED BY ONLY <1>1, <2>1
<1>6. c[N + 1] = s - 1 BY <1>1, <1>5
<1>7. \A j \in 1 .. N : Y[j] = IF j = k THEN CloseVals(v, e) ELSE CloseVals(V[j], e) BY <1>1 DEF Put
<1>8. CloseVals(v, e) = Piece(c[k], c[k + 1])
  <2>1. c[k] = b[k] /\ c[k + 1] = b[k + 1] - 1 BY <1>1, <1>5
  <2>2. CloseVals(v, e) = Piece(b[k], b[k + 1] - 1) BY <1>4, RemovePiece
  <2>3. QED BY <2>1, <2>2
<1> HIDE DEF c, e, v
<1>9. ASSUME NEW j \in 1 .. N, j # k PROVE CloseVals(V[j], e) = Piece(c[j], c[j + 1])
  <2>1. b[j] \in Nat /\ b[j + 1] \in Nat /\ b[j] <= b[j + 1] /\ e \in Nat BY <1>1, <1>4
  <2>2. CASE j < k
    <3>1. j + 1 \in 1 .. Len(b) /\ k \in 1 .. Len(b) /\ j + 1 <= k BY <1>1, <2>2
    <3>2. b[j + 1] <= b[k] BY <3>1, MarksRise
    <3>3. b[j + 1] <= e BY <1>4, <2>1, <3>2 DEF e
    <3>4. CloseVals(Piece(b[j], b[j + 1]), e) = Piece(b[j], b[j + 1]) BY ONLY <2>1, <3>3, ClosePiece
    <3>5. c[j] = b[j] /\ c[j + 1] = b[j + 1] BY <1>1, <1>5, <2>2
    <3>6. QED BY <1>3, <3>4, <3>5
  <2>3. CASE j > k
    <3>1. k + 1 \in 1 .. Len(b) /\ j \in 1 .. Len(b) /\ k + 1 <= j BY <1>1, <2>3
    <3>2. b[k + 1] <= b[j] BY <3>1, MarksRise
    <3>3. e <= b[j] /\ 1 <= b[j] BY <1>4, <2>1, <3>2 DEF e
    <3>4. CloseVals(Piece(b[j], b[j + 1]), e) = Piece(b[j] - 1, b[j + 1] - 1) BY ONLY <2>1, <3>3, ClosePiece
    <3>5. c[j] = b[j] - 1 /\ c[j + 1] = b[j + 1] - 1 BY <1>1, <1>5, <2>3
    <3>6. QED BY <1>3, <3>4, <3>5
  <2>4. QED BY <1>9, <2>2, <2>3
<1>10. \A j \in 1 .. N : Y[j] = Pieces(c)[j]
  <2>1. Count(c) = N BY <1>1, <1>5 DEF Count
  <2>2. QED BY <1>7, <1>8, <1>9, <2>1 DEF Pieces
<1> HIDE DEF o, s, V, l
<1>11. Linked(m, o, s - 1, V) BY <1>1, SizeSet
<1> HIDE DEF m
<1>12. Linked(X, o, s - 1, W)
  <2>1. k \in 1 .. Len(o) BY <1>1, <1>4
  <2>2. Linked([m EXCEPT !.nodes[o[k]].vals = v], o, s - 1, W) BY <1>11, <2>1, ValuesSet
  <2>3. QED BY <1>1, <2>2
<1> HIDE DEF X, W
<1>13. Linked(Closed(X, e), o, s - 1, Y) BY <1>12, ClosedIs
<1>14. Linked(Closed(X, e), o, s - 1, Pieces(c))
  <2> HIDE DEF Y
  <2> QED BY <1>1, <1>10, <1>13, LinkedSame
<1>15. Closing(b, k, i) = Closed(X, e) BY <1>2 DEF Closing, e, l
<1>16. Count(c) = N /\ c[Len(c)] = s - 1 BY <1>1, <1>5, <1>6 DEF Count
<1>17. QED BY <1>14, <1>15, <1>16 DEF Shaped, o, c

\* Nothing is moved.
LEMMA KeepNodes ==
  ASSUME NEW c, MarkSeq(c), NEW l, Shaped(l, c), NEW cs
  PROVE  Renumbered([list |-> l, cursors |-> cs])
           = [list |-> Shape(c), cursors |-> [x \in DOMAIN cs |-> [cs[x] EXCEPT !.node = Named(Upto(Count(c)), @)]]]
<1> DEFINE o == Upto(Count(c))
<1>1. Count(c) \in Nat /\ Len(c) = Count(c) + 1 /\ Len(o) = Count(c) BY ShapeParts, NthUpto
<1>2. \A j \in 1 .. Len(o) : Pieces(c)[j] = Piece(c[j], c[j + 1]) BY <1>1 DEF Pieces
<1>3. Linked(l, o, c[Len(c)], Pieces(c)) BY DEF Shaped
<1>4. Len(c) = Len(o) + 1 BY <1>1
<1> HIDE DEF o
<1>5. Renumbered([list |-> l, cursors |-> cs])
        = [list |-> Shape(c), cursors |-> [x \in DOMAIN cs |-> [cs[x] EXCEPT !.node = Named(o, @)]]]
  BY <1>2, <1>3, <1>4, BecomesShape
<1>6. QED BY <1>5 DEF o

\* The first or the last node is empty and destroyed.
LEMMA DropNode ==
  ASSUME NEW c, MarkSeq(c), NEW l, Shaped(l, c), NEW k \in 1 .. Count(c), c[k] = c[k + 1], NEW cs
  PROVE  Renumbered([list |-> DestroyNode(l, k), cursors |-> cs])
           = [list |-> Shape(DropMark(c, k + 1)),
              cursors |-> [x \in DOMAIN cs |-> [cs[x] EXCEPT !.node = Named(Gap(Count(c), k), @)]]]
<1> DEFINE N == Count(c)
           o == Gap(N, k)
           d == DropMark(c, k + 1)
           s == c[Len(c)]
           V == Pieces(c)
           W == Gapped(V, N, k)
           m == DestroyNode(l, k)
<1>1. N \in Nat /\ Len(c) = N + 1 BY ShapeParts
<1>2. Linked(l, Upto(N), s, V) BY DEF Shaped
<1>3. Linked(m, o, s, W) BY <1>1, <1>2, DestroyNodeIs
<1>4. Len(o) = N - 1 BY <1>1, GapChain
<1>5. MarkSeq(d) /\ Len(d) = N /\ \A j \in 1 .. N : d[j] = IF j < k + 1 THEN c[j] ELSE c[j + 1]
  <2>1. k + 1 \in 2 .. Len(c) /\ Len(c) - 1 = N BY <1>1
  <2>2. QED BY <2>1, DropMarkIs
<1>6. d[N] = s BY <1>1, <1>5
<1>7. \A j \in 1 .. N : V[j] = Piece(c[j], c[j + 1]) BY DEF Pieces
<1>8. \A j \in 1 .. N - 1 : W[j] = IF j < k THEN V[j] ELSE V[j + 1] BY DEF Gapped
<1> HIDE DEF d, V, W, o, m, s
<1>9. ASSUME NEW j \in 1 .. N - 1 PROVE W[j] = Piece(d[j], d[j + 1])
  <2>1. j \in 1 .. N /\ j + 1 \in 1 .. N BY <1>1
  <2>2. CASE j < k
    <3>1. d[j] = c[j] /\ d[j + 1] = c[j + 1] BY <1>5, <2>1, <2>2
    <3>2. QED BY <1>7, <1>8, <2>1, <2>2, <3>1
  <2>3. CASE j = k
    <3>1. d[j] = c[j + 1] /\ d[j + 1] = c[(j + 1) + 1] BY <1>5, <2>1, <2>3
    <3>2. W[j] = V[j + 1] BY <1>8, <2>3
    <3>3. QED BY <1>7, <2>1, <3>1, <3>2
  <2>4. CASE j > k
    <3>1. d[j] = c[j + 1] /\ d[j + 1] = c[(j + 1) + 1] BY <1>5, <2>1, <2>4
    <3>2. W[j] = V[j + 1] BY <1>8, <2>4
    <3>3. QED BY <1>7, <2>1, <3>1, <3>2
  <2>5. QED BY <2>2, <2>3, <2>4
<1>10. Len(d) = Len(o) + 1 /\ s = d[Len(d)] BY <1>1, <1>4, <1>5, <1>6
<1>11. \A j \in 1 .. Len(o) : W[j] = Piece(d[j], d[j + 1]) BY <1>4, <1>9
<1>12. Renumbered([list |-> m, cursors |-> cs])
        = [list |-> Shape(d), cursors |-> [x \in DOMAIN cs |-> [cs[x] EXCEPT !.node = Named(o, @)]]]
  BY <1>3, <1>5, <1>10, <1>11, BecomesShape
<1>13. QED BY <1>12 DEF d, o, m

\* The node k takes over the first value of the node n, or all of them.
Taken(l, k, n) ==
  [l EXCEPT !.nodes[k].vals = Append(@, Head(l.nodes[n].vals)), !.nodes[n].vals = Tail(l.nodes[n].vals)]
Joined(l, k, n) == [l EXCEPT !.nodes[k].vals = @ \o l.nodes[n].vals]

\* One value of the next node is taken over.
LEMMA StealNode ==
  ASSUME NEW c, MarkSeq(c), NEW l, Shaped(l, c), NEW k \in 1 .. Count(c) - 1, c[k + 1] < c[k + 2], NEW cs
  PROVE  Renumbered([list |-> Taken(l, k, k + 1), cursors |-> cs])
           = [list |-> Shape(StealMarks(c, k)),
              cursors |-> [x \in DOMAIN cs |-> [cs[x] EXCEPT !.node = Named(Upto(Count(c)), @)]]]
<1> DEFINE N == Count(c)
           o == Upto(N)
           d == StealMarks(c, k)
           s == c[Len(c)]
           V == Pieces(c)
           x == c[k]
           y == c[k + 1]
           z == c[k + 2]
           p == Piece(x, y + 1)
           q == Piece(y + 1, z)
           W == Put(V, Len(o), k, p)
           Y == Put(W, Len(o), k + 1, q)
           m == [l EXCEPT !.nodes[k].vals = p]
           t == [m EXCEPT !.nodes[k + 1].vals = q]
<1>1. /\ N \in Nat /\ Len(c) = N + 1 /\ Len(o) = N /\ o[k] = k /\ o[k + 1] = k + 1
      /\ k \in 1 .. N /\ k + 1 \in 1 .. N /\ k \in 1 .. Len(o) /\ k + 1 \in 1 .. Len(o)
  <2>1. N \in Nat /\ Len(c) = N + 1 BY ShapeParts
  <2>2. k \in 1 .. N /\ k + 1 \in 1 .. N BY <2>1
  <2>3. Len(o) = N /\ \A j \in 1 .. N : o[j] = j BY <2>1, NthUpto
  <2>4. QED BY <2>1, <2>2, <2>3
<1>2. x \in Nat /\ y \in Nat /\ z \in Nat /\ x <= y /\ y < z
  <2>1. \A j \in 1 .. N : c[j] \in Nat /\ c[j + 1] \in Nat /\ c[j] <= c[j + 1] BY ShapeParts
  <2>2. (k + 1) + 1 = k + 2 OBVIOUS
  <2>3. c[(k + 1) + 1] \in Nat BY <1>1, <2>1
  <2>4. QED BY <1>1, <2>1, <2>2, <2>3
<1>3. l.nodes[k].vals = Piece(x, y) /\ l.nodes[k + 1].vals = Piece(y, z)
  <2>1. (k + 1) + 1 = k + 2 OBVIOUS
  <2>2. \A j \in 1 .. N : l.nodes[j].vals = Piece(c[j], c[j + 1]) BY ShapedParts
  <2>3. k \in 1 .. N /\ k + 1 \in 1 .. N BY <1>1
  <2> HIDE DEF N
  <2>4. l.nodes[k + 1].vals = Piece(c[k + 1], c[(k + 1) + 1]) BY <2>2, <2>3
  <2>5. l.nodes[k].vals = Piece(c[k], c[k + 1]) BY <2>2, <2>3
  <2>6. QED BY <2>1, <2>4, <2>5
<1>4. Append(Piece(x, y), Head(Piece(y, z))) = p /\ Tail(Piece(y, z)) = q
  <2> HIDE DEF x, y, z
  <2> QED BY <1>2, StealPiece
<1>5. Taken(l, k, k + 1) = t
  <2> HIDE DEF x, y, z, p, q
  <2>1. Append(l.nodes[k].vals, Head(l.nodes[k + 1].vals)) = p /\ Tail(l.nodes[k + 1].vals) = q BY <1>3, <1>4
  <2>2. QED BY <2>1 DEF Taken
<1>6. MarkSeq(d) /\ Len(d) = N + 1 /\ \A j \in 1 .. N + 1 : d[j] = IF j = k + 1 THEN c[j] + 1 ELSE c[j]
  BY <1>1, StealMarksAre
<1>7. d[N + 1] = s
  <2>1. N + 1 \in 1 .. N + 1 /\ N + 1 # k + 1 BY <1>1
  <2>2. QED BY <1>1, <1>6, <2>1
<1>8. \A j \in 1 .. N : V[j] = Piece(c[j], c[j + 1]) BY DEF Pieces
<1>9. \A j \in 1 .. N : Y[j] = IF j = k + 1 THEN q ELSE IF j = k THEN p ELSE V[j] BY <1>1 DEF Put
<1> HIDE DEF d, V, Y
<1>10. ASSUME NEW j \in 1 .. N PROVE Y[j] = Piece(d[j], d[j + 1])
  <2>1. j \in 1 .. N + 1 /\ j + 1 \in 1 .. N + 1 BY <1>1
  <2>2. CASE j = k
    <3>1. d[j] = x /\ d[j + 1] = y + 1 BY <1>6, <2>1, <2>2
    <3>2. QED BY <1>1, <1>9, <2>2, <3>1
  <2>3. CASE j = k + 1
    <3>1. d[j] = y + 1 /\ d[j + 1] = z BY <1>6, <2>1, <2>3
    <3>2. QED BY <1>1, <1>9, <2>3, <3>1
  <2>4. CASE j # k /\ j # k + 1
    <3>1. d[j] = c[j] /\ d[j + 1] = c[j + 1] BY <1>6, <2>1, <2>4
    <3>2. Y[j] = V[j] BY <1>9, <2>4
    <3>3. QED BY <1>8, <3>1, <3>2
  <2>5. QED BY <2>2, <2>3, <2>4
<1>11. Linked(l, o, s, V) BY DEF Shaped, V
<1> HIDE DEF o, p, q, s
<1>12. Linked(m, o, s, W)
  <2>1. Linked([l EXCEPT !.nodes[o[k]].vals = p], o, s, W) BY <1>1, <1>11, ValuesSet DEF W
  <2>2. QED BY <1>1, <2>1
<1> HIDE DEF m, W
<1>13. Linked(t, o, s, Y)
  <2>1. Linked([m EXCEPT !.nodes[o[k + 1]].vals = q], o, s, Y) BY <1>1, <1>12, ValuesSet DEF Y
  <2>2. QED BY <1>1, <2>1
<1> HIDE DEF t
<1>14. Renumbered([list |-> t, cursors |-> cs])
        = [list |-> Shape(d), cursors |-> [j \in DOMAIN cs |-> [cs[j] EXCEPT !.node = Named(o, @)]]]
  <2>1. Len(d) = Len(o) + 1 /\ s = d[Len(d)] BY <1>1, <1>6, <1>7
  <2>2. \A j \in 1 .. Len(o) : Y[j] = Piece(d[j], d[j + 1]) BY <1>1, <1>10
  <2>3. MarkSeq(d) BY <1>6
  <2>4. QED BY ONLY <1>13, <2>1, <2>2, <2>3, BecomesShape
<1>15. QED BY <1>5, <1>14 DEF d, o, N

\* All values of the next node are taken over.
LEMMA MergeNode ==
  ASSUME NEW c, MarkSeq(c), NEW l, Shaped(l, c), NEW k \in 1 .. Count(c) - 1, NEW cs
  PROVE  Renumbered([list |-> DestroyNode(Joined(l, k, k + 1), k + 1), cursors |-> cs])
           = [list |-> Shape(DropMark(c, k + 1)),
              cursors |-> [x \in DOMAIN cs |-> [cs[x] EXCEPT !.node = Named(Gap(Count(c), k + 1), @)]]]
<1> DEFINE N == Count(c)
           o == Upto(N)
           g == Gap(N, k + 1)
           d == DropMark(c, k + 1)
           s == c[Len(c)]
           V == Pieces(c)
           x == c[k]
           y == c[k + 1]
           z == c[k + 2]
           p == Piece(x, z)
           W == Put(V, Len(o), k, p)
           Y == Gapped(W, N, k + 1)
           m == [l EXCEPT !.nodes[k].vals = p]
           t == DestroyNode(m, k + 1)
<1>1. /\ N \in Nat /\ Len(c) = N + 1 /\ Len(o) = N /\ o[k] = k /\ o[k + 1] = k + 1
      /\ k \in 1 .. N /\ k + 1 \in 1 .. N /\ k \in 1 .. Len(o) /\ k + 1 \in 1 .. Len(o)
  <2>1. N \in Nat /\ Len(c) = N + 1 BY ShapeParts
  <2>2. k \in 1 .. N /\ k + 1 \in 1 .. N BY <2>1
  <2>3. Len(o) = N /\ \A j \in 1 .. N : o[j] = j BY <2>1, NthUpto
  <2>4. QED BY <2>1, <2>2, <2>3
<1>2. x \in Nat /\ y \in Nat /\ z \in Nat /\ x <= y /\ y <= z
  <2>1. \A j \in 1 .. N : c[j] \in Nat /\ c[j + 1] \in Nat /\ c[j] <= c[j + 1] BY ShapeParts
  <2>2. (k + 1) + 1 = k + 2 OBVIOUS
  <2>3. c[(k + 1) + 1] \in Nat /\ c[k + 1] <= c[(k + 1) + 1] BY <1>1, <2>1
  <2>4. QED BY <1>1, <2>1, <2>2, <2>3
<1>3. l.nodes[k].vals = Piece(x, y) /\ l.nodes[k + 1].vals = Piece(y, z)
  <2>1. (k + 1) + 1 = k + 2 OBVIOUS
  <2>2. \A j \in 1 .. N : l.nodes[j].vals = Piece(c[j], c[j + 1]) BY ShapedParts
  <2>3. k \in 1 .. N /\ k + 1 \in 1 .. N BY <1>1
  <2> HIDE DEF N
  <2>4. l.nodes[k + 1].vals = Piece(c[k + 1], c[(k + 1) + 1]) BY <2>2, <2>3
  <2>5. l.nodes[k].vals = Piece(c[k], c[k + 1]) BY <2>2, <2>3
  <2>6. QED BY <2>1, <2>4, <2>5
<1>4. Piece(x, y) \o Piece(y, z) = p
  <2> HIDE DEF x, y, z
  <2> QED BY <1>2, PieceSteps
<1>5. Joined(l, k, k + 1) = m
  <2> HIDE DEF x, y, z, p
  <2>1. l.nodes[k].vals \o l.nodes[k + 1].vals = p BY <1>3, <1>4
  <2>2. QED BY <2>1 DEF Joined
<1>6. MarkSeq(d) /\ Len(d) = N /\ \A j \in 1 .. N : d[j] = IF j < k + 1 THEN c[j] ELSE c[j + 1]
  <2>1. k + 1 \in 2 .. Len(c) /\ Len(c) - 1 = N BY <1>1
  <2>2. QED BY <2>1, DropMarkIs
<1>7. d[N] = s BY <1>1, <1>6
<1>8. \A j \in 1 .. N : V[j] = Piece(c[j], c[j + 1]) BY DEF Pieces
<1>9. \A j \in 1 .. N - 1 : Y[j] = IF j < k + 1 THEN W[j] ELSE W[j + 1] BY DEF Gapped
<1>10. \A j \in 1 .. N : W[j] = IF j = k THEN p ELSE V[j] BY <1>1 DEF Put
<1> HIDE DEF d, V, Y, W
<1>11. ASSUME NEW j \in 1 .. N - 1 PROVE Y[j] = Piece(d[j], d[j + 1])
  <2>1. j \in 1 .. N /\ j + 1 \in 1 .. N BY <1>1
  <2>2. CASE j = k
    <3>1. d[j] = x /\ d[j + 1] = z BY <1>6, <2>1, <2>2
    <3>2. QED BY <1>9, <1>10, <2>1, <2>2, <3>1
  <2>3. CASE j < k
    <3>1. d[j] = c[j] /\ d[j + 1] = c[j + 1] BY <1>6, <2>1, <2>3
    <3>2. QED BY <1>8, <1>9, <1>10, <2>1, <2>3, <3>1
  <2>4. CASE j > k
    <3>1. d[j] = c[j + 1] /\ d[j + 1] = c[(j + 1) + 1] BY <1>6, <2>1, <2>4
    <3>2. Y[j] = W[j + 1] /\ W[j + 1] = V[j + 1] BY <1>9, <1>10, <2>1, <2>4
    <3>3. V[j + 1] = Piece(c[j + 1], c[(j + 1) + 1]) BY <1>8, <2>1
    <3>4. QED BY <3>1, <3>2, <3>3
  <2>5. QED BY <2>2, <2>3, <2>4
<1>12. Linked(l, o, s, V) BY DEF Shaped, V
<1> HIDE DEF p, s
<1>13. Linked(m, o, s, W)
  <2> HIDE DEF o
  <2>1. Linked([l EXCEPT !.nodes[o[k]].vals = p], o, s, W) BY <1>1, <1>12, ValuesSet DEF W
  <2>2. QED BY <1>1, <2>1
<1> HIDE DEF m
<1>14. Linked(t, g, s, Y) BY <1>1, <1>13, DestroyNodeIs DEF Y
<1>15. Len(g) = N - 1 BY <1>1, GapChain
<1> HIDE DEF t, g
<1>16. Renumbered([list |-> t, cursors |-> cs])
        = [list |-> Shape(d), cursors |-> [j \in DOMAIN cs |-> [cs[j] EXCEPT !.node = Named(g, @)]]]
  <2>1. Len(d) = Len(g) + 1 /\ s = d[Len(d)] BY <1>1, <1>6, <1>7, <1>15
  <2>2. \A j \in 1 .. Len(g) : Y[j] = Piece(d[j], d[j + 1]) BY <1>11, <1>15
  <2>3. QED BY <1>6, <1>14, <2>1, <2>2, BecomesShape
<1>17. QED BY <1>5, <1>16 DEF d, g, t

-----------------------------------------------------------------------------
(* Cursors.                                                                *)

\* A cursor that the list knows, and one that was taken off m_cursors.
Cell(k, f, n, i) == [linked |-> k, flags |-> f, node |-> n, index |-> i]
Cur(f, n, i) == Cell(TRUE, f, n, i)
Free(f, n, i) == Cell(FALSE, f, n, i)

SetNode(cur, x) == [cur EXCEPT !.node = x]
SetIndex(cur, x) == [cur EXCEPT !.index = x]
SetFlags(cur, x) == [cur EXCEPT !.flags = x]

LEMMA CellParts ==
  ASSUME NEW k, NEW f, NEW n, NEW i
  PROVE  /\ Cell(k, f, n, i).linked = k /\ Cell(k, f, n, i).flags = f
         /\ Cell(k, f, n, i).node = n /\ Cell(k, f, n, i).index = i
BY DEF Cell

LEMMA CellSet ==
  ASSUME NEW k, NEW f, NEW n, NEW i, NEW x
  PROVE  /\ SetNode(Cell(k, f, n, i), x) = Cell(k, f, x, i)
         /\ SetIndex(Cell(k, f, n, i), x) = Cell(k, f, n, x)
         /\ SetFlags(Cell(k, f, n, i), x) = Cell(k, x, n, i)
<1>1. SetNode(Cell(k, f, n, i), x) = Cell(k, f, x, i) BY DEF Cell, SetNode
<1>2. SetIndex(Cell(k, f, n, i), x) = Cell(k, f, n, x) BY DEF Cell, SetIndex
<1>3. SetFlags(Cell(k, f, n, i), x) = Cell(k, x, n, i) BY DEF Cell, SetFlags
<1>4. QED BY <1>1, <1>2, <1>3

LEMMA CurParts ==
  ASSUME NEW f, NEW n, NEW i
  PROVE  /\ Cur(f, n, i).linked /\ Cur(f, n, i).flags = f
         /\ Cur(f, n, i).node = n /\ Cur(f, n, i).index = i
         /\ Invalid(Cur(f, n, i)) <=> "INVALID" \in f
         /\ Erased(Cur(f, n, i)) <=> "DELETED" \in f
<1>1. PICK yes : yes = TRUE OBVIOUS
<1> DEFINE c == Cell(yes, f, n, i)
<1>2. Cur(f, n, i) = c BY <1>1 DEF Cur
<1>3. c.linked = yes /\ c.flags = f /\ c.node = n /\ c.index = i BY CellParts
<1> HIDE DEF c
<1>4. (Invalid(c) <=> "INVALID" \in f) /\ (Erased(c) <=> "DELETED" \in f) BY <1>3 DEF Invalid, Erased
<1>5. c.linked BY <1>1, <1>3
<1>6. QED BY <1>2, <1>3, <1>4, <1>5

LEMMA CurSet ==
  ASSUME NEW f, NEW n, NEW i, NEW x
  PROVE  /\ SetNode(Cur(f, n, i), x) = Cur(f, x, i)
         /\ SetIndex(Cur(f, n, i), x) = Cur(f, n, x)
         /\ SetFlags(Cur(f, n, i), x) = Cur(x, n, i)
<1>1. PICK yes : yes = TRUE OBVIOUS
<1>2. \A g, m, j : Cur(g, m, j) = Cell(yes, g, m, j) BY <1>1 DEF Cur
<1>3. /\ SetNode(Cell(yes, f, n, i), x) = Cell(yes, f, x, i)
      /\ SetIndex(Cell(yes, f, n, i), x) = Cell(yes, f, n, x)
      /\ SetFlags(Cell(yes, f, n, i), x) = Cell(yes, x, n, i)
  BY CellSet
<1>4. QED BY <1>2, <1>3

LEMMA FreeParts ==
  ASSUME NEW f, NEW n, NEW i
  PROVE  /\ ~Free(f, n, i).linked /\ Free(f, n, i).flags = f
         /\ Free(f, n, i).node = n /\ Free(f, n, i).index = i
         /\ Invalid(Free(f, n, i)) <=> "INVALID" \in f
         /\ Erased(Free(f, n, i)) <=> "DELETED" \in f
<1>1. PICK no : no = FALSE OBVIOUS
<1> DEFINE c == Cell(no, f, n, i)
<1>2. Free(f, n, i) = c BY <1>1 DEF Free
<1>3. c.linked = no /\ c.flags = f /\ c.node = n /\ c.index = i BY CellParts
<1> HIDE DEF c
<1>4. (Invalid(c) <=> "INVALID" \in f) /\ (Erased(c) <=> "DELETED" \in f) BY <1>3 DEF Invalid, Erased
<1>5. ~c.linked BY <1>1, <1>3
<1>6. QED BY <1>2, <1>3, <1>4, <1>5

LEMMA FreeSet ==
  ASSUME NEW f, NEW n, NEW i, NEW x
  PROVE  /\ SetNode(Free(f, n, i), x) = Free(f, x, i)
         /\ SetIndex(Free(f, n, i), x) = Free(f, n, x)
         /\ SetFlags(Free(f, n, i), x) = Free(x, n, i)
<1>1. PICK no : no = FALSE OBVIOUS
<1>2. \A g, m, j : Free(g, m, j) = Cell(no, g, m, j) BY <1>1 DEF Free
<1>3. /\ SetNode(Cell(no, f, n, i), x) = Cell(no, f, x, i)
      /\ SetIndex(Cell(no, f, n, i), x) = Cell(no, f, n, x)
      /\ SetFlags(Cell(no, f, n, i), x) = Cell(no, x, n, i)
  BY CellSet
<1>4. QED BY <1>2, <1>3

\* The cursor is in the node n, at the value behind i others of it, or, once its value
\* is erased, before that value.
Inside(cur, b, f, n, i) ==
  /\ cur = Cur(f, n, i) /\ f \in {{}, {"DELETED"}}
  /\ n \in 1 .. Count(b) /\ i \in Nat /\ b[n] + i <= b[n + 1]
  /\ f = {} => b[n] + i < b[n + 1]

\* p values are before the cursor, which is on a value or, gone = {"DELETED"}, has lost it.
At(cur, b, p, gone) ==
  \/ \E f, n, i : Inside(cur, b, f, n, i) /\ p = b[n] + i /\ gone = f
  \/ cur = Cur({"DELETED", "SEEK_FIRST_NEXT"}, 0, 0) /\ p = 0 /\ gone = {"DELETED"}
  \/ cur = Cur({"DELETED", "SEEK_LAST_NEXT"}, 0, 0) /\ p = b[Len(b)] /\ gone = {"DELETED"}

\* What the history says of a cursor with p values before it.
Fits(s, p, gone) ==
  \/ gone = {} /\ p \in Nat /\ s = AtValue(p + 1)
  \/ gone = {"DELETED"} /\ p \in Nat /\ \E lo, hi \in Nat :
       s = [at |-> 0, lo |-> lo, hi |-> hi] /\ lo <= p /\ p < hi

\* A cursor that is at no value.
Off(cur, s) ==
  s = Nowhere /\ \E f : cur = Cur(f, 0, 0) /\ "INVALID" \in f

\* A cursor that the list does not know may be anywhere.
Form(f, n, i) ==
  \/ f \in {{}, {"DELETED"}} /\ n \in Nat /\ i \in Nat
  \/ /\ n = 0 /\ i = 0
     /\ \/ "INVALID" \in f
        \/ f \in {{"DELETED", "SEEK_FIRST_NEXT"}, {"DELETED", "SEEK_LAST_NEXT"}}

Told(s) ==
  \/ \E e \in Nat \ {0} : s = AtValue(e)
  \/ \E lo, hi \in Nat : s = [at |-> 0, lo |-> lo, hi |-> hi]

Lost(cur, s) == Told(s) /\ \E f, n, i : cur = Free(f, n, i) /\ Form(f, n, i)

\* The list leaves the cursor alone.
Idle(cur, s) == Off(cur, s) \/ Lost(cur, s)

Placed(cur, s, b) == \E p, gone : At(cur, b, p, gone) /\ Fits(s, p, gone)

CursorOk(cur, s, b) == Idle(cur, s) \/ Placed(cur, s, b)

\* A value is inserted behind the first r.
LEMMA FitsInsert ==
  ASSUME NEW s, NEW p, NEW gone, Fits(s, p, gone), NEW r \in Nat, NEW q \in {p, p + 1},
         q = p => (p < r \/ (p = r /\ gone = {"DELETED"})),
         q = p + 1 => p >= r
  PROVE  Fits(SeenAfterInsert(s, r), q, gone)
<1>1. CASE gone = {}
  <2>1. p \in Nat /\ s = AtValue(p + 1) BY <1>1 DEF Fits
  <2>2. s # Nowhere /\ s.at = p + 1 /\ s.at # 0 BY <2>1 DEF AtValue, Nowhere
  <2>3. SeenAfterInsert(s, r) = IF r < p + 1 THEN AtValue((p + 1) + 1) ELSE s BY <2>2 DEF SeenAfterInsert
  <2>4. CASE q = p
    <3>1. ~(r < p + 1) BY <1>1, <2>1, <2>4
    <3>2. QED BY <1>1, <2>1, <2>3, <2>4, <3>1 DEF Fits
  <2>5. CASE q = p + 1
    <3>1. r < p + 1 /\ p + 1 \in Nat BY <2>1, <2>5
    <3>2. QED BY <1>1, <2>1, <2>3, <2>5, <3>1 DEF Fits
  <2>6. QED BY <2>4, <2>5
<1>2. CASE gone = {"DELETED"}
  <2>1. PICK lo \in Nat, hi \in Nat : s = [at |-> 0, lo |-> lo, hi |-> hi] /\ lo <= p /\ p < hi BY <1>2 DEF Fits
  <2>2. p \in Nat BY <1>2 DEF Fits
  <2>3. s # Nowhere /\ s.at = 0 /\ s.lo = lo /\ s.hi = hi BY <2>1, <2>2 DEF Nowhere
  <2> DEFINE x == IF r < lo THEN lo + 1 ELSE lo
             y == IF r < hi THEN hi + 1 ELSE hi
  <2>4. SeenAfterInsert(s, r) = [s EXCEPT !.lo = x, !.hi = y] BY <2>3 DEF SeenAfterInsert
  <2>5. x \in Nat /\ y \in Nat /\ x <= q /\ q < y /\ q \in Nat BY <1>2, <2>1, <2>2
  <2> HIDE DEF x, y
  <2>6. [s EXCEPT !.lo = x, !.hi = y] = [at |-> 0, lo |-> x, hi |-> y]
    <3>1. [s EXCEPT !.lo = x, !.hi = y] = [[s EXCEPT !.lo = x] EXCEPT !.hi = y] OBVIOUS
    <3>2. [s EXCEPT !.lo = x] = [at |-> 0, lo |-> x, hi |-> hi] BY <2>1
    <3>3. [[at |-> 0, lo |-> x, hi |-> hi] EXCEPT !.hi = y] = [at |-> 0, lo |-> x, hi |-> y] OBVIOUS
    <3>4. QED BY <3>1, <3>2, <3>3
  <2>7. QED BY <1>2, <2>4, <2>5, <2>6 DEF Fits
<1>3. QED BY <1>1, <1>2 DEF Fits

\* The value e is erased.
LEMMA FitsErase ==
  ASSUME NEW s, NEW p, NEW gone, Fits(s, p, gone), NEW e \in Nat, e >= 1, NEW q, NEW lost,
         q = IF p < e THEN p ELSE p - 1,
         lost = IF p + 1 = e THEN {"DELETED"} ELSE gone
  PROVE  Fits(SeenAfterErase(s, e), q, lost)
<1>1. CASE gone = {}
  <2>1. p \in Nat /\ s = AtValue(p + 1) BY <1>1 DEF Fits
  <2>2. s # Nowhere /\ s.at = p + 1 /\ s.at # 0 BY <2>1 DEF AtValue, Nowhere
  <2>3. CASE p + 1 = e
    <3>1. SeenAfterErase(s, e) = [at |-> 0, lo |-> e - 1, hi |-> e] BY <2>2, <2>3 DEF SeenAfterErase
    <3>2. e - 1 \in Nat /\ e \in Nat /\ e - 1 <= q /\ q < e /\ q \in Nat /\ lost = {"DELETED"} BY <2>1, <2>3
    <3>3. QED BY <3>1, <3>2 DEF Fits
  <2>4. CASE p + 1 # e
    <3>1. SeenAfterErase(s, e) = IF e < p + 1 THEN AtValue((p + 1) - 1) ELSE s
      BY <2>2, <2>4 DEF SeenAfterErase
    <3>2. q \in Nat /\ lost = {} /\ (e < p + 1 => (p + 1) - 1 = q + 1) /\ (~(e < p + 1) => q = p)
      BY <1>1, <2>1, <2>4
    <3>3. QED BY <2>1, <3>1, <3>2 DEF Fits
  <2>5. QED BY <2>3, <2>4
<1>2. CASE gone = {"DELETED"}
  <2>1. PICK lo \in Nat, hi \in Nat : s = [at |-> 0, lo |-> lo, hi |-> hi] /\ lo <= p /\ p < hi BY <1>2 DEF Fits
  <2>2. p \in Nat BY <1>2 DEF Fits
  <2>3. s # Nowhere /\ s.at = 0 /\ s.lo = lo /\ s.hi = hi /\ s.at # e BY <2>1, <2>2 DEF Nowhere
  <2> DEFINE x == IF e <= lo THEN lo - 1 ELSE lo
             y == IF e < hi THEN hi - 1 ELSE hi
  <2>4. SeenAfterErase(s, e) = [s EXCEPT !.lo = x, !.hi = y] BY <2>3 DEF SeenAfterErase
  <2>5. x \in Nat /\ y \in Nat /\ x <= q /\ q < y /\ q \in Nat BY <1>2, <2>1, <2>2
  <2> HIDE DEF x, y
  <2>6. [s EXCEPT !.lo = x, !.hi = y] = [at |-> 0, lo |-> x, hi |-> y]
    <3>1. [s EXCEPT !.lo = x, !.hi = y] = [[s EXCEPT !.lo = x] EXCEPT !.hi = y] OBVIOUS
    <3>2. [s EXCEPT !.lo = x] = [at |-> 0, lo |-> x, hi |-> hi] BY <2>1
    <3>3. [[at |-> 0, lo |-> x, hi |-> hi] EXCEPT !.hi = y] = [at |-> 0, lo |-> x, hi |-> y] OBVIOUS
    <3>4. QED BY <3>1, <3>2, <3>3
  <2>7. lost = {"DELETED"} BY <1>2
  <2>8. QED BY <2>4, <2>5, <2>6, <2>7 DEF Fits
<1>3. QED BY <1>1, <1>2 DEF Fits

\* The names of the nodes.
LEMMA NamedUpto ==
  ASSUME NEW n \in Nat
  PROVE  Named(Upto(n), 0) = 0 /\ \A x \in 1 .. n : Named(Upto(n), x) = x
<1> DEFINE o == Upto(n)
<1>1. Chain(o) /\ Len(o) = n /\ \A i \in 1 .. n : o[i] = i BY NthUpto
<1> HIDE DEF o
<1>2. Named(o, NoNode) = NoNode /\ \A i \in 1 .. n : Named(o, o[i]) = i BY <1>1, NamedInChain
<1>3. QED BY <1>1, <1>2 DEF NoNode, o

LEMMA NamedWedge ==
  ASSUME NEW n \in Nat, NEW k \in 1 .. n
  PROVE  /\ Named(Wedge(n, k), 0) = 0 /\ Named(Wedge(n, k), n + 1) = k + 1
         /\ \A x \in 1 .. n : Named(Wedge(n, k), x) = IF x <= k THEN x ELSE x + 1
<1> DEFINE o == Wedge(n, k)
<1>1. Chain(o) /\ Len(o) = n + 1
      /\ \A i \in 1 .. n + 1 : o[i] = IF i <= k THEN i ELSE IF i = k + 1 THEN n + 1 ELSE i - 1
  BY WedgeChain
<1> HIDE DEF o
<1>2. Named(o, NoNode) = NoNode /\ \A i \in 1 .. n + 1 : Named(o, o[i]) = i BY <1>1, NamedInChain
<1>3. Named(o, n + 1) = k + 1
  <2>1. k + 1 \in 1 .. n + 1 /\ o[k + 1] = n + 1 BY <1>1
  <2>2. QED BY <1>2, <2>1
<1>4. ASSUME NEW x \in 1 .. n PROVE Named(o, x) = IF x <= k THEN x ELSE x + 1
  <2>1. CASE x <= k
    <3>1. x \in 1 .. n + 1 /\ o[x] = x BY <1>1, <2>1
    <3>2. QED BY <1>2, <2>1, <3>1
  <2>2. CASE x > k
    <3>1. x + 1 \in 1 .. n + 1 /\ o[x + 1] = x BY <1>1, <2>2
    <3>2. QED BY <1>2, <2>2, <3>1
  <2>3. QED BY <2>1, <2>2
<1>5. QED BY <1>2, <1>3, <1>4 DEF NoNode, o

LEMMA NamedGap ==
  ASSUME NEW n \in Nat, NEW k \in 1 .. n
  PROVE  /\ Named(Gap(n, k), 0) = 0
         /\ \A x \in 1 .. n : x # k => Named(Gap(n, k), x) = IF x < k THEN x ELSE x - 1
<1> DEFINE o == Gap(n, k)
<1>1. Chain(o) /\ Len(o) = n - 1 /\ \A i \in 1 .. n - 1 : o[i] = IF i < k THEN i ELSE i + 1 BY GapChain
<1> HIDE DEF o
<1>2. Named(o, NoNode) = NoNode /\ \A i \in 1 .. n - 1 : Named(o, o[i]) = i BY <1>1, NamedInChain
<1>3. ASSUME NEW x \in 1 .. n, x # k PROVE Named(o, x) = IF x < k THEN x ELSE x - 1
  <2>1. CASE x < k
    <3>1. x \in 1 .. n - 1 /\ o[x] = x BY <1>1, <2>1
    <3>2. QED BY <1>2, <2>1, <3>1
  <2>2. CASE x > k
    <3>1. x - 1 \in 1 .. n - 1 /\ o[x - 1] = x BY <1>1, <2>2
    <3>2. QED BY <1>2, <2>2, <3>1
  <2>3. QED BY <1>3, <2>1, <2>2
<1>4. QED BY <1>2, <1>3 DEF NoNode, o

-----------------------------------------------------------------------------
(* What happens to one cursor.                                             *)

Touched(cur, k) == cur.linked /\ ~Invalid(cur) /\ cur.node = k

Renamed(cur, o) == [cur EXCEPT !.node = Named(o, @)]

\* A value is put behind i others of the node k.
ShiftedCur(cur, k, i) ==
  IF Touched(cur, k) THEN (IF cur.index >= i THEN [cur EXCEPT !.index = @ + 1] ELSE cur) ELSE cur

\* The values behind the first mid of the node k are moved to the node m.
SplitCur(cur, k, m, mid) ==
  IF Touched(cur, k) THEN (IF cur.index >= mid THEN [cur EXCEPT !.node = m, !.index = @ - mid] ELSE cur)
  ELSE cur

\* The value behind i others of the node k is erased.
ErasedCur(cur, k, i) ==
  IF Touched(cur, k)
  THEN CASE cur.index = i -> [cur EXCEPT !.flags = @ \cup {"DELETED"}]
         [] cur.index > i -> [cur EXCEPT !.index = @ - 1]
         [] OTHER -> cur
  ELSE cur

DroppedCur(cur, k, seek) ==
  IF Touched(cur, k) THEN [cur EXCEPT !.flags = {"DELETED", seek}, !.node = NoNode, !.index = 0] ELSE cur

StolenCur(cur, k, next, size) ==
  IF Touched(cur, next)
  THEN (IF cur.index = 0 THEN [cur EXCEPT !.node = k, !.index = size] ELSE [cur EXCEPT !.index = @ - 1])
  ELSE cur

MergedCur(cur, k, next, size) ==
  IF Touched(cur, next) THEN [cur EXCEPT !.node = k, !.index = @ + size] ELSE cur

\* Cursors that are in another node, or in none.
LEMMA Untouched ==
  ASSUME NEW cur, NEW k, ~Touched(cur, k), NEW i, NEW m, NEW mid, NEW seek, NEW next, NEW size
  PROVE  /\ ShiftedCur(cur, k, i) = cur /\ SplitCur(cur, k, m, mid) = cur /\ ErasedCur(cur, k, i) = cur
         /\ DroppedCur(cur, k, seek) = cur
         /\ StolenCur(cur, next, k, size) = cur /\ MergedCur(cur, next, k, size) = cur
BY DEF ShiftedCur, SplitCur, ErasedCur, DroppedCur, StolenCur, MergedCur

LEMMA TouchedInside ==
  ASSUME NEW f \in {{}, {"DELETED"}}, NEW n, NEW i, NEW k
  PROVE  Touched(Cur(f, n, i), k) <=> n = k
<1>1. Cur(f, n, i).linked /\ Cur(f, n, i).node = n /\ (Invalid(Cur(f, n, i)) <=> "INVALID" \in f) BY CurParts
<1>2. "INVALID" \notin f OBVIOUS
<1>3. QED BY <1>1, <1>2 DEF Touched

LEMMA SeekUntouched ==
  ASSUME NEW f, NEW k, k # 0
  PROVE  ~Touched(Cur(f, 0, 0), k)
<1>1. Cur(f, 0, 0).node = 0 BY CurParts
<1>2. QED BY <1>1 DEF Touched

LEMMA RenamedCur ==
  ASSUME NEW f, NEW n, NEW i, NEW o
  PROVE  Renamed(Cur(f, n, i), o) = Cur(f, Named(o, n), i)
<1>1. Cur(f, n, i).node = n BY CurParts
<1>2. SetNode(Cur(f, n, i), Named(o, n)) = Cur(f, Named(o, n), i) BY CurSet
<1>3. Renamed(Cur(f, n, i), o) = SetNode(Cur(f, n, i), Named(o, n)) BY <1>1 DEF Renamed, SetNode
<1>4. QED BY <1>2, <1>3

\* Names that stay.
LEMMA NamesKept ==
  ASSUME NEW b, MarkSeq(b), NEW cur, NEW p, NEW gone, At(cur, b, p, gone)
  PROVE  Renamed(cur, Upto(Count(b))) = cur
<1> DEFINE o == Upto(Count(b))
<1>1. \A x \in 1 .. Count(b) : Named(o, x) = x BY ShapeParts, NamedUpto
<1>2. Named(o, 0) = 0 BY ShapeParts, NamedUpto
<1> HIDE DEF o
<1>3. ASSUME NEW f, NEW n, NEW i, Inside(cur, b, f, n, i) PROVE Renamed(cur, o) = cur
  <2>1. cur = Cur(f, n, i) /\ n \in 1 .. Count(b) BY <1>3 DEF Inside
  <2>2. Renamed(Cur(f, n, i), o) = Cur(f, Named(o, n), i) BY RenamedCur
  <2>3. QED BY <1>1, <2>1, <2>2
<1>4. CASE cur = Cur({"DELETED", "SEEK_FIRST_NEXT"}, 0, 0)
  <2> DEFINE f == {"DELETED", "SEEK_FIRST_NEXT"}
  <2>1. cur = Cur(f, 0, 0) BY <1>4
  <2> HIDE DEF f
  <2>2. Renamed(Cur(f, 0, 0), o) = Cur(f, Named(o, 0), 0) BY RenamedCur
  <2>3. QED BY ONLY <1>2, <2>1, <2>2 DEF o
<1>5. CASE cur = Cur({"DELETED", "SEEK_LAST_NEXT"}, 0, 0)
  <2> DEFINE f == {"DELETED", "SEEK_LAST_NEXT"}
  <2>1. cur = Cur(f, 0, 0) BY <1>5
  <2> HIDE DEF f
  <2>2. Renamed(Cur(f, 0, 0), o) = Cur(f, Named(o, 0), 0) BY RenamedCur
  <2>3. QED BY ONLY <1>2, <2>1, <2>2 DEF o
<1>6. QED BY <1>3, <1>4, <1>5 DEF At, o

\* insert_at shifts the cursors behind the new value.
LEMMA InsertCursor ==
  ASSUME NEW b, MarkSeq(b), NEW k \in 1 .. Count(b), NEW i \in 0 .. b[k + 1] - b[k],
         NEW cur, NEW p, NEW gone, p \in Nat, At(cur, b, p, gone)
  PROVE  \/ /\ p < b[k] + i \/ (p = b[k] + i /\ gone = {"DELETED"})
            /\ At(ShiftedCur(cur, k, i), OpenMarks(b, k), p, gone)
         \/ /\ p >= b[k] + i
            /\ At(ShiftedCur(cur, k, i), OpenMarks(b, k), p + 1, gone)
<1> DEFINE r == b[k] + i
           c == OpenMarks(b, k)
           new == ShiftedCur(cur, k, i)
           N == Count(b)
<1>1. /\ N \in Nat /\ Len(b) = N + 1
      /\ \A j \in 1 .. N : b[j] \in Nat /\ b[j + 1] \in Nat /\ b[j] <= b[j + 1]
  BY ShapeParts
<1>2. Len(c) = N + 1 /\ \A j \in 1 .. N + 1 : c[j] = IF j > k THEN b[j] + 1 ELSE b[j] BY <1>1, OpenMarksAre
<1>3. Count(c) = N BY <1>1, <1>2 DEF Count
<1>4. b[k] \in Nat /\ b[k + 1] \in Nat /\ r \in Nat /\ b[k] <= r /\ r <= b[k + 1] BY <1>1
<1>5. b[k + 1] <= b[N + 1] /\ b[N + 1] \in Nat
  <2>1. k + 1 \in 1 .. Len(b) /\ N + 1 \in 1 .. Len(b) /\ k + 1 <= N + 1 BY <1>1
  <2>2. QED BY <2>1, MarksRise
<1> HIDE DEF c, N
<1>6. ASSUME NEW f, NEW n, NEW j, Inside(cur, b, f, n, j), p = b[n] + j, gone = f
      PROVE  \/ (p < r \/ (p = r /\ gone = {"DELETED"})) /\ At(new, c, p, gone)
             \/ p >= r /\ At(new, c, p + 1, gone)
  <2>1. /\ cur = Cur(f, n, j) /\ f \in {{}, {"DELETED"}} /\ n \in 1 .. N /\ j \in Nat
        /\ b[n] + j <= b[n + 1] /\ (f = {} => b[n] + j < b[n + 1])
    BY <1>6 DEF Inside, N
  <2>2. b[n] \in Nat /\ b[n + 1] \in Nat BY <1>1, <2>1
  <2>3. n \in 1 .. N + 1 /\ n + 1 \in 1 .. N + 1 BY <1>1, <2>1
  <2>4. cur.index = j /\ (Touched(cur, k) <=> n = k)
    <3>1. cur.index = j BY <2>1, CurParts
    <3>2. Touched(Cur(f, n, j), k) <=> n = k BY <2>1, TouchedInside
    <3>3. QED BY <2>1, <3>1, <3>2
  <2>5. CASE n = k /\ j >= i
    <3>1. new = Cur(f, n, j + 1)
      <4>1. new = SetIndex(cur, j + 1) BY <2>4, <2>5 DEF ShiftedCur, SetIndex
      <4>2. QED BY <2>1, <4>1, CurSet
    <3>2. c[n] = b[n] /\ c[n + 1] = b[n + 1] + 1 BY <1>2, <2>3, <2>5
    <3>3. /\ j + 1 \in Nat /\ c[n] + (j + 1) <= c[n + 1] /\ (f = {} => c[n] + (j + 1) < c[n + 1])
          /\ p + 1 = c[n] + (j + 1)
      BY <1>6, <2>1, <2>2, <3>2
    <3>4. Inside(new, c, f, n, j + 1) BY <1>3, <2>1, <3>1, <3>3 DEF Inside
    <3>5. At(new, c, p + 1, gone) BY <1>6, <3>3, <3>4 DEF At
    <3>6. p >= r BY <1>4, <1>6, <2>1, <2>2, <2>5
    <3>7. QED BY <3>5, <3>6
  <2>6. CASE n = k /\ j < i
    <3>1. new = cur
      <4>1. ~(cur.index >= i) BY <2>1, <2>4, <2>6
      <4>2. QED BY <4>1 DEF ShiftedCur
    <3>2. c[n] = b[n] /\ c[n + 1] = b[n + 1] + 1 BY <1>2, <2>3, <2>6
    <3>3. c[n] + j <= c[n + 1] /\ (f = {} => c[n] + j < c[n + 1]) BY <2>1, <2>2, <3>2
    <3>4. Inside(new, c, f, n, j) BY <1>3, <2>1, <3>1, <3>3 DEF Inside
    <3>5. At(new, c, p, gone) BY <1>6, <3>2, <3>4 DEF At
    <3>6. p < r BY <1>4, <1>6, <2>1, <2>2, <2>6
    <3>7. QED BY <3>5, <3>6
  <2>7. CASE n < k
    <3>1. new = cur
      <4>1. ~Touched(cur, k) BY <1>1, <2>1, <2>4, <2>7
      <4>2. QED BY <4>1 DEF ShiftedCur
    <3>2. c[n] = b[n] /\ c[n + 1] = b[n + 1] BY <1>2, <2>3, <2>7
    <3>3. Inside(new, c, f, n, j) BY <1>3, <2>1, <3>1, <3>2 DEF Inside
    <3>4. At(new, c, p, gone) BY <1>6, <3>2, <3>3 DEF At
    <3>5. b[n + 1] <= b[k]
      <4>1. n + 1 \in 1 .. Len(b) /\ k \in 1 .. Len(b) /\ n + 1 <= k BY <1>1, <2>1, <2>7 DEF N
      <4>2. QED BY <4>1, MarksRise
    <3>6. p <= r /\ (f = {} => p < r) BY <1>4, <1>6, <2>1, <2>2, <3>5
    <3>7. p < r \/ (p = r /\ gone = {"DELETED"})
      <4>1. CASE f = {}
        <5>1. p < r BY ONLY <3>6, <4>1
        <5>2. QED BY ONLY <5>1
      <4>2. CASE f = {"DELETED"} BY <1>4, <1>6, <3>6, <4>2
      <4>3. QED BY <2>1, <4>1, <4>2
    <3>8. QED BY <3>4, <3>6, <3>7
  <2>8. CASE n > k
    <3>1. new = cur
      <4>1. ~Touched(cur, k) BY <1>1, <2>1, <2>4, <2>8
      <4>2. QED BY <4>1 DEF ShiftedCur
    <3>2. c[n] = b[n] + 1 /\ c[n + 1] = b[n + 1] + 1 BY <1>2, <2>1, <2>3, <2>8
    <3>3. /\ c[n] + j <= c[n + 1] /\ (f = {} => c[n] + j < c[n + 1]) /\ p + 1 = c[n] + j
      BY <1>6, <2>1, <2>2, <3>2
    <3>4. Inside(new, c, f, n, j) BY <1>3, <2>1, <3>1, <3>3 DEF Inside
    <3>5. At(new, c, p + 1, gone) BY <1>6, <3>3, <3>4 DEF At
    <3>6. b[k + 1] <= b[n]
      <4>1. k + 1 \in 1 .. Len(b) /\ n \in 1 .. Len(b) /\ k + 1 <= n BY <1>1, <2>1, <2>8
      <4>2. QED BY <4>1, MarksRise
    <3>7. p >= r BY <1>4, <1>6, <2>1, <2>2, <3>6
    <3>8. QED BY <3>5, <3>7
  <2>9. QED BY <1>1, <2>1, <2>4, <2>5, <2>6, <2>7, <2>8
<1>7. ASSUME cur = Cur({"DELETED", "SEEK_FIRST_NEXT"}, 0, 0), p = 0, gone = {"DELETED"}
      PROVE  \/ (p < r \/ (p = r /\ gone = {"DELETED"})) /\ At(new, c, p, gone)
             \/ p >= r /\ At(new, c, p + 1, gone)
  <2>1. new = cur
    <3>1. ~Touched(cur, k) BY <1>7, SeekUntouched
    <3>2. QED BY <3>1 DEF ShiftedCur
  <2>2. At(new, c, p, gone) BY <1>7, <2>1 DEF At
  <2>3. (p < r \/ (p = r /\ gone = {"DELETED"})) BY <1>4, <1>7
  <2>4. QED BY <2>2, <2>3
<1>8. ASSUME cur = Cur({"DELETED", "SEEK_LAST_NEXT"}, 0, 0), p = b[Len(b)], gone = {"DELETED"}
      PROVE  \/ (p < r \/ (p = r /\ gone = {"DELETED"})) /\ At(new, c, p, gone)
             \/ p >= r /\ At(new, c, p + 1, gone)
  <2>1. new = cur
    <3>1. ~Touched(cur, k) BY <1>8, SeekUntouched
    <3>2. QED BY <3>1 DEF ShiftedCur
  <2>2. c[Len(c)] = p + 1
    <3>1. N + 1 \in 1 .. N + 1 /\ N + 1 > k BY <1>1 DEF N
    <3>2. QED BY <1>1, <1>2, <1>8, <3>1
  <2>3. At(new, c, p + 1, gone) BY <1>8, <2>1, <2>2 DEF At
  <2>4. p >= r BY <1>1, <1>4, <1>5, <1>8
  <2>5. QED BY <2>3, <2>4
<1>9. QED BY <1>6, <1>7, <1>8 DEF At, r, c

-----------------------------------------------------------------------------
(* Cursors while the nodes are split, dropped and merged.                  *)

\* The cursor lost its node, which was the first or the last one.
Seeks(cur, b, p, gone) ==
  \/ cur = Cur({"DELETED", "SEEK_FIRST_NEXT"}, 0, 0) /\ p = 0 /\ gone = {"DELETED"}
  \/ cur = Cur({"DELETED", "SEEK_LAST_NEXT"}, 0, 0) /\ p = b[Len(b)] /\ gone = {"DELETED"}

LEMMA AtFrom ==
  ASSUME NEW d, NEW f \in {{}, {"DELETED"}}, NEW n \in 1 .. Count(d), NEW j \in Nat, NEW p,
         p = d[n] + j, p <= d[n + 1], f = {} => p < d[n + 1]
  PROVE  At(Cur(f, n, j), d, p, f)
<1>1. Inside(Cur(f, n, j), d, f, n, j) BY DEF Inside
<1>2. QED BY <1>1 DEF At

LEMMA SeeksKept ==
  ASSUME NEW o, Named(o, 0) = 0, NEW c, NEW d, d[Len(d)] = c[Len(c)],
         NEW cur, NEW p, NEW gone, Seeks(cur, c, p, gone), NEW k, k # 0
  PROVE  /\ ~Touched(cur, k)
         /\ At(Renamed(cur, o), d, p, gone)
<1>1. PICK f : cur = Cur(f, 0, 0) BY DEF Seeks
<1>2. ~Touched(cur, k) BY <1>1, SeekUntouched
<1>3. Renamed(cur, o) = cur
  <2>1. Renamed(Cur(f, 0, 0), o) = Cur(f, Named(o, 0), 0) BY RenamedCur
  <2>2. QED BY ONLY <1>1, <2>1, Named(o, 0) = 0
<1>4. At(cur, d, p, gone) BY DEF Seeks, At
<1>5. QED BY <1>2, <1>3, <1>4

\* The values behind the first mid of the node k go to a new node behind it.
LEMMA SplitCursor ==
  ASSUME NEW c, MarkSeq(c), NEW k \in 1 .. Count(c), NEW mid \in Nat, c[k] + mid <= c[k + 1],
         NEW cur, NEW p, NEW gone, At(cur, c, p, gone)
  PROVE  At(Renamed(SplitCur(cur, k, Count(c) + 1, mid), Wedge(Count(c), k)), SplitMarks(c, k, mid), p, gone)
<1> DEFINE N == Count(c)
           d == SplitMarks(c, k, mid)
           o == Wedge(N, k)
           new == SplitCur(cur, k, N + 1, mid)
<1>1. /\ N \in Nat /\ Len(c) = N + 1
      /\ \A j \in 1 .. N : c[j] \in Nat /\ c[j + 1] \in Nat /\ c[j] <= c[j + 1]
  BY ShapeParts
<1>2. /\ Len(d) = N + 2
      /\ \A j \in 1 .. N + 2 : d[j] = IF j <= k THEN c[j] ELSE IF j = k + 1 THEN c[k] + mid ELSE c[j - 1]
  BY <1>1, SplitMarksAre
<1>3. Count(d) = N + 1 BY <1>1, <1>2 DEF Count
<1>4. k \in 1 .. N /\ N \in Nat BY <1>1
<1>5. /\ Named(o, N + 1) = k + 1
      /\ \A x \in 1 .. N : Named(o, x) = IF x <= k THEN x ELSE x + 1
  BY ONLY <1>4, NamedWedge
<1>6. Named(o, 0) = 0 BY ONLY <1>4, NamedWedge
<1> HIDE DEF d, N, o
<1>7. ASSUME NEW f, NEW n, NEW j, Inside(cur, c, f, n, j), p = c[n] + j, gone = f
      PROVE  At(Renamed(new, o), d, p, gone)
  <2>1. /\ cur = Cur(f, n, j) /\ f \in {{}, {"DELETED"}} /\ n \in 1 .. N /\ j \in Nat
        /\ c[n] + j <= c[n + 1] /\ (f = {} => c[n] + j < c[n + 1])
    BY <1>7 DEF Inside, N
  <2>2. c[n] \in Nat /\ c[n + 1] \in Nat BY <1>1, <2>1
  <2>3. /\ d[n] = IF n <= k THEN c[n] ELSE IF n = k + 1 THEN c[k] + mid ELSE c[n - 1]
        /\ d[n + 1] = IF n + 1 <= k THEN c[n + 1] ELSE IF n = k THEN c[k] + mid ELSE c[n]
        /\ d[n + 2] = IF n + 2 <= k THEN c[n + 2] ELSE IF n + 2 = k + 1 THEN c[k] + mid ELSE c[n + 1]
    <3>1. n \in 1 .. N + 2 /\ n + 1 \in 1 .. N + 2 /\ n + 2 \in 1 .. N + 2 BY <1>1, <2>1
    <3>2. (n + 1) - 1 = n /\ (n + 2) - 1 = n + 1 /\ (n + 1 = k + 1 <=> n = k) BY <2>1, <1>4
    <3>3. QED BY <1>2, <3>1, <3>2
  <2>4. cur.index = j /\ (Touched(cur, k) <=> n = k)
    <3>1. cur.index = j BY <2>1, CurParts
    <3>2. Touched(Cur(f, n, j), k) <=> n = k BY <2>1, TouchedInside
    <3>3. QED BY <2>1, <3>1, <3>2
  <2>5. CASE n = k /\ j >= mid
    <3>1. new = Cur(f, N + 1, j - mid)
      <4>1. new = SetIndex(SetNode(cur, N + 1), j - mid) BY <2>4, <2>5 DEF SplitCur, SetIndex, SetNode
      <4>2. SetNode(cur, N + 1) = Cur(f, N + 1, j) BY <2>1, CurSet
      <4>3. SetIndex(Cur(f, N + 1, j), j - mid) = Cur(f, N + 1, j - mid) BY CurSet
      <4>4. QED BY <4>1, <4>2, <4>3
    <3>2. Renamed(new, o) = Cur(f, k + 1, j - mid)
      <4>1. Renamed(Cur(f, N + 1, j - mid), o) = Cur(f, Named(o, N + 1), j - mid) BY RenamedCur
      <4>2. QED BY <1>5, <3>1, <4>1
    <3>3. d[k + 1] = c[k] + mid /\ d[(k + 1) + 1] = c[k + 1] BY <1>4, <2>3, <2>5
    <3>4. /\ k + 1 \in 1 .. Count(d) /\ j - mid \in Nat /\ p = d[k + 1] + (j - mid)
          /\ p <= d[(k + 1) + 1] /\ (f = {} => p < d[(k + 1) + 1])
      BY <1>1, <1>3, <1>4, <1>7, <2>1, <2>2, <2>5, <3>3
    <3>5. At(Cur(f, k + 1, j - mid), d, p, f) BY <2>1, <3>4, AtFrom
    <3>6. QED BY <1>7, <3>2, <3>5
  <2>6. CASE n = k /\ j < mid
    <3>1. new = cur
      <4>1. ~(cur.index >= mid) BY <2>1, <2>4, <2>6
      <4>2. QED BY <4>1 DEF SplitCur
    <3>2. Renamed(new, o) = Cur(f, n, j)
      <4>1. Renamed(Cur(f, n, j), o) = Cur(f, Named(o, n), j) BY RenamedCur
      <4>2. Named(o, n) = n BY <1>5, <1>4, <2>1, <2>6
      <4>3. QED BY <2>1, <3>1, <4>1, <4>2
    <3>3. d[n] = c[n] /\ d[n + 1] = c[n] + mid BY <1>4, <2>3, <2>6
    <3>4. /\ n \in 1 .. Count(d) /\ p = d[n] + j /\ p <= d[n + 1] /\ (f = {} => p < d[n + 1])
      BY <1>1, <1>3, <1>7, <2>1, <2>2, <2>6, <3>3
    <3>5. At(Cur(f, n, j), d, p, f) BY <2>1, <3>4, AtFrom
    <3>6. QED BY <1>7, <3>2, <3>5
  <2>7. CASE n < k
    <3>1. new = cur
      <4>1. ~Touched(cur, k) BY <1>4, <2>1, <2>4, <2>7
      <4>2. QED BY <4>1 DEF SplitCur
    <3>2. Renamed(new, o) = Cur(f, n, j)
      <4>1. Renamed(Cur(f, n, j), o) = Cur(f, Named(o, n), j) BY RenamedCur
      <4>2. Named(o, n) = n BY <1>5, <1>4, <2>1, <2>7
      <4>3. QED BY <2>1, <3>1, <4>1, <4>2
    <3>3. d[n] = c[n] /\ d[n + 1] = c[n + 1] BY <1>4, <2>1, <2>3, <2>7
    <3>4. /\ n \in 1 .. Count(d) /\ p = d[n] + j /\ p <= d[n + 1] /\ (f = {} => p < d[n + 1])
      BY <1>1, <1>3, <1>7, <2>1, <2>2, <2>7, <3>3
    <3>5. At(Cur(f, n, j), d, p, f) BY <2>1, <3>4, AtFrom
    <3>6. QED BY <1>7, <3>2, <3>5
  <2>8. CASE n > k
    <3>1. new = cur
      <4>1. ~Touched(cur, k) BY <1>4, <2>1, <2>4, <2>8
      <4>2. QED BY <4>1 DEF SplitCur
    <3>2. Renamed(new, o) = Cur(f, n + 1, j)
      <4>1. Renamed(Cur(f, n, j), o) = Cur(f, Named(o, n), j) BY RenamedCur
      <4>2. Named(o, n) = n + 1 BY <1>5, <1>4, <2>1, <2>8
      <4>3. QED BY <2>1, <3>1, <4>1, <4>2
    <3>3. d[n + 1] = c[n] /\ d[(n + 1) + 1] = c[n + 1] BY <1>4, <2>1, <2>3, <2>8
    <3>4. /\ n + 1 \in 1 .. Count(d) /\ p = d[n + 1] + j /\ p <= d[(n + 1) + 1]
          /\ (f = {} => p < d[(n + 1) + 1])
      BY <1>1, <1>3, <1>7, <2>1, <2>2, <2>8, <3>3
    <3>5. At(Cur(f, n + 1, j), d, p, f) BY <2>1, <3>4, AtFrom
    <3>6. QED BY <1>7, <3>2, <3>5
  <2>9. QED BY <1>1, <1>4, <2>1, <2>5, <2>6, <2>7, <2>8
<1>8. ASSUME Seeks(cur, c, p, gone) PROVE At(Renamed(new, o), d, p, gone)
  <2>1. d[Len(d)] = c[Len(c)]
    <3>1. N + 2 \in 1 .. N + 2 /\ ~(N + 2 <= k) /\ N + 2 # k + 1 /\ (N + 2) - 1 = N + 1 BY <1>1, <1>4
    <3>2. QED BY <1>1, <1>2, <3>1
  <2>2. k # 0 BY <1>4
  <2>3. ~Touched(cur, k) /\ At(Renamed(cur, o), d, p, gone) BY ONLY <1>8, <1>6, <2>1, <2>2, SeeksKept
  <2>4. new = cur BY <2>3 DEF SplitCur
  <2>5. QED BY <2>3, <2>4
<1>9. QED BY <1>7, <1>8 DEF At, Seeks, d, o, N

\* The node k, which has no values left, is dropped.
LEMMA DropCursor ==
  ASSUME NEW c, MarkSeq(c), NEW k \in 1 .. Count(c), c[k] = c[k + 1], NEW seek,
         \/ k = 1 /\ seek = "SEEK_FIRST_NEXT"
         \/ k = Count(c) /\ seek = "SEEK_LAST_NEXT",
         NEW cur, NEW p, NEW gone, At(cur, c, p, gone)
  PROVE  At(Renamed(DroppedCur(cur, k, seek), Gap(Count(c), k)), DropMark(c, k + 1), p, gone)
<1> DEFINE N == Count(c)
           d == DropMark(c, k + 1)
           o == Gap(N, k)
           new == DroppedCur(cur, k, seek)
<1>1. /\ N \in Nat /\ Len(c) = N + 1 /\ c[1] = 0
      /\ \A j \in 1 .. N : c[j] \in Nat /\ c[j + 1] \in Nat /\ c[j] <= c[j + 1]
  BY ShapeParts DEF MarkSeq
<1>2. /\ Len(d) = N
      /\ \A j \in 1 .. N : d[j] = IF j < k + 1 THEN c[j] ELSE c[j + 1]
  <2>1. k + 1 \in 2 .. Len(c) /\ N = Len(c) - 1 BY <1>1
  <2>2. QED BY ONLY <2>1, MarkSeq(c), DropMarkIs
<1>3. Count(d) = N - 1
  <2>1. Len(d) = N BY <1>2
  <2>2. QED BY ONLY <2>1 DEF Count
<1>4. k \in 1 .. N /\ N \in Nat BY <1>1
<1>5. \A x \in 1 .. N : x # k => Named(o, x) = IF x < k THEN x ELSE x - 1
  BY ONLY <1>4, NamedGap
<1>6. Named(o, 0) = 0 BY ONLY <1>4, NamedGap
<1>7. d[Len(d)] = c[Len(c)]
  <2>1. N \in 1 .. N BY <1>4
  <2>2. CASE k = N BY <1>1, <1>2, <2>1, <2>2
  <2>3. CASE k # N
    <3>1. ~(N < k + 1) BY <1>4, <2>3
    <3>2. QED BY <1>1, <1>2, <2>1, <3>1
  <2>4. QED BY <2>2, <2>3
<1>8. /\ c[k] = c[k + 1]
      /\ \/ k = 1 /\ seek = "SEEK_FIRST_NEXT"
         \/ k = N /\ seek = "SEEK_LAST_NEXT"
  OBVIOUS
<1> HIDE DEF d, N, o
<1>9. ASSUME NEW f, NEW n, NEW j, Inside(cur, c, f, n, j), p = c[n] + j, gone = f
      PROVE  At(Renamed(new, o), d, p, gone)
  <2>1. /\ cur = Cur(f, n, j) /\ f \in {{}, {"DELETED"}} /\ n \in 1 .. N /\ j \in Nat
        /\ c[n] + j <= c[n + 1] /\ (f = {} => c[n] + j < c[n + 1])
    BY <1>9 DEF Inside, N
  <2>2. c[n] \in Nat /\ c[n + 1] \in Nat BY <1>1, <2>1
  <2>3. Touched(cur, k) <=> n = k
    <3>1. Touched(Cur(f, n, j), k) <=> n = k BY <2>1, TouchedInside
    <3>2. QED BY <2>1, <3>1
  <2>4. CASE n = k
    <3>1. j = 0 /\ f # {} BY ONLY <1>8, <2>1, <2>2, <2>4
    <3>2. f = {"DELETED"} BY ONLY <2>1, <3>1
    <3>3. new = Cur({"DELETED", seek}, 0, 0)
      <4> DEFINE g == {"DELETED", seek}
      <4>1. new = SetIndex(SetNode(SetFlags(cur, g), 0), 0)
        BY <2>3, <2>4 DEF DroppedCur, SetFlags, SetNode, SetIndex, NoNode
      <4> HIDE DEF g
      <4>2. SetFlags(cur, g) = Cur(g, n, j) BY <2>1, CurSet
      <4>3. SetNode(Cur(g, n, j), 0) = Cur(g, 0, j) BY CurSet
      <4>4. SetIndex(Cur(g, 0, j), 0) = Cur(g, 0, 0) BY CurSet
      <4>5. QED BY <4>1, <4>2, <4>3, <4>4 DEF g
    <3>4. Renamed(new, o) = Cur({"DELETED", seek}, 0, 0)
      <4> DEFINE g == {"DELETED", seek}
      <4>1. new = Cur(g, 0, 0) BY <3>3
      <4> HIDE DEF g
      <4>2. Renamed(Cur(g, 0, 0), o) = Cur(g, Named(o, 0), 0) BY RenamedCur
      <4>3. QED BY ONLY <1>6, <4>1, <4>2 DEF g
    <3>5. p = c[k] BY <1>9, <2>2, <2>4, <3>1
    <3>6. CASE k = 1 /\ seek = "SEEK_FIRST_NEXT"
      <4>1. p = 0 BY <1>1, <3>5, <3>6
      <4>2. QED BY <1>9, <3>2, <3>4, <3>6, <4>1 DEF At
    <3>7. CASE k = N /\ seek = "SEEK_LAST_NEXT"
      <4>1. p = d[Len(d)] BY <1>1, <1>7, <1>8, <3>5, <3>7
      <4>2. QED BY <1>9, <3>2, <3>4, <3>7, <4>1 DEF At
    <3>8. QED BY <1>8, <3>6, <3>7
  <2>5. CASE n < k
    <3>1. new = cur
      <4>1. ~Touched(cur, k) BY <1>4, <2>1, <2>3, <2>5
      <4>2. QED BY <4>1 DEF DroppedCur
    <3>2. Renamed(new, o) = Cur(f, n, j)
      <4>1. Renamed(Cur(f, n, j), o) = Cur(f, Named(o, n), j) BY RenamedCur
      <4>2. Named(o, n) = n BY <1>4, <1>5, <2>1, <2>5
      <4>3. QED BY <2>1, <3>1, <4>1, <4>2
    <3>3. d[n] = c[n] /\ d[n + 1] = c[n + 1]
      <4>1. n \in 1 .. N /\ n + 1 \in 1 .. N /\ n < k + 1 /\ n + 1 < k + 1 BY <1>4, <2>1, <2>5
      <4>2. QED BY <1>2, <4>1
    <3>4. /\ n \in 1 .. Count(d) /\ p = d[n] + j /\ p <= d[n + 1] /\ (f = {} => p < d[n + 1])
      BY <1>3, <1>4, <1>9, <2>1, <2>2, <2>5, <3>3
    <3>5. At(Cur(f, n, j), d, p, f) BY <2>1, <3>4, AtFrom
    <3>6. QED BY <1>9, <3>2, <3>5
  <2>6. CASE n > k
    <3>1. new = cur
      <4>1. ~Touched(cur, k) BY <1>4, <2>1, <2>3, <2>6
      <4>2. QED BY <4>1 DEF DroppedCur
    <3>2. Renamed(new, o) = Cur(f, n - 1, j)
      <4>1. Renamed(Cur(f, n, j), o) = Cur(f, Named(o, n), j) BY RenamedCur
      <4>2. Named(o, n) = n - 1 BY <1>4, <1>5, <2>1, <2>6
      <4>3. QED BY <2>1, <3>1, <4>1, <4>2
    <3>3. d[n - 1] = c[n] /\ d[(n - 1) + 1] = c[n + 1]
      <4>1. n \in 1 .. N /\ n - 1 \in 1 .. N /\ ~(n < k + 1) /\ (n - 1) + 1 = n BY <1>4, <2>1, <2>6
      <4>2. d[n] = c[n + 1] BY <1>2, <4>1
      <4>3. CASE n = k + 1
        <5>1. n - 1 = k /\ n - 1 < k + 1 BY <1>4, <4>3
        <5>2. d[n - 1] = c[k] BY <1>2, <4>1, <5>1
        <5>3. QED BY <1>8, <4>1, <4>2, <4>3, <5>2
      <4>4. CASE n # k + 1
        <5>1. ~(n - 1 < k + 1) BY <1>4, <4>1, <4>4
        <5>2. d[n - 1] = c[n] BY <1>2, <4>1, <5>1
        <5>3. QED BY <4>1, <4>2, <5>2
      <4>5. QED BY <4>3, <4>4
    <3>4. /\ n - 1 \in 1 .. Count(d) /\ p = d[n - 1] + j /\ p <= d[(n - 1) + 1]
          /\ (f = {} => p < d[(n - 1) + 1])
      BY <1>3, <1>4, <1>9, <2>1, <2>2, <2>6, <3>3
    <3>5. At(Cur(f, n - 1, j), d, p, f) BY <2>1, <3>4, AtFrom
    <3>6. QED BY <1>9, <3>2, <3>5
  <2>7. QED BY <1>4, <2>1, <2>4, <2>5, <2>6
<1>10. ASSUME Seeks(cur, c, p, gone) PROVE At(Renamed(new, o), d, p, gone)
  <2>1. k # 0 BY <1>4
  <2>2. ~Touched(cur, k) /\ At(Renamed(cur, o), d, p, gone) BY ONLY <1>6, <1>7, <1>10, <2>1, SeeksKept
  <2>3. new = cur BY <2>2 DEF DroppedCur
  <2>4. QED BY <2>2, <2>3
<1>11. QED BY <1>9, <1>10 DEF At, Seeks, d, o, N

\* The first value of the next node is taken over.
LEMMA StealCursor ==
  ASSUME NEW c, MarkSeq(c), NEW k \in 1 .. Count(c) - 1, c[k + 1] < c[k + 2],
         NEW cur, NEW p, NEW gone, At(cur, c, p, gone)
  PROVE  At(Renamed(StolenCur(cur, k, k + 1, c[k + 1] - c[k]), Upto(Count(c))), StealMarks(c, k), p, gone)
<1> DEFINE N == Count(c)
           d == StealMarks(c, k)
           o == Upto(N)
           size == c[k + 1] - c[k]
           new == StolenCur(cur, k, k + 1, size)
<1>1. /\ N \in Nat /\ Len(c) = N + 1
      /\ \A j \in 1 .. N : c[j] \in Nat /\ c[j + 1] \in Nat /\ c[j] <= c[j + 1]
  BY ShapeParts
<1>2. /\ Len(d) = N + 1
      /\ \A j \in 1 .. N + 1 : d[j] = IF j = k + 1 THEN c[j] + 1 ELSE c[j]
  <2>1. k \in 1 .. Count(c) - 1 OBVIOUS
  <2>2. Len(d) = Len(c) /\ \A j \in 1 .. Len(c) : d[j] = IF j = k + 1 THEN c[j] + 1 ELSE c[j]
    BY ONLY <2>1, MarkSeq(c), c[k + 1] < c[k + 2], StealMarksAre
  <2>3. QED BY ONLY <1>1, <2>2
<1>3. Count(d) = N BY <1>1, <1>2 DEF Count
<1>4. k \in 1 .. N - 1 /\ N \in Nat BY <1>1
<1>5. \A x \in 1 .. N : Named(o, x) = x BY ONLY <1>4, NamedUpto
<1>6. Named(o, 0) = 0 BY ONLY <1>4, NamedUpto
<1>7. d[Len(d)] = c[Len(c)] BY <1>1, <1>2, <1>4
<1>8. c[k] \in Nat /\ c[k + 1] \in Nat /\ c[k] <= c[k + 1] /\ size \in Nat
  <2>1. k \in 1 .. N BY <1>4
  <2>2. QED BY <1>1, <2>1
<1> HIDE DEF d, N, o
<1>9. ASSUME NEW f, NEW n, NEW j, Inside(cur, c, f, n, j), p = c[n] + j, gone = f
      PROVE  At(Renamed(new, o), d, p, gone)
  <2>1. /\ cur = Cur(f, n, j) /\ f \in {{}, {"DELETED"}} /\ n \in 1 .. N /\ j \in Nat
        /\ c[n] + j <= c[n + 1] /\ (f = {} => c[n] + j < c[n + 1])
    BY <1>9 DEF Inside, N
  <2>2. c[n] \in Nat /\ c[n + 1] \in Nat BY <1>1, <2>1
  <2>3. /\ d[n] = IF n = k + 1 THEN c[n] + 1 ELSE c[n]
        /\ d[n + 1] = IF n = k THEN c[n + 1] + 1 ELSE c[n + 1]
    <3>1. n \in 1 .. N + 1 /\ n + 1 \in 1 .. N + 1 /\ (n + 1 = k + 1 <=> n = k) BY <1>4, <2>1
    <3>2. QED BY <1>2, <3>1
  <2>4. cur.index = j /\ (Touched(cur, k + 1) <=> n = k + 1)
    <3>1. cur.index = j BY <2>1, CurParts
    <3>2. Touched(Cur(f, n, j), k + 1) <=> n = k + 1 BY <2>1, TouchedInside
    <3>3. QED BY <2>1, <3>1, <3>2
  <2>5. CASE n = k + 1 /\ j = 0
    <3>1. new = Cur(f, k, size)
      <4>1. new = SetIndex(SetNode(cur, k), size) BY <2>4, <2>5 DEF StolenCur, SetIndex, SetNode
      <4>2. SetNode(cur, k) = Cur(f, k, j) BY <2>1, CurSet
      <4>3. SetIndex(Cur(f, k, j), size) = Cur(f, k, size) BY CurSet
      <4>4. QED BY <4>1, <4>2, <4>3
    <3>2. Renamed(new, o) = Cur(f, k, size)
      <4>1. Renamed(Cur(f, k, size), o) = Cur(f, Named(o, k), size) BY RenamedCur
      <4>2. Named(o, k) = k BY <1>4, <1>5
      <4>3. QED BY <3>1, <4>1, <4>2
    <3>3. d[k] = c[k] /\ d[k + 1] = c[k + 1] + 1
      <4>1. k \in 1 .. N + 1 /\ k + 1 \in 1 .. N + 1 /\ k # k + 1 BY <1>4
      <4>2. QED BY <1>2, <4>1
    <3>4. k \in 1 .. Count(d) /\ p = d[k] + size /\ p <= d[k + 1] /\ (f = {} => p < d[k + 1])
      BY <1>3, <1>4, <1>8, <1>9, <2>5, <3>3
    <3>5. At(Cur(f, k, size), d, p, f) BY <1>8, <2>1, <3>4, AtFrom
    <3>6. QED BY <1>9, <3>2, <3>5
  <2>6. CASE n = k + 1 /\ j # 0
    <3>1. new = Cur(f, n, j - 1)
      <4>1. new = SetIndex(cur, j - 1) BY <2>4, <2>6 DEF StolenCur, SetIndex
      <4>2. QED BY <2>1, <4>1, CurSet
    <3>2. Renamed(new, o) = Cur(f, n, j - 1)
      <4>1. Renamed(Cur(f, n, j - 1), o) = Cur(f, Named(o, n), j - 1) BY RenamedCur
      <4>2. Named(o, n) = n BY <1>5, <2>1
      <4>3. QED BY <3>1, <4>1, <4>2
    <3>3. d[n] = c[n] + 1 /\ d[n + 1] = c[n + 1] BY <1>4, <2>3, <2>6
    <3>4. /\ n \in 1 .. Count(d) /\ j - 1 \in Nat /\ p = d[n] + (j - 1) /\ p <= d[n + 1]
          /\ (f = {} => p < d[n + 1])
      BY <1>3, <1>9, <2>1, <2>2, <2>6, <3>3
    <3>5. At(Cur(f, n, j - 1), d, p, f) BY <2>1, <3>4, AtFrom
    <3>6. QED BY <1>9, <3>2, <3>5
  <2>7. CASE n # k + 1
    <3>1. new = cur BY <2>4, <2>7 DEF StolenCur
    <3>2. Renamed(new, o) = Cur(f, n, j)
      <4>1. Renamed(Cur(f, n, j), o) = Cur(f, Named(o, n), j) BY RenamedCur
      <4>2. Named(o, n) = n BY <1>5, <2>1
      <4>3. QED BY <2>1, <3>1, <4>1, <4>2
    <3>3. d[n] = c[n] /\ d[n + 1] \in {c[n + 1], c[n + 1] + 1} BY <2>3, <2>7
    <3>4. /\ n \in 1 .. Count(d) /\ p = d[n] + j /\ p <= d[n + 1] /\ (f = {} => p < d[n + 1])
      BY <1>3, <1>9, <2>1, <2>2, <3>3
    <3>5. At(Cur(f, n, j), d, p, f) BY <2>1, <3>4, AtFrom
    <3>6. QED BY <1>9, <3>2, <3>5
  <2>8. QED BY <2>5, <2>6, <2>7
<1>10. ASSUME Seeks(cur, c, p, gone) PROVE At(Renamed(new, o), d, p, gone)
  <2>1. PICK m : m = k + 1 OBVIOUS
  <2>2. m # 0 BY <1>4, <2>1
  <2>3. ~Touched(cur, m) /\ At(Renamed(cur, o), d, p, gone) BY ONLY <1>6, <1>7, <1>10, <2>2, SeeksKept
  <2>4. new = cur BY <2>1, <2>3 DEF StolenCur
  <2>5. QED BY <2>3, <2>4
<1>11. QED BY <1>9, <1>10 DEF At, Seeks, d, o, N

\* The values of the next node are taken over and the node is dropped.
LEMMA MergeCursor ==
  ASSUME NEW c, MarkSeq(c), NEW k \in 1 .. Count(c) - 1, NEW cur, NEW p, NEW gone, At(cur, c, p, gone)
  PROVE  At(Renamed(MergedCur(cur, k, k + 1, c[k + 1] - c[k]), Gap(Count(c), k + 1)), DropMark(c, k + 1), p, gone)
<1> DEFINE N == Count(c)
           d == DropMark(c, k + 1)
           o == Gap(N, k + 1)
           size == c[k + 1] - c[k]
           new == MergedCur(cur, k, k + 1, size)
<1>1. /\ N \in Nat /\ Len(c) = N + 1
      /\ \A j \in 1 .. N : c[j] \in Nat /\ c[j + 1] \in Nat /\ c[j] <= c[j + 1]
  BY ShapeParts
<1>2. /\ Len(d) = N
      /\ \A j \in 1 .. N : d[j] = IF j < k + 1 THEN c[j] ELSE c[j + 1]
  <2>1. k + 1 \in 2 .. Len(c) /\ N = Len(c) - 1 BY <1>1
  <2>2. QED BY ONLY <2>1, MarkSeq(c), DropMarkIs
<1>3. Count(d) = N - 1
  <2>1. Len(d) = N BY <1>2
  <2>2. QED BY ONLY <2>1 DEF Count
<1>4. k \in 1 .. N - 1 /\ k + 1 \in 1 .. N /\ N \in Nat BY <1>1
<1>5. \A x \in 1 .. N : x # k + 1 => Named(o, x) = IF x < k + 1 THEN x ELSE x - 1
  BY ONLY <1>4, NamedGap
<1>6. Named(o, 0) = 0 BY ONLY <1>4, NamedGap
<1>7. d[Len(d)] = c[Len(c)]
  <2>1. N \in 1 .. N /\ ~(N < k + 1) BY <1>4
  <2>2. QED BY <1>1, <1>2, <2>1
<1>8. c[k] \in Nat /\ c[k + 1] \in Nat /\ c[k] <= c[k + 1] /\ size \in Nat
  <2>1. k \in 1 .. N BY <1>4
  <2>2. QED BY <1>1, <2>1
<1>9. c[(k + 1) + 1] \in Nat /\ c[k + 1] <= c[(k + 1) + 1] BY <1>1, <1>4
<1> HIDE DEF d, N, o
<1>10. d[k] = c[k] /\ d[k + 1] = c[(k + 1) + 1]
  <2>1. k \in 1 .. N /\ k < k + 1 /\ k + 1 \in 1 .. N /\ ~(k + 1 < k + 1) BY <1>4
  <2>2. QED BY <1>2, <2>1
<1>11. ASSUME NEW f, NEW n, NEW j, Inside(cur, c, f, n, j), p = c[n] + j, gone = f
      PROVE  At(Renamed(new, o), d, p, gone)
  <2>1. /\ cur = Cur(f, n, j) /\ f \in {{}, {"DELETED"}} /\ n \in 1 .. N /\ j \in Nat
        /\ c[n] + j <= c[n + 1] /\ (f = {} => c[n] + j < c[n + 1])
    BY <1>11 DEF Inside, N
  <2>2. c[n] \in Nat /\ c[n + 1] \in Nat BY <1>1, <2>1
  <2>3. cur.index = j /\ (Touched(cur, k + 1) <=> n = k + 1)
    <3>1. cur.index = j BY <2>1, CurParts
    <3>2. Touched(Cur(f, n, j), k + 1) <=> n = k + 1 BY <2>1, TouchedInside
    <3>3. QED BY <2>1, <3>1, <3>2
  <2>4. CASE n = k + 1
    <3>1. new = Cur(f, k, j + size)
      <4>1. new = SetIndex(SetNode(cur, k), j + size) BY <2>3, <2>4 DEF MergedCur, SetIndex, SetNode
      <4>2. SetNode(cur, k) = Cur(f, k, j) BY <2>1, CurSet
      <4>3. SetIndex(Cur(f, k, j), j + size) = Cur(f, k, j + size) BY CurSet
      <4>4. QED BY <4>1, <4>2, <4>3
    <3>2. Renamed(new, o) = Cur(f, k, j + size)
      <4>1. Renamed(Cur(f, k, j + size), o) = Cur(f, Named(o, k), j + size) BY RenamedCur
      <4>2. Named(o, k) = k
        <5>1. k \in 1 .. N /\ k # k + 1 /\ k < k + 1 BY <1>4
        <5>2. QED BY <1>5, <5>1
      <4>3. QED BY <3>1, <4>1, <4>2
    <3>3. /\ k \in 1 .. Count(d) /\ j + size \in Nat /\ p = d[k] + (j + size) /\ p <= d[k + 1]
          /\ (f = {} => p < d[k + 1])
      BY <1>3, <1>4, <1>8, <1>9, <1>10, <1>11, <2>1, <2>4
    <3>4. At(Cur(f, k, j + size), d, p, f) BY <2>1, <3>3, AtFrom
    <3>5. QED BY <1>11, <3>2, <3>4
  <2>5. CASE n < k + 1
    <3>1. new = cur
      <4>1. ~Touched(cur, k + 1) BY <1>4, <2>1, <2>3, <2>5
      <4>2. QED BY <4>1 DEF MergedCur
    <3>2. Renamed(new, o) = Cur(f, n, j)
      <4>1. Renamed(Cur(f, n, j), o) = Cur(f, Named(o, n), j) BY RenamedCur
      <4>2. Named(o, n) = n BY <1>4, <1>5, <2>1, <2>5
      <4>3. QED BY <2>1, <3>1, <4>1, <4>2
    <3>3. d[n] = c[n] /\ d[n + 1] \in Nat /\ d[n + 1] >= c[n + 1]
      <4>1. n \in 1 .. N /\ n < k + 1 BY <1>4, <2>1, <2>5
      <4>2. d[n] = c[n] BY <1>2, <4>1
      <4>3. CASE n = k BY <1>8, <1>9, <1>10, <4>2, <4>3
      <4>4. CASE n # k
        <5>1. n + 1 \in 1 .. N /\ n + 1 < k + 1 BY <1>4, <4>1, <4>4
        <5>2. d[n + 1] = c[n + 1] BY <1>2, <5>1
        <5>3. QED BY <2>2, <4>2, <5>2
      <4>5. QED BY <4>3, <4>4
    <3>4. /\ n \in 1 .. Count(d) /\ p = d[n] + j /\ p <= d[n + 1] /\ (f = {} => p < d[n + 1])
      BY <1>3, <1>4, <1>11, <2>1, <2>2, <2>5, <3>3
    <3>5. At(Cur(f, n, j), d, p, f) BY <2>1, <3>4, AtFrom
    <3>6. QED BY <1>11, <3>2, <3>5
  <2>6. CASE n > k + 1
    <3>1. new = cur
      <4>1. ~Touched(cur, k + 1) BY <1>4, <2>1, <2>3, <2>6
      <4>2. QED BY <4>1 DEF MergedCur
    <3>2. Renamed(new, o) = Cur(f, n - 1, j)
      <4>1. Renamed(Cur(f, n, j), o) = Cur(f, Named(o, n), j) BY RenamedCur
      <4>2. Named(o, n) = n - 1 BY <1>4, <1>5, <2>1, <2>6
      <4>3. QED BY <2>1, <3>1, <4>1, <4>2
    <3>3. d[n - 1] = c[n] /\ d[(n - 1) + 1] = c[n + 1]
      <4>1. n - 1 \in 1 .. N /\ ~(n - 1 < k + 1) /\ (n - 1) + 1 = n /\ n \in 1 .. N /\ ~(n < k + 1)
        BY <1>4, <2>1, <2>6
      <4>2. QED BY <1>2, <4>1
    <3>4. /\ n - 1 \in 1 .. Count(d) /\ p = d[n - 1] + j /\ p <= d[(n - 1) + 1]
          /\ (f = {} => p < d[(n - 1) + 1])
      BY <1>3, <1>4, <1>11, <2>1, <2>2, <2>6, <3>3
    <3>5. At(Cur(f, n - 1, j), d, p, f) BY <2>1, <3>4, AtFrom
    <3>6. QED BY <1>11, <3>2, <3>5
  <2>7. QED BY <1>4, <2>1, <2>4, <2>5, <2>6
<1>12. ASSUME Seeks(cur, c, p, gone) PROVE At(Renamed(new, o), d, p, gone)
  <2>1. PICK m : m = k + 1 OBVIOUS
  <2>2. m # 0 BY <1>4, <2>1
  <2>3. ~Touched(cur, m) /\ At(Renamed(cur, o), d, p, gone) BY ONLY <1>6, <1>7, <1>12, <2>2, SeeksKept
  <2>4. new = cur BY <2>1, <2>3 DEF MergedCur
  <2>5. QED BY <2>3, <2>4
<1>13. QED BY <1>11, <1>12 DEF At, Seeks, d, o, N

\* erase_at marks the cursors at the value and moves those behind it.
LEMMA EraseCursorAt ==
  ASSUME NEW b, MarkSeq(b), NEW k \in 1 .. Count(b), NEW i \in 0 .. b[k + 1] - b[k] - 1, NEW e, e = b[k] + i + 1,
         NEW cur, NEW p, NEW gone, p \in Nat, At(cur, b, p, gone)
  PROVE  At(ErasedCur(cur, k, i), CloseMarks(b, k),
            IF p < e THEN p ELSE p - 1, IF p + 1 = e THEN {"DELETED"} ELSE gone)
<1> DEFINE N == Count(b)
           d == CloseMarks(b, k)
           new == ErasedCur(cur, k, i)
           q == IF p < e THEN p ELSE p - 1
           lost == IF p + 1 = e THEN {"DELETED"} ELSE gone
<1>1. /\ N \in Nat /\ Len(b) = N + 1
      /\ \A j \in 1 .. N : b[j] \in Nat /\ b[j + 1] \in Nat /\ b[j] <= b[j + 1]
  BY ShapeParts
<1>2. k \in 1 .. N /\ N \in Nat BY <1>1
<1>3. b[k] \in Nat /\ b[k + 1] \in Nat /\ e \in Nat /\ b[k] < e /\ e <= b[k + 1] /\ i \in Nat /\ e = b[k] + i + 1
  <2>1. b[k] \in Nat /\ b[k + 1] \in Nat BY <1>1, <1>2
  <2>2. QED BY ONLY <2>1, i \in 0 .. b[k + 1] - b[k] - 1, e = b[k] + i + 1
<1>4. Len(d) = N + 1 /\ \A j \in 1 .. N + 1 : d[j] = IF j > k THEN b[j] - 1 ELSE b[j]
  <2>1. b[k] < b[k + 1] /\ k \in 1 .. Count(b) BY <1>3
  <2>2. Len(b) = N + 1 BY <1>1
  <2>3. QED BY ONLY <2>1, <2>2, MarkSeq(b), CloseMarksAre
<1>5. Count(d) = N
  <2>1. Len(d) = N + 1 /\ N \in Nat BY <1>1, <1>4
  <2> HIDE DEF N, d
  <2>2. QED BY ONLY <2>1 DEF Count
<1>6. b[k + 1] <= b[N + 1] /\ b[N + 1] \in Nat
  <2>1. k + 1 \in 1 .. Len(b) /\ N + 1 \in 1 .. Len(b) /\ k + 1 <= N + 1
    <3> HIDE DEF N
    <3> QED BY <1>1, <1>2
  <2>2. QED BY <2>1, MarksRise
<1> HIDE DEF d, N
<1>7. ASSUME NEW f, NEW n, NEW j, Inside(cur, b, f, n, j), p = b[n] + j, gone = f PROVE At(new, d, q, lost)
  <2>1. /\ cur = Cur(f, n, j) /\ f \in {{}, {"DELETED"}} /\ n \in 1 .. N /\ j \in Nat
        /\ b[n] + j <= b[n + 1] /\ (f = {} => b[n] + j < b[n + 1])
    BY <1>7 DEF Inside, N
  <2>2. b[n] \in Nat /\ b[n + 1] \in Nat BY <1>1, <2>1
  <2>3. /\ d[n] = IF n > k THEN b[n] - 1 ELSE b[n]
        /\ d[n + 1] = IF n + 1 > k THEN b[n + 1] - 1 ELSE b[n + 1]
    <3>1. n \in 1 .. N + 1 /\ n + 1 \in 1 .. N + 1 BY <1>1, <2>1
    <3>2. QED BY <1>4, <3>1
  <2>4. cur.index = j /\ cur.flags = f /\ (Touched(cur, k) <=> n = k)
    <3>1. cur.index = j /\ cur.flags = f BY <2>1, CurParts
    <3>2. Touched(Cur(f, n, j), k) <=> n = k BY <2>1, TouchedInside
    <3>3. QED BY <2>1, <3>1, <3>2
  <2>5. CASE n = k /\ j = i
    <3>1. new = Cur({"DELETED"}, n, j)
      <4>1. f \cup {"DELETED"} = {"DELETED"} BY <2>1
      <4>2. new = SetFlags(cur, {"DELETED"})
        <5>1. cur.index = i /\ ~(cur.index > i) BY <1>3, <2>4, <2>5
        <5>2. new = [cur EXCEPT !.flags = @ \cup {"DELETED"}] BY <2>4, <2>5, <5>1 DEF ErasedCur
        <5>3. QED BY <2>4, <4>1, <5>2 DEF SetFlags
      <4>3. SetFlags(Cur(f, n, j), {"DELETED"}) = Cur({"DELETED"}, n, j) BY CurSet
      <4>4. QED BY <2>1, <4>2, <4>3
    <3>2. q = p /\ lost = {"DELETED"}
      <4>1. p < e /\ p + 1 = e BY <1>3, <1>7, <2>1, <2>2, <2>5
      <4>2. QED BY <4>1
    <3>3. d[n] = b[n] /\ d[n + 1] = b[n + 1] - 1 BY <1>2, <2>1, <2>3, <2>5
    <3>4. n \in 1 .. Count(d) /\ p = d[n] + j /\ p <= d[n + 1] BY <1>3, <1>5, <1>7, <2>1, <2>2, <2>5, <3>3
    <3>5. At(Cur({"DELETED"}, n, j), d, p, {"DELETED"})
      <4>1. PICK g : g = {"DELETED"} OBVIOUS
      <4>2. g \in {{}, {"DELETED"}} /\ g # {} BY <4>1
      <4>3. At(Cur(g, n, j), d, p, g) BY ONLY <2>1, <3>4, <4>2, AtFrom
      <4>4. QED BY <4>1, <4>3
    <3>6. QED BY <3>1, <3>2, <3>5
  <2>6. CASE n = k /\ j > i
    <3>1. new = Cur(f, n, j - 1)
      <4>1. ~(cur.index = i) /\ cur.index > i BY <1>3, <2>1, <2>4, <2>6
      <4>2. new = SetIndex(cur, j - 1) BY <2>4, <2>6, <4>1 DEF ErasedCur, SetIndex
      <4>3. QED BY <2>1, <4>2, CurSet
    <3>2. q = p - 1 /\ lost = f
      <4>1. ~(p < e) /\ p + 1 # e BY <1>3, <1>7, <2>1, <2>2, <2>6
      <4>2. QED BY <1>7, <4>1
    <3>3. d[n] = b[n] /\ d[n + 1] = b[n + 1] - 1 BY <1>2, <2>1, <2>3, <2>6
    <3>4. /\ n \in 1 .. Count(d) /\ j - 1 \in Nat /\ p - 1 = d[n] + (j - 1) /\ p - 1 <= d[n + 1]
          /\ (f = {} => p - 1 < d[n + 1])
      BY <1>3, <1>5, <1>7, <2>1, <2>2, <2>6, <3>3
    <3>5. At(Cur(f, n, j - 1), d, p - 1, f) BY ONLY <2>1, <3>4, AtFrom
    <3>6. QED BY <3>1, <3>2, <3>5
  <2>7. CASE n = k /\ j < i
    <3>1. new = cur
      <4>1. ~(cur.index = i) /\ ~(cur.index > i) BY <1>3, <2>1, <2>4, <2>7
      <4>2. QED BY <4>1 DEF ErasedCur
    <3>2. q = p /\ lost = f
      <4>1. p < e /\ p + 1 # e BY <1>3, <1>7, <2>1, <2>2, <2>7
      <4>2. QED BY <1>7, <4>1
    <3>3. d[n] = b[n] /\ d[n + 1] = b[n + 1] - 1 BY <1>2, <2>1, <2>3, <2>7
    <3>4. /\ n \in 1 .. Count(d) /\ p = d[n] + j /\ p <= d[n + 1] /\ (f = {} => p < d[n + 1])
      BY <1>3, <1>5, <1>7, <2>1, <2>2, <2>7, <3>3
    <3>5. At(Cur(f, n, j), d, p, f) BY ONLY <2>1, <3>4, AtFrom
    <3>6. QED BY <2>1, <3>1, <3>2, <3>5
  <2>8. CASE n < k
    <3>1. new = cur
      <4>1. ~Touched(cur, k) BY <1>2, <2>1, <2>4, <2>8
      <4>2. QED BY <4>1 DEF ErasedCur
    <3>2. b[n + 1] <= b[k]
      <4>1. n + 1 \in 1 .. Len(b) /\ k \in 1 .. Len(b) /\ n + 1 <= k BY <1>1, <1>2, <2>1, <2>8
      <4>2. QED BY <4>1, MarksRise
    <3>3. q = p /\ lost = f
      <4>1. p < e /\ (p + 1 = e => f # {}) BY <1>3, <1>7, <2>1, <2>2, <3>2
      <4>2. p + 1 = e => f = {"DELETED"} BY ONLY <2>1, <4>1
      <4>3. QED BY <1>7, <4>1, <4>2
    <3>4. d[n] = b[n] /\ d[n + 1] = b[n + 1]
      <4>1. ~(n > k) /\ ~(n + 1 > k) BY <1>2, <2>1, <2>8
      <4>2. QED BY <2>3, <4>1
    <3>5. /\ n \in 1 .. Count(d) /\ p = d[n] + j /\ p <= d[n + 1] /\ (f = {} => p < d[n + 1])
      BY <1>5, <1>7, <2>1, <2>2, <3>4
    <3>6. At(Cur(f, n, j), d, p, f) BY ONLY <2>1, <3>5, AtFrom
    <3>7. QED BY <2>1, <3>1, <3>3, <3>6
  <2>9. CASE n > k
    <3>1. new = cur
      <4>1. ~Touched(cur, k) BY <1>2, <2>1, <2>4, <2>9
      <4>2. QED BY <4>1 DEF ErasedCur
    <3>2. b[k + 1] <= b[n]
      <4>1. k + 1 \in 1 .. Len(b) /\ n \in 1 .. Len(b) /\ k + 1 <= n BY <1>1, <1>2, <2>1, <2>9
      <4>2. QED BY <4>1, MarksRise
    <3>3. q = p - 1 /\ lost = f
      <4>1. ~(p < e) /\ p + 1 # e BY <1>3, <1>7, <2>1, <2>2, <3>2
      <4>2. QED BY <1>7, <4>1
    <3>4. d[n] = b[n] - 1 /\ d[n + 1] = b[n + 1] - 1
      <4>1. n > k /\ n + 1 > k BY <1>2, <2>1, <2>9
      <4>2. QED BY <2>3, <4>1
    <3>5. /\ n \in 1 .. Count(d) /\ p - 1 = d[n] + j /\ p - 1 <= d[n + 1] /\ (f = {} => p - 1 < d[n + 1])
      BY <1>5, <1>7, <2>1, <2>2, <3>4
    <3>6. At(Cur(f, n, j), d, p - 1, f) BY ONLY <2>1, <3>5, AtFrom
    <3>7. QED BY <2>1, <3>1, <3>3, <3>6
  <2>10. QED BY <1>3, <1>2, <2>1, <2>5, <2>6, <2>7, <2>8, <2>9
<1>8. ASSUME Seeks(cur, b, p, gone) PROVE At(new, d, q, lost)
  <2>1. PICK f : cur = Cur(f, 0, 0) BY <1>8 DEF Seeks
  <2>2. ~Touched(cur, k) BY <2>1, <1>2, SeekUntouched
  <2>3. new = cur BY <2>2 DEF ErasedCur
  <2>4. lost = {"DELETED"} /\ gone = {"DELETED"} BY <1>8 DEF Seeks
  <2>5. d[Len(d)] = b[N + 1] - 1
    <3>1. N + 1 \in 1 .. N + 1 /\ N + 1 > k BY <1>1, <1>2
    <3>2. QED BY <1>4, <3>1
  <2>6. CASE cur = Cur({"DELETED", "SEEK_FIRST_NEXT"}, 0, 0) /\ p = 0
    <3>1. q = 0
      <4>1. p < e BY <1>3, <2>6
      <4>2. QED BY <2>6, <4>1
    <3>2. QED BY <2>3, <2>4, <2>6, <3>1 DEF At
  <2>7. CASE cur = Cur({"DELETED", "SEEK_LAST_NEXT"}, 0, 0) /\ p = b[Len(b)]
    <3>1. q = d[Len(d)]
      <4>1. ~(p < e) BY <1>1, <1>3, <1>6, <2>7
      <4>2. QED BY <1>1, <2>5, <2>7, <4>1
    <3>2. QED BY <2>3, <2>4, <2>7, <3>1 DEF At
  <2>8. QED BY <1>8, <2>6, <2>7 DEF Seeks
<1>9. QED BY <1>7, <1>8 DEF At, Seeks, d

\* A cursor that is at no value is left alone.
LEMMA IdleUntouched ==
  ASSUME NEW cur, NEW s, Idle(cur, s), NEW k
  PROVE  ~Touched(cur, k)
<1>1. CASE Off(cur, s)
  <2>1. PICK f : cur = Cur(f, 0, 0) /\ "INVALID" \in f BY <1>1 DEF Off
  <2>2. Invalid(cur) BY <2>1, CurParts
  <2>3. QED BY <2>2 DEF Touched
<1>2. CASE Lost(cur, s)
  <2>1. PICK f, n, i : cur = Free(f, n, i) BY <1>2 DEF Lost
  <2>2. ~cur.linked BY <2>1, FreeParts
  <2>3. QED BY <2>2 DEF Touched
<1>3. QED BY <1>1, <1>2 DEF Idle

LEMMA RenamedFree ==
  ASSUME NEW f, NEW n, NEW i, NEW o
  PROVE  Renamed(Free(f, n, i), o) = Free(f, Named(o, n), i)
<1>1. Free(f, n, i).node = n BY FreeParts
<1>2. SetNode(Free(f, n, i), Named(o, n)) = Free(f, Named(o, n), i) BY FreeSet
<1>3. Renamed(Free(f, n, i), o) = SetNode(Free(f, n, i), Named(o, n)) BY <1>1 DEF Renamed, SetNode
<1>4. QED BY <1>2, <1>3

LEMMA IdleRenamed ==
  ASSUME NEW cur, NEW s, Idle(cur, s), NEW o, Chain(o)
  PROVE  Idle(Renamed(cur, o), s)
<1>1. Named(o, 0) = 0 BY NamedInChain DEF NoNode
<1>2. CASE Off(cur, s)
  <2>1. PICK f : cur = Cur(f, 0, 0) /\ "INVALID" \in f BY <1>2 DEF Off
  <2>2. Renamed(Cur(f, 0, 0), o) = Cur(f, Named(o, 0), 0) BY RenamedCur
  <2>3. Renamed(cur, o) = cur BY ONLY <1>1, <2>1, <2>2
  <2>4. QED BY <1>2, <2>3 DEF Idle
<1>3. CASE Lost(cur, s)
  <2>1. PICK f, n, i : cur = Free(f, n, i) /\ Form(f, n, i) BY <1>3 DEF Lost
  <2>2. PICK m : m = Named(o, n) OBVIOUS
  <2>3. Renamed(cur, o) = Free(f, m, i) BY <2>1, <2>2, RenamedFree
  <2>4. m \in Nat /\ (n = 0 => m = 0) BY <1>1, <2>2, NamedNat
  <2>5. Form(f, m, i) BY <2>1, <2>4 DEF Form
  <2>6. Lost(Renamed(cur, o), s) BY <1>3, <2>3, <2>5 DEF Lost
  <2>7. QED BY <2>6 DEF Idle
<1>4. QED BY <1>2, <1>3 DEF Idle

-----------------------------------------------------------------------------
(* How full the nodes are.                                                 *)

Half == NodeCapacity \div 2

\* No node is empty or too full, and only the first and the last one may have fewer values
\* than half the capacity.
Gaps(b) ==
  /\ MarkSeq(b)
  /\ \A j \in 1 .. Count(b) : b[j] < b[j + 1] /\ b[j + 1] <= b[j] + NodeCapacity
  /\ \A j \in 2 .. Count(b) - 1 : b[j] + Half <= b[j + 1]

LEMMA HalfFacts ==
  ASSUME NodeCapacity >= 2
  PROVE  /\ NodeCapacity \in Nat /\ Half \in Nat /\ Half >= 1
         /\ Half + Half <= NodeCapacity /\ NodeCapacity <= Half + Half + 1
         /\ (NodeCapacity + 2) \div 2 = Half + 1
<1>1. NodeCapacity \in Nat BY ListAssumption
<1>2. QED BY <1>1 DEF Half

LEMMA GapFacts ==
  ASSUME NEW b, Gaps(b), NodeCapacity >= 2
  PROVE  /\ MarkSeq(b) /\ Count(b) \in Nat /\ Len(b) = Count(b) + 1
         /\ \A j \in 1 .. Count(b) : /\ b[j] \in Nat /\ b[j + 1] \in Nat
                                     /\ b[j] < b[j + 1] /\ b[j + 1] <= b[j] + NodeCapacity
         /\ \A j \in 2 .. Count(b) - 1 : b[j] + Half <= b[j + 1]
<1>1. MarkSeq(b) BY DEF Gaps
<1>2. /\ Count(b) \in Nat /\ Len(b) = Count(b) + 1
      /\ \A j \in 1 .. Count(b) : b[j] \in Nat /\ b[j + 1] \in Nat
  BY <1>1, ShapeParts
<1>3. QED BY <1>1, <1>2 DEF Gaps

LEMMA GapsOpen ==
  ASSUME NodeCapacity >= 2, NEW b, Gaps(b), NEW k \in 1 .. Count(b), b[k + 1] < b[k] + NodeCapacity
  PROVE  Gaps(OpenMarks(b, k))
<1> DEFINE N == Count(b)
           d == OpenMarks(b, k)
<1>1. /\ MarkSeq(b) /\ N \in Nat /\ Len(b) = N + 1
      /\ \A j \in 1 .. N : /\ b[j] \in Nat /\ b[j + 1] \in Nat
                           /\ b[j] < b[j + 1] /\ b[j + 1] <= b[j] + NodeCapacity
      /\ \A j \in 2 .. N - 1 : b[j] + Half <= b[j + 1]
  BY GapFacts
<1>2. MarkSeq(d) /\ Len(d) = N + 1 /\ \A j \in 1 .. N + 1 : d[j] = IF j > k THEN b[j] + 1 ELSE b[j]
  BY <1>1, OpenMarksAre
<1>3. k \in 1 .. N /\ b[k + 1] < b[k] + NodeCapacity OBVIOUS
<1>4. NodeCapacity \in Nat /\ Half \in Nat BY HalfFacts
<1> HIDE DEF N, d
<1>5. Count(d) = N BY <1>1, <1>2 DEF Count
<1>6. ASSUME NEW j \in 1 .. N
      PROVE  /\ d[j] < d[j + 1] /\ d[j + 1] <= d[j] + NodeCapacity
             /\ j \in 2 .. N - 1 => d[j] + Half <= d[j + 1]
  <2>1. /\ d[j] = IF j > k THEN b[j] + 1 ELSE b[j]
        /\ d[j + 1] = IF j + 1 > k THEN b[j + 1] + 1 ELSE b[j + 1]
    <3>1. j \in 1 .. N + 1 /\ j + 1 \in 1 .. N + 1 BY <1>1
    <3>2. QED BY <1>2, <3>1
  <2>2. b[j] \in Nat /\ b[j + 1] \in Nat /\ b[j] < b[j + 1] /\ b[j + 1] <= b[j] + NodeCapacity BY <1>1
  <2>3. j \in 2 .. N - 1 => b[j] + Half <= b[j + 1] BY <1>1
  <2>4. CASE j < k
    <3>1. d[j] = b[j] /\ d[j + 1] = b[j + 1] BY <1>3, <2>1, <2>4
    <3>2. QED BY ONLY <2>2, <2>3, <3>1
  <2>5. CASE j = k
    <3>1. d[j] = b[j] /\ d[j + 1] = b[j + 1] + 1 BY <1>3, <2>1, <2>5
    <3>2. QED BY ONLY <1>3, <1>4, <2>2, <2>3, <2>5, <3>1
  <2>6. CASE j > k
    <3>1. d[j] = b[j] + 1 /\ d[j + 1] = b[j + 1] + 1 BY <1>3, <2>1, <2>6
    <3>2. QED BY ONLY <1>4, <2>2, <2>3, <3>1
  <2>7. QED BY <1>3, <2>4, <2>5, <2>6
<1>7. QED
  <2>1. \A j \in 2 .. N - 1 : j \in 1 .. N BY <1>1
  <2>2. Gaps(d) BY <1>2, <1>5, <1>6, <2>1 DEF Gaps
  <2>3. QED BY <2>2 DEF d

LEMMA GapsSplit ==
  ASSUME NodeCapacity >= 2, NEW b, Gaps(b), NEW k \in 1 .. Count(b), b[k + 1] = b[k] + NodeCapacity, NEW mid,
         mid = IF k = Count(b) THEN NodeCapacity ELSE IF k = 1 THEN 1 ELSE (NodeCapacity + 2) \div 2
  PROVE  /\ mid \in Nat /\ OpenMarks(b, k)[k] + mid <= OpenMarks(b, k)[k + 1]
         /\ Gaps(SplitMarks(OpenMarks(b, k), k, mid))
<1> DEFINE N == Count(b)
           c == OpenMarks(b, k)
           d == SplitMarks(c, k, mid)
<1>1. /\ MarkSeq(b) /\ N \in Nat /\ Len(b) = N + 1
      /\ \A j \in 1 .. N : /\ b[j] \in Nat /\ b[j + 1] \in Nat
                           /\ b[j] < b[j + 1] /\ b[j + 1] <= b[j] + NodeCapacity
      /\ \A j \in 2 .. N - 1 : b[j] + Half <= b[j + 1]
  BY GapFacts
<1>2. MarkSeq(c) /\ Len(c) = N + 1 /\ \A j \in 1 .. N + 1 : c[j] = IF j > k THEN b[j] + 1 ELSE b[j]
  BY <1>1, OpenMarksAre
<1>3. /\ k \in 1 .. N /\ b[k + 1] = b[k] + NodeCapacity
      /\ mid = IF k = N THEN NodeCapacity ELSE IF k = 1 THEN 1 ELSE Half + 1
  BY HalfFacts
<1>4. /\ NodeCapacity \in Nat /\ Half \in Nat /\ Half >= 1 /\ NodeCapacity >= 2
      /\ Half + Half <= NodeCapacity /\ NodeCapacity <= Half + Half + 1
  BY HalfFacts
<1>5. mid \in Nat /\ mid >= 1 /\ mid <= NodeCapacity BY <1>3, <1>4
<1> HIDE DEF N, c
<1>6. c[k] = b[k] /\ c[k + 1] = b[k + 1] + 1 /\ b[k] \in Nat
  <2>1. k \in 1 .. N + 1 /\ k + 1 \in 1 .. N + 1 /\ ~(k > k) /\ k + 1 > k BY <1>1, <1>3
  <2>2. QED BY <1>1, <1>2, <1>3, <2>1
<1>7. c[k] + mid <= c[k + 1] BY <1>3, <1>4, <1>5, <1>6
<1>8. Count(c) = N BY <1>1, <1>2 DEF Count
<1>9. /\ MarkSeq(d) /\ Len(d) = N + 2
      /\ \A j \in 1 .. N + 2 : d[j] = IF j <= k THEN c[j] ELSE IF j = k + 1 THEN c[k] + mid ELSE c[j - 1]
  <2>1. k \in 1 .. Count(c) /\ (N + 1) + 1 = N + 2 BY <1>1, <1>3, <1>8
  <2>2. Len(c) = N + 1 /\ MarkSeq(c) BY <1>2
  <2>3. /\ MarkSeq(d) /\ Len(d) = Len(c) + 1
        /\ \A j \in 1 .. Len(c) + 1 : d[j] = IF j <= k THEN c[j] ELSE IF j = k + 1 THEN c[k] + mid ELSE c[j - 1]
    <3>1. MarkSeq(c) /\ k \in 1 .. Count(c) /\ mid \in Nat /\ c[k] + mid <= c[k + 1] BY <1>5, <1>7, <2>1, <2>2
    <3>2. QED BY ONLY <3>1, SplitMarksAre
  <2>4. Len(c) + 1 = N + 2 BY ONLY <2>1, <2>2
  <2>5. QED BY ONLY <2>3, <2>4
<1> HIDE DEF d
<1>10. Count(d) = N + 1 BY <1>1, <1>9 DEF Count
<1>11. ASSUME NEW j \in 1 .. N + 1
       PROVE  /\ d[j] < d[j + 1] /\ d[j + 1] <= d[j] + NodeCapacity
              /\ j \in 2 .. N => d[j] + Half <= d[j + 1]
  <2>1. /\ d[j] = IF j <= k THEN c[j] ELSE IF j = k + 1 THEN c[k] + mid ELSE c[j - 1]
        /\ d[j + 1] = IF j + 1 <= k THEN c[j + 1] ELSE IF j = k THEN c[k] + mid ELSE c[j]
    <3>1. /\ j \in 1 .. N + 2 /\ j + 1 \in 1 .. N + 2 /\ (j + 1) - 1 = j /\ (j + 1 = k + 1 <=> j = k)
      BY <1>1, <1>3
    <3>2. QED BY <1>9, <3>1
  <2>2. CASE j < k
    <3>1. d[j] = c[j] /\ d[j + 1] = c[j + 1] BY <1>3, <2>1, <2>2
    <3>2. c[j] = b[j] /\ c[j + 1] = b[j + 1]
      <4>1. j + 1 \in 1 .. N + 1 /\ ~(j > k) /\ ~(j + 1 > k) BY <1>1, <1>3, <2>2
      <4>2. QED BY <1>2, <4>1
    <3>3. j \in 1 .. N /\ (j \in 2 .. N => j \in 2 .. N - 1) BY <1>1, <1>3, <2>2
    <3>4. QED BY <1>1, <3>1, <3>2, <3>3
  <2>3. CASE j = k
    <3>1. d[j] = b[k] /\ d[j + 1] = b[k] + mid BY <1>3, <1>6, <2>1, <2>3
    <3>2. j \in 2 .. N => mid >= Half BY <1>3, <1>4, <2>3
    <3>3. QED BY <1>4, <1>5, <1>6, <3>1, <3>2
  <2>4. CASE j = k + 1
    <3>1. d[j] = b[k] + mid /\ d[j + 1] = (b[k] + NodeCapacity) + 1 BY <1>3, <1>6, <2>1, <2>4
    <3>2. ASSUME j \in 2 .. N PROVE mid + Half <= NodeCapacity + 1
      <4>1. k # N BY <1>3, <2>4, <3>2
      <4>2. mid = 1 \/ mid = Half + 1 BY <1>3, <4>1
      <4>3. QED BY <1>4, <4>2
    <3>3. QED BY <1>4, <1>5, <1>6, <3>1, <3>2
  <2>5. CASE j > k + 1
    <3>1. d[j] = c[j - 1] /\ d[j + 1] = c[j] BY <1>3, <2>1, <2>5
    <3>2. c[j - 1] = b[j - 1] + 1 /\ c[j] = b[(j - 1) + 1] + 1
      <4>1. j - 1 \in 1 .. N + 1 /\ j - 1 > k /\ j > k /\ (j - 1) + 1 = j BY <1>1, <1>3, <2>5
      <4>2. QED BY <1>2, <4>1
    <3>3. j - 1 \in 1 .. N /\ (j \in 2 .. N => j - 1 \in 2 .. N - 1) BY <1>1, <1>3, <2>5
    <3>4. /\ b[j - 1] \in Nat /\ b[(j - 1) + 1] \in Nat /\ b[j - 1] < b[(j - 1) + 1]
          /\ b[(j - 1) + 1] <= b[j - 1] + NodeCapacity
          /\ j \in 2 .. N => b[j - 1] + Half <= b[(j - 1) + 1]
      BY <1>1, <3>3
    <3>5. QED BY <1>4, <3>1, <3>2, <3>4
  <2>6. QED BY <1>1, <1>3, <2>2, <2>3, <2>4, <2>5
<1>12. Gaps(d)
  <2>1. \A j \in 2 .. (N + 1) - 1 : j \in 1 .. N + 1 /\ j \in 2 .. N BY <1>1
  <2>2. QED BY <1>9, <1>10, <1>11, <2>1 DEF Gaps
<1>13. QED BY <1>5, <1>7, <1>12 DEF c, d

\* The same while the node k may have one value less.
NearGaps(c, k) ==
  /\ MarkSeq(c)
  /\ \A j \in 1 .. Count(c) : c[j + 1] <= c[j] + NodeCapacity /\ (j # k => c[j] < c[j + 1])
  /\ \A j \in 2 .. Count(c) - 1 : c[j] + Half <= c[j + 1] \/ (j = k /\ c[j] + Half = c[j + 1] + 1)

LEMMA NearFacts ==
  ASSUME NEW c, NEW k, NearGaps(c, k)
  PROVE  /\ MarkSeq(c) /\ Count(c) \in Nat /\ Len(c) = Count(c) + 1
         /\ \A j \in 1 .. Count(c) : /\ c[j] \in Nat /\ c[j + 1] \in Nat /\ c[j] <= c[j + 1]
                                     /\ c[j + 1] <= c[j] + NodeCapacity /\ (j # k => c[j] < c[j + 1])
         /\ \A j \in 2 .. Count(c) - 1 : c[j] + Half <= c[j + 1] \/ (j = k /\ c[j] + Half = c[j + 1] + 1)
<1>1. MarkSeq(c) BY DEF NearGaps
<1>2. /\ Count(c) \in Nat /\ Len(c) = Count(c) + 1
      /\ \A j \in 1 .. Count(c) : c[j] \in Nat /\ c[j + 1] \in Nat /\ c[j] <= c[j + 1]
  BY <1>1, ShapeParts
<1>3. QED BY <1>1, <1>2 DEF NearGaps

LEMMA GapsClose ==
  ASSUME NodeCapacity >= 2, NEW b, Gaps(b), NEW k \in 1 .. Count(b)
  PROVE  NearGaps(CloseMarks(b, k), k) /\ Count(CloseMarks(b, k)) = Count(b)
<1> DEFINE N == Count(b)
           d == CloseMarks(b, k)
<1>1. /\ MarkSeq(b) /\ N \in Nat /\ Len(b) = N + 1
      /\ \A j \in 1 .. N : /\ b[j] \in Nat /\ b[j + 1] \in Nat
                           /\ b[j] < b[j + 1] /\ b[j + 1] <= b[j] + NodeCapacity
      /\ \A j \in 2 .. N - 1 : b[j] + Half <= b[j + 1]
  BY GapFacts
<1>2. MarkSeq(d) /\ Len(d) = N + 1 /\ \A j \in 1 .. N + 1 : d[j] = IF j > k THEN b[j] - 1 ELSE b[j]
  <2>1. b[k] < b[k + 1] /\ MarkSeq(b) /\ k \in 1 .. Count(b) /\ Len(b) = N + 1 BY <1>1
  <2>2. QED BY ONLY <2>1, CloseMarksAre
<1>3. k \in 1 .. N OBVIOUS
<1>4. NodeCapacity \in Nat /\ Half \in Nat BY HalfFacts
<1> HIDE DEF N, d
<1>5. Count(d) = N BY <1>1, <1>2 DEF Count
<1>6. ASSUME NEW j \in 1 .. N
      PROVE  /\ d[j + 1] <= d[j] + NodeCapacity /\ (j # k => d[j] < d[j + 1])
             /\ j \in 2 .. N - 1 => (d[j] + Half <= d[j + 1] \/ (j = k /\ d[j] + Half = d[j + 1] + 1))
  <2>1. /\ d[j] = IF j > k THEN b[j] - 1 ELSE b[j]
        /\ d[j + 1] = IF j + 1 > k THEN b[j + 1] - 1 ELSE b[j + 1]
    <3>1. j \in 1 .. N + 1 /\ j + 1 \in 1 .. N + 1 BY <1>1
    <3>2. QED BY <1>2, <3>1
  <2>2. b[j] \in Nat /\ b[j + 1] \in Nat /\ b[j] < b[j + 1] /\ b[j + 1] <= b[j] + NodeCapacity BY <1>1
  <2>3. j \in 2 .. N - 1 => b[j] + Half <= b[j + 1] BY <1>1
  <2>4. CASE j < k
    <3>1. d[j] = b[j] /\ d[j + 1] = b[j + 1] BY <1>3, <2>1, <2>4
    <3>2. QED BY ONLY <2>2, <2>3, <3>1
  <2>5. CASE j = k
    <3>1. d[j] = b[j] /\ d[j + 1] = b[j + 1] - 1 BY <1>3, <2>1, <2>5
    <3>2. QED BY ONLY <1>4, <2>2, <2>3, <2>5, <3>1
  <2>6. CASE j > k
    <3>1. d[j] = b[j] - 1 /\ d[j + 1] = b[j + 1] - 1 BY <1>3, <2>1, <2>6
    <3>2. QED BY ONLY <1>4, <2>2, <2>3, <3>1
  <2>7. QED BY <1>3, <2>4, <2>5, <2>6
<1>7. QED
  <2>1. \A j \in 2 .. N - 1 : j \in 1 .. N BY <1>1
  <2>2. NearGaps(d, k) BY <1>2, <1>5, <1>6, <2>1 DEF NearGaps
  <2>3. QED BY <1>5, <2>2 DEF d, N

LEMMA GapsKept ==
  ASSUME NodeCapacity >= 2, NEW c, NEW k \in 1 .. Count(c), NearGaps(c, k),
         c[k] + Half <= c[k + 1] \/ (k \in {1, Count(c)} /\ c[k] # c[k + 1])
  PROVE  Gaps(c)
<1>1. /\ MarkSeq(c) /\ Count(c) \in Nat
      /\ \A j \in 1 .. Count(c) : /\ c[j] \in Nat /\ c[j + 1] \in Nat /\ c[j] <= c[j + 1]
                                  /\ c[j + 1] <= c[j] + NodeCapacity /\ (j # k => c[j] < c[j + 1])
      /\ \A j \in 2 .. Count(c) - 1 : c[j] + Half <= c[j + 1] \/ (j = k /\ c[j] + Half = c[j + 1] + 1)
  BY NearFacts
<1>2. Half \in Nat /\ Half >= 1 BY HalfFacts
<1>3. c[k] < c[k + 1]
  <2>1. c[k] \in Nat /\ c[k + 1] \in Nat /\ c[k] <= c[k + 1] BY <1>1
  <2>2. QED BY <1>2, <2>1
<1>4. \A j \in 1 .. Count(c) : c[j] < c[j + 1] /\ c[j + 1] <= c[j] + NodeCapacity BY <1>1, <1>3
<1>5. \A j \in 2 .. Count(c) - 1 : c[j] + Half <= c[j + 1]
  <2>1. SUFFICES ASSUME NEW j \in 2 .. Count(c) - 1, j = k PROVE c[k] + Half <= c[k + 1] BY <1>1
  <2>2. k \notin {1, Count(c)} BY <1>1, <2>1
  <2>3. QED BY <2>2
<1>6. QED BY <1>1, <1>4, <1>5 DEF Gaps

LEMMA GapsDrop ==
  ASSUME NodeCapacity >= 2, NEW c, NEW k \in 1 .. Count(c), NearGaps(c, k), k \in {1, Count(c)}, c[k] = c[k + 1]
  PROVE  Gaps(DropMark(c, k + 1))
<1> DEFINE N == Count(c)
           d == DropMark(c, k + 1)
<1>1. /\ MarkSeq(c) /\ N \in Nat /\ Len(c) = N + 1
      /\ \A j \in 1 .. N : /\ c[j] \in Nat /\ c[j + 1] \in Nat /\ c[j] <= c[j + 1]
                           /\ c[j + 1] <= c[j] + NodeCapacity /\ (j # k => c[j] < c[j + 1])
      /\ \A j \in 2 .. N - 1 : c[j] + Half <= c[j + 1] \/ (j = k /\ c[j] + Half = c[j + 1] + 1)
  BY NearFacts
<1>2. MarkSeq(d) /\ Len(d) = N /\ \A j \in 1 .. N : d[j] = IF j < k + 1 THEN c[j] ELSE c[j + 1]
  <2>1. k + 1 \in 2 .. Len(c) /\ N = Len(c) - 1 /\ MarkSeq(c) BY <1>1
  <2>2. QED BY ONLY <2>1, DropMarkIs
<1>3. k \in 1 .. N /\ k \in {1, N} /\ c[k] = c[k + 1] OBVIOUS
<1> HIDE DEF N, d
<1>4. Count(d) = N - 1 BY <1>1, <1>2 DEF Count
<1>5. ASSUME NEW j \in 1 .. N - 1
      PROVE  /\ d[j] < d[j + 1] /\ d[j + 1] <= d[j] + NodeCapacity
             /\ j \in 2 .. (N - 1) - 1 => d[j] + Half <= d[j + 1]
  <2>1. j \in 1 .. N /\ j + 1 \in 1 .. N BY <1>1
  <2>2. /\ d[j] = IF j < k + 1 THEN c[j] ELSE c[j + 1]
        /\ d[j + 1] = IF j + 1 < k + 1 THEN c[j + 1] ELSE c[(j + 1) + 1]
    BY <1>2, <2>1
  <2>3. CASE k = N
    <3>1. j < k + 1 /\ j + 1 < k + 1 /\ j # k BY <1>1, <2>3
    <3>2. d[j] = c[j] /\ d[j + 1] = c[j + 1] BY <2>2, <3>1
    <3>3. j \in 2 .. (N - 1) - 1 => j \in 2 .. N - 1 BY <1>1
    <3>4. QED BY <1>1, <2>1, <3>1, <3>2, <3>3
  <2>4. CASE k = 1
    <3>1. ~(j + 1 < k + 1) /\ j + 1 # k BY <2>4
    <3>2. d[j + 1] = c[(j + 1) + 1] BY <2>2, <3>1
    <3>3. d[j] = c[j + 1]
      <4>1. CASE j = 1 BY <1>3, <2>2, <2>4, <4>1
      <4>2. CASE j # 1
        <5>1. ~(j < k + 1) BY <2>4, <4>2
        <5>2. QED BY <2>2, <5>1
      <4>3. QED BY <4>1, <4>2
    <3>4. j \in 2 .. (N - 1) - 1 => j + 1 \in 2 .. N - 1 BY <1>1
    <3>5. QED BY <1>1, <2>1, <3>1, <3>2, <3>3, <3>4
  <2>5. QED BY <1>3, <2>3, <2>4
<1>6. QED
  <2>1. \A j \in 2 .. (N - 1) - 1 : j \in 1 .. N - 1 BY <1>1
  <2>2. Gaps(d) BY <1>2, <1>4, <1>5, <2>1 DEF Gaps
  <2>3. QED BY <2>2 DEF d

LEMMA GapsSteal ==
  ASSUME NodeCapacity >= 2, NEW c, NEW k \in 2 .. Count(c) - 1, NearGaps(c, k), c[k + 1] < c[k] + Half,
         c[k + 1] + Half < c[k + 2] \/ (k + 1 = Count(c) /\ c[k + 1] + 1 < c[k + 2])
  PROVE  c[k + 1] < c[k + 2] /\ Gaps(StealMarks(c, k))
<1> DEFINE N == Count(c)
           d == StealMarks(c, k)
<1>1. /\ MarkSeq(c) /\ N \in Nat /\ Len(c) = N + 1
      /\ \A j \in 1 .. N : /\ c[j] \in Nat /\ c[j + 1] \in Nat /\ c[j] <= c[j + 1]
                           /\ c[j + 1] <= c[j] + NodeCapacity /\ (j # k => c[j] < c[j + 1])
      /\ \A j \in 2 .. N - 1 : c[j] + Half <= c[j + 1] \/ (j = k /\ c[j] + Half = c[j + 1] + 1)
  BY NearFacts
<1>2. /\ NodeCapacity \in Nat /\ Half \in Nat /\ Half >= 1 /\ Half + Half <= NodeCapacity BY HalfFacts
<1>3. k \in 2 .. N - 1 /\ k \in 1 .. N /\ k + 1 \in 1 .. N /\ (k + 1) + 1 = k + 2 BY <1>1
<1>4. /\ c[k] \in Nat /\ c[k + 1] \in Nat /\ c[k + 2] \in Nat /\ c[k] + Half = c[k + 1] + 1
      /\ c[k + 2] <= c[k + 1] + NodeCapacity
  <2>1. c[k] \in Nat /\ c[k + 1] \in Nat /\ c[k + 2] \in Nat /\ c[k + 2] <= c[k + 1] + NodeCapacity BY <1>1, <1>3
  <2>2. c[k] + Half <= c[k + 1] \/ c[k] + Half = c[k + 1] + 1 BY <1>1, <1>3
  <2>3. QED BY <1>2, <2>1, <2>2
<1>5. c[k + 1] + Half < c[k + 2] \/ (k + 1 = N /\ c[k + 1] + 1 < c[k + 2]) OBVIOUS
<1>6. c[k + 1] + 1 < c[k + 2] BY ONLY <1>2, <1>4, <1>5
<1>7. MarkSeq(d) /\ Len(d) = N + 1 /\ \A j \in 1 .. N + 1 : d[j] = IF j = k + 1 THEN c[j] + 1 ELSE c[j]
  <2>1. k \in 1 .. Count(c) - 1 /\ MarkSeq(c) /\ Len(c) = N + 1 BY <1>1
  <2>2. c[k + 1] < c[k + 2] BY ONLY <1>4, <1>6
  <2>3. QED BY ONLY <2>1, <2>2, StealMarksAre
<1> HIDE DEF N, d
<1>8. Count(d) = N BY <1>1, <1>7 DEF Count
<1>9. ASSUME NEW j \in 1 .. N
      PROVE  /\ d[j] < d[j + 1] /\ d[j + 1] <= d[j] + NodeCapacity
             /\ j \in 2 .. N - 1 => d[j] + Half <= d[j + 1]
  <2>1. /\ d[j] = IF j = k + 1 THEN c[j] + 1 ELSE c[j]
        /\ d[j + 1] = IF j = k THEN c[j + 1] + 1 ELSE c[j + 1]
    <3>1. j \in 1 .. N + 1 /\ j + 1 \in 1 .. N + 1 /\ (j + 1 = k + 1 <=> j = k) BY <1>1, <1>3
    <3>2. QED BY <1>7, <3>1
  <2>2. CASE j = k
    <3>1. d[j] = c[k] /\ d[j + 1] = c[k + 1] + 1 BY <1>3, <2>1, <2>2
    <3>2. QED BY ONLY <1>2, <1>4, <3>1
  <2>3. CASE j = k + 1
    <3>1. d[j] = c[k + 1] + 1 /\ d[j + 1] = c[k + 2] BY <1>3, <2>1, <2>3
    <3>2. j \in 2 .. N - 1 => k + 1 # N BY <1>1, <1>3, <2>3
    <3>3. QED BY ONLY <1>2, <1>4, <1>5, <1>6, <3>1, <3>2
  <2>4. CASE j # k /\ j # k + 1
    <3>1. d[j] = c[j] /\ d[j + 1] = c[j + 1] BY <2>1, <2>4
    <3>2. QED BY <1>1, <2>4, <3>1
  <2>5. QED BY <2>2, <2>3, <2>4
<1>10. QED
  <2>1. \A j \in 2 .. N - 1 : j \in 1 .. N BY <1>1
  <2>2. Gaps(d) BY <1>7, <1>8, <1>9, <2>1 DEF Gaps
  <2>3. QED BY <1>4, <1>6, <2>2 DEF d

LEMMA GapsMerge ==
  ASSUME NodeCapacity >= 2, NEW c, NEW k \in 2 .. Count(c) - 1, NearGaps(c, k), c[k + 1] < c[k] + Half,
         c[k + 2] <= c[k + 1] + Half
  PROVE  Gaps(DropMark(c, k + 1))
<1> DEFINE N == Count(c)
           d == DropMark(c, k + 1)
<1>1. /\ MarkSeq(c) /\ N \in Nat /\ Len(c) = N + 1
      /\ \A j \in 1 .. N : /\ c[j] \in Nat /\ c[j + 1] \in Nat /\ c[j] <= c[j + 1]
                           /\ c[j + 1] <= c[j] + NodeCapacity /\ (j # k => c[j] < c[j + 1])
      /\ \A j \in 2 .. N - 1 : c[j] + Half <= c[j + 1] \/ (j = k /\ c[j] + Half = c[j + 1] + 1)
  BY NearFacts
<1>2. /\ NodeCapacity \in Nat /\ Half \in Nat /\ Half >= 1 /\ Half + Half <= NodeCapacity BY HalfFacts
<1>3. k \in 2 .. N - 1 /\ k \in 1 .. N /\ k + 1 \in 1 .. N /\ (k + 1) + 1 = k + 2 /\ k + 1 # k BY <1>1
<1>4. /\ c[k] \in Nat /\ c[k + 1] \in Nat /\ c[k + 2] \in Nat /\ c[k] + Half = c[k + 1] + 1
      /\ c[k + 1] < c[k + 2] /\ c[k + 2] <= c[k + 1] + Half
  <2>1. c[k] \in Nat /\ c[k + 1] \in Nat /\ c[k + 2] \in Nat /\ c[k + 1] < c[k + 2] BY <1>1, <1>3
  <2>2. c[k] + Half <= c[k + 1] \/ c[k] + Half = c[k + 1] + 1 BY <1>1, <1>3
  <2>3. QED BY <1>2, <2>1, <2>2
<1>5. MarkSeq(d) /\ Len(d) = N /\ \A j \in 1 .. N : d[j] = IF j < k + 1 THEN c[j] ELSE c[j + 1]
  <2>1. k + 1 \in 2 .. Len(c) /\ N = Len(c) - 1 /\ MarkSeq(c) BY <1>1
  <2>2. QED BY ONLY <2>1, DropMarkIs
<1> HIDE DEF N, d
<1>6. Count(d) = N - 1 BY <1>1, <1>5 DEF Count
<1>7. ASSUME NEW j \in 1 .. N - 1
      PROVE  /\ d[j] < d[j + 1] /\ d[j + 1] <= d[j] + NodeCapacity
             /\ j \in 2 .. (N - 1) - 1 => d[j] + Half <= d[j + 1]
  <2>1. j \in 1 .. N /\ j + 1 \in 1 .. N BY <1>1
  <2>2. /\ d[j] = IF j < k + 1 THEN c[j] ELSE c[j + 1]
        /\ d[j + 1] = IF j + 1 < k + 1 THEN c[j + 1] ELSE c[(j + 1) + 1]
    BY <1>5, <2>1
  <2>3. CASE j < k
    <3>1. d[j] = c[j] /\ d[j + 1] = c[j + 1] BY <1>3, <2>2, <2>3
    <3>2. j # k /\ (j \in 2 .. (N - 1) - 1 => j \in 2 .. N - 1) BY <1>1, <1>3, <2>3
    <3>3. QED BY <1>1, <2>1, <3>1, <3>2
  <2>4. CASE j = k
    <3>1. d[j] = c[k] /\ d[j + 1] = c[k + 2] BY <1>3, <2>2, <2>4
    <3>2. QED BY ONLY <1>2, <1>4, <3>1
  <2>5. CASE j > k
    <3>1. d[j] = c[j + 1] /\ d[j + 1] = c[(j + 1) + 1] BY <1>3, <2>2, <2>5
    <3>2. j + 1 # k /\ (j \in 2 .. (N - 1) - 1 => j + 1 \in 2 .. N - 1) BY <1>1, <1>3, <2>5
    <3>3. QED BY <1>1, <2>1, <3>1, <3>2
  <2>6. QED BY <1>3, <2>3, <2>4, <2>5
<1>8. QED
  <2>1. \A j \in 2 .. (N - 1) - 1 : j \in 1 .. N - 1 BY <1>1
  <2>2. Gaps(d) BY <1>5, <1>6, <1>7, <2>1 DEF Gaps
  <2>3. QED BY <2>2 DEF d

-----------------------------------------------------------------------------
(* A cursor and its history, through every change.                         *)

LEMMA ToldKept ==
  ASSUME NEW s, Told(s), NEW r \in Nat
  PROVE  /\ Told(SeenAfterInsert(s, r))
         /\ r # 0 => Told(SeenAfterErase(s, r))
<1>1. ASSUME NEW e \in Nat \ {0}, s = AtValue(e)
      PROVE  Told(SeenAfterInsert(s, r)) /\ (r # 0 => Told(SeenAfterErase(s, r)))
  <2>1. s # Nowhere /\ s.at = e /\ s.at # 0 BY <1>1 DEF AtValue, Nowhere
  <2>2. SeenAfterInsert(s, r) = IF r < e THEN AtValue(e + 1) ELSE s BY <2>1 DEF SeenAfterInsert
  <2>3. Told(SeenAfterInsert(s, r))
    <3>1. e + 1 \in Nat \ {0} OBVIOUS
    <3>2. QED BY <2>2, <3>1 DEF Told
  <2>4. ASSUME r # 0 PROVE Told(SeenAfterErase(s, r))
    <3>1. CASE e = r
      <4>1. SeenAfterErase(s, r) = [at |-> 0, lo |-> r - 1, hi |-> r] BY <2>1, <3>1 DEF SeenAfterErase
      <4>2. r - 1 \in Nat BY <2>4
      <4>3. QED BY <4>1, <4>2 DEF Told
    <3>2. CASE e # r
      <4>1. SeenAfterErase(s, r) = IF r < e THEN AtValue(e - 1) ELSE s BY <2>1, <3>2 DEF SeenAfterErase
      <4>2. r < e => e - 1 \in Nat \ {0} BY <2>4
      <4>3. QED BY <1>1, <4>1, <4>2 DEF Told
    <3>3. QED BY <3>1, <3>2
  <2>5. QED BY <2>3, <2>4
<1>2. ASSUME NEW lo \in Nat, NEW hi \in Nat, s = [at |-> 0, lo |-> lo, hi |-> hi]
      PROVE  Told(SeenAfterInsert(s, r)) /\ (r # 0 => Told(SeenAfterErase(s, r)))
  <2>1. s.at = 0 /\ s.lo = lo /\ s.hi = hi BY <1>2
  <2>2. \A x, y \in Nat : Told([s EXCEPT !.lo = x, !.hi = y])
    <3>1. TAKE x, y \in Nat
    <3>2. [s EXCEPT !.lo = x, !.hi = y] = [[s EXCEPT !.lo = x] EXCEPT !.hi = y] OBVIOUS
    <3>3. [s EXCEPT !.lo = x] = [at |-> 0, lo |-> x, hi |-> hi] BY <1>2
    <3>4. [[at |-> 0, lo |-> x, hi |-> hi] EXCEPT !.hi = y] = [at |-> 0, lo |-> x, hi |-> y] OBVIOUS
    <3>5. QED BY <3>2, <3>3, <3>4 DEF Told
  <2>3. CASE s = Nowhere
    <3>1. SeenAfterInsert(s, r) = s BY <2>1, <2>3 DEF SeenAfterInsert
    <3>2. r # 0 => SeenAfterErase(s, r) = s BY <2>1, <2>3 DEF SeenAfterErase
    <3>3. QED BY <3>1, <3>2
  <2>4. CASE s # Nowhere
    <3> DEFINE x == IF r < lo THEN lo + 1 ELSE lo
               y == IF r < hi THEN hi + 1 ELSE hi
               z == IF r <= lo THEN lo - 1 ELSE lo
               w == IF r < hi THEN hi - 1 ELSE hi
    <3>1. SeenAfterInsert(s, r) = [s EXCEPT !.lo = x, !.hi = y] BY <2>1, <2>4 DEF SeenAfterInsert
    <3>2. r # 0 => SeenAfterErase(s, r) = [s EXCEPT !.lo = z, !.hi = w]
      BY <2>1, <2>4 DEF SeenAfterErase
    <3>3. x \in Nat /\ y \in Nat OBVIOUS
    <3>4. r # 0 => z \in Nat /\ w \in Nat OBVIOUS
    <3> HIDE DEF x, y, z, w
    <3>5. QED BY <2>2, <3>1, <3>2, <3>3, <3>4
  <2>5. QED BY <2>3, <2>4
<1>3. QED BY <1>1, <1>2 DEF Told

LEMMA IdleKept ==
  ASSUME NEW cur, NEW s, Idle(cur, s), NEW r \in Nat
  PROVE  /\ Idle(cur, SeenAfterInsert(s, r))
         /\ r # 0 => Idle(cur, SeenAfterErase(s, r))
<1>1. CASE Off(cur, s)
  <2>1. s = Nowhere BY <1>1 DEF Off
  <2>2. s.at = 0 BY <2>1 DEF Nowhere
  <2>3. SeenAfterInsert(s, r) = s BY <2>1, <2>2 DEF SeenAfterInsert
  <2>4. r # 0 => SeenAfterErase(s, r) = s BY <2>1, <2>2 DEF SeenAfterErase
  <2>5. QED BY <1>1, <2>3, <2>4 DEF Idle
<1>2. CASE Lost(cur, s)
  <2>1. Told(s) BY <1>2 DEF Lost
  <2>2. Told(SeenAfterInsert(s, r)) /\ (r # 0 => Told(SeenAfterErase(s, r))) BY <2>1, ToldKept
  <2>3. QED BY <1>2, <2>2 DEF Lost, Idle
<1>3. QED BY <1>1, <1>2 DEF Idle

\* A history fits a number of values.
LEMMA FitsType ==
  ASSUME NEW s, NEW p, NEW gone, Fits(s, p, gone)
  PROVE  p \in Nat
BY DEF Fits

LEMMA IdleOk ==
  ASSUME NEW cur, NEW s, NEW b, Idle(cur, s)
  PROVE  CursorOk(cur, s, b)
BY DEF CursorOk

LEMMA AtOk ==
  ASSUME NEW cur, NEW s, NEW b, NEW p, NEW gone, At(cur, b, p, gone), Fits(s, p, gone)
  PROVE  CursorOk(cur, s, b)
BY DEF CursorOk, Placed

LEMMA ShiftOk ==
  ASSUME NEW b, MarkSeq(b), NEW k \in 1 .. Count(b), NEW i \in 0 .. b[k + 1] - b[k], NEW r, r = b[k] + i,
         NEW cur, NEW s, CursorOk(cur, s, b)
  PROVE  CursorOk(ShiftedCur(cur, k, i), SeenAfterInsert(s, r), OpenMarks(b, k))
<1>1. CASE Idle(cur, s)
  <2>1. ~Touched(cur, k) BY <1>1, IdleUntouched
  <2>2. ShiftedCur(cur, k, i) = cur BY <2>1 DEF ShiftedCur
  <2>3. r \in Nat
    <3>1. b[k] \in Nat /\ b[k + 1] \in Nat BY ShapeParts
    <3>2. QED BY <3>1
  <2>4. Idle(cur, SeenAfterInsert(s, r)) BY ONLY <1>1, <2>3, IdleKept
  <2>5. QED BY <2>2, <2>4, IdleOk
<1>2. ASSUME NEW p, NEW gone, At(cur, b, p, gone), Fits(s, p, gone)
      PROVE  CursorOk(ShiftedCur(cur, k, i), SeenAfterInsert(s, r), OpenMarks(b, k))
  <2>1. p \in Nat BY <1>2, FitsType
  <2>2. r \in Nat
    <3>1. b[k] \in Nat /\ b[k + 1] \in Nat BY ShapeParts
    <3>2. QED BY <3>1
  <2>3. \/ /\ p < r \/ (p = r /\ gone = {"DELETED"})
           /\ At(ShiftedCur(cur, k, i), OpenMarks(b, k), p, gone)
        \/ p >= r /\ At(ShiftedCur(cur, k, i), OpenMarks(b, k), p + 1, gone)
    BY <1>2, <2>1, InsertCursor
  <2>4. CASE /\ p < r \/ (p = r /\ gone = {"DELETED"})
             /\ At(ShiftedCur(cur, k, i), OpenMarks(b, k), p, gone)
    <3>1. PICK q : q = p OBVIOUS
    <3>2. q \in {p, p + 1} /\ (q = p => (p < r \/ (p = r /\ gone = {"DELETED"}))) /\ (q = p + 1 => p >= r)
      BY <2>1, <2>4, <3>1
    <3>3. Fits(SeenAfterInsert(s, r), q, gone) BY ONLY <1>2, <2>2, <3>2, FitsInsert
    <3>4. QED BY ONLY <2>4, <3>1, <3>3, AtOk
  <2>5. CASE p >= r /\ At(ShiftedCur(cur, k, i), OpenMarks(b, k), p + 1, gone)
    <3>1. PICK q : q = p + 1 OBVIOUS
    <3>2. q \in {p, p + 1} /\ (q = p => (p < r \/ (p = r /\ gone = {"DELETED"}))) /\ (q = p + 1 => p >= r)
      BY <2>1, <2>5, <3>1
    <3>3. Fits(SeenAfterInsert(s, r), q, gone) BY ONLY <1>2, <2>2, <3>2, FitsInsert
    <3>4. QED BY ONLY <2>5, <3>1, <3>3, AtOk
  <2>6. QED BY <2>3, <2>4, <2>5
<1>3. QED BY <1>1, <1>2 DEF CursorOk, Placed

LEMMA EraseOk ==
  ASSUME NEW b, MarkSeq(b), NEW k \in 1 .. Count(b), NEW i \in 0 .. b[k + 1] - b[k] - 1, NEW e, e = b[k] + i + 1,
         NEW cur, NEW s, CursorOk(cur, s, b)
  PROVE  CursorOk(ErasedCur(cur, k, i), SeenAfterErase(s, e), CloseMarks(b, k))
<1>1. CASE Idle(cur, s)
  <2>1. ~Touched(cur, k) BY <1>1, IdleUntouched
  <2>2. ErasedCur(cur, k, i) = cur BY <2>1 DEF ErasedCur
  <2>3. Idle(cur, SeenAfterErase(s, e))
    <3>1. b[k] \in Nat /\ b[k + 1] \in Nat BY ShapeParts
    <3>2. e \in Nat /\ e # 0 BY <3>1
    <3>3. QED BY ONLY <1>1, <3>2, IdleKept
  <2>4. QED BY <2>2, <2>3, IdleOk
<1>2. ASSUME NEW p, NEW gone, At(cur, b, p, gone), Fits(s, p, gone)
      PROVE  CursorOk(ErasedCur(cur, k, i), SeenAfterErase(s, e), CloseMarks(b, k))
  <2>1. p \in Nat BY <1>2, FitsType
  <2>2. e \in Nat /\ e >= 1
    <3>1. b[k] \in Nat /\ b[k + 1] \in Nat BY ShapeParts
    <3>2. QED BY <3>1
  <2>3. PICK q, lost : /\ q = (IF p < e THEN p ELSE p - 1)
                       /\ lost = (IF p + 1 = e THEN {"DELETED"} ELSE gone) OBVIOUS
  <2>4. At(ErasedCur(cur, k, i), CloseMarks(b, k), q, lost) BY <1>2, <2>1, <2>3, EraseCursorAt
  <2>5. Fits(SeenAfterErase(s, e), q, lost) BY ONLY <1>2, <2>2, <2>3, FitsErase
  <2>6. QED BY ONLY <2>4, <2>5, AtOk
<1>3. QED BY <1>1, <1>2 DEF CursorOk, Placed

LEMMA KeepOk ==
  ASSUME NEW c, MarkSeq(c), NEW cur, NEW s, CursorOk(cur, s, c)
  PROVE  CursorOk(Renamed(cur, Upto(Count(c))), s, c)
<1>1. CASE Idle(cur, s)
  <2>1. PICK o : o = Upto(Count(c)) OBVIOUS
  <2>2. Chain(o) BY <2>1, ShapeParts, NthUpto
  <2>3. Idle(Renamed(cur, o), s) BY ONLY <1>1, <2>2, IdleRenamed
  <2>4. QED BY <2>1, <2>3, IdleOk
<1>2. ASSUME NEW p, NEW gone, At(cur, c, p, gone) PROVE CursorOk(Renamed(cur, Upto(Count(c))), s, c)
  <2>1. Renamed(cur, Upto(Count(c))) = cur BY <1>2, NamesKept
  <2>2. QED BY <2>1
<1>3. QED BY <1>1, <1>2 DEF CursorOk, Placed

LEMMA SplitOk ==
  ASSUME NEW c, MarkSeq(c), NEW k \in 1 .. Count(c), NEW mid \in Nat, c[k] + mid <= c[k + 1],
         NEW cur, NEW s, CursorOk(cur, s, c)
  PROVE  CursorOk(Renamed(SplitCur(cur, k, Count(c) + 1, mid), Wedge(Count(c), k)), s, SplitMarks(c, k, mid))
<1> DEFINE new == Renamed(SplitCur(cur, k, Count(c) + 1, mid), Wedge(Count(c), k))
<1>1. CASE Idle(cur, s)
  <2>1. PICK o : o = Wedge(Count(c), k) OBVIOUS
  <2>2. Chain(o) BY <2>1, ShapeParts, WedgeChain
  <2>3. ~Touched(cur, k) /\ Idle(Renamed(cur, o), s) BY ONLY <1>1, <2>2, IdleUntouched, IdleRenamed
  <2>4. new = Renamed(cur, o) BY <2>1, <2>3 DEF SplitCur
  <2>5. QED BY <2>3, <2>4, IdleOk
<1>2. ASSUME NEW p, NEW gone, At(cur, c, p, gone), Fits(s, p, gone)
      PROVE  CursorOk(new, s, SplitMarks(c, k, mid))
  <2>1. At(new, SplitMarks(c, k, mid), p, gone) BY <1>2, SplitCursor
  <2>2. QED BY ONLY <1>2, <2>1, AtOk
<1>3. QED BY <1>1, <1>2 DEF CursorOk, Placed

LEMMA DropOk ==
  ASSUME NEW c, MarkSeq(c), NEW k \in 1 .. Count(c), c[k] = c[k + 1], NEW seek,
         \/ k = 1 /\ seek = "SEEK_FIRST_NEXT"
         \/ k = Count(c) /\ seek = "SEEK_LAST_NEXT",
         NEW cur, NEW s, CursorOk(cur, s, c)
  PROVE  CursorOk(Renamed(DroppedCur(cur, k, seek), Gap(Count(c), k)), s, DropMark(c, k + 1))
<1> DEFINE new == Renamed(DroppedCur(cur, k, seek), Gap(Count(c), k))
<1>1. CASE Idle(cur, s)
  <2>1. PICK o : o = Gap(Count(c), k) OBVIOUS
  <2>2. Chain(o) BY <2>1, ShapeParts, GapChain
  <2>3. ~Touched(cur, k) /\ Idle(Renamed(cur, o), s) BY ONLY <1>1, <2>2, IdleUntouched, IdleRenamed
  <2>4. new = Renamed(cur, o) BY <2>1, <2>3 DEF DroppedCur
  <2>5. QED BY <2>3, <2>4, IdleOk
<1>2. ASSUME NEW p, NEW gone, At(cur, c, p, gone), Fits(s, p, gone)
      PROVE  CursorOk(new, s, DropMark(c, k + 1))
  <2>1. At(new, DropMark(c, k + 1), p, gone) BY <1>2, DropCursor
  <2>2. QED BY ONLY <1>2, <2>1, AtOk
<1>3. QED BY <1>1, <1>2 DEF CursorOk, Placed

LEMMA StealOk ==
  ASSUME NEW c, MarkSeq(c), NEW k \in 1 .. Count(c) - 1, c[k + 1] < c[k + 2], NEW cur, NEW s, CursorOk(cur, s, c)
  PROVE  CursorOk(Renamed(StolenCur(cur, k, k + 1, c[k + 1] - c[k]), Upto(Count(c))), s, StealMarks(c, k))
<1> DEFINE new == Renamed(StolenCur(cur, k, k + 1, c[k + 1] - c[k]), Upto(Count(c)))
<1>1. CASE Idle(cur, s)
  <2>1. PICK o, n : o = Upto(Count(c)) /\ n = k + 1 OBVIOUS
  <2>2. Chain(o) BY <2>1, ShapeParts, NthUpto
  <2>3. ~Touched(cur, n) /\ Idle(Renamed(cur, o), s) BY ONLY <1>1, <2>2, IdleUntouched, IdleRenamed
  <2>4. new = Renamed(cur, o) BY <2>1, <2>3 DEF StolenCur
  <2>5. QED BY <2>3, <2>4, IdleOk
<1>2. ASSUME NEW p, NEW gone, At(cur, c, p, gone), Fits(s, p, gone)
      PROVE  CursorOk(new, s, StealMarks(c, k))
  <2>1. At(new, StealMarks(c, k), p, gone) BY <1>2, StealCursor
  <2>2. QED BY ONLY <1>2, <2>1, AtOk
<1>3. QED BY <1>1, <1>2 DEF CursorOk, Placed

LEMMA MergeOk ==
  ASSUME NEW c, MarkSeq(c), NEW k \in 1 .. Count(c) - 1, NEW cur, NEW s, CursorOk(cur, s, c)
  PROVE  CursorOk(Renamed(MergedCur(cur, k, k + 1, c[k + 1] - c[k]), Gap(Count(c), k + 1)), s, DropMark(c, k + 1))
<1> DEFINE new == Renamed(MergedCur(cur, k, k + 1, c[k + 1] - c[k]), Gap(Count(c), k + 1))
<1>1. CASE Idle(cur, s)
  <2>1. PICK o, n : o = Gap(Count(c), k + 1) /\ n = k + 1 OBVIOUS
  <2>2. Chain(o)
    <3>1. Count(c) \in Nat /\ n \in 1 .. Count(c) BY <2>1, ShapeParts
    <3>2. QED BY <2>1, <3>1, GapChain
  <2>3. ~Touched(cur, n) /\ Idle(Renamed(cur, o), s) BY ONLY <1>1, <2>2, IdleUntouched, IdleRenamed
  <2>4. new = Renamed(cur, o) BY <2>1, <2>3 DEF MergedCur
  <2>5. QED BY <2>3, <2>4, IdleOk
<1>2. ASSUME NEW p, NEW gone, At(cur, c, p, gone), Fits(s, p, gone)
      PROVE  CursorOk(new, s, DropMark(c, k + 1))
  <2>1. At(new, DropMark(c, k + 1), p, gone) BY <1>2, MergeCursor
  <2>2. QED BY ONLY <1>2, <2>1, AtOk
<1>3. QED BY <1>1, <1>2 DEF CursorOk, Placed

-----------------------------------------------------------------------------
(* insert_at and erase_at.                                                 *)

Pair(l, cs) == [list |-> l, cursors |-> cs]

\* Every cursor agrees with its history.
Good(cs, ss, b) == \A x \in Cursors : CursorOk(cs[x], ss[x], b)

\* The names the nodes get make s a state of the list.
Reaches(s, ss) ==
  \E d, new : /\ Gaps(d) /\ Renumbered(s) = Pair(Shape(d), new)
              /\ DOMAIN new = Cursors /\ Good(new, ss, d)

LEMMA PairParts ==
  ASSUME NEW l, NEW cs
  PROVE  Pair(l, cs).list = l /\ Pair(l, cs).cursors = cs
BY DEF Pair

LEMMA ReachesBy ==
  ASSUME NEW s, NEW ss, NEW d, Gaps(d), NEW new, Renumbered(s) = Pair(Shape(d), [x \in Cursors |-> new[x]]),
         \A x \in Cursors : CursorOk(new[x], ss[x], d)
  PROVE  Reaches(s, ss)
<1> DEFINE cs == [x \in Cursors |-> new[x]]
<1>1. DOMAIN cs = Cursors OBVIOUS
<1>2. Good(cs, ss, d) BY DEF Good
<1>3. Renumbered(s) = Pair(Shape(d), cs) OBVIOUS
<1> HIDE DEF cs
<1>4. QED BY <1>1, <1>2, <1>3 DEF Reaches

\* The cursors of a node that is split, for a value behind i others.
SplitShiftCur(cur, k, m, mid, i) ==
  IF Touched(cur, k)
  THEN IF i < mid
       THEN IF cur.index >= mid - 1 THEN [cur EXCEPT !.node = m, !.index = @ - (mid - 1)]
            ELSE IF cur.index >= i THEN [cur EXCEPT !.index = @ + 1] ELSE cur
       ELSE IF cur.index >= mid
            THEN [cur EXCEPT !.node = m, !.index = @ - mid + (IF @ >= i THEN 1 ELSE 0)] ELSE cur
  ELSE cur

LEMMA SplitShift ==
  ASSUME NEW f \in {{}, {"DELETED"}}, NEW n, NEW j \in Nat, NEW i \in Nat, NEW mid \in Nat, NEW k, NEW m, NEW cur,
         cur = Cur(f, n, j)
  PROVE  SplitShiftCur(cur, k, m, mid, i) = SplitCur(ShiftedCur(cur, k, i), k, m, mid)
<1>1. cur.index = j /\ (Touched(cur, k) <=> n = k)
  <2>1. cur.index = j BY CurParts
  <2>2. Touched(Cur(f, n, j), k) <=> n = k BY TouchedInside
  <2>3. QED BY <2>1, <2>2
<1>2. CASE n # k
  <2>1. ~Touched(cur, k) BY <1>1, <1>2
  <2>2. QED BY <2>1 DEF SplitShiftCur, ShiftedCur, SplitCur
<1>3. CASE n = k
  <2>1. Touched(cur, k) BY <1>1, <1>3
  <2>2. \A q : Touched(Cur(f, n, q), k) /\ Cur(f, n, q).index = q
    <3>1. TAKE q
    <3>2. Touched(Cur(f, n, q), k) BY <1>3, TouchedInside
    <3>3. Cur(f, n, q).index = q BY CurParts
    <3>4. QED BY <3>2, <3>3
  <2>3. \A q : SetIndex(SetNode(cur, m), q) = Cur(f, m, q)
    <3>1. SetNode(cur, m) = Cur(f, m, j) BY CurSet
    <3>2. QED BY <3>1, CurSet
  <2>4. \A q, u : SetIndex(SetNode(Cur(f, n, q), m), u) = Cur(f, m, u)
    <3>1. TAKE q, u
    <3>2. SetNode(Cur(f, n, q), m) = Cur(f, m, q) BY CurSet
    <3>3. QED BY <3>2, CurSet
  <2>5. CASE j >= i
    <3>1. ShiftedCur(cur, k, i) = Cur(f, n, j + 1)
      <4>1. ShiftedCur(cur, k, i) = SetIndex(cur, j + 1) BY <1>1, <2>1, <2>5 DEF ShiftedCur, SetIndex
      <4>2. QED BY <4>1, CurSet
    <3>2. PICK new : new = Cur(f, n, j + 1) OBVIOUS
    <3>3. Touched(new, k) /\ new.index = j + 1 BY <2>2, <3>2
    <3>4. CASE j + 1 >= mid
      <4>1. SplitCur(new, k, m, mid) = SetIndex(SetNode(new, m), (j + 1) - mid)
        BY <3>3, <3>4 DEF SplitCur, SetIndex, SetNode
      <4>2. SplitCur(new, k, m, mid) = Cur(f, m, (j + 1) - mid) BY <2>4, <3>2, <4>1
      <4>3. SplitShiftCur(cur, k, m, mid, i) = SetIndex(SetNode(cur, m), (j + 1) - mid)
        <5>1. CASE i < mid
          <6>1. cur.index >= mid - 1 /\ cur.index - (mid - 1) = (j + 1) - mid BY <1>1, <3>4
          <6>2. SplitShiftCur(cur, k, m, mid, i) = [cur EXCEPT !.node = m, !.index = @ - (mid - 1)]
            BY <2>1, <5>1, <6>1 DEF SplitShiftCur
          <6>3. QED BY <6>1, <6>2 DEF SetIndex, SetNode
        <5>2. CASE ~(i < mid)
          <6>1. cur.index >= mid /\ cur.index >= i /\ cur.index - mid + 1 = (j + 1) - mid BY <1>1, <2>5, <5>2
          <6>2. SplitShiftCur(cur, k, m, mid, i)
                  = [cur EXCEPT !.node = m, !.index = @ - mid + (IF @ >= i THEN 1 ELSE 0)]
            BY <2>1, <5>2, <6>1 DEF SplitShiftCur
          <6>3. QED BY <6>1, <6>2 DEF SetIndex, SetNode
        <5>3. QED BY <5>1, <5>2
      <4>4. QED BY <2>3, <3>1, <3>2, <4>2, <4>3
    <3>5. CASE ~(j + 1 >= mid)
      <4>1. SplitCur(new, k, m, mid) = new BY <3>3, <3>5 DEF SplitCur
      <4>2. i < mid /\ ~(cur.index >= mid - 1) /\ cur.index >= i BY <1>1, <2>5, <3>5
      <4>3. SplitShiftCur(cur, k, m, mid, i) = SetIndex(cur, j + 1)
        BY <1>1, <2>1, <4>2 DEF SplitShiftCur, SetIndex
      <4>4. SetIndex(cur, j + 1) = Cur(f, n, j + 1) BY CurSet
      <4>5. QED BY <3>1, <3>2, <4>1, <4>3, <4>4
    <3>6. QED BY <3>4, <3>5
  <2>6. CASE ~(j >= i)
    <3>1. ShiftedCur(cur, k, i) = cur BY <1>1, <2>1, <2>6 DEF ShiftedCur
    <3>2. CASE j >= mid
      <4>1. ~(i < mid) /\ cur.index >= mid /\ ~(cur.index >= i) /\ cur.index - mid + 0 = j - mid
        BY <1>1, <2>6, <3>2
      <4>2. SplitCur(cur, k, m, mid) = SetIndex(SetNode(cur, m), j - mid)
        BY <1>1, <2>1, <4>1 DEF SplitCur, SetIndex, SetNode
      <4>3. SplitShiftCur(cur, k, m, mid, i)
              = [cur EXCEPT !.node = m, !.index = @ - mid + (IF @ >= i THEN 1 ELSE 0)]
        BY <2>1, <4>1 DEF SplitShiftCur
      <4>4. SplitShiftCur(cur, k, m, mid, i) = SetIndex(SetNode(cur, m), j - mid)
        BY <4>1, <4>3 DEF SetIndex, SetNode
      <4>5. QED BY <3>1, <4>2, <4>4
    <3>3. CASE ~(j >= mid)
      <4>1. SplitCur(cur, k, m, mid) = cur BY <1>1, <3>3 DEF SplitCur
      <4>2. SplitShiftCur(cur, k, m, mid, i) = cur
        <5>1. CASE i < mid
          <6>1. ~(cur.index >= mid - 1) /\ ~(cur.index >= i) BY <1>1, <2>6, <5>1
          <6>2. QED BY <5>1, <6>1 DEF SplitShiftCur
        <5>2. CASE ~(i < mid)
          <6>1. ~(cur.index >= mid) BY <1>1, <3>3
          <6>2. QED BY <5>2, <6>1 DEF SplitShiftCur
        <5>3. QED BY <5>1, <5>2
      <4>3. QED BY <3>1, <4>1, <4>2
    <3>4. QED BY <3>2, <3>3
  <2>7. QED BY <2>5, <2>6
<1>4. QED BY <1>2, <1>3

\* ... of every cursor that agrees with its history.
LEMMA SplitShiftOk ==
  ASSUME NEW cur, NEW s, NEW b, CursorOk(cur, s, b), NEW i \in Nat, NEW mid \in Nat, NEW k, k # 0, NEW m
  PROVE  SplitShiftCur(cur, k, m, mid, i) = SplitCur(ShiftedCur(cur, k, i), k, m, mid)
<1>1. CASE ~Touched(cur, k) BY <1>1 DEF SplitShiftCur, ShiftedCur, SplitCur
<1>2. CASE Idle(cur, s)
  <2>1. ~Touched(cur, k) BY <1>2, IdleUntouched
  <2>2. QED BY <1>1, <2>1
<1>3. ASSUME NEW p, NEW gone, At(cur, b, p, gone)
      PROVE  SplitShiftCur(cur, k, m, mid, i) = SplitCur(ShiftedCur(cur, k, i), k, m, mid)
  <2>1. CASE \E f, n, j : Inside(cur, b, f, n, j)
    <3>1. PICK f, n, j : Inside(cur, b, f, n, j) BY <2>1
    <3>2. cur = Cur(f, n, j) /\ f \in {{}, {"DELETED"}} /\ j \in Nat BY <3>1 DEF Inside
    <3>3. QED BY ONLY <3>2, i \in Nat, mid \in Nat, SplitShift
  <2>2. CASE \E f : cur = Cur(f, 0, 0)
    <3>1. ~Touched(cur, k) BY <2>2, SeekUntouched
    <3>2. QED BY <1>1, <3>1
  <2>3. QED BY <1>3, <2>1, <2>2 DEF At
<1>4. QED BY <1>2, <1>3 DEF CursorOk, Placed

LEMMA SplitAll ==
  ASSUME NEW cs, NEW k, NEW m, NEW mid, NEW i
  PROVE  SplitCursors(cs, k, m, mid, i) = [x \in DOMAIN cs |-> SplitShiftCur(cs[x], k, m, mid, i)]
BY DEF SplitCursors, CursorsInNode, SplitShiftCur, Touched

\* insert_at into a node that is not full.
LEMMA InsertedPlain ==
  ASSUME NodeCapacity >= 2, NEW b, Gaps(b), NEW k \in 1 .. Count(b), NEW i \in 0 .. b[k + 1] - b[k],
         NEW r, r = b[k] + i, NEW cs, DOMAIN cs = Cursors, NEW ss, Good(cs, ss, b),
         b[k + 1] - b[k] < NodeCapacity
  PROVE  Reaches(InsertAtIndex(Pair(Shape(b), cs), k, i, r), [x \in Cursors |-> SeenAfterInsert(ss[x], r)])
<1> DEFINE op == Opening(b, k, i)
           d == OpenMarks(b, k)
           v == InsertAt(op.nodes[k].vals, i + 1, r + 1)
           moved == [x \in DOMAIN cs |-> ShiftedCur(cs[x], k, i)]
           s == InsertAtIndex(Pair(Shape(b), cs), k, i, r)
           o == Upto(Count(b))
<1>1. MarkSeq(b) /\ b[k] \in Nat /\ b[k + 1] \in Nat /\ Count(b) \in Nat /\ Len(b) = Count(b) + 1 BY GapFacts
<1>2. Gaps(d)
  <2>1. b[k + 1] < b[k] + NodeCapacity
    <3>1. NodeCapacity \in Nat BY HalfFacts
    <3>2. QED BY <1>1, <3>1
  <2>2. QED BY ONLY <2>1, NodeCapacity >= 2, Gaps(b), k \in 1 .. Count(b), GapsOpen
<1>3. s = Pair([op EXCEPT !.nodes[k].vals = v], moved)
  <2>1. Size(Shape(b), k) < NodeCapacity BY <1>1, ShapeParts
  <2>2. op = [Opened(Shape(b), r) EXCEPT !.size = @ + 1] BY DEF Opening
  <2>3. Pair(Shape(b), cs).list = Shape(b) /\ Pair(Shape(b), cs).cursors = cs BY PairParts
  <2>4. CursorsInNode(cs, k, LAMBDA cur : IF cur.index >= i THEN [cur EXCEPT !.index = @ + 1] ELSE cur) = moved
    BY DEF CursorsInNode, ShiftedCur, Touched
  <2> HIDE DEF op, moved
  <2>5. QED BY <2>1, <2>2, <2>3, <2>4 DEF InsertAtIndex, Pair
<1>4. v = Piece(d[k], d[k + 1])
  <2>1. /\ op.nodes[k].vals = OpenPieces(b, b[k] + i)[k]
        /\ InsertAt(OpenPieces(b, b[k] + i)[k], i + 1, (b[k] + i) + 1) = Piece(d[k], d[k + 1])
    BY <1>1, OpeningIs
  <2>2. QED BY <2>1
<1> HIDE DEF v
<1>5. Renumbered([list |-> [op EXCEPT !.nodes[k].vals = v], cursors |-> moved])
        = [list |-> Shape(d), cursors |-> [x \in DOMAIN moved |-> [moved[x] EXCEPT !.node = Named(o, @)]]]
  <2>1. MarkSeq(b) /\ k \in 1 .. Count(b) /\ i \in 0 .. b[k + 1] - b[k] BY <1>1
  <2> HIDE DEF moved
  <2>2. QED BY ONLY <1>4, <2>1, PlainInsert
<1> DEFINE new == [x \in Cursors |-> Renamed(ShiftedCur(cs[x], k, i), o)]
<1>6. Renumbered(s) = Pair(Shape(d), new)
  <2>1. [x \in DOMAIN moved |-> [moved[x] EXCEPT !.node = Named(o, @)]] = new BY DEF Renamed
  <2> HIDE DEF moved, new, d, o, s, op
  <2>2. QED BY <1>3, <1>5, <2>1 DEF Pair
<1>7. ASSUME NEW x \in Cursors PROVE CursorOk(new[x], SeenAfterInsert(ss[x], r), d)
  <2>1. CursorOk(cs[x], ss[x], b) BY DEF Good
  <2>2. CursorOk(ShiftedCur(cs[x], k, i), SeenAfterInsert(ss[x], r), d) BY <1>1, <2>1, ShiftOk
  <2>3. Count(d) = Count(b) /\ MarkSeq(d)
    <3>1. MarkSeq(d) /\ Len(d) = Len(b) BY <1>1, OpenMarksAre
    <3>2. QED BY <3>1 DEF Count
  <2>4. CursorOk(Renamed(ShiftedCur(cs[x], k, i), Upto(Count(d))), SeenAfterInsert(ss[x], r), d)
    BY ONLY <2>2, <2>3, KeepOk
  <2>5. QED BY <2>3, <2>4
<1> DEFINE seen2 == [x \in Cursors |-> SeenAfterInsert(ss[x], r)]
<1>8. \A x \in Cursors : CursorOk(new[x], seen2[x], d) BY <1>7
<1>9. new = [x \in Cursors |-> new[x]] OBVIOUS
<1>10. Reaches(s, seen2)
  <2> HIDE DEF s, seen2, new, d
  <2>1. Renumbered(s) = Pair(Shape(d), [x \in Cursors |-> new[x]]) BY <1>6, <1>9
  <2>2. QED BY ONLY <1>2, <1>8, <2>1, ReachesBy
<1>11. QED BY <1>10

\* insert_at into a full node, which is split.
LEMMA InsertedSplit ==
  ASSUME NodeCapacity >= 2, NEW b, Gaps(b), NEW k \in 1 .. Count(b), NEW i \in 0 .. b[k + 1] - b[k],
         NEW r, r = b[k] + i, NEW cs, DOMAIN cs = Cursors, NEW ss, Good(cs, ss, b),
         b[k + 1] - b[k] >= NodeCapacity
  PROVE  Reaches(InsertAtIndex(Pair(Shape(b), cs), k, i, r), [x \in Cursors |-> SeenAfterInsert(ss[x], r)])
<1> DEFINE op == Opening(b, k, i)
           sp == Splitting(b, k, i)
           N == Count(b)
           c == OpenMarks(b, k)
           mid == IF k = N THEN NodeCapacity ELSE IF k = 1 THEN 1 ELSE (NodeCapacity + 2) \div 2
           d == SplitMarks(c, k, mid)
           v == InsertAt(op.nodes[k].vals, i + 1, r + 1)
           moved == [x \in DOMAIN cs |-> SplitShiftCur(cs[x], k, N + 1, mid, i)]
           s == InsertAtIndex(Pair(Shape(b), cs), k, i, r)
           o == Wedge(N, k)
<1>1. MarkSeq(b) /\ b[k] \in Nat /\ b[k + 1] \in Nat /\ N \in Nat /\ Len(b) = N + 1 /\ i \in Nat BY GapFacts
<1>2. b[k + 1] = b[k] + NodeCapacity
  <2>1. b[k + 1] <= b[k] + NodeCapacity BY GapFacts
  <2>2. NodeCapacity \in Nat BY HalfFacts
  <2>3. b[k] \in Nat /\ b[k + 1] \in Nat /\ b[k + 1] - b[k] >= NodeCapacity BY <1>1
  <2>4. QED BY ONLY <2>1, <2>2, <2>3
<1>3. mid \in Nat /\ c[k] + mid <= c[k + 1] /\ Gaps(d)
  <2>1. PICK h : h = mid OBVIOUS
  <2>2. h = IF k = Count(b) THEN NodeCapacity ELSE IF k = 1 THEN 1 ELSE (NodeCapacity + 2) \div 2 BY <2>1
  <2>3. /\ h \in Nat /\ OpenMarks(b, k)[k] + h <= OpenMarks(b, k)[k + 1]
        /\ Gaps(SplitMarks(OpenMarks(b, k), k, h))
    BY ONLY <1>2, <2>2, NodeCapacity >= 2, Gaps(b), k \in 1 .. Count(b), GapsSplit
  <2> HIDE DEF mid
  <2>4. QED BY <2>1, <2>3
<1>4. MarkSeq(c) /\ Len(c) = Len(b) /\ Count(c) = N /\ c[k] = b[k] /\ c[k + 1] = b[k + 1] + 1
  <2>1. /\ MarkSeq(c) /\ Len(c) = Len(b)
        /\ \A j \in 1 .. Len(b) : c[j] = IF j > k THEN b[j] + 1 ELSE b[j]
    BY <1>1, OpenMarksAre
  <2>2. Count(c) = N BY <2>1 DEF Count
  <2>3. k \in 1 .. Len(b) /\ k + 1 \in 1 .. Len(b) /\ ~(k > k) /\ k + 1 > k BY <1>1
  <2>4. QED BY <2>1, <2>2, <2>3
<1>5. /\ sp.nodes[k].next = N + 1 /\ Mid(sp, k) = mid BY <1>1, SplittingIs
<1> HIDE DEF mid
<1>6. s = Pair(Halves(sp, k, N + 1, v, mid), moved)
  <2>1. ~(Size(Shape(b), k) < NodeCapacity)
    <3>1. Size(Shape(b), k) = b[k + 1] - b[k] BY <1>1, ShapeParts
    <3>2. NodeCapacity \in Nat BY HalfFacts
    <3>3. b[k] \in Nat /\ b[k + 1] \in Nat BY <1>1
    <3>4. QED BY ONLY <1>2, <3>1, <3>2, <3>3
  <2>2. op = [Opened(Shape(b), r) EXCEPT !.size = @ + 1] /\ sp = NodeBehind(op, k) BY DEF Opening, Splitting
  <2>3. Pair(Shape(b), cs).list = Shape(b) /\ Pair(Shape(b), cs).cursors = cs BY PairParts
  <2>4. SplitCursors(cs, k, N + 1, mid, i) = moved BY SplitAll
  <2> HIDE DEF op, moved, sp
  <2>5. QED BY <1>5, <2>1, <2>2, <2>3, <2>4 DEF InsertAtIndex, Pair, Halves
<1>7. v = Piece(c[k], c[k + 1])
  <2>1. /\ op.nodes[k].vals = OpenPieces(b, b[k] + i)[k]
        /\ InsertAt(OpenPieces(b, b[k] + i)[k], i + 1, (b[k] + i) + 1) = Piece(c[k], c[k + 1])
    BY <1>1, OpeningIs
  <2>2. QED BY <2>1
<1> HIDE DEF v
<1>8. Renumbered([list |-> Halves(sp, k, N + 1, v, mid), cursors |-> moved])
        = [list |-> Shape(d), cursors |-> [x \in DOMAIN moved |-> [moved[x] EXCEPT !.node = Named(o, @)]]]
  <2>1. mid \in 0 .. (b[k + 1] - b[k]) + 1
    <3>1. mid \in Nat /\ b[k] + mid <= b[k + 1] + 1 /\ b[k] \in Nat /\ b[k + 1] \in Nat BY <1>1, <1>3, <1>4
    <3>2. QED BY ONLY <3>1
  <2>2. MarkSeq(b) /\ k \in 1 .. Count(b) /\ i \in 0 .. b[k + 1] - b[k] BY <1>1
  <2> HIDE DEF moved
  <2>3. QED BY ONLY <1>7, <2>1, <2>2, SplitInsert
<1> DEFINE new == [x \in Cursors |-> Renamed(SplitShiftCur(cs[x], k, N + 1, mid, i), o)]
<1>9. Renumbered(s) = Pair(Shape(d), new)
  <2>1. [x \in DOMAIN moved |-> [moved[x] EXCEPT !.node = Named(o, @)]] = new BY DEF Renamed
  <2> HIDE DEF moved, new, d, o, s, sp
  <2>2. QED BY <1>6, <1>8, <2>1 DEF Pair
<1>10. ASSUME NEW x \in Cursors PROVE CursorOk(new[x], SeenAfterInsert(ss[x], r), d)
  <2>1. CursorOk(cs[x], ss[x], b) BY DEF Good
  <2>2. PICK cur : cur = ShiftedCur(cs[x], k, i) OBVIOUS
  <2>3. CursorOk(cur, SeenAfterInsert(ss[x], r), c) BY <1>1, <2>1, <2>2, ShiftOk
  <2>4. SplitShiftCur(cs[x], k, N + 1, mid, i) = SplitCur(cur, k, N + 1, mid)
    <3>1. k # 0 BY <1>1
    <3>2. SplitShiftCur(cs[x], k, N + 1, mid, i) = SplitCur(ShiftedCur(cs[x], k, i), k, N + 1, mid)
      BY ONLY <1>1, <1>3, <2>1, <3>1, SplitShiftOk
    <3>3. QED BY <2>2, <3>2
  <2>5. CursorOk(Renamed(SplitCur(cur, k, Count(c) + 1, mid), Wedge(Count(c), k)), SeenAfterInsert(ss[x], r), d)
    <3>1. k \in 1 .. Count(c) BY <1>4
    <3> HIDE DEF c
    <3>2. QED BY ONLY <1>3, <1>4, <2>3, <3>1, SplitOk
  <2>6. QED BY <1>4, <2>4, <2>5
<1> DEFINE seen2 == [x \in Cursors |-> SeenAfterInsert(ss[x], r)]
<1>11. \A x \in Cursors : CursorOk(new[x], seen2[x], d) BY <1>10
<1>12. new = [x \in Cursors |-> new[x]] OBVIOUS
<1>13. Reaches(s, seen2)
  <2> HIDE DEF s, seen2, new, d
  <2>1. Renumbered(s) = Pair(Shape(d), [x \in Cursors |-> new[x]]) BY <1>9, <1>12
  <2>2. QED BY ONLY <1>3, <1>11, <2>1, ReachesBy
<1>14. QED BY <1>13

LEMMA Inserted ==
  ASSUME NodeCapacity >= 2, NEW b, Gaps(b), NEW k \in 1 .. Count(b), NEW i \in 0 .. b[k + 1] - b[k],
         NEW r, r = b[k] + i, NEW cs, DOMAIN cs = Cursors, NEW ss, Good(cs, ss, b)
  PROVE  Reaches(InsertAtIndex(Pair(Shape(b), cs), k, i, r), [x \in Cursors |-> SeenAfterInsert(ss[x], r)])
<1>1. b[k] \in Nat /\ b[k + 1] \in Nat BY GapFacts
<1>2. NodeCapacity \in Nat BY HalfFacts
<1>3. b[k + 1] - b[k] < NodeCapacity \/ b[k + 1] - b[k] >= NodeCapacity BY <1>1, <1>2
<1>4. QED BY <1>3, InsertedPlain, InsertedSplit

\* erase_at after the value is gone: the node keeps enough values.
LEMMA KeepReaches ==
  ASSUME NEW c, Gaps(c), NEW l, Shaped(l, c), NEW cs, DOMAIN cs = Cursors, NEW ss, Good(cs, ss, c)
  PROVE  Reaches(Pair(l, cs), ss)
<1> DEFINE o == Upto(Count(c))
           new == [x \in Cursors |-> Renamed(cs[x], o)]
<1>1. MarkSeq(c) BY DEF Gaps
<1>2. Renumbered([list |-> l, cursors |-> cs])
        = [list |-> Shape(c), cursors |-> [x \in DOMAIN cs |-> [cs[x] EXCEPT !.node = Named(o, @)]]]
  BY <1>1, KeepNodes
<1>3. Renumbered(Pair(l, cs)) = Pair(Shape(c), [x \in Cursors |-> new[x]])
  <2>1. [x \in DOMAIN cs |-> [cs[x] EXCEPT !.node = Named(o, @)]] = [x \in Cursors |-> new[x]] BY DEF Renamed
  <2> HIDE DEF new, o
  <2>2. QED BY <1>2, <2>1 DEF Pair
<1>4. \A x \in Cursors : CursorOk(new[x], ss[x], c) BY <1>1, KeepOk DEF Good
<1> HIDE DEF new
<1>5. QED BY ONLY <1>3, <1>4, Gaps(c), ReachesBy

\* The first or the last node became empty.
LEMMA DropReaches ==
  ASSUME NodeCapacity >= 2, NEW c, NEW k \in 1 .. Count(c), NearGaps(c, k), k \in {1, Count(c)}, c[k] = c[k + 1],
         NEW l, Shaped(l, c), NEW cs, DOMAIN cs = Cursors, NEW ss, Good(cs, ss, c)
  PROVE  Reaches(DropEmptyNode(Pair(l, cs), k), ss)
<1> DEFINE o == Gap(Count(c), k)
           d == DropMark(c, k + 1)
           seek == IF k = l.first THEN "SEEK_FIRST_NEXT" ELSE "SEEK_LAST_NEXT"
           moved == [x \in DOMAIN cs |-> DroppedCur(cs[x], k, seek)]
           new == [x \in Cursors |-> Renamed(DroppedCur(cs[x], k, seek), o)]
<1>1. MarkSeq(c) BY NearFacts
<1>2. Gaps(d) BY GapsDrop
<1>3. \/ k = 1 /\ seek = "SEEK_FIRST_NEXT"
      \/ k = Count(c) /\ seek = "SEEK_LAST_NEXT"
  <2>1. Count(c) \in Nat /\ l.first = IF Count(c) = 0 THEN 0 ELSE 1 BY <1>1, ShapedParts
  <2>2. l.first = 1 BY <2>1
  <2>3. QED BY <2>2
<1>4. DropEmptyNode(Pair(l, cs), k) = Pair(DestroyNode(l, k), moved)
  <2>1. Pair(l, cs).list = l /\ Pair(l, cs).cursors = cs BY PairParts
  <2>2. CursorsInNode(cs, k, LAMBDA cur : [cur EXCEPT !.flags = {"DELETED", seek}, !.node = NoNode, !.index = 0])
          = moved
    <3> HIDE DEF seek
    <3> QED BY DEF CursorsInNode, DroppedCur, Touched
  <2> HIDE DEF moved
  <2>3. QED BY <2>1, <2>2 DEF DropEmptyNode, Pair
<1> HIDE DEF seek
<1>5. Renumbered([list |-> DestroyNode(l, k), cursors |-> moved])
        = [list |-> Shape(d), cursors |-> [x \in DOMAIN moved |-> [moved[x] EXCEPT !.node = Named(o, @)]]]
  <2> HIDE DEF moved
  <2>1. c[k] = c[k + 1] /\ Shaped(l, c) /\ k \in 1 .. Count(c) OBVIOUS
  <2>2. QED BY ONLY <1>1, <2>1, DropNode
<1>6. Renumbered(DropEmptyNode(Pair(l, cs), k)) = Pair(Shape(d), [x \in Cursors |-> new[x]])
  <2>1. [x \in DOMAIN moved |-> [moved[x] EXCEPT !.node = Named(o, @)]] = [x \in Cursors |-> new[x]] BY DEF Renamed
  <2> HIDE DEF new, o, moved, d
  <2>2. QED BY <1>4, <1>5, <2>1 DEF Pair
<1>7. \A x \in Cursors : CursorOk(new[x], ss[x], d)
  <2>1. TAKE x \in Cursors
  <2>2. CursorOk(cs[x], ss[x], c) BY DEF Good
  <2>3. CursorOk(Renamed(DroppedCur(cs[x], k, seek), o), ss[x], d)
    BY ONLY <1>1, <1>3, <2>2, k \in 1 .. Count(c), c[k] = c[k + 1], DropOk
  <2>4. QED BY <2>3
<1> HIDE DEF new, d
<1>8. QED BY ONLY <1>2, <1>6, <1>7, ReachesBy

LEMMA StealIs ==
  ASSUME NEW s, NEW k
  PROVE  StealFromNext(s, k)
           = Pair(Taken(s.list, k, s.list.nodes[k].next),
                  [x \in DOMAIN s.cursors |->
                     StolenCur(s.cursors[x], k, s.list.nodes[k].next, Size(s.list, k))])
BY DEF StealFromNext, Pair, Taken, CursorsInNode, StolenCur, Touched

LEMMA MergeIs ==
  ASSUME NEW s, NEW k
  PROVE  MergeNext(s, k)
           = Pair(DestroyNode(Joined(s.list, k, s.list.nodes[k].next), s.list.nodes[k].next),
                  [x \in DOMAIN s.cursors |->
                     MergedCur(s.cursors[x], k, s.list.nodes[k].next, Size(s.list, k))])
BY DEF MergeNext, Pair, Joined, CursorsInNode, MergedCur, Touched

\* One value of the next node is taken over.
LEMMA StealReaches ==
  ASSUME NodeCapacity >= 2, NEW c, NEW k \in 2 .. Count(c) - 1, NearGaps(c, k), c[k + 1] < c[k] + Half,
         c[k + 1] + Half < c[k + 2] \/ (k + 1 = Count(c) /\ c[k + 1] + 1 < c[k + 2]),
         NEW l, Shaped(l, c), NEW cs, DOMAIN cs = Cursors, NEW ss, Good(cs, ss, c)
  PROVE  Reaches(StealFromNext(Pair(l, cs), k), ss)
<1> DEFINE o == Upto(Count(c))
           d == StealMarks(c, k)
           size == c[k + 1] - c[k]
           moved == [x \in DOMAIN cs |-> StolenCur(cs[x], k, k + 1, size)]
           new == [x \in Cursors |-> Renamed(StolenCur(cs[x], k, k + 1, size), o)]
<1>1. MarkSeq(c) BY NearFacts
<1>2. c[k + 1] < c[k + 2] /\ Gaps(d) BY GapsSteal
<1>3. l.nodes[k].next = k + 1 /\ Size(l, k) = size /\ k \in 1 .. Count(c) - 1
  <2>1. Count(c) \in Nat BY <1>1, ShapedParts
  <2>2. k \in 1 .. Count(c) /\ k # Count(c) /\ k \in 1 .. Count(c) - 1 BY <2>1
  <2>3. /\ l.nodes[k] = [prev |-> k - 1, next |-> IF k = Count(c) THEN 0 ELSE k + 1, vals |-> Piece(c[k], c[k + 1])]
        /\ Size(l, k) = size
    BY <1>1, <2>2, ShapedParts
  <2>4. QED BY <2>2, <2>3
<1>4. StealFromNext(Pair(l, cs), k) = Pair(Taken(l, k, k + 1), moved)
  <2>1. Pair(l, cs).list = l /\ Pair(l, cs).cursors = cs BY PairParts
  <2> HIDE DEF size
  <2>2. QED BY <1>3, <2>1, StealIs
<1>5. Renumbered([list |-> Taken(l, k, k + 1), cursors |-> moved])
        = [list |-> Shape(d), cursors |-> [x \in DOMAIN moved |-> [moved[x] EXCEPT !.node = Named(o, @)]]]
  <2> HIDE DEF moved
  <2>1. Shaped(l, c) /\ k \in 1 .. Count(c) - 1 BY <1>3
  <2>2. QED BY ONLY <1>1, <1>2, <2>1, StealNode
<1>6. Renumbered(StealFromNext(Pair(l, cs), k)) = Pair(Shape(d), [x \in Cursors |-> new[x]])
  <2>1. [x \in DOMAIN moved |-> [moved[x] EXCEPT !.node = Named(o, @)]] = [x \in Cursors |-> new[x]] BY DEF Renamed
  <2> HIDE DEF new, o, moved, d
  <2>2. QED BY <1>4, <1>5, <2>1 DEF Pair
<1>7. \A x \in Cursors : CursorOk(new[x], ss[x], d)
  <2>1. TAKE x \in Cursors
  <2>2. CursorOk(cs[x], ss[x], c) BY DEF Good
  <2>3. CursorOk(Renamed(StolenCur(cs[x], k, k + 1, size), o), ss[x], d)
    BY ONLY <1>1, <1>2, <1>3, <2>2, StealOk
  <2>4. QED BY <2>3
<1> HIDE DEF new, d
<1>8. QED BY ONLY <1>2, <1>6, <1>7, ReachesBy

\* The next node is merged into this one.
LEMMA MergeReaches ==
  ASSUME NodeCapacity >= 2, NEW c, NEW k \in 2 .. Count(c) - 1, NearGaps(c, k), c[k + 1] < c[k] + Half,
         c[k + 2] <= c[k + 1] + Half,
         NEW l, Shaped(l, c), NEW cs, DOMAIN cs = Cursors, NEW ss, Good(cs, ss, c)
  PROVE  Reaches(MergeNext(Pair(l, cs), k), ss)
<1> DEFINE o == Gap(Count(c), k + 1)
           d == DropMark(c, k + 1)
           size == c[k + 1] - c[k]
           moved == [x \in DOMAIN cs |-> MergedCur(cs[x], k, k + 1, size)]
           new == [x \in Cursors |-> Renamed(MergedCur(cs[x], k, k + 1, size), o)]
<1>1. MarkSeq(c) BY NearFacts
<1>2. Gaps(d) BY GapsMerge
<1>3. l.nodes[k].next = k + 1 /\ Size(l, k) = size /\ k \in 1 .. Count(c) - 1
  <2>1. Count(c) \in Nat BY <1>1, ShapedParts
  <2>2. k \in 1 .. Count(c) /\ k # Count(c) /\ k \in 1 .. Count(c) - 1 BY <2>1
  <2>3. /\ l.nodes[k] = [prev |-> k - 1, next |-> IF k = Count(c) THEN 0 ELSE k + 1, vals |-> Piece(c[k], c[k + 1])]
        /\ Size(l, k) = size
    BY <1>1, <2>2, ShapedParts
  <2>4. QED BY <2>2, <2>3
<1>4. MergeNext(Pair(l, cs), k) = Pair(DestroyNode(Joined(l, k, k + 1), k + 1), moved)
  <2>1. Pair(l, cs).list = l /\ Pair(l, cs).cursors = cs BY PairParts
  <2> HIDE DEF size
  <2>2. QED BY <1>3, <2>1, MergeIs
<1>5. Renumbered([list |-> DestroyNode(Joined(l, k, k + 1), k + 1), cursors |-> moved])
        = [list |-> Shape(d), cursors |-> [x \in DOMAIN moved |-> [moved[x] EXCEPT !.node = Named(o, @)]]]
  <2> HIDE DEF moved
  <2>1. Shaped(l, c) /\ k \in 1 .. Count(c) - 1 BY <1>3
  <2>2. QED BY ONLY <1>1, <2>1, MergeNode
<1>6. Renumbered(MergeNext(Pair(l, cs), k)) = Pair(Shape(d), [x \in Cursors |-> new[x]])
  <2>1. [x \in DOMAIN moved |-> [moved[x] EXCEPT !.node = Named(o, @)]] = [x \in Cursors |-> new[x]] BY DEF Renamed
  <2> HIDE DEF new, o, moved, d
  <2>2. QED BY <1>4, <1>5, <2>1 DEF Pair
<1>7. \A x \in Cursors : CursorOk(new[x], ss[x], d)
  <2>1. TAKE x \in Cursors
  <2>2. CursorOk(cs[x], ss[x], c) BY DEF Good
  <2>3. CursorOk(Renamed(MergedCur(cs[x], k, k + 1, size), o), ss[x], d)
    BY ONLY <1>1, <1>3, <2>2, MergeOk
  <2>4. QED BY <2>3
<1> HIDE DEF new, d
<1>8. QED BY ONLY <1>2, <1>6, <1>7, ReachesBy

\* erase_at in two parts: the value is taken out, and the nodes are mended.
Without(s, n, index, e) ==
  Pair(Closed([s.list EXCEPT !.size = @ - 1, !.nodes[n].vals = RemoveAt(@, index + 1)], e),
       [x \in DOMAIN s.cursors |-> ErasedCur(s.cursors[x], n, index)])

Mended(t, n) ==
  LET next == t.list.nodes[n].next
  IN  IF Size(t.list, n) >= Half THEN t
      ELSE IF n \in {t.list.first, t.list.last}
      THEN IF Size(t.list, n) = 0 THEN DropEmptyNode(t, n) ELSE t
      ELSE IF Size(t.list, next) > Half \/ (next = t.list.last /\ Size(t.list, next) > 1)
      THEN StealFromNext(t, n)
      ELSE MergeNext(t, n)

LEMMA EraseIs ==
  ASSUME NEW s, NEW n, NEW index, NEW e
  PROVE  EraseAtIndex(s, n, index, e) = Mended(Without(s, n, index, e), n)
BY DEF EraseAtIndex, Mended, Without, Pair, Half, CursorsInNode, ErasedCur, Touched

LEMMA MendedReaches ==
  ASSUME NodeCapacity >= 2, NEW c, NEW k \in 1 .. Count(c), NearGaps(c, k),
         NEW l, Shaped(l, c), NEW cs, DOMAIN cs = Cursors, NEW ss, Good(cs, ss, c)
  PROVE  Reaches(Mended(Pair(l, cs), k), ss)
<1> DEFINE t == Pair(l, cs)
           N == Count(c)
<1>1. t.list = l BY PairParts
<1>2. /\ MarkSeq(c) /\ N \in Nat /\ Len(c) = N + 1
      /\ \A j \in 1 .. N : c[j] \in Nat /\ c[j + 1] \in Nat /\ c[j] <= c[j + 1]
  BY NearFacts
<1>3. /\ l.first = (IF N = 0 THEN 0 ELSE 1) /\ l.last = N
      /\ \A j \in 1 .. N : Size(l, j) = c[j + 1] - c[j]
  BY <1>2, ShapedParts
<1>4. l.nodes[k] = [prev |-> k - 1, next |-> IF k = N THEN 0 ELSE k + 1, vals |-> Piece(c[k], c[k + 1])]
  BY <1>2, ShapedParts
<1>5. l.first = 1 /\ k \in 1 .. N /\ l.nodes[k].next = IF k = N THEN 0 ELSE k + 1 BY <1>2, <1>3, <1>4
<1>6. Size(l, k) = c[k + 1] - c[k] /\ c[k] \in Nat /\ c[k + 1] \in Nat /\ c[k] <= c[k + 1] BY <1>2, <1>3
<1>7. Half \in Nat BY HalfFacts
<1>8. Shaped(l, c) /\ DOMAIN cs = Cursors /\ Good(cs, ss, c) /\ NodeCapacity >= 2 /\ NearGaps(c, k)
      /\ k \in 1 .. Count(c) OBVIOUS
<1> HIDE DEF t, N
<1>9. CASE Size(l, k) >= Half
  <2>1. Mended(t, k) = t BY <1>1, <1>9 DEF Mended
  <2>2. c[k] + Half <= c[k + 1] BY ONLY <1>6, <1>7, <1>9
  <2>3. Gaps(c) BY ONLY <1>8, <2>2, GapsKept
  <2>4. QED BY ONLY <1>8, <2>1, <2>3, KeepReaches DEF t
<1>10. CASE ~(Size(l, k) >= Half) /\ k \in {1, N} /\ Size(l, k) # 0
  <2>1. Mended(t, k) = t BY <1>1, <1>3, <1>5, <1>10 DEF Mended
  <2>2. k \in {1, Count(c)} /\ c[k] # c[k + 1] BY ONLY <1>6, <1>10 DEF N
  <2>3. Gaps(c) BY ONLY <1>8, <2>2, GapsKept
  <2>4. QED BY ONLY <1>8, <2>1, <2>3, KeepReaches DEF t
<1>11. CASE ~(Size(l, k) >= Half) /\ k \in {1, N} /\ Size(l, k) = 0
  <2>1. Mended(t, k) = DropEmptyNode(t, k) BY <1>1, <1>3, <1>5, <1>11 DEF Mended
  <2>2. k \in {1, Count(c)} /\ c[k] = c[k + 1] BY ONLY <1>6, <1>11 DEF N
  <2>3. QED BY ONLY <1>8, <2>1, <2>2, DropReaches DEF t
<1>12. CASE ~(Size(l, k) >= Half) /\ k \notin {1, N}
  <2>1. k \in 2 .. N - 1 /\ k + 1 \in 1 .. N /\ k # N
    <3>1. N \in Nat /\ k \in 1 .. N /\ k # 1 /\ k # N BY <1>2, <1>5, <1>12
    <3>2. QED BY ONLY <3>1
  <2>2. l.nodes[k].next = k + 1 BY <1>5, <2>1
  <2>3. /\ Size(l, k + 1) = c[k + 2] - c[k + 1] /\ c[k + 2] \in Nat
    <3>1. (k + 1) + 1 = k + 2 BY <2>1
    <3>2. Size(l, k + 1) = c[(k + 1) + 1] - c[k + 1] /\ c[(k + 1) + 1] \in Nat BY <1>2, <1>3, <2>1
    <3>3. QED BY <3>1, <3>2
  <2>4. c[k + 1] < c[k] + Half BY ONLY <1>6, <1>7, <1>12
  <2>5. k \in 2 .. Count(c) - 1 BY <2>1 DEF N
  <2>6. k \notin {l.first, l.last} BY <1>3, <1>5, <1>12
  <2>7. CASE Size(l, k + 1) > Half \/ (k + 1 = N /\ Size(l, k + 1) > 1)
    <3>1. Mended(t, k) = StealFromNext(t, k) BY <1>1, <1>3, <1>12, <2>2, <2>6, <2>7 DEF Mended
    <3>2. c[k + 1] + Half < c[k + 2] \/ (k + 1 = Count(c) /\ c[k + 1] + 1 < c[k + 2])
      BY ONLY <1>6, <1>7, <2>3, <2>7 DEF N
    <3>3. QED BY ONLY <1>8, <2>4, <2>5, <3>1, <3>2, StealReaches DEF t
  <2>8. CASE ~(Size(l, k + 1) > Half \/ (k + 1 = N /\ Size(l, k + 1) > 1))
    <3>1. Mended(t, k) = MergeNext(t, k) BY <1>1, <1>3, <1>12, <2>2, <2>6, <2>8 DEF Mended
    <3>2. c[k + 2] <= c[k + 1] + Half BY ONLY <1>6, <1>7, <2>3, <2>8
    <3>3. QED BY ONLY <1>8, <2>4, <2>5, <3>1, <3>2, MergeReaches DEF t
  <2>9. QED BY <2>7, <2>8
<1>13. QED BY <1>9, <1>10, <1>11, <1>12 DEF t

LEMMA ErasedReaches ==
  ASSUME NodeCapacity >= 2, NEW b, Gaps(b), NEW k \in 1 .. Count(b), NEW i \in 0 .. b[k + 1] - b[k] - 1,
         NEW e, e = b[k] + i + 1, NEW cs, DOMAIN cs = Cursors, NEW ss,
         \A x \in Cursors : CursorOk(ErasedCur(cs[x], k, i), ss[x], CloseMarks(b, k))
  PROVE  Reaches(EraseAtIndex(Pair(Shape(b), cs), k, i, e), ss)
<1> DEFINE c == CloseMarks(b, k)
           l == Closing(b, k, i)
           es == [x \in DOMAIN cs |-> ErasedCur(cs[x], k, i)]
<1>1. MarkSeq(b) BY DEF Gaps
<1>2. NearGaps(c, k) /\ Count(c) = Count(b) BY GapsClose
<1>3. Shaped(l, c) BY <1>1, ClosingIs
<1>4. Without(Pair(Shape(b), cs), k, i, e) = Pair(l, es)
  <2>1. Pair(Shape(b), cs).list = Shape(b) /\ Pair(Shape(b), cs).cursors = cs BY PairParts
  <2>2. QED BY <2>1 DEF Without, Closing
<1>5. Good(es, ss, c) /\ DOMAIN es = Cursors BY DEF Good
<1>6. k \in 1 .. Count(c) BY <1>2
<1> HIDE DEF c, l, es
<1>7. Reaches(Mended(Pair(l, es), k), ss) BY ONLY <1>2, <1>3, <1>5, <1>6, NodeCapacity >= 2, MendedReaches
<1>8. QED BY <1>4, <1>7, EraseIs

-----------------------------------------------------------------------------
(* The invariant.                                                          *)

\* The marks b describe the list, and every cursor agrees with its history.
Shows(b) ==
  /\ Gaps(b) /\ list = Shape(b)
  /\ DOMAIN cursors = Cursors /\ DOMAIN seen = Cursors /\ Good(cursors, seen, b)

Inv == \E b : Shows(b)

LEMMA StatePair == State = Pair(list, cursors)
BY DEF State, Pair

\* An operation of the list keeps the invariant.
LEMMA ReachesInv ==
  ASSUME NEW s, Becomes(s), Reaches(s, seen'), DOMAIN seen' = Cursors
  PROVE  Inv'
<1>1. PICK d, new : /\ Gaps(d) /\ Renumbered(s) = Pair(Shape(d), new)
                    /\ DOMAIN new = Cursors /\ Good(new, seen', d)
  BY DEF Reaches
<1>2. list' = Shape(d) /\ cursors' = new
  <2>1. list' = Renumbered(s).list /\ cursors' = Renumbered(s).cursors BY DEF Becomes
  <2>2. QED BY <1>1, <2>1, PairParts
<1>3. Shows(d)' BY <1>1, <1>2 DEF Shows
<1>4. QED BY <1>3 DEF Inv

\* The list is empty if and only if it has no nodes.
LEMMA EmptyIff ==
  ASSUME NEW b, Gaps(b), NodeCapacity >= 2
  PROVE  /\ b[1] = 0 /\ b[Len(b)] \in Nat
         /\ b[Len(b)] = 0 <=> Count(b) = 0
         /\ Count(b) # 0 => 1 \in 1 .. Count(b) /\ Count(b) \in 1 .. Count(b)
         /\ \A n \in 1 .. Count(b) : b[n] < b[Len(b)] /\ b[n + 1] <= b[Len(b)]
<1>1. /\ MarkSeq(b) /\ Count(b) \in Nat /\ Len(b) = Count(b) + 1
      /\ \A j \in 1 .. Count(b) : b[j] \in Nat /\ b[j + 1] \in Nat /\ b[j] < b[j + 1]
  BY GapFacts
<1>2. b[1] = 0 BY <1>1 DEF MarkSeq
<1>3. ASSUME NEW n \in 1 .. Count(b) PROVE b[n] < b[Len(b)] /\ b[n + 1] <= b[Len(b)] /\ b[Len(b)] \in Nat
  <2>1. n + 1 \in 1 .. Len(b) /\ Len(b) \in 1 .. Len(b) /\ n + 1 <= Len(b) BY <1>1
  <2>2. b[n + 1] <= b[Len(b)] /\ b[Len(b)] \in Nat BY <1>1, <2>1, MarksRise
  <2>3. b[n] \in Nat /\ b[n + 1] \in Nat /\ b[n] < b[n + 1] BY <1>1
  <2>4. QED BY ONLY <2>2, <2>3
<1>4. CASE Count(b) = 0
  <2>1. Len(b) = 1 BY <1>1, <1>4
  <2>2. QED BY <1>2, <1>3, <1>4, <2>1
<1>5. CASE Count(b) # 0
  <2>1. 1 \in 1 .. Count(b) /\ Count(b) \in 1 .. Count(b) BY <1>1, <1>5
  <2>2. b[1] < b[Len(b)] /\ b[Len(b)] \in Nat BY <1>3, <2>1
  <2>3. b[Len(b)] # 0 BY <1>2, <2>2
  <2>4. QED BY <1>2, <1>3, <1>5, <2>1, <2>2, <2>3
<1>6. QED BY <1>4, <1>5

\* The parts of a state that marks describe.
LEMMA ShownParts ==
  ASSUME NEW b, Shows(b), NodeCapacity >= 2
  PROVE  /\ Gaps(b) /\ MarkSeq(b) /\ Count(b) \in Nat /\ Len(b) = Count(b) + 1
         /\ list = Shape(b) /\ State = Pair(Shape(b), cursors)
         /\ list.first = (IF Count(b) = 0 THEN 0 ELSE 1) /\ list.last = Count(b)
         /\ list.size = b[Len(b)] /\ list.count = Count(b)
         /\ DOMAIN cursors = Cursors /\ DOMAIN seen = Cursors /\ Good(cursors, seen, b)
<1>1. Gaps(b) /\ list = Shape(b) BY DEF Shows
<1>2. MarkSeq(b) /\ Count(b) \in Nat /\ Len(b) = Count(b) + 1 BY <1>1, GapFacts
<1>3. QED BY <1>1, <1>2, ShapeParts, StatePair DEF Shows

LEMMA ShownNode ==
  ASSUME NEW b, Shows(b), NodeCapacity >= 2, NEW n \in 1 .. Count(b)
  PROVE  /\ n \in DOMAIN list.nodes
         /\ b[n] \in Nat /\ b[n + 1] \in Nat /\ b[n] < b[n + 1]
         /\ list.nodes[n].prev = n - 1 /\ list.nodes[n].next = (IF n = Count(b) THEN 0 ELSE n + 1)
         /\ list.nodes[n].vals = Piece(b[n], b[n + 1])
         /\ Size(list, n) = b[n + 1] - b[n]
<1>1. Gaps(b) /\ MarkSeq(b) /\ list = Shape(b) BY ShownParts
<1>2. b[n] \in Nat /\ b[n + 1] \in Nat /\ b[n] < b[n + 1] BY <1>1, GapFacts
<1>3. /\ Shape(b).nodes[n] = [prev |-> n - 1, next |-> IF n = Count(b) THEN 0 ELSE n + 1, vals |-> Piece(b[n], b[n + 1])]
      /\ Size(Shape(b), n) = b[n + 1] - b[n]
  BY <1>1, ShapeParts
<1>4. n \in DOMAIN list.nodes BY <1>1, ShapeParts
<1>5. QED BY <1>1, <1>2, <1>3, <1>4

LEMMA AtValueParts ==
  ASSUME NEW e
  PROVE  AtValue(e).at = e /\ AtValue(e).lo = e - 1 /\ AtValue(e).hi = e + 1
BY DEF AtValue

LEMMA CurSame ==
  ASSUME NEW f, NEW n, NEW i, NEW g, NEW m, NEW j, Cur(f, n, i) = Cur(g, m, j)
  PROVE  f = g /\ n = m /\ i = j
<1>1. Cur(f, n, i).flags = f /\ Cur(f, n, i).node = n /\ Cur(f, n, i).index = i BY CurParts
<1>2. Cur(g, m, j).flags = g /\ Cur(g, m, j).node = m /\ Cur(g, m, j).index = j BY CurParts
<1>3. QED BY <1>1, <1>2

\* Every cursor is linked or free.
LEMMA CellIs ==
  ASSUME NEW cur, NEW s, NEW b, CursorOk(cur, s, b)
  PROVE  /\ \E f, n, i : cur \in {Cur(f, n, i), Free(f, n, i)}
         /\ cur.linked => ~Lost(cur, s)
         /\ ~cur.linked => Lost(cur, s)
<1>1. CASE Off(cur, s)
  <2>1. PICK f : cur = Cur(f, 0, 0) BY <1>1 DEF Off
  <2>2. cur.linked BY <2>1, CurParts
  <2>3. ~Lost(cur, s) BY <2>2, FreeParts DEF Lost
  <2>4. QED BY <2>1, <2>2, <2>3
<1>2. CASE Placed(cur, s, b)
  <2>1. PICK p, gone : At(cur, b, p, gone) BY <1>2 DEF Placed
  <2>2. PICK f, n, i : cur = Cur(f, n, i) BY <2>1 DEF At, Inside
  <2>3. cur.linked BY <2>2, CurParts
  <2>4. ~Lost(cur, s) BY <2>3, FreeParts DEF Lost
  <2>5. QED BY <2>2, <2>3, <2>4
<1>3. CASE Lost(cur, s)
  <2>1. PICK f, n, i : cur = Free(f, n, i) BY <1>3 DEF Lost
  <2>2. ~cur.linked BY <2>1, FreeParts
  <2>3. QED BY <1>3, <2>1, <2>2
<1>4. QED BY <1>1, <1>2, <1>3 DEF CursorOk, Idle

\* A free cursor is less than a linked one.
LEMMA Untied ==
  ASSUME NEW f, NEW n, NEW i, NEW s, NEW b, Off(Cur(f, n, i), s) \/ Placed(Cur(f, n, i), s, b)
  PROVE  Form(f, n, i) /\ Told(s) /\ CursorOk(Free(f, n, i), s, b)
<1>1. Told(Nowhere) BY DEF Told, Nowhere
<1>2. CASE Off(Cur(f, n, i), s)
  <2>1. PICK g : Cur(f, n, i) = Cur(g, 0, 0) /\ "INVALID" \in g /\ s = Nowhere BY <1>2 DEF Off
  <2>2. f = g /\ n = 0 /\ i = 0 BY <2>1, CurSame
  <2>3. Form(f, n, i) BY <2>1, <2>2 DEF Form
  <2>4. QED BY <1>1, <2>1, <2>3 DEF Lost, Idle, CursorOk
<1>3. CASE Placed(Cur(f, n, i), s, b)
  <2>1. PICK p, gone : At(Cur(f, n, i), b, p, gone) /\ Fits(s, p, gone) BY <1>3 DEF Placed
  <2>2. Told(s)
    <3>1. CASE gone = {}
      <4>1. p \in Nat /\ s = AtValue(p + 1)
        <5>1. {} # {"DELETED"} OBVIOUS
        <5>2. QED BY <2>1, <3>1, <5>1 DEF Fits
      <4>2. p + 1 \in Nat \ {0} BY <4>1
      <4>3. QED BY <4>1, <4>2 DEF Told
    <3>2. CASE gone # {} BY <2>1, <3>2 DEF Fits, Told
    <3>3. QED BY <3>1, <3>2
  <2>3. Form(f, n, i)
    <3>1. ASSUME NEW g, NEW m, NEW j, Inside(Cur(f, n, i), b, g, m, j) PROVE Form(f, n, i)
      <4>1. Cur(f, n, i) = Cur(g, m, j) /\ g \in {{}, {"DELETED"}} /\ m \in Nat /\ j \in Nat
        BY <3>1 DEF Inside
      <4>2. f = g /\ n = m /\ i = j BY <4>1, CurSame
      <4>3. QED BY <4>1, <4>2 DEF Form
    <3>2. ASSUME NEW g \in {{"DELETED", "SEEK_FIRST_NEXT"}, {"DELETED", "SEEK_LAST_NEXT"}},
                 Cur(f, n, i) = Cur(g, 0, 0)
          PROVE  Form(f, n, i)
      <4>1. f = g /\ n = 0 /\ i = 0 BY <3>2, CurSame
      <4>2. QED BY <4>1 DEF Form
    <3>3. QED BY <2>1, <3>1, <3>2 DEF At
  <2>4. QED BY <2>2, <2>3 DEF Lost, Idle, CursorOk
<1>4. QED BY <1>2, <1>3

\* A cursor that the list does not know and that is in place is where a linked one would be.
LEMMA InPlace ==
  ASSUME NodeCapacity >= 2, NEW b, Shows(b), NEW c \in Cursors, StaysPut(c), NEW f, NEW n, NEW i,
         cursors[c] = Free(f, n, i), Form(f, n, i), Told(seen[c])
  PROVE  Off(Cur(f, n, i), seen[c]) \/ Placed(Cur(f, n, i), seen[c], b)
<1> DEFINE cur == cursors[c]
           s == seen[c]
<1>1. /\ cur.flags = f /\ cur.node = n /\ cur.index = i
      /\ Invalid(cur) <=> "INVALID" \in f
      /\ Erased(cur) <=> "DELETED" \in f
  BY FreeParts
<1>2. /\ Invalid(cur) => s = Nowhere
      /\ ~Invalid(cur) /\ Erased(cur) => s.at = 0 /\ Before(cur) \in s.lo .. s.hi - 1
      /\ ~Invalid(cur) /\ ~Erased(cur) => s.at # 0 /\ Position(cur) = s.at
  BY DEF StaysPut
<1>3. /\ list.size = b[Len(b)] /\ DOMAIN list.nodes = 1 .. Count(b) /\ Gaps(b)
  <2>1. list.size = b[Len(b)] /\ list = Shape(b) /\ Gaps(b) /\ MarkSeq(b) BY ShownParts
  <2>2. QED BY <2>1, ShapeParts
<1>4. b[Len(b)] \in Nat BY <1>3, EmptyIff
<1>5. ASSUME s.at = 0 PROVE \E lo, hi \in Nat : s = [at |-> 0, lo |-> lo, hi |-> hi]
  <2>1. ~\E e \in Nat \ {0} : s = AtValue(e) BY <1>5, AtValueParts
  <2>2. QED BY <2>1 DEF Told
<1>6. ASSUME s.at # 0 PROVE s.at \in Nat \ {0} /\ s = AtValue(s.at)
  <2>1. ASSUME NEW lo \in Nat, NEW hi \in Nat, s = [at |-> 0, lo |-> lo, hi |-> hi] PROVE FALSE
    <3>1. [at |-> 0, lo |-> lo, hi |-> hi].at = 0 OBVIOUS
    <3>2. QED BY <1>6, <2>1, <3>1
  <2>2. PICK e \in Nat \ {0} : s = AtValue(e) BY <2>1 DEF Told
  <2>3. s.at = e BY <2>2, AtValueParts
  <2>4. QED BY <2>2, <2>3
<1> HIDE DEF cur, s
<1>7. CASE "INVALID" \in f
  <2>1. n = 0 /\ i = 0 BY <1>7 DEF Form
  <2>2. s = Nowhere BY <1>1, <1>2, <1>7
  <2>3. QED BY <1>7, <2>1, <2>2 DEF Off, s
<1>8. CASE f = {} /\ n \in Nat /\ i \in Nat
  <2>1. s.at # 0 /\ Position(cur) = s.at BY <1>1, <1>2, <1>8
  <2>2. n \in 1 .. Count(b) /\ ~(i >= Size(list, n)) /\ s.at = list.nodes[n].vals[i + 1]
    BY <1>1, <1>3, <2>1 DEF Position
  <2>3. /\ b[n] \in Nat /\ b[n + 1] \in Nat /\ list.nodes[n].vals = Piece(b[n], b[n + 1])
        /\ Size(list, n) = b[n + 1] - b[n]
    BY <2>2, ShownNode
  <2>4. i + 1 \in 1 .. b[n + 1] - b[n] /\ b[n] + i < b[n + 1] /\ b[n] + i <= b[n + 1]
    BY ONLY <1>8, <2>2, <2>3
  <2>5. s.at = b[n] + (i + 1)
    <3>1. Piece(b[n], b[n + 1])[i + 1] = b[n] + (i + 1) BY ONLY <2>4 DEF Piece
    <3>2. QED BY ONLY <2>2, <2>3, <3>1
  <2>6. PICK p : p = b[n] + i OBVIOUS
  <2>7. p \in Nat /\ s.at = p + 1 BY ONLY <1>8, <2>3, <2>5, <2>6
  <2>8. Fits(s, p, {}) BY <1>6, <2>1, <2>7 DEF Fits
  <2>9. At(Cur(f, n, i), b, p, {})
    <3>1. f \in {{}, {"DELETED"}} /\ (f = {} => b[n] + i < b[n + 1]) BY <1>8, <2>4
    <3>2. Inside(Cur(f, n, i), b, f, n, i) BY <1>8, <2>2, <2>4, <3>1 DEF Inside
    <3>3. QED BY <1>8, <2>6, <3>2 DEF At
  <2>10. QED BY <2>8, <2>9 DEF Placed, s
<1>9. CASE "INVALID" \notin f /\ "DELETED" \in f
  <2>1. s.at = 0 /\ Before(cur) \in s.lo .. s.hi - 1 BY <1>1, <1>2, <1>9
  <2>2. PICK lo \in Nat, hi \in Nat : s = [at |-> 0, lo |-> lo, hi |-> hi] BY <1>5, <2>1
  <2>3. PICK p : p = Before(cur) OBVIOUS
  <2>4. p \in lo .. hi - 1
    <3>1. s.lo = lo /\ s.hi = hi BY <2>2
    <3>2. QED BY <2>1, <2>3, <3>1
  <2>5. p \in Nat /\ lo <= p /\ p < hi BY ONLY <2>4, lo \in Nat, hi \in Nat
  <2>6. Fits(s, p, {"DELETED"}) BY <2>2, <2>5 DEF Fits
  <2>7. At(Cur(f, n, i), b, p, {"DELETED"})
    <3>1. CASE f = {"DELETED"} /\ n \in Nat /\ i \in Nat
      <4>1. "SEEK_FIRST_NEXT" \notin f /\ "SEEK_LAST_NEXT" \notin f BY <3>1
      <4>2. p = IF n \notin DOMAIN list.nodes \/ i > Size(list, n) THEN -1
                ELSE IF i < Size(list, n) THEN list.nodes[n].vals[i + 1] - 1 ELSE list.nodes[n].vals[i]
        BY <1>1, <2>3, <4>1 DEF Before
      <4>3. p # -1 BY ONLY <2>5
      <4>4. n \in 1 .. Count(b) /\ ~(i > Size(list, n)) BY ONLY <1>3, <4>2, <4>3
      <4>5. /\ b[n] \in Nat /\ b[n + 1] \in Nat /\ list.nodes[n].vals = Piece(b[n], b[n + 1])
            /\ Size(list, n) = b[n + 1] - b[n] /\ b[n] < b[n + 1]
        BY <4>4, ShownNode
      <4>6. p = IF i < b[n + 1] - b[n] THEN Piece(b[n], b[n + 1])[i + 1] - 1 ELSE Piece(b[n], b[n + 1])[i]
        BY ONLY <1>3, <4>2, <4>4, <4>5
      <4>7. p = b[n] + i /\ b[n] + i <= b[n + 1]
        <5>1. CASE i < b[n + 1] - b[n]
          <6>1. i + 1 \in 1 .. b[n + 1] - b[n] BY ONLY <3>1, <4>5, <5>1
          <6>2. Piece(b[n], b[n + 1])[i + 1] = b[n] + (i + 1) BY ONLY <6>1 DEF Piece
          <6>3. p = (b[n] + (i + 1)) - 1 BY ONLY <4>6, <5>1, <6>2
          <6>4. QED BY ONLY <3>1, <4>5, <5>1, <6>3
        <5>2. CASE ~(i < b[n + 1] - b[n])
          <6>1. i \in 1 .. b[n + 1] - b[n] BY ONLY <3>1, <4>4, <4>5, <5>2
          <6>2. Piece(b[n], b[n + 1])[i] = b[n] + i BY ONLY <6>1 DEF Piece
          <6>3. p = b[n] + i BY ONLY <4>6, <5>2, <6>2
          <6>4. QED BY ONLY <4>4, <4>5, <3>1, <6>3
        <5>3. QED BY <5>1, <5>2
      <4>8. f \in {{}, {"DELETED"}} /\ f # {} BY <3>1
      <4>9. Inside(Cur(f, n, i), b, f, n, i) BY <3>1, <4>4, <4>7, <4>8 DEF Inside
      <4>10. QED BY <3>1, <4>7, <4>9 DEF At
    <3>2. CASE f = {"DELETED", "SEEK_FIRST_NEXT"} /\ n = 0 /\ i = 0
      <4>1. "SEEK_FIRST_NEXT" \in f BY <3>2
      <4>2. p = 0 BY <1>1, <2>3, <4>1 DEF Before
      <4>3. QED BY <3>2, <4>2 DEF At
    <3>3. CASE f = {"DELETED", "SEEK_LAST_NEXT"} /\ n = 0 /\ i = 0
      <4>1. "SEEK_FIRST_NEXT" \notin f /\ "SEEK_LAST_NEXT" \in f BY <3>3
      <4>2. p = b[Len(b)] BY <1>1, <1>3, <2>3, <4>1 DEF Before
      <4>3. QED BY <3>3, <4>2 DEF At
    <3>4. f # {} BY <1>9
    <3>5. QED BY <1>9, <3>1, <3>2, <3>3, <3>4 DEF Form
  <2>8. QED BY <2>6, <2>7 DEF Placed, s
<1>10. QED
  <2>1. CASE "INVALID" \in f BY <1>7, <2>1
  <2>2. CASE "INVALID" \notin f /\ "DELETED" \in f BY <1>9, <2>2
  <2>3. CASE "INVALID" \notin f /\ "DELETED" \notin f
    <3>1. f = {} /\ n \in Nat /\ i \in Nat BY <2>3 DEF Form
    <3>2. QED BY <1>8, <3>1
  <2>4. QED BY <2>1, <2>2, <2>3

\* A cursor that may be used.
LEMMA UsableIs ==
  ASSUME NodeCapacity >= 2, NEW b, Shows(b), NEW c \in Cursors, Usable(c)
  PROVE  \E f, n, i : /\ cursors[c] \in {Cur(f, n, i), Free(f, n, i)}
                      /\ Off(Cur(f, n, i), seen[c]) \/ Placed(Cur(f, n, i), seen[c], b)
<1>1. CursorOk(cursors[c], seen[c], b) BY DEF Shows, Good
<1>2. CASE Lost(cursors[c], seen[c])
  <2>1. PICK f, n, i : cursors[c] = Free(f, n, i) /\ Form(f, n, i) BY <1>2 DEF Lost
  <2>2. Told(seen[c]) BY <1>2 DEF Lost
  <2>3. StaysPut(c) BY <1>1, <1>2, CellIs DEF Usable
  <2>4. Off(Cur(f, n, i), seen[c]) \/ Placed(Cur(f, n, i), seen[c], b) BY <2>1, <2>2, <2>3, InPlace
  <2>5. QED BY <2>1, <2>4
<1>3. CASE ~Lost(cursors[c], seen[c])
  <2>1. Off(cursors[c], seen[c]) \/ Placed(cursors[c], seen[c], b) BY <1>1, <1>3 DEF CursorOk, Idle
  <2>2. PICK f, n, i : cursors[c] = Cur(f, n, i)
    <3>1. CASE Off(cursors[c], seen[c]) BY <3>1 DEF Off
    <3>2. CASE Placed(cursors[c], seen[c], b) BY <3>2 DEF Placed, At, Inside
    <3>3. QED BY <2>1, <3>1, <3>2
  <2>3. QED BY <2>1, <2>2
<1>4. QED BY <1>2, <1>3

\* What is known of the cursors that may be used.
Knows == [x \in Cursors |-> Known(x)]

LEMMA KnownGood ==
  ASSUME NEW b, Shows(b)
  PROVE  Good(cursors, Knows, b)
<1>1. SUFFICES ASSUME NEW x \in Cursors PROVE CursorOk(cursors[x], Known(x), b) BY DEF Good, Knows
<1>2. CursorOk(cursors[x], seen[x], b) BY DEF Shows, Good
<1>3. CASE Usable(x) BY <1>2, <1>3 DEF Known
<1>4. CASE ~Usable(x)
  <2>1. Lost(cursors[x], seen[x]) BY <1>2, <1>4, CellIs DEF Usable
  <2>2. Told(Nowhere) BY DEF Told, Nowhere
  <2>3. Lost(cursors[x], Nowhere) BY <2>1, <2>2 DEF Lost
  <2>4. QED BY <1>4, <2>3 DEF Known, Idle, CursorOk
<1>5. QED BY <1>3, <1>4

\* A cursor on a value is where its history says.
LEMMA OnValueIs ==
  ASSUME NodeCapacity >= 2, NEW b, Shows(b), NEW c \in Cursors, Usable(c), OnValue(c)
  PROVE  \E n, i : /\ cursors[c] \in {Cur({}, n, i), Free({}, n, i)}
                   /\ Inside(Cur({}, n, i), b, {}, n, i)
                   /\ seen[c] = AtValue((b[n] + i) + 1) /\ b[n] + i \in Nat
<1>1. PICK f, n, i : /\ cursors[c] \in {Cur(f, n, i), Free(f, n, i)}
                     /\ Off(Cur(f, n, i), seen[c]) \/ Placed(Cur(f, n, i), seen[c], b)
  BY UsableIs
<1>2. "INVALID" \notin f /\ "DELETED" \notin f BY <1>1, CurParts, FreeParts DEF OnValue
<1>3. ~Off(Cur(f, n, i), seen[c])
  <2>1. SUFFICES ASSUME NEW g, Cur(f, n, i) = Cur(g, 0, 0), "INVALID" \in g PROVE FALSE BY DEF Off
  <2>2. f = g BY <2>1, CurSame
  <2>3. QED BY <1>2, <2>1, <2>2
<1>4. PICK p, gone : At(Cur(f, n, i), b, p, gone) /\ Fits(seen[c], p, gone) BY <1>1, <1>3 DEF Placed
<1>5. \A g, m, j : Cur(f, n, i) = Cur(g, m, j) => f = g /\ n = m /\ i = j /\ "DELETED" \notin g
  BY <1>2, CurSame
<1>6. PICK g, m, j : Inside(Cur(f, n, i), b, g, m, j) /\ p = b[m] + j /\ gone = g
  <2>1. \A h : "DELETED" \in {"DELETED", h} OBVIOUS
  <2>2. QED BY <1>4, <1>5, <2>1 DEF At
<1>7. f = {} /\ g = {} /\ m = n /\ j = i
  <2>1. Cur(f, n, i) = Cur(g, m, j) /\ g \in {{}, {"DELETED"}} BY <1>6 DEF Inside
  <2>2. QED BY <1>5, <2>1
<1>8. seen[c] = AtValue(p + 1) /\ p \in Nat BY <1>4, <1>6, <1>7 DEF Fits
<1>9. QED BY <1>1, <1>6, <1>7, <1>8

-----------------------------------------------------------------------------
(* The operations of the list keep the invariant.                          *)

LEMMA InsertsInv ==
  ASSUME NEW s, NEW r, Inserts(s, r), Reaches(s, [x \in Cursors |-> SeenAfterInsert(Known(x), r)])
  PROVE  Inv'
<1>1. Becomes(s) /\ seen' = [x \in Cursors |-> SeenAfterInsert(Known(x), r)] BY DEF Inserts
<1>2. Reaches(s, seen') /\ DOMAIN seen' = Cursors BY <1>1
<1>3. QED BY ONLY <1>1, <1>2, ReachesInv

LEMMA ErasesInv ==
  ASSUME NEW s, NEW e, Erases(s, e), Reaches(s, [x \in Cursors |-> SeenAfterErase(Known(x), e)])
  PROVE  Inv'
<1>1. Becomes(s) /\ seen' = [x \in Cursors |-> SeenAfterErase(Known(x), e)] BY DEF Erases
<1>2. Reaches(s, seen') /\ DOMAIN seen' = Cursors BY <1>1
<1>3. QED BY ONLY <1>1, <1>2, ReachesInv

LEMMA InsertInv ==
  ASSUME NodeCapacity >= 2, NEW b, Shows(b), NEW k \in 1 .. Count(b), NEW i \in 0 .. b[k + 1] - b[k],
         NEW r, r = b[k] + i, Inserts(InsertAtIndex(State, k, i, r), r)
  PROVE  Inv'
<1>1. Gaps(b) /\ State = Pair(Shape(b), cursors) /\ DOMAIN cursors = Cursors BY ShownParts
<1>2. PICK ss : ss = Knows OBVIOUS
<1>3. Good(cursors, ss, b) BY <1>2, KnownGood
<1>4. Reaches(InsertAtIndex(Pair(Shape(b), cursors), k, i, r), [x \in Cursors |-> SeenAfterInsert(ss[x], r)])
  BY ONLY <1>1, <1>3, NodeCapacity >= 2, k \in 1 .. Count(b), i \in 0 .. b[k + 1] - b[k], r = b[k] + i, Inserted
<1>5. \A x \in Cursors : ss[x] = Known(x) BY <1>2 DEF Knows
<1>6. [x \in Cursors |-> SeenAfterInsert(ss[x], r)] = [x \in Cursors |-> SeenAfterInsert(Known(x), r)] BY <1>5
<1>7. QED BY <1>1, <1>4, <1>6, InsertsInv

LEMMA EraseInv ==
  ASSUME NodeCapacity >= 2, NEW b, Shows(b), NEW k \in 1 .. Count(b), NEW i \in 0 .. b[k + 1] - b[k] - 1,
         NEW e, e = b[k] + i + 1, Erases(EraseAtIndex(State, k, i, e), e)
  PROVE  Inv'
<1>1. /\ Gaps(b) /\ MarkSeq(b) /\ State = Pair(Shape(b), cursors)
      /\ DOMAIN cursors = Cursors /\ Good(cursors, Knows, b)
  BY ShownParts, KnownGood
<1> DEFINE ss == [x \in Cursors |-> SeenAfterErase(Known(x), e)]
<1>2. ASSUME NEW x \in Cursors PROVE CursorOk(ErasedCur(cursors[x], k, i), ss[x], CloseMarks(b, k))
  <2>1. CursorOk(cursors[x], Known(x), b) BY <1>1 DEF Good, Knows
  <2>2. CursorOk(ErasedCur(cursors[x], k, i), SeenAfterErase(Known(x), e), CloseMarks(b, k))
    BY <1>1, <2>1, EraseOk
  <2>3. QED BY <2>2
<1>3. Reaches(EraseAtIndex(Pair(Shape(b), cursors), k, i, e), ss)
  <2> HIDE DEF ss
  <2> QED BY ONLY <1>1, <1>2, NodeCapacity >= 2, k \in 1 .. Count(b), i \in 0 .. b[k + 1] - b[k] - 1,
             e = b[k] + i + 1, ErasedReaches
<1>4. QED BY <1>1, <1>3, ErasesInv

\* insert_first
LEMMA FirstShape ==
  /\ NodeCapacity >= 2 => (Gaps(<<0, 1>>) /\ Gaps(<<0>>))
  /\ Shape(<<0>>) = EmptyList
  /\ Count(<<0>>) = 0 /\ Count(<<0, 1>>) = 1
<1>1. Count(<<0>>) = 0 /\ Count(<<0, 1>>) = 1 BY DEF Count
<1>2. MarkSeq(<<0>>) /\ MarkSeq(<<0, 1>>) BY DEF MarkSeq
<1>3. NodeCapacity >= 2 => (Gaps(<<0, 1>>) /\ Gaps(<<0>>))
  <2>1. NodeCapacity \in Nat BY ListAssumption
  <2>2. QED BY <1>1, <1>2, <2>1 DEF Gaps
<1>4. Shape(<<0>>) = EmptyList
  <2>1. Shape(<<0>>) = Straight(0, 0, Pieces(<<0>>)) BY <1>1 DEF Shape
  <2>2. Nth(Upto(0), 1) = 0 /\ Nth(Upto(0), 0) = 0 BY NthUpto
  <2>3. Straight(0, 0, Pieces(<<0>>)) = Record(0, 0, 0, 0, [i \in 1 .. 0 |-> NodeOf(Upto(0), Pieces(<<0>>), i)])
    BY <2>2 DEF Straight
  <2>4. [i \in 1 .. 0 |-> NodeOf(Upto(0), Pieces(<<0>>), i)] = << >> OBVIOUS
  <2>5. QED BY <2>1, <2>3, <2>4 DEF EmptyList, Record, NoNode
<1>5. QED BY <1>1, <1>3, <1>4

FirstList == [first |-> 1, last |-> 1, size |-> 1, count |-> 1,
              nodes |-> [n \in {1} |-> [prev |-> NoNode, next |-> NoNode, vals |-> <<1>>]]]

LEMMA FirstShaped == Shaped(FirstList, <<0, 1>>)
<1> DEFINE o == Upto(1)
           c == <<0, 1>>
           V == Pieces(c)
<1>1. Len(o) = 1 /\ Chain(o) /\ o[1] = 1 BY NthUpto
<1>2. \A i \in Int : Nth(o, i) = IF i \in 1 .. 1 THEN i ELSE 0 BY NthUpto
<1>3. Count(c) = 1 /\ c[Len(c)] = 1 BY DEF Count
<1>4. V[1] = <<1>>
  <2>1. V[1] = Piece(0, 1) BY <1>3 DEF Pieces
  <2>2. QED BY <2>1 DEF Piece
<1>5. Nth(o, 0) = 0 /\ Nth(o, 1) = 1 /\ Nth(o, 2) = 0 BY <1>2
<1> HIDE DEF V, o, c
<1>6. NodeOf(o, V, 1) = [prev |-> NoNode, next |-> NoNode, vals |-> <<1>>] BY <1>4, <1>5 DEF NodeOf, NoNode
<1>7. FirstList = Record(1, 1, 1, 1, FirstList.nodes) BY DEF FirstList, Record
<1>8. DOMAIN FirstList.nodes = {1} /\ FirstList.nodes[1] = NodeOf(o, V, 1) BY <1>6 DEF FirstList
<1>9. { o[i] : i \in 1 .. Len(o) } = {1} BY <1>1
<1>10. Linked(FirstList, o, 1, V) BY <1>1, <1>5, <1>7, <1>8, <1>9 DEF Linked
<1>11. QED BY <1>3, <1>10 DEF Shaped, o, V, c

LEMMA FirstInv ==
  ASSUME NodeCapacity >= 2, NEW b, Shows(b), list.size = 0, Inserts(InsertFirst(State), 0)
  PROVE  Inv'
<1>1. /\ Gaps(b) /\ State = Pair(Shape(b), cursors) /\ Count(b) \in Nat /\ list = Shape(b)
      /\ list.size = b[Len(b)] /\ list.count = Count(b) /\ Len(b) = Count(b) + 1
      /\ DOMAIN cursors = Cursors /\ Good(cursors, Knows, b)
  BY ShownParts, KnownGood
<1>2. Count(b) = 0 /\ b[Len(b)] = 0 BY <1>1, EmptyIff
<1>3. InsertFirst(State) = Pair(FirstList, cursors)
  <2>1. State.list.count = 0 BY <1>1, <1>2 DEF State
  <2>2. QED BY <2>1 DEF InsertFirst, State, Pair, FirstList
<1> DEFINE c == <<0, 1>>
           ss == [x \in Cursors |-> SeenAfterInsert(Known(x), 0)]
<1>4. Gaps(c) /\ Shaped(FirstList, c) BY FirstShape, FirstShaped
<1>5. c[Len(c)] = 1 OBVIOUS
<1> HIDE DEF c
<1>6. ASSUME NEW x \in Cursors PROVE CursorOk(cursors[x], SeenAfterInsert(Known(x), 0), c)
  <2>1. CursorOk(cursors[x], Known(x), b) BY <1>1 DEF Good, Knows
  <2>2. CASE Idle(cursors[x], Known(x))
    <3>1. Idle(cursors[x], SeenAfterInsert(Known(x), 0)) BY <2>2, IdleKept
    <3>2. QED BY <3>1, IdleOk
  <2>3. ASSUME NEW p, NEW gone, At(cursors[x], b, p, gone), Fits(Known(x), p, gone)
        PROVE  CursorOk(cursors[x], SeenAfterInsert(Known(x), 0), c)
    <3>1. ~\E f, n, i : Inside(cursors[x], b, f, n, i) BY <1>2 DEF Inside
    <3>2. p = 0 /\ gone = {"DELETED"} BY <1>2, <2>3, <3>1 DEF At
    <3>3. CASE cursors[x] = Cur({"DELETED", "SEEK_FIRST_NEXT"}, 0, 0)
      <4>1. PICK q, r : q = 0 /\ r = 0 OBVIOUS
      <4>2. /\ r \in Nat /\ q \in {p, p + 1} /\ (q = p => (p < r \/ (p = r /\ gone = {"DELETED"})))
            /\ (q = p + 1 => p >= r)
        BY <3>2, <4>1
      <4>3. Fits(SeenAfterInsert(Known(x), r), q, gone) BY ONLY <2>3, <4>2, FitsInsert
      <4>4. At(cursors[x], c, q, gone) BY <3>2, <3>3, <4>1 DEF At
      <4>5. QED BY ONLY <4>1, <4>3, <4>4, AtOk
    <3>4. CASE cursors[x] = Cur({"DELETED", "SEEK_LAST_NEXT"}, 0, 0)
      <4>1. PICK q, r : q = 1 /\ r = 0 OBVIOUS
      <4>2. /\ r \in Nat /\ q \in {p, p + 1} /\ (q = p => (p < r \/ (p = r /\ gone = {"DELETED"})))
            /\ (q = p + 1 => p >= r)
        BY <3>2, <4>1
      <4>3. Fits(SeenAfterInsert(Known(x), r), q, gone) BY ONLY <2>3, <4>2, FitsInsert
      <4>4. At(cursors[x], c, q, gone) BY <1>5, <3>2, <3>4, <4>1 DEF At
      <4>5. QED BY ONLY <4>1, <4>3, <4>4, AtOk
    <3>5. QED BY <2>3, <3>1, <3>3, <3>4 DEF At
  <2>4. QED BY <2>1, <2>2, <2>3 DEF CursorOk, Placed
<1>7. Good(cursors, ss, c) BY <1>6 DEF Good
<1> HIDE DEF ss
<1>8. Reaches(Pair(FirstList, cursors), ss) BY ONLY <1>1, <1>4, <1>7, KeepReaches
<1>9. QED BY <1>3, <1>8, InsertsInv DEF ss

\* push_back and push_front
LEMMA PushInv ==
  ASSUME NodeCapacity >= 2, NEW b, Shows(b), PushBack \/ PushFront
  PROVE  Inv'
<1>1. /\ Gaps(b) /\ Count(b) \in Nat /\ list.size = b[Len(b)] /\ list.last = Count(b) /\ Len(b) = Count(b) + 1
      /\ list.first = IF Count(b) = 0 THEN 0 ELSE 1
  BY ShownParts
<1>2. CASE list.size = 0
  <2>1. Inserts(InsertFirst(State), 0) BY <1>2 DEF PushBack, PushFront
  <2>2. QED BY <1>2, <2>1, FirstInv
<1>3. CASE list.size # 0
  <2>1. b[1] = 0 /\ Count(b) # 0 /\ 1 \in 1 .. Count(b) /\ Count(b) \in 1 .. Count(b) BY <1>1, <1>3, EmptyIff
  <2>2. PICK k : k = Count(b) OBVIOUS
  <2>3. k \in 1 .. Count(b) /\ b[k] \in Nat /\ b[k + 1] \in Nat /\ b[k] < b[k + 1] /\ Size(list, k) = b[k + 1] - b[k]
    BY <2>1, <2>2, ShownNode
  <2>4. CASE PushBack
    <3>1. PICK i, r : i = b[k + 1] - b[k] /\ r = b[k + 1] OBVIOUS
    <3>2. i \in 0 .. b[k + 1] - b[k] /\ r = b[k] + i BY ONLY <2>3, <3>1
    <3>3. Inserts(InsertAtIndex(State, k, i, r), r) BY <1>1, <1>3, <2>2, <2>3, <2>4, <3>1 DEF PushBack
    <3>4. QED BY <2>3, <3>2, <3>3, InsertInv
  <2>5. CASE PushFront
    <3>1. PICK j, i, r : j = 1 /\ i = 0 /\ r = 0 OBVIOUS
    <3>2. j \in 1 .. Count(b) /\ b[j] \in Nat /\ b[j + 1] \in Nat /\ b[j] < b[j + 1] BY <2>1, <3>1, ShownNode
    <3>3. i \in 0 .. b[j + 1] - b[j] /\ r = b[j] + i BY ONLY <2>1, <3>1, <3>2
    <3>4. Inserts(InsertAtIndex(State, j, i, r), r) BY <1>1, <1>3, <2>1, <2>5, <3>1 DEF PushFront
    <3>5. QED BY <3>2, <3>3, <3>4, InsertInv
  <2>6. QED BY <2>4, <2>5
<1>4. QED BY <1>2, <1>3

\* pop_back and pop_front
LEMMA PopInv ==
  ASSUME NodeCapacity >= 2, NEW b, Shows(b), PopBack \/ PopFront
  PROVE  Inv'
<1>1. /\ Gaps(b) /\ Count(b) \in Nat /\ list.size = b[Len(b)] /\ list.last = Count(b) /\ Len(b) = Count(b) + 1
      /\ list.first = IF Count(b) = 0 THEN 0 ELSE 1
  BY ShownParts
<1>2. b[1] = 0 /\ Count(b) # 0 /\ 1 \in 1 .. Count(b) /\ Count(b) \in 1 .. Count(b)
  <2>1. list.size # 0 BY DEF PopBack, PopFront
  <2>2. QED BY <1>1, <2>1, EmptyIff
<1>3. PICK k : k = Count(b) OBVIOUS
<1>4. k \in 1 .. Count(b) /\ b[k] \in Nat /\ b[k + 1] \in Nat /\ b[k] < b[k + 1] /\ Size(list, k) = b[k + 1] - b[k]
  BY <1>2, <1>3, ShownNode
<1>5. CASE PopBack
  <2>1. PICK i, e : i = b[k + 1] - b[k] - 1 /\ e = b[k + 1] OBVIOUS
  <2>2. i \in 0 .. b[k + 1] - b[k] - 1 /\ e = b[k] + i + 1 BY ONLY <1>4, <2>1
  <2>3. Erases(EraseAtIndex(State, k, i, e), e) BY <1>1, <1>3, <1>4, <1>5, <2>1 DEF PopBack
  <2>4. QED BY <1>4, <2>2, <2>3, EraseInv
<1>6. CASE PopFront
  <2>1. PICK j, i, e : j = 1 /\ i = 0 /\ e = 1 OBVIOUS
  <2>2. j \in 1 .. Count(b) /\ b[j] \in Nat /\ b[j + 1] \in Nat /\ b[j] < b[j + 1] BY <1>2, <2>1, ShownNode
  <2>3. i \in 0 .. b[j + 1] - b[j] - 1 /\ e = b[j] + i + 1 BY ONLY <1>2, <2>1, <2>2
  <2>4. Erases(EraseAtIndex(State, j, i, e), e) BY <1>1, <1>2, <1>6, <2>1 DEF PopFront
  <2>5. QED BY <2>2, <2>3, <2>4, EraseInv
<1>7. QED BY <1>5, <1>6

\* insert_before and insert_after
LEMMA CursorInsertInv ==
  ASSUME NodeCapacity >= 2, NEW b, Shows(b), NEW c \in Cursors, InsertBefore(c) \/ InsertAfter(c)
  PROVE  Inv'
<1>1. Usable(c) /\ OnValue(c) BY DEF InsertBefore, InsertAfter
<1>2. PICK n, i : /\ cursors[c] \in {Cur({}, n, i), Free({}, n, i)} /\ Inside(Cur({}, n, i), b, {}, n, i)
                  /\ seen[c] = AtValue((b[n] + i) + 1) /\ b[n] + i \in Nat
  BY <1>1, OnValueIs
<1>3. n \in 1 .. Count(b) /\ i \in Nat /\ b[n] + i < b[n + 1] BY <1>2 DEF Inside
<1>4. cursors[c].node = n /\ cursors[c].index = i BY <1>2, CurParts, FreeParts
<1>5. b[n] \in Nat /\ b[n + 1] \in Nat BY <1>3, ShownNode
<1>6. seen[c].at = (b[n] + i) + 1 BY <1>2, AtValueParts
<1>7. CASE InsertBefore(c)
  <2>1. PICK r : r = b[n] + i OBVIOUS
  <2>2. seen[c].at - 1 = r BY ONLY <1>2, <1>6, <2>1
  <2>3. Inserts(InsertAtIndex(State, n, i, r), r) BY <1>4, <1>7, <2>2 DEF InsertBefore
  <2>4. i \in 0 .. b[n + 1] - b[n] BY ONLY <1>3, <1>5
  <2>5. QED BY <1>3, <2>1, <2>3, <2>4, InsertInv
<1>8. CASE InsertAfter(c)
  <2>1. PICK r, j : r = (b[n] + i) + 1 /\ j = i + 1 OBVIOUS
  <2>2. Inserts(InsertAtIndex(State, n, j, r), r) BY <1>4, <1>6, <1>8, <2>1 DEF InsertAfter
  <2>3. j \in 0 .. b[n + 1] - b[n] /\ r = b[n] + j BY ONLY <1>3, <1>5, <2>1
  <2>4. QED BY <1>3, <2>2, <2>3, InsertInv
<1>9. QED BY <1>7, <1>8

\* erase: the cursor is marked before the list looks for the cursors of the value.
LEMMA CursorEraseInv ==
  ASSUME NodeCapacity >= 2, NEW b, Shows(b), NEW c \in Cursors, EraseCursor(c)
  PROVE  Inv'
<1>1. Usable(c) /\ OnValue(c) BY DEF EraseCursor
<1>2. PICK n, i : /\ cursors[c] \in {Cur({}, n, i), Free({}, n, i)} /\ Inside(Cur({}, n, i), b, {}, n, i)
                  /\ seen[c] = AtValue((b[n] + i) + 1) /\ b[n] + i \in Nat
  BY <1>1, OnValueIs
<1>3. n \in 1 .. Count(b) /\ i \in Nat /\ b[n] + i < b[n + 1] BY <1>2 DEF Inside
<1>4. cursors[c].node = n /\ cursors[c].index = i /\ cursors[c].flags = {} BY <1>2, CurParts, FreeParts
<1>5. b[n] \in Nat /\ b[n + 1] \in Nat BY <1>3, ShownNode
<1>6. PICK e : e = (b[n] + i) + 1 OBVIOUS
<1>7. seen[c].at = e BY <1>2, <1>6, AtValueParts
<1>8. i \in 0 .. b[n + 1] - b[n] - 1 /\ e = b[n] + i + 1 BY ONLY <1>3, <1>5, <1>6
<1>9. /\ Gaps(b) /\ MarkSeq(b) /\ State = Pair(Shape(b), cursors)
      /\ DOMAIN cursors = Cursors /\ Good(cursors, Knows, b)
  BY ShownParts, KnownGood
<1>10. PICK lost : lost = SetFlags(cursors[c], {"DELETED"}) OBVIOUS
<1> DEFINE ms == [cursors EXCEPT ![c] = lost]
           ss == [x \in Cursors |-> SeenAfterErase(Known(x), e)]
<1>11. [State EXCEPT !.cursors[c].flags = @ \cup {"DELETED"}] = Pair(Shape(b), ms)
  <2>1. [cursors[c] EXCEPT !.flags = {"DELETED"}] = lost BY <1>10 DEF SetFlags
  <2>2. {} \cup {"DELETED"} = {"DELETED"} OBVIOUS
  <2>3. [cursors EXCEPT ![c].flags = @ \cup {"DELETED"}] = ms BY <1>4, <1>9, <2>1, <2>2
  <2> HIDE DEF ms
  <2>4. [Pair(Shape(b), cursors) EXCEPT !.cursors[c].flags = @ \cup {"DELETED"}]
          = Pair(Shape(b), [cursors EXCEPT ![c].flags = @ \cup {"DELETED"}])
    BY DEF Pair
  <2>5. QED BY ONLY <1>9, <2>3, <2>4
<1>12. \A x \in Cursors : CursorOk(ErasedCur(cursors[x], n, i), SeenAfterErase(Known(x), e), CloseMarks(b, n))
  <2>1. TAKE x \in Cursors
  <2>2. CursorOk(cursors[x], Known(x), b) BY <1>9 DEF Good, Knows
  <2>3. QED BY ONLY <1>3, <1>8, <1>9, <2>2, EraseOk
<1>13. CursorOk(ErasedCur(lost, n, i), SeenAfterErase(Known(c), e), CloseMarks(b, n))
  <2>1. CASE cursors[c] = Cur({}, n, i)
    <3>1. lost = Cur({"DELETED"}, n, i) BY <1>10, <2>1, CurSet
    <3>2. lost.linked /\ lost.flags = {"DELETED"} /\ lost.node = n /\ lost.index = i /\ ~Invalid(lost)
      BY <3>1, CurParts
    <3>3. Touched(lost, n) BY <3>2 DEF Touched
    <3>4. ErasedCur(lost, n, i) = [lost EXCEPT !.flags = @ \cup {"DELETED"}] BY <1>3, <3>2, <3>3 DEF ErasedCur
    <3>5. [lost EXCEPT !.flags = @ \cup {"DELETED"}] = SetFlags(lost, {"DELETED"}) BY <3>2 DEF SetFlags
    <3>6. SetFlags(lost, {"DELETED"}) = lost BY <3>1, CurSet
    <3>7. cursors[c].linked /\ ~Invalid(cursors[c]) BY <2>1, CurParts
    <3>8. Touched(cursors[c], n) BY <1>4, <3>7 DEF Touched
    <3>9. ErasedCur(cursors[c], n, i) = [cursors[c] EXCEPT !.flags = @ \cup {"DELETED"}]
      BY <1>3, <1>4, <3>8 DEF ErasedCur
    <3>10. [cursors[c] EXCEPT !.flags = @ \cup {"DELETED"}] = SetFlags(cursors[c], {"DELETED"}) BY <1>4 DEF SetFlags
    <3>11. ErasedCur(lost, n, i) = ErasedCur(cursors[c], n, i)
      BY ONLY <1>10, <3>4, <3>5, <3>6, <3>9, <3>10
    <3>12. QED BY <1>12, <3>11
  <2>2. CASE cursors[c] = Free({}, n, i)
    <3>1. lost = Free({"DELETED"}, n, i) BY <1>10, <2>2, FreeSet
    <3>2. ErasedCur(lost, n, i) = lost
      <4>1. ~lost.linked BY <3>1, FreeParts
      <4>2. QED BY <4>1 DEF ErasedCur, Touched
    <3>3. Told(SeenAfterErase(Known(c), e))
      <4>1. CursorOk(cursors[c], Known(c), b) BY <1>9 DEF Good, Knows
      <4>2. Lost(cursors[c], Known(c)) BY <2>2, <4>1, CellIs, FreeParts
      <4>3. e \in Nat /\ e # 0 BY ONLY <1>2, <1>6
      <4>4. QED BY <4>2, <4>3, ToldKept DEF Lost
    <3>4. Form({"DELETED"}, n, i) BY <1>3 DEF Form
    <3>5. QED BY <3>1, <3>2, <3>3, <3>4 DEF Lost, Idle, CursorOk
  <2>3. QED BY <1>2, <2>1, <2>2
<1>14. DOMAIN ms = Cursors BY <1>9
<1>15. ASSUME NEW x \in Cursors PROVE CursorOk(ErasedCur(ms[x], n, i), ss[x], CloseMarks(b, n))
  <2>1. CASE x = c
    <3>1. ms[x] = lost /\ ss[x] = SeenAfterErase(Known(c), e) BY <1>9, <2>1
    <3>2. QED BY <1>13, <3>1
  <2>2. CASE x # c
    <3>1. ms[x] = cursors[x] /\ ss[x] = SeenAfterErase(Known(x), e) BY <1>9, <2>2
    <3>2. QED BY <1>12, <3>1
  <2>3. QED BY <2>1, <2>2
<1>16. Reaches(EraseAtIndex(Pair(Shape(b), ms), n, i, e), ss)
  <2> HIDE DEF ms, ss
  <2> QED BY ONLY <1>3, <1>8, <1>9, <1>14, <1>15, NodeCapacity >= 2, ErasedReaches
<1>17. Erases(EraseAtIndex(Pair(Shape(b), ms), n, i, e), e)
  <2> HIDE DEF ms
  <2> QED BY <1>4, <1>7, <1>11 DEF EraseCursor
<1>18. QED
  <2> HIDE DEF ms
  <2> QED BY <1>16, <1>17, ErasesInv

-----------------------------------------------------------------------------
(* Moves of a cursor.                                                      *)

\* A step that sets one cursor and its history.
LEMMA OneCursor ==
  ASSUME NEW b, Shows(b), NEW c \in Cursors, NEW new, NEW s, CursorOk(new, s, b),
         cursors' = [cursors EXCEPT ![c] = new], seen' = [seen EXCEPT ![c] = s], list' = list
  PROVE  Inv'
<1>1. /\ Gaps(b) /\ list = Shape(b) /\ DOMAIN cursors = Cursors /\ DOMAIN seen = Cursors
      /\ \A x \in Cursors : CursorOk(cursors[x], seen[x], b)
  BY DEF Shows, Good
<1>2. ASSUME NEW x \in Cursors PROVE CursorOk(cursors'[x], seen'[x], b)
  <2>1. CASE x = c
    <3>1. cursors'[x] = new /\ seen'[x] = s BY <1>1, <2>1
    <3>2. QED BY <3>1
  <2>2. CASE x # c
    <3>1. cursors'[x] = cursors[x] /\ seen'[x] = seen[x] BY <1>1, <2>2
    <3>2. QED BY <1>1, <3>1
  <2>3. QED BY <2>1, <2>2
<1>3. DOMAIN cursors' = Cursors /\ DOMAIN seen' = Cursors BY <1>1
<1>4. Good(cursors', seen', b) BY <1>2 DEF Good
<1>5. Shows(b)' BY <1>1, <1>3, <1>4 DEF Shows
<1>6. QED BY <1>5 DEF Inv

\* The cursor is at the value q, or off the list when there is no such value.
Spot(cur, b, q) ==
  \/ q \in 1 .. b[Len(b)] /\ At(cur, b, q - 1, {})
  \/ q \notin 1 .. b[Len(b)] /\ \E f : "INVALID" \in f /\ cur = Cur(f, 0, 0)

LEMMA OffSpot ==
  ASSUME NEW b, NEW q, q \notin 1 .. b[Len(b)]
  PROVE  Spot(Cur({"INVALID"}, 0, 0), b, q)
BY DEF Spot

LEMMA Lands ==
  ASSUME NodeCapacity >= 2, NEW b, Shows(b), NEW new, NEW P, NEW q \in P, Spot(new, b, q), NEW s,
         s = SeenAfterMove(new, P)
  PROVE  Off(new, s) \/ Placed(new, s, b)
<1> DEFINE ok == { e \in P : e \in 1 .. list.size }
<1>1. list.size = b[Len(b)] BY ShownParts
<1>2. CASE q \in 1 .. b[Len(b)] /\ At(new, b, q - 1, {})
  <2>1. PICK n, i : Inside(new, b, {}, n, i) /\ q - 1 = b[n] + i
    <3>1. {} # {"DELETED"} OBVIOUS
    <3>2. QED BY <1>2, <3>1 DEF At
  <2>2. n \in 1 .. Count(b) /\ i \in Nat /\ b[n] + i < b[n + 1] /\ new = Cur({}, n, i) BY <2>1 DEF Inside
  <2>3. /\ b[n] \in Nat /\ b[n + 1] \in Nat /\ list.nodes[n].vals = Piece(b[n], b[n + 1])
        /\ Size(list, n) = b[n + 1] - b[n] /\ n \in DOMAIN list.nodes
    BY <2>2, ShownNode
  <2>4. new.node = n /\ new.index = i /\ ~Invalid(new) /\ ~Erased(new) BY <2>2, CurParts
  <2>5. i + 1 \in 1 .. b[n + 1] - b[n] /\ ~(i >= b[n + 1] - b[n]) /\ q = b[n] + (i + 1)
    <3>1. q \in Int BY <1>2
    <3>2. QED BY ONLY <2>1, <2>2, <2>3, <3>1
  <2>6. Piece(b[n], b[n + 1])[i + 1] = q BY ONLY <2>5 DEF Piece
  <2>7. Position(new) = q BY <2>3, <2>4, <2>5, <2>6 DEF Position
  <2>8. q \in ok BY <1>1, <1>2
  <2>9. SeenAfterMove(new, P) = AtValue(q) BY <2>7, <2>8 DEF SeenAfterMove
  <2>10. q - 1 \in Nat /\ (q - 1) + 1 = q BY <1>2
  <2>11. Fits(AtValue(q), q - 1, {}) BY <2>10 DEF Fits
  <2>12. QED BY <1>2, <2>9, <2>11 DEF Placed
<1>3. CASE q \notin 1 .. b[Len(b)] /\ \E f : "INVALID" \in f /\ new = Cur(f, 0, 0)
  <2>1. Invalid(new) BY <1>3, CurParts
  <2>2. Position(new) = 0 BY <2>1 DEF Position
  <2>3. 0 \notin ok /\ ok # P BY <1>1, <1>3
  <2>4. SeenAfterMove(new, P) = Nowhere BY <2>2, <2>3 DEF SeenAfterMove
  <2>5. QED BY <1>3, <2>4 DEF Off
<1>4. QED BY <1>2, <1>3 DEF Spot

LEMMA SpotInv ==
  ASSUME NodeCapacity >= 2, NEW b, Shows(b), NEW c \in Cursors, NEW f, NEW n, NEW i, NEW new,
         new \in {Cur(f, n, i), Free(f, n, i)}, NEW P, Moves(c, new, P), NEW q \in P, Spot(Cur(f, n, i), b, q)
  PROVE  Inv'
<1>1. PICK cur, s : cur = Cur(f, n, i) /\ s = SeenAfterMove(cur, P) OBVIOUS
<1>2. Off(cur, s) \/ Placed(cur, s, b) BY <1>1, Lands
<1>3. CursorOk(new, s, b)
  <2>1. CursorOk(Free(f, n, i), s, b) BY <1>1, <1>2, Untied
  <2>2. CursorOk(Cur(f, n, i), s, b) BY <1>1, <1>2 DEF CursorOk, Idle
  <2>3. QED BY <2>1, <2>2
<1>4. SeenAfterMove(new, P) = s
  <2>1. /\ new.flags = cur.flags /\ new.node = cur.node /\ new.index = cur.index
        /\ Invalid(new) <=> Invalid(cur)
        /\ Erased(new) <=> Erased(cur)
    BY <1>1, CurParts, FreeParts
  <2>2. Position(new) = Position(cur) BY <2>1 DEF Position
  <2>3. QED BY <1>1, <2>2 DEF SeenAfterMove
<1>5. cursors' = [cursors EXCEPT ![c] = new] /\ seen' = [seen EXCEPT ![c] = s] /\ list' = list
  BY <1>4 DEF Moves
<1>6. QED BY ONLY Shows(b), c \in Cursors, <1>3, <1>5, OneCursor

\* move_to_node, to the first or the last value.
LandFirst(cur, n) == MovedTo(cur, n, TRUE)
LandLast(cur, n) == MovedTo(cur, n, FALSE)

LEMMA LandIs ==
  ASSUME NEW cur, NEW n
  PROVE  /\ n = 0 => /\ LandFirst(cur, n) = SetIndex(SetNode(SetFlags(cur, cur.flags \cup {"INVALID"}), 0), 0)
                     /\ LandLast(cur, n) = SetIndex(SetNode(SetFlags(cur, cur.flags \cup {"INVALID"}), 0), 0)
         /\ n # 0 => /\ LandFirst(cur, n) = SetIndex(SetNode(SetFlags(cur, cur.flags \ {"INVALID"}), n), 0)
                     /\ LandLast(cur, n) = SetIndex(SetNode(SetFlags(cur, cur.flags \ {"INVALID"}), n), Size(list, n) - 1)
BY DEF LandFirst, LandLast, MovedTo, SetIndex, SetNode, SetFlags, NoNode

LEMMA LandCur ==
  ASSUME NEW m, NEW j, NEW n
  PROVE  /\ n = 0 => /\ LandFirst(Cur({}, m, j), n) = Cur({"INVALID"}, 0, 0)
                     /\ LandLast(Cur({}, m, j), n) = Cur({"INVALID"}, 0, 0)
         /\ n # 0 => /\ LandFirst(Cur({}, m, j), n) = Cur({}, n, 0)
                     /\ LandLast(Cur({}, m, j), n) = Cur({}, n, Size(list, n) - 1)
<1>1. PICK cur : cur = Cur({}, m, j) OBVIOUS
<1>2. cur.flags \cup {"INVALID"} = {"INVALID"} /\ cur.flags \ {"INVALID"} = {}
  <2>1. cur.flags = {} BY <1>1, CurParts
  <2>2. QED BY <2>1
<1>3. \A f, x : SetIndex(SetNode(SetFlags(cur, f), n), x) = Cur(f, n, x)
  <2>1. TAKE f, x
  <2>2. SetFlags(cur, f) = Cur(f, m, j) BY <1>1, CurSet
  <2>3. SetNode(Cur(f, m, j), n) = Cur(f, n, j) BY CurSet
  <2>4. SetIndex(Cur(f, n, j), x) = Cur(f, n, x) BY CurSet
  <2>5. QED BY <2>2, <2>3, <2>4
<1>4. CASE n = 0
  <2>1. /\ LandFirst(cur, n) = SetIndex(SetNode(SetFlags(cur, {"INVALID"}), n), 0)
        /\ LandLast(cur, n) = SetIndex(SetNode(SetFlags(cur, {"INVALID"}), n), 0)
    BY <1>2, <1>4, LandIs
  <2>2. QED BY <1>1, <1>3, <1>4, <2>1
<1>5. CASE n # 0
  <2>1. /\ LandFirst(cur, n) = SetIndex(SetNode(SetFlags(cur, {}), n), 0)
        /\ LandLast(cur, n) = SetIndex(SetNode(SetFlags(cur, {}), n), Size(list, n) - 1)
    BY <1>2, <1>5, LandIs
  <2>2. QED BY <1>1, <1>3, <1>5, <2>1
<1>6. QED BY <1>4, <1>5

\* The first and the last value of a node.
LEMMA EndsOfNode ==
  ASSUME NodeCapacity >= 2, NEW b, Shows(b), NEW n \in 1 .. Count(b)
  PROVE  /\ Spot(Cur({}, n, 0), b, b[n] + 1)
         /\ Spot(Cur({}, n, Size(list, n) - 1), b, b[n + 1])
         /\ \A i \in Nat : b[n] + i < b[n + 1] => Spot(Cur({}, n, i), b, (b[n] + i) + 1)
<1>1. b[n] \in Nat /\ b[n + 1] \in Nat /\ b[n] < b[n + 1] /\ Size(list, n) = b[n + 1] - b[n] BY ShownNode
<1>2. b[n + 1] <= b[Len(b)] /\ b[Len(b)] \in Nat
  <2>1. Gaps(b) BY ShownParts
  <2>2. QED BY <2>1, EmptyIff
<1>3. ASSUME NEW i \in Nat, b[n] + i < b[n + 1] PROVE Spot(Cur({}, n, i), b, (b[n] + i) + 1)
  <2>1. PICK q : q = (b[n] + i) + 1 OBVIOUS
  <2>2. q \in 1 .. b[Len(b)] /\ q - 1 = b[n] + i /\ b[n] + i <= b[n + 1]
    <3>1. PICK x, y, z : x = b[n] /\ y = b[n + 1] /\ z = b[Len(b)] OBVIOUS
    <3>2. x \in Nat /\ y \in Nat /\ z \in Nat /\ y <= z /\ x + i < y /\ q = (x + i) + 1 BY <1>1, <1>2, <1>3, <2>1, <3>1
    <3>3. q \in 1 .. z /\ q - 1 = x + i /\ x + i <= y BY ONLY <3>2, i \in Nat
    <3>4. QED BY <3>1, <3>3
  <2>3. Inside(Cur({}, n, i), b, {}, n, i) BY <1>3, <2>2 DEF Inside
  <2>4. At(Cur({}, n, i), b, q - 1, {}) BY <2>2, <2>3 DEF At
  <2>5. QED BY <2>1, <2>2, <2>4 DEF Spot
<1>4. Spot(Cur({}, n, 0), b, b[n] + 1)
  <2>1. 0 \in Nat /\ b[n] + 0 < b[n + 1] /\ (b[n] + 0) + 1 = b[n] + 1 BY <1>1
  <2>2. QED BY <1>3, <2>1
<1>5. Spot(Cur({}, n, Size(list, n) - 1), b, b[n + 1])
  <2>1. PICK i : i = Size(list, n) - 1 OBVIOUS
  <2>2. i \in Nat /\ b[n] + i < b[n + 1] /\ (b[n] + i) + 1 = b[n + 1] BY <1>1, <2>1
  <2>3. QED BY <1>3, <2>1, <2>2
<1>6. QED BY <1>3, <1>4, <1>5

\* move_to_first and move_to_last
LEMMA EndSpots ==
  ASSUME NodeCapacity >= 2, NEW b, Shows(b), NEW f, NEW m, NEW j, NEW cur, cur = Cur(f, m, j)
  PROVE  Spot(MovedFirst(cur), b, 1) /\ Spot(MovedLast(cur), b, list.size)
<1>1. MovedFirst(cur) = LandFirst(SetFlags(cur, {}), list.first) BY DEF MovedFirst, LandFirst, SetFlags
<1>2. MovedLast(cur) = LandLast(SetFlags(cur, {}), list.last) BY DEF MovedLast, LandLast, SetFlags
<1>3. SetFlags(cur, {}) = Cur({}, m, j) BY CurSet
<1>4. /\ Gaps(b) /\ Count(b) \in Nat /\ Len(b) = Count(b) + 1 /\ list.size = b[Len(b)]
      /\ list.first = (IF Count(b) = 0 THEN 0 ELSE 1) /\ list.last = Count(b)
  BY ShownParts
<1>5. CASE Count(b) = 0
  <2>1. b[Len(b)] = 0 BY <1>4, <1>5, EmptyIff
  <2>2. MovedFirst(cur) = Cur({"INVALID"}, 0, 0) /\ MovedLast(cur) = Cur({"INVALID"}, 0, 0)
    <3>1. list.first = 0 /\ list.last = 0 BY <1>4, <1>5
    <3>2. QED BY <1>1, <1>2, <1>3, <3>1, LandCur
  <2>3. 1 \notin 1 .. b[Len(b)] /\ list.size \notin 1 .. b[Len(b)] BY <1>4, <2>1
  <2>4. QED BY <2>2, <2>3, OffSpot
<1>6. CASE Count(b) # 0
  <2>1. b[1] = 0 /\ 1 \in 1 .. Count(b) /\ Count(b) \in 1 .. Count(b) BY <1>4, <1>6, EmptyIff
  <2>2. MovedFirst(cur) = Cur({}, 1, 0)
    <3>1. list.first = 1 BY <1>4, <1>6
    <3>2. QED BY <1>1, <1>3, <3>1, LandCur
  <2>3. MovedLast(cur) = Cur({}, Count(b), Size(list, Count(b)) - 1) BY <1>2, <1>3, <1>4, <1>6, LandCur
  <2>4. Spot(Cur({}, 1, 0), b, 1)
    <3>1. Spot(Cur({}, 1, 0), b, b[1] + 1) BY <2>1, EndsOfNode
    <3>2. b[1] + 1 = 1 BY <2>1
    <3>3. QED BY <3>1, <3>2
  <2>5. Spot(Cur({}, Count(b), Size(list, Count(b)) - 1), b, b[Count(b) + 1]) BY <2>1, EndsOfNode
  <2>6. QED BY <1>4, <2>2, <2>3, <2>4, <2>5
<1>7. QED BY <1>5, <1>6

\* Where move_next and move_prev lead, from a cursor in a node and from one whose node is gone.
LEMMA NextIs ==
  ASSUME NEW cur, NEW flags, flags = cur.flags \ {"DELETED"}, NEW index,
         index = IF Erased(cur) THEN cur.index ELSE cur.index + 1
  PROVE  MovedNext(cur)
           = IF Erased(cur) /\ Invalid(cur) THEN SetFlags(cur, flags)
             ELSE IF Erased(cur) /\ "SEEK_FIRST_NEXT" \in flags THEN MovedFirst(cur)
             ELSE IF Erased(cur) /\ "SEEK_LAST_NEXT" \in flags THEN SetFlags(cur, {"INVALID"})
             ELSE IF index = Size(list, cur.node) THEN LandFirst(SetFlags(cur, flags), list.nodes[cur.node].next)
             ELSE SetIndex(SetFlags(cur, flags), index)
BY DEF MovedNext, LandFirst, SetFlags, SetIndex

LEMMA PrevIs ==
  ASSUME NEW cur, NEW flags, flags = cur.flags \ {"DELETED"}
  PROVE  MovedPrev(cur)
           = IF Erased(cur) /\ Invalid(cur) THEN SetFlags(cur, flags)
             ELSE IF Erased(cur) /\ "SEEK_LAST_NEXT" \in flags THEN MovedLast(cur)
             ELSE IF Erased(cur) /\ "SEEK_FIRST_NEXT" \in flags THEN SetFlags(cur, {"INVALID"})
             ELSE IF cur.index = 0 THEN LandLast(SetFlags(cur, flags), list.nodes[cur.node].prev)
             ELSE SetIndex(SetFlags(cur, flags), cur.index - 1)
BY DEF MovedPrev, LandLast, SetFlags, SetIndex

\* A move does the same to a cursor that the list knows and to one that it does not.
Same(x, y) == \E f, n, i : x = Cur(f, n, i) /\ y = Free(f, n, i)

LEMMA SameSet ==
  ASSUME NEW x, NEW y, Same(x, y), NEW v
  PROVE  /\ Same(SetFlags(x, v), SetFlags(y, v)) /\ Same(SetNode(x, v), SetNode(y, v))
         /\ Same(SetIndex(x, v), SetIndex(y, v))
         /\ x.flags = y.flags /\ x.node = y.node /\ x.index = y.index
         /\ Invalid(x) <=> Invalid(y)
         /\ Erased(x) <=> Erased(y)
<1>1. PICK f, n, i : x = Cur(f, n, i) /\ y = Free(f, n, i) BY DEF Same
<1>2. Same(SetFlags(x, v), SetFlags(y, v)) BY <1>1, CurSet, FreeSet DEF Same
<1>3. Same(SetNode(x, v), SetNode(y, v)) BY <1>1, CurSet, FreeSet DEF Same
<1>4. Same(SetIndex(x, v), SetIndex(y, v)) BY <1>1, CurSet, FreeSet DEF Same
<1>5. /\ x.flags = y.flags /\ x.node = y.node /\ x.index = y.index
      /\ Invalid(x) <=> Invalid(y)
      /\ Erased(x) <=> Erased(y)
  BY <1>1, CurParts, FreeParts
<1>6. QED BY <1>2, <1>3, <1>4, <1>5

LEMMA SameLand ==
  ASSUME NEW x, NEW y, Same(x, y), NEW n
  PROVE  Same(LandFirst(x, n), LandFirst(y, n)) /\ Same(LandLast(x, n), LandLast(y, n))
<1>1. \A f, m, i : Same(SetIndex(SetNode(SetFlags(x, f), m), i), SetIndex(SetNode(SetFlags(y, f), m), i))
  <2>1. TAKE f, m, i
  <2>2. PICK u, v : u = SetFlags(x, f) /\ v = SetFlags(y, f) OBVIOUS
  <2>3. Same(u, v) BY <2>2, SameSet
  <2>4. PICK w, z : w = SetNode(u, m) /\ z = SetNode(v, m) OBVIOUS
  <2>5. Same(w, z) BY <2>3, <2>4, SameSet
  <2>6. Same(SetIndex(w, i), SetIndex(z, i)) BY <2>5, SameSet
  <2>7. QED BY <2>2, <2>4, <2>6
<1>2. x.flags = y.flags BY SameSet
<1>3. CASE n = 0
  <2>1. PICK f : f = x.flags \cup {"INVALID"} OBVIOUS
  <2>2. LandFirst(x, n) = SetIndex(SetNode(SetFlags(x, f), 0), 0) /\ LandLast(x, n) = LandFirst(x, n)
    BY <1>3, <2>1, LandIs
  <2>3. LandFirst(y, n) = SetIndex(SetNode(SetFlags(y, f), 0), 0) /\ LandLast(y, n) = LandFirst(y, n)
    BY <1>2, <1>3, <2>1, LandIs
  <2>4. Same(LandFirst(x, n), LandFirst(y, n)) BY ONLY <1>1, <2>2, <2>3
  <2>5. QED BY ONLY <2>2, <2>3, <2>4
<1>4. CASE n # 0
  <2>1. PICK f, i : f = x.flags \ {"INVALID"} /\ i = Size(list, n) - 1 OBVIOUS
  <2>2. LandFirst(x, n) = SetIndex(SetNode(SetFlags(x, f), n), 0) /\ LandLast(x, n) = SetIndex(SetNode(SetFlags(x, f), n), i)
    BY <1>4, <2>1, LandIs
  <2>3. LandFirst(y, n) = SetIndex(SetNode(SetFlags(y, f), n), 0) /\ LandLast(y, n) = SetIndex(SetNode(SetFlags(y, f), n), i)
    BY <1>2, <1>4, <2>1, LandIs
  <2>4. Same(LandFirst(x, n), LandFirst(y, n)) BY ONLY <1>1, <2>2, <2>3
  <2>5. Same(LandLast(x, n), LandLast(y, n)) BY ONLY <1>1, <2>2, <2>3
  <2>6. QED BY ONLY <2>4, <2>5
<1>5. QED BY <1>3, <1>4

LEMMA SameMoves ==
  ASSUME NEW x, NEW y, Same(x, y)
  PROVE  /\ Same(MovedFirst(x), MovedFirst(y)) /\ Same(MovedLast(x), MovedLast(y))
         /\ Same(MovedNext(x), MovedNext(y)) /\ Same(MovedPrev(x), MovedPrev(y))
<1>1. /\ x.flags = y.flags /\ x.node = y.node /\ x.index = y.index
      /\ Invalid(x) <=> Invalid(y)
      /\ Erased(x) <=> Erased(y)
  BY SameSet
<1>2. \A cur : /\ MovedFirst(cur) = LandFirst(SetFlags(cur, {}), list.first)
               /\ MovedLast(cur) = LandLast(SetFlags(cur, {}), list.last)
  BY DEF MovedFirst, MovedLast, LandFirst, LandLast, SetFlags
<1>3. \A f : Same(SetFlags(x, f), SetFlags(y, f)) BY SameSet
<1>4. Same(MovedFirst(x), MovedFirst(y)) BY <1>2, <1>3, SameLand
<1>5. Same(MovedLast(x), MovedLast(y)) BY <1>2, <1>3, SameLand
<1>6. PICK flags : flags = x.flags \ {"DELETED"} OBVIOUS
<1>7. flags = y.flags \ {"DELETED"} BY <1>1, <1>6
<1>8. PICK u, v : u = SetFlags(x, flags) /\ v = SetFlags(y, flags) OBVIOUS
<1>9. Same(u, v) BY <1>3, <1>8
<1>10. \A n : Same(LandFirst(u, n), LandFirst(v, n)) /\ Same(LandLast(u, n), LandLast(v, n)) BY <1>9, SameLand
<1>11. \A i : Same(SetIndex(u, i), SetIndex(v, i)) BY <1>9, SameSet
<1>12. Same(SetFlags(x, {"INVALID"}), SetFlags(y, {"INVALID"})) BY <1>3
<1>13. Same(MovedNext(x), MovedNext(y))
  <2>1. PICK index : index = IF Erased(x) THEN x.index ELSE x.index + 1 OBVIOUS
  <2>2. index = IF Erased(y) THEN y.index ELSE y.index + 1 BY <1>1, <2>1
  <2>3. MovedNext(x)
           = IF Erased(x) /\ Invalid(x) THEN u
             ELSE IF Erased(x) /\ "SEEK_FIRST_NEXT" \in flags THEN MovedFirst(x)
             ELSE IF Erased(x) /\ "SEEK_LAST_NEXT" \in flags THEN SetFlags(x, {"INVALID"})
             ELSE IF index = Size(list, x.node) THEN LandFirst(u, list.nodes[x.node].next)
             ELSE SetIndex(u, index)
    BY <1>6, <1>8, <2>1, NextIs
  <2>4. MovedNext(y)
           = IF Erased(y) /\ Invalid(y) THEN v
             ELSE IF Erased(y) /\ "SEEK_FIRST_NEXT" \in flags THEN MovedFirst(y)
             ELSE IF Erased(y) /\ "SEEK_LAST_NEXT" \in flags THEN SetFlags(y, {"INVALID"})
             ELSE IF index = Size(list, y.node) THEN LandFirst(v, list.nodes[y.node].next)
             ELSE SetIndex(v, index)
    BY <1>7, <1>8, <2>2, NextIs
  <2>5. QED BY ONLY <1>1, <1>4, <1>9, <1>10, <1>11, <1>12, <2>3, <2>4
<1>14. Same(MovedPrev(x), MovedPrev(y))
  <2>1. MovedPrev(x)
           = IF Erased(x) /\ Invalid(x) THEN u
             ELSE IF Erased(x) /\ "SEEK_LAST_NEXT" \in flags THEN MovedLast(x)
             ELSE IF Erased(x) /\ "SEEK_FIRST_NEXT" \in flags THEN SetFlags(x, {"INVALID"})
             ELSE IF x.index = 0 THEN LandLast(u, list.nodes[x.node].prev)
             ELSE SetIndex(u, x.index - 1)
    BY <1>6, <1>8, PrevIs
  <2>2. MovedPrev(y)
           = IF Erased(y) /\ Invalid(y) THEN v
             ELSE IF Erased(y) /\ "SEEK_LAST_NEXT" \in flags THEN MovedLast(y)
             ELSE IF Erased(y) /\ "SEEK_FIRST_NEXT" \in flags THEN SetFlags(y, {"INVALID"})
             ELSE IF y.index = 0 THEN LandLast(v, list.nodes[y.node].prev)
             ELSE SetIndex(v, y.index - 1)
    BY <1>7, <1>8, PrevIs
  <2>3. QED BY ONLY <1>1, <1>5, <1>9, <1>10, <1>11, <1>12, <2>1, <2>2
<1>15. QED BY <1>4, <1>5, <1>13, <1>14

\* A move that leads a linked cursor to a spot keeps the invariant, whichever cursor makes it.
LEMMA SameInv ==
  ASSUME NodeCapacity >= 2, NEW b, Shows(b), NEW c \in Cursors, NEW x, NEW y, Same(x, y), NEW new, new \in {x, y},
         NEW P, Moves(c, new, P), NEW q \in P, Spot(x, b, q)
  PROVE  Inv'
<1>1. PICK f, n, i : x = Cur(f, n, i) /\ y = Free(f, n, i) BY DEF Same
<1>2. new \in {Cur(f, n, i), Free(f, n, i)} /\ Spot(Cur(f, n, i), b, q) BY <1>1
<1>3. QED BY <1>2, SpotInv

LEMMA EndInv ==
  ASSUME NodeCapacity >= 2, NEW b, Shows(b), NEW c \in Cursors, MoveFirst(c) \/ MoveLast(c)
  PROVE  Inv'
<1>1. CursorOk(cursors[c], seen[c], b) BY DEF Shows, Good
<1>2. PICK f, n, i : cursors[c] \in {Cur(f, n, i), Free(f, n, i)} BY <1>1, CellIs
<1>3. PICK x, y : x = Cur(f, n, i) /\ y = Free(f, n, i) OBVIOUS
<1>4. Same(x, y) BY <1>3 DEF Same
<1>5. Spot(MovedFirst(x), b, 1) /\ Spot(MovedLast(x), b, list.size) BY <1>3, EndSpots
<1>6. Same(MovedFirst(x), MovedFirst(y)) /\ Same(MovedLast(x), MovedLast(y)) BY <1>4, SameMoves
<1>7. CASE MoveFirst(c)
  <2>1. PICK P, q : P = {1} /\ q = 1 OBVIOUS
  <2>2. PICK new, u, v : new = MovedFirst(cursors[c]) /\ u = MovedFirst(x) /\ v = MovedFirst(y) OBVIOUS
  <2>3. Moves(c, new, P) /\ q \in P /\ Spot(u, b, q) /\ Same(u, v) /\ new \in {u, v}
    BY <1>2, <1>3, <1>5, <1>6, <1>7, <2>1, <2>2 DEF MoveFirst
  <2>4. QED BY <2>3, SameInv
<1>8. CASE MoveLast(c)
  <2>1. PICK P, q : P = {list.size} /\ q = list.size OBVIOUS
  <2>2. PICK new, u, v : new = MovedLast(cursors[c]) /\ u = MovedLast(x) /\ v = MovedLast(y) OBVIOUS
  <2>3. Moves(c, new, P) /\ q \in P /\ Spot(u, b, q) /\ Same(u, v) /\ new \in {u, v}
    BY <1>2, <1>3, <1>5, <1>6, <1>8, <2>1, <2>2 DEF MoveLast
  <2>4. QED BY <2>3, SameInv
<1>9. QED BY <1>7, <1>8

LEMMA NextInside ==
  ASSUME NodeCapacity >= 2, NEW b, Shows(b), NEW cur, NEW f, NEW n, NEW i, Inside(cur, b, f, n, i),
         NEW j, j = IF f = {} THEN i + 1 ELSE i
  PROVE  Spot(MovedNext(cur), b, (b[n] + j) + 1)
<1>1. cur = Cur(f, n, i) /\ f \in {{}, {"DELETED"}} /\ n \in 1 .. Count(b) /\ i \in Nat BY DEF Inside
<1>2. b[n] + i <= b[n + 1] /\ (f = {} => b[n] + i < b[n + 1]) BY DEF Inside
<1>3. /\ b[n] \in Nat /\ b[n + 1] \in Nat /\ Size(list, n) = b[n + 1] - b[n]
      /\ list.nodes[n].next = (IF n = Count(b) THEN 0 ELSE n + 1)
  BY <1>1, ShownNode
<1>4. Gaps(b) /\ Count(b) \in Nat /\ Len(b) = Count(b) + 1 BY ShownParts
<1>5. cur.flags = f /\ cur.node = n /\ cur.index = i /\ ~Invalid(cur) /\ (Erased(cur) <=> f # {})
  BY <1>1, CurParts
<1>6. f \ {"DELETED"} = {} BY <1>1
<1>7. j = (IF Erased(cur) THEN cur.index ELSE cur.index + 1) /\ j \in Nat /\ b[n] + j <= b[n + 1]
  BY <1>1, <1>2, <1>3, <1>5
<1>8. SetFlags(cur, {}) = Cur({}, n, i) /\ SetIndex(Cur({}, n, i), j) = Cur({}, n, j) BY <1>1, CurSet
<1>9. MovedNext(cur) = IF j = b[n + 1] - b[n] THEN LandFirst(Cur({}, n, i), list.nodes[n].next) ELSE Cur({}, n, j)
  <2>1. PICK flags : flags = {} OBVIOUS
  <2>2. flags = cur.flags \ {"DELETED"} /\ "SEEK_FIRST_NEXT" \notin flags /\ "SEEK_LAST_NEXT" \notin flags
    BY <1>5, <1>6, <2>1
  <2>3. MovedNext(cur) = IF j = Size(list, cur.node) THEN LandFirst(SetFlags(cur, flags), list.nodes[cur.node].next)
                         ELSE SetIndex(SetFlags(cur, flags), j)
    BY <1>5, <1>7, <2>2, NextIs
  <2>4. QED BY <1>3, <1>5, <1>8, <2>1, <2>3
<1>10. CASE j # b[n + 1] - b[n]
  <2>1. b[n] + j < b[n + 1] BY ONLY <1>3, <1>7, <1>10
  <2>2. Spot(Cur({}, n, j), b, (b[n] + j) + 1) BY <1>1, <1>7, <2>1, EndsOfNode
  <2>3. QED BY <1>9, <1>10, <2>2
<1>11. CASE j = b[n + 1] - b[n]
  <2>1. b[n] + j = b[n + 1] BY ONLY <1>3, <1>7, <1>11
  <2>2. CASE n = Count(b)
    <3>1. MovedNext(cur) = Cur({"INVALID"}, 0, 0) BY <1>3, <1>9, <1>11, <2>2, LandCur
    <3>2. b[Len(b)] = b[n] + j /\ b[Len(b)] \in Nat BY <1>3, <1>4, <2>1, <2>2
    <3>3. (b[n] + j) + 1 \notin 1 .. b[Len(b)] BY ONLY <3>2
    <3>4. QED BY <3>1, <3>3, OffSpot
  <2>3. CASE n # Count(b)
    <3>1. PICK m : m = n + 1 OBVIOUS
    <3>2. m \in 1 .. Count(b) /\ m # 0 BY <1>1, <1>4, <2>3, <3>1
    <3>3. MovedNext(cur) = Cur({}, m, 0) BY <1>3, <1>9, <1>11, <2>3, <3>1, <3>2, LandCur
    <3>4. Spot(Cur({}, m, 0), b, b[m] + 1) BY <3>2, EndsOfNode
    <3>5. QED BY <2>1, <3>1, <3>3, <3>4
  <2>4. QED BY <2>2, <2>3
<1>12. QED BY <1>10, <1>11

LEMMA PrevInside ==
  ASSUME NodeCapacity >= 2, NEW b, Shows(b), NEW cur, NEW f, NEW n, NEW i, Inside(cur, b, f, n, i)
  PROVE  Spot(MovedPrev(cur), b, b[n] + i)
<1>1. cur = Cur(f, n, i) /\ f \in {{}, {"DELETED"}} /\ n \in 1 .. Count(b) /\ i \in Nat BY DEF Inside
<1>2. b[n] + i <= b[n + 1] BY DEF Inside
<1>3. b[n] \in Nat /\ b[n + 1] \in Nat /\ list.nodes[n].prev = n - 1 BY <1>1, ShownNode
<1>4. Gaps(b) /\ Count(b) \in Nat /\ Len(b) = Count(b) + 1 BY ShownParts
<1>5. cur.flags = f /\ cur.node = n /\ cur.index = i /\ ~Invalid(cur) BY <1>1, CurParts
<1>6. f \ {"DELETED"} = {} BY <1>1
<1>7. PICK j : j = i - 1 OBVIOUS
<1>8. SetFlags(cur, {}) = Cur({}, n, i) /\ SetIndex(Cur({}, n, i), j) = Cur({}, n, j) BY <1>1, CurSet
<1>9. MovedPrev(cur) = IF i = 0 THEN LandLast(Cur({}, n, i), n - 1) ELSE Cur({}, n, j)
  <2>1. PICK flags : flags = {} OBVIOUS
  <2>2. flags = cur.flags \ {"DELETED"} /\ "SEEK_FIRST_NEXT" \notin flags /\ "SEEK_LAST_NEXT" \notin flags
    BY <1>5, <1>6, <2>1
  <2>3. MovedPrev(cur) = IF cur.index = 0 THEN LandLast(SetFlags(cur, flags), list.nodes[cur.node].prev)
                         ELSE SetIndex(SetFlags(cur, flags), cur.index - 1)
    BY <1>5, <2>2, PrevIs
  <2>4. QED BY <1>3, <1>5, <1>7, <1>8, <2>1, <2>3
<1>10. CASE i # 0
  <2>1. j \in Nat /\ b[n] + j < b[n + 1] /\ (b[n] + j) + 1 = b[n] + i BY ONLY <1>1, <1>2, <1>3, <1>7, <1>10
  <2>2. Spot(Cur({}, n, j), b, (b[n] + j) + 1) BY <1>1, <2>1, EndsOfNode
  <2>3. QED BY <1>9, <1>10, <2>1, <2>2
<1>11. CASE i = 0
  <2>1. b[n] + i = b[n] BY ONLY <1>3, <1>11
  <2>2. CASE n = 1
    <3>1. MovedPrev(cur) = Cur({"INVALID"}, 0, 0)
      <4>1. n - 1 = 0 BY <2>2
      <4>2. QED BY <1>9, <1>11, <4>1, LandCur
    <3>2. b[n] + i = 0 BY <1>4, <2>1, <2>2, EmptyIff
    <3>3. 0 \notin 1 .. b[Len(b)] OBVIOUS
    <3>4. QED BY <3>1, <3>2, <3>3, OffSpot
  <2>3. CASE n # 1
    <3>1. PICK m : m = n - 1 OBVIOUS
    <3>2. m \in 1 .. Count(b) /\ m # 0 /\ m + 1 = n BY <1>1, <1>4, <2>3, <3>1
    <3>3. MovedPrev(cur) = Cur({}, m, Size(list, m) - 1) BY <1>9, <1>11, <3>1, <3>2, LandCur
    <3>4. Spot(Cur({}, m, Size(list, m) - 1), b, b[m + 1]) BY <3>2, EndsOfNode
    <3>5. QED BY <2>1, <3>2, <3>3, <3>4
  <2>4. QED BY <2>2, <2>3
<1>12. QED BY <1>10, <1>11

\* The node of the cursor is gone: it was the first or the last one.
LEMMA SeekSpots ==
  ASSUME NodeCapacity >= 2, NEW b, Shows(b)
  PROVE  /\ Spot(MovedNext(Cur({"DELETED", "SEEK_FIRST_NEXT"}, 0, 0)), b, 1)
         /\ Spot(MovedNext(Cur({"DELETED", "SEEK_LAST_NEXT"}, 0, 0)), b, b[Len(b)] + 1)
         /\ Spot(MovedPrev(Cur({"DELETED", "SEEK_FIRST_NEXT"}, 0, 0)), b, 0)
         /\ Spot(MovedPrev(Cur({"DELETED", "SEEK_LAST_NEXT"}, 0, 0)), b, b[Len(b)])
<1>1. list.size = b[Len(b)] /\ Gaps(b) BY ShownParts
<1>2. b[Len(b)] \in Nat BY <1>1, EmptyIff
<1>3. 0 \notin 1 .. b[Len(b)] /\ b[Len(b)] + 1 \notin 1 .. b[Len(b)] BY ONLY <1>2
<1>4. PICK fs, ls : fs = {"DELETED", "SEEK_FIRST_NEXT"} /\ ls = {"DELETED", "SEEK_LAST_NEXT"} OBVIOUS
<1>5. PICK x, y : x = Cur(fs, 0, 0) /\ y = Cur(ls, 0, 0) OBVIOUS
<1>6. /\ x.flags = fs /\ Erased(x) /\ ~Invalid(x) /\ y.flags = ls /\ Erased(y) /\ ~Invalid(y)
      /\ SetFlags(x, {"INVALID"}) = Cur({"INVALID"}, 0, 0) /\ SetFlags(y, {"INVALID"}) = Cur({"INVALID"}, 0, 0)
  BY <1>4, <1>5, CurParts, CurSet
<1>7. PICK fx, fy : fx = x.flags \ {"DELETED"} /\ fy = y.flags \ {"DELETED"} OBVIOUS
<1>8. /\ "SEEK_FIRST_NEXT" \in fx /\ "SEEK_LAST_NEXT" \notin fx
      /\ "SEEK_LAST_NEXT" \in fy /\ "SEEK_FIRST_NEXT" \notin fy
  BY <1>4, <1>6, <1>7
<1>9. MovedNext(x) = MovedFirst(x) /\ MovedNext(y) = SetFlags(y, {"INVALID"})
  <2>1. PICK i : i = IF Erased(x) THEN x.index ELSE x.index + 1 OBVIOUS
  <2>2. PICK j : j = IF Erased(y) THEN y.index ELSE y.index + 1 OBVIOUS
  <2>3. MovedNext(x) = MovedFirst(x) BY <1>6, <1>7, <1>8, <2>1, NextIs
  <2>4. MovedNext(y) = SetFlags(y, {"INVALID"}) BY <1>6, <1>7, <1>8, <2>2, NextIs
  <2>5. QED BY <2>3, <2>4
<1>10. MovedPrev(y) = MovedLast(y) /\ MovedPrev(x) = SetFlags(x, {"INVALID"}) BY <1>6, <1>7, <1>8, PrevIs
<1>11. Spot(MovedFirst(x), b, 1) /\ Spot(MovedLast(y), b, list.size) BY <1>5, EndSpots
<1>12. Spot(Cur({"INVALID"}, 0, 0), b, 0) /\ Spot(Cur({"INVALID"}, 0, 0), b, b[Len(b)] + 1) BY <1>3, OffSpot
<1>13. QED BY ONLY <1>1, <1>4, <1>5, <1>6, <1>9, <1>10, <1>11, <1>12

\* A cursor that clear() left behind moves nowhere.
LEMMA OffMoves ==
  ASSUME NEW b, NEW f, NEW n, NEW i, NEW s, NEW x, x = Cur(f, n, i), Off(x, s), Erased(x)
  PROVE  s = Nowhere /\ Spot(MovedNext(x), b, 0) /\ Spot(MovedPrev(x), b, 0)
<1>1. PICK g : x = Cur(g, 0, 0) /\ "INVALID" \in g /\ s = Nowhere BY DEF Off
<1>2. PICK h : h = x.flags \ {"DELETED"} OBVIOUS
<1>3. x.flags = g /\ Invalid(x) BY <1>1, CurParts
<1>4. SetFlags(x, h) = Cur(h, 0, 0) /\ "INVALID" \in h
  <2>1. SetFlags(x, h) = Cur(h, 0, 0) BY <1>1, CurSet
  <2>2. "INVALID" \in h BY <1>1, <1>2, <1>3
  <2>3. QED BY <2>1, <2>2
<1>5. MovedNext(x) = Cur(h, 0, 0)
  <2>1. PICK index : index = IF Erased(x) THEN x.index ELSE x.index + 1 OBVIOUS
  <2>2. QED BY <1>2, <1>3, <1>4, <2>1, NextIs
<1>6. MovedPrev(x) = Cur(h, 0, 0) BY <1>2, <1>3, <1>4, PrevIs
<1>7. 0 \notin 1 .. b[Len(b)] OBVIOUS
<1>8. QED BY <1>1, <1>4, <1>5, <1>6, <1>7 DEF Spot

LEMMA NextPosition ==
  ASSUME NEW s, NEW p, NEW gone, Fits(s, p, gone), NEW P,
         P = IF s = Nowhere THEN {0} ELSE IF s.at # 0 THEN {s.hi} ELSE s.lo + 1 .. s.hi
  PROVE  /\ gone = {} => p + 2 \in P
         /\ gone = {"DELETED"} => p + 1 \in P
<1>1. CASE gone = {}
  <2>1. p \in Nat /\ s = AtValue(p + 1) BY <1>1 DEF Fits
  <2>2. s # Nowhere /\ s.at = p + 1 /\ s.hi = (p + 1) + 1 BY <2>1 DEF AtValue, Nowhere
  <2>3. s.at # 0 /\ s.hi = p + 2 BY ONLY <2>1, <2>2
  <2>4. QED BY <1>1, <2>2, <2>3
<1>2. CASE gone = {"DELETED"}
  <2>1. PICK lo \in Nat, hi \in Nat : s = [at |-> 0, lo |-> lo, hi |-> hi] /\ lo <= p /\ p < hi BY <1>2 DEF Fits
  <2>2. p \in Nat BY <1>2 DEF Fits
  <2>3. s # Nowhere /\ s.at = 0 /\ s.lo = lo /\ s.hi = hi BY <2>1, <2>2 DEF Nowhere
  <2>4. P = lo + 1 .. hi BY <2>3
  <2>5. p + 1 \in lo + 1 .. hi BY ONLY <2>1, <2>2, lo \in Nat, hi \in Nat
  <2>6. QED BY <1>2, <2>4, <2>5
<1>3. QED BY <1>1, <1>2 DEF Fits

LEMMA PrevPosition ==
  ASSUME NEW s, NEW p, NEW gone, Fits(s, p, gone), NEW P,
         P = IF s = Nowhere THEN {0} ELSE IF s.at # 0 THEN {s.lo} ELSE s.lo .. s.hi - 1
  PROVE  p \in P
<1>1. CASE gone = {}
  <2>1. p \in Nat /\ s = AtValue(p + 1) BY <1>1 DEF Fits
  <2>2. s # Nowhere /\ s.at = p + 1 /\ s.lo = (p + 1) - 1 BY <2>1 DEF AtValue, Nowhere
  <2>3. s.at # 0 /\ s.lo = p BY ONLY <2>1, <2>2
  <2>4. QED BY <1>1, <2>2, <2>3
<1>2. CASE gone = {"DELETED"}
  <2>1. PICK lo \in Nat, hi \in Nat : s = [at |-> 0, lo |-> lo, hi |-> hi] /\ lo <= p /\ p < hi BY <1>2 DEF Fits
  <2>2. p \in Nat BY <1>2 DEF Fits
  <2>3. s # Nowhere /\ s.at = 0 /\ s.lo = lo /\ s.hi = hi BY <2>1, <2>2 DEF Nowhere
  <2>4. P = lo .. hi - 1 BY <2>3
  <2>5. p \in lo .. hi - 1 BY ONLY <2>1, <2>2, lo \in Nat, hi \in Nat
  <2>6. QED BY <2>4, <2>5
<1>3. QED BY <1>1, <1>2 DEF Fits

\* move_next and move_prev
LEMMA NextInv ==
  ASSUME NodeCapacity >= 2, NEW b, Shows(b), NEW c \in Cursors, MoveNext(c)
  PROVE  Inv'
<1>1. Usable(c) /\ (Erased(cursors[c]) \/ ~Invalid(cursors[c])) BY DEF MoveNext
<1>2. PICK f0, n0, i0 : /\ cursors[c] \in {Cur(f0, n0, i0), Free(f0, n0, i0)}
                        /\ Off(Cur(f0, n0, i0), seen[c]) \/ Placed(Cur(f0, n0, i0), seen[c], b)
  BY <1>1, UsableIs
<1>3. PICK x, y : x = Cur(f0, n0, i0) /\ y = Free(f0, n0, i0) OBVIOUS
<1>4. Same(x, y) BY <1>3 DEF Same
<1>5. PICK P : P = IF seen[c] = Nowhere THEN {0}
                   ELSE IF seen[c].at # 0 THEN {seen[c].hi} ELSE seen[c].lo + 1 .. seen[c].hi
  OBVIOUS
<1>6. PICK old, new, v : old = MovedNext(cursors[c]) /\ new = MovedNext(x) /\ v = MovedNext(y) OBVIOUS
<1>7. Moves(c, old, P) /\ old \in {new, v} /\ Same(new, v)
  BY <1>2, <1>3, <1>4, <1>5, <1>6, SameMoves DEF MoveNext
<1>8. CASE Off(x, seen[c])
  <2>1. Invalid(x) BY <1>8, CurParts DEF Off
  <2>2. Erased(x) BY <1>1, <1>2, <1>3, <1>4, <2>1, SameSet
  <2>3. seen[c] = Nowhere /\ Spot(new, b, 0) BY <1>3, <1>6, <1>8, <2>2, OffMoves
  <2>4. 0 \in P BY <1>5, <2>3
  <2>5. QED BY <1>7, <2>3, <2>4, SameInv
<1>9. CASE Placed(x, seen[c], b)
  <2>1. PICK p, gone : At(x, b, p, gone) /\ Fits(seen[c], p, gone) BY <1>9 DEF Placed
  <2>2. (gone = {} => p + 2 \in P) /\ (gone = {"DELETED"} => p + 1 \in P) BY ONLY <1>5, <2>1, NextPosition
  <2>3. p \in Nat BY <2>1, FitsType
  <2>4. \E q \in P : Spot(new, b, q)
    <3>1. ASSUME NEW f, NEW n, NEW i, Inside(x, b, f, n, i), p = b[n] + i, gone = f
          PROVE  \E q \in P : Spot(new, b, q)
      <4>1. PICK j : j = IF f = {} THEN i + 1 ELSE i OBVIOUS
      <4>2. f \in {{}, {"DELETED"}} /\ i \in Nat /\ n \in 1 .. Count(b) BY <3>1 DEF Inside
      <4>3. b[n] \in Nat BY <4>2, ShownNode
      <4>4. Spot(new, b, (b[n] + j) + 1) BY <1>6, <3>1, <4>1, NextInside
      <4>5. CASE f = {}
        <5>1. (b[n] + j) + 1 = p + 2 BY <3>1, <4>1, <4>2, <4>3, <4>5
        <5>2. QED BY <2>2, <3>1, <4>4, <4>5, <5>1
      <4>6. CASE f = {"DELETED"}
        <5>1. j = i BY <4>1, <4>6
        <5>2. (b[n] + j) + 1 = p + 1 BY <3>1, <5>1
        <5>3. QED BY <2>2, <3>1, <4>4, <4>6, <5>2
      <4>7. QED BY <4>2, <4>5, <4>6
    <3>2. CASE x = Cur({"DELETED", "SEEK_FIRST_NEXT"}, 0, 0) /\ p = 0 /\ gone = {"DELETED"}
      <4>1. Spot(new, b, 1) BY <1>6, <3>2, SeekSpots
      <4>2. p + 1 = 1 BY <3>2
      <4>3. QED BY <2>2, <3>2, <4>1, <4>2
    <3>3. CASE x = Cur({"DELETED", "SEEK_LAST_NEXT"}, 0, 0) /\ p = b[Len(b)] /\ gone = {"DELETED"}
      <4>1. Spot(new, b, p + 1) BY <1>6, <3>3, SeekSpots
      <4>2. QED BY <2>2, <3>3, <4>1
    <3>4. QED BY <2>1, <3>1, <3>2, <3>3 DEF At
  <2>5. QED BY <1>7, <2>4, SameInv
<1>10. QED BY <1>2, <1>3, <1>8, <1>9

LEMMA PrevInv ==
  ASSUME NodeCapacity >= 2, NEW b, Shows(b), NEW c \in Cursors, MovePrev(c)
  PROVE  Inv'
<1>1. Usable(c) /\ (Erased(cursors[c]) \/ ~Invalid(cursors[c])) BY DEF MovePrev
<1>2. PICK f0, n0, i0 : /\ cursors[c] \in {Cur(f0, n0, i0), Free(f0, n0, i0)}
                        /\ Off(Cur(f0, n0, i0), seen[c]) \/ Placed(Cur(f0, n0, i0), seen[c], b)
  BY <1>1, UsableIs
<1>3. PICK x, y : x = Cur(f0, n0, i0) /\ y = Free(f0, n0, i0) OBVIOUS
<1>4. Same(x, y) BY <1>3 DEF Same
<1>5. PICK P : P = IF seen[c] = Nowhere THEN {0}
                   ELSE IF seen[c].at # 0 THEN {seen[c].lo} ELSE seen[c].lo .. seen[c].hi - 1
  OBVIOUS
<1>6. PICK old, new, v : old = MovedPrev(cursors[c]) /\ new = MovedPrev(x) /\ v = MovedPrev(y) OBVIOUS
<1>7. Moves(c, old, P) /\ old \in {new, v} /\ Same(new, v)
  BY <1>2, <1>3, <1>4, <1>5, <1>6, SameMoves DEF MovePrev
<1>8. CASE Off(x, seen[c])
  <2>1. Invalid(x) BY <1>8, CurParts DEF Off
  <2>2. Erased(x) BY <1>1, <1>2, <1>3, <1>4, <2>1, SameSet
  <2>3. seen[c] = Nowhere /\ Spot(new, b, 0) BY <1>3, <1>6, <1>8, <2>2, OffMoves
  <2>4. 0 \in P BY <1>5, <2>3
  <2>5. QED BY <1>7, <2>3, <2>4, SameInv
<1>9. CASE Placed(x, seen[c], b)
  <2>1. PICK p, gone : At(x, b, p, gone) /\ Fits(seen[c], p, gone) BY <1>9 DEF Placed
  <2>2. p \in P BY ONLY <1>5, <2>1, PrevPosition
  <2>3. Spot(new, b, p)
    <3>1. ASSUME NEW f, NEW n, NEW i, Inside(x, b, f, n, i), p = b[n] + i
          PROVE  Spot(new, b, p)
      BY <1>6, <3>1, PrevInside
    <3>2. CASE x = Cur({"DELETED", "SEEK_FIRST_NEXT"}, 0, 0) /\ p = 0 BY <1>6, <3>2, SeekSpots
    <3>3. CASE x = Cur({"DELETED", "SEEK_LAST_NEXT"}, 0, 0) /\ p = b[Len(b)] BY <1>6, <3>3, SeekSpots
    <3>4. QED BY <2>1, <3>1, <3>2, <3>3 DEF At
  <2>4. QED BY <1>7, <2>2, <2>3, SameInv
<1>10. QED BY <1>2, <1>3, <1>8, <1>9

\* A new cursor and an assignment.
LEMMA CreateInv ==
  ASSUME NEW b, Shows(b), NEW c \in Cursors, CreateCursor(c)
  PROVE  Inv'
<1>1. NewCursor = Cur({"INVALID"}, 0, 0) BY DEF NewCursor, Cur, Cell, NoNode
<1>2. Off(NewCursor, Nowhere) BY <1>1 DEF Off
<1>3. CursorOk(NewCursor, Nowhere, b) BY <1>2 DEF CursorOk, Idle
<1>4. QED BY <1>3, OneCursor DEF CreateCursor

LEMMA AssignInv ==
  ASSUME NodeCapacity >= 2, NEW b, Shows(b), NEW c \in Cursors, NEW d \in Cursors, AssignCursor(c, d)
  PROVE  Inv'
<1>1. Usable(d) BY DEF AssignCursor
<1>2. PICK f, n, i : /\ cursors[d] \in {Cur(f, n, i), Free(f, n, i)}
                     /\ Off(Cur(f, n, i), seen[d]) \/ Placed(Cur(f, n, i), seen[d], b)
  BY <1>1, UsableIs
<1>3. CursorOk(cursors[c], seen[c], b) BY DEF Shows, Good
<1>4. PICK g, m, j : cursors[c] \in {Cur(g, m, j), Free(g, m, j)} BY <1>3, CellIs
<1>5. \A k, l : [Cell(k, f, n, i) EXCEPT !.linked = l] = Cell(l, f, n, i) BY DEF Cell
<1>6. PICK yes, no : yes = TRUE /\ no = FALSE OBVIOUS
<1>7. \A h, p, q : Cur(h, p, q) = Cell(yes, h, p, q) /\ Free(h, p, q) = Cell(no, h, p, q)
  BY <1>6 DEF Cur, Free
<1>8. cursors[c].linked \in {yes, no}
  <2>1. cursors[c] \in {Cell(yes, g, m, j), Cell(no, g, m, j)} BY <1>4, <1>7
  <2>2. Cell(yes, g, m, j).linked = yes /\ Cell(no, g, m, j).linked = no BY CellParts
  <2>3. QED BY ONLY <2>1, <2>2
<1>9. PICK new, s : new = [cursors[d] EXCEPT !.linked = cursors[c].linked] /\ s = seen[d] OBVIOUS
<1>10. new \in {Cell(yes, f, n, i), Cell(no, f, n, i)}
  <2>1. PICK l : l = cursors[c].linked OBVIOUS
  <2>2. PICK k : cursors[d] = Cell(k, f, n, i) BY <1>2, <1>7
  <2>3. new = Cell(l, f, n, i) BY <1>5, <1>9, <2>1, <2>2
  <2>4. QED BY ONLY <1>8, <2>1, <2>3
<1>11. CursorOk(new, s, b)
  <2>1. CursorOk(Free(f, n, i), s, b) BY <1>2, <1>9, Untied
  <2>2. CursorOk(Cur(f, n, i), s, b) BY <1>2, <1>9 DEF CursorOk, Idle
  <2>3. QED BY <1>7, <1>10, <2>1, <2>2
<1>12. cursors' = [cursors EXCEPT ![c] = new] /\ seen' = [seen EXCEPT ![c] = s] /\ list' = list
  BY <1>9 DEF AssignCursor
<1>13. QED BY ONLY Shows(b), c \in Cursors, <1>11, <1>12, OneCursor

\* clear: every cursor is taken off m_cursors.
LEMMA ClearInv ==
  ASSUME NodeCapacity >= 2, NEW b, Shows(b), Clear
  PROVE  Inv'
<1>1. /\ MarkSeq(b) /\ Count(b) \in Nat /\ list = Shape(b) /\ list.count = Count(b)
      /\ DOMAIN cursors = Cursors /\ Good(cursors, seen, b)
  BY ShownParts
<1>2. Len(Order(list)) = Count(b)
  <2>1. Order(list) = Upto(Count(b)) BY <1>1, ShapeParts
  <2>2. QED BY <1>1, <2>1, NthUpto
<1>3. list' = EmptyList
  <2>1. list.count - Len(Order(list)) = 0 BY <1>1, <1>2
  <2>2. [EmptyList EXCEPT !.count = 0] = EmptyList BY DEF EmptyList
  <2>3. QED BY <2>1, <2>2 DEF Clear
<1>4. PICK d : d = <<0>> OBVIOUS
<1>5. Gaps(d) /\ list' = Shape(d) BY <1>3, <1>4, FirstShape
<1>6. ASSUME NEW x \in Cursors PROVE CursorOk(cursors'[x], seen'[x], d)
  <2>1. seen'[x] = Nowhere BY DEF Clear
  <2>2. Told(Nowhere) BY DEF Told, Nowhere
  <2>3. PICK f, n, i : cursors'[x] = Free(f, n, i) /\ Form(f, n, i)
    <3>1. CASE cursors[x].linked
      <4>1. PICK f : f = cursors[x].flags \cup {"INVALID", "DELETED"} OBVIOUS
      <4>2. cursors'[x] = Free(f, 0, 0) BY <3>1, <4>1 DEF Clear, Free, Cell, NoNode
      <4>3. "INVALID" \in f BY <4>1
      <4>4. QED BY <4>2, <4>3 DEF Form
    <3>2. CASE ~cursors[x].linked
      <4>1. CursorOk(cursors[x], seen[x], b) BY <1>1 DEF Good
      <4>2. Lost(cursors[x], seen[x]) BY <3>2, <4>1, CellIs
      <4>3. cursors'[x] = cursors[x] BY <3>2 DEF Clear
      <4>4. QED BY <4>2, <4>3 DEF Lost
    <3>3. QED BY <3>1, <3>2
  <2>4. Lost(cursors'[x], seen'[x]) BY <2>1, <2>2, <2>3 DEF Lost
  <2>5. QED BY <2>4 DEF Idle, CursorOk
<1>7. DOMAIN cursors' = Cursors /\ DOMAIN seen' = Cursors BY DEF Clear
<1>8. Good(cursors', seen', d) BY <1>6 DEF Good
<1>9. Shows(d)' BY <1>5, <1>7, <1>8 DEF Shows
<1>10. QED BY <1>9 DEF Inv

-----------------------------------------------------------------------------
(* The invariant is inductive.                                             *)

LEMMA InitInv ==
  ASSUME NodeCapacity >= 2, Init
  PROVE  Inv
<1>1. PICK d : d = <<0>> OBVIOUS
<1>2. Gaps(d) /\ list = Shape(d) BY <1>1, FirstShape DEF Init
<1>3. NewCursor = Cur({"INVALID"}, 0, 0) BY DEF NewCursor, Cur, Cell, NoNode
<1>4. ASSUME NEW x \in Cursors PROVE CursorOk(cursors[x], seen[x], d)
  <2>1. cursors[x] = NewCursor /\ seen[x] = Nowhere BY DEF Init
  <2>2. Off(cursors[x], seen[x]) BY <1>3, <2>1 DEF Off
  <2>3. QED BY <2>2 DEF CursorOk, Idle
<1>5. DOMAIN cursors = Cursors /\ DOMAIN seen = Cursors BY DEF Init
<1>6. Good(cursors, seen, d) BY <1>4 DEF Good
<1>7. Shows(d) BY <1>2, <1>5, <1>6 DEF Shows
<1>8. QED BY <1>7 DEF Inv

LEMMA NextKeepsInv ==
  ASSUME NodeCapacity >= 2, Inv, [Next]_vars
  PROVE  Inv'
<1>1. PICK b : Shows(b) BY DEF Inv
<1>2. CASE UNCHANGED vars
  <2>1. list' = list /\ cursors' = cursors /\ seen' = seen BY <1>2 DEF vars
  <2>2. Shows(b)' BY <1>1, <2>1 DEF Shows
  <2>3. QED BY <2>2 DEF Inv
<1>3. CASE PushBack \/ PushFront BY <1>1, <1>3, PushInv
<1>4. CASE PopBack \/ PopFront BY <1>1, <1>4, PopInv
<1>5. CASE Clear BY <1>1, <1>5, ClearInv
<1>6. ASSUME NEW c \in Cursors, InsertBefore(c) \/ InsertAfter(c) PROVE Inv' BY <1>1, <1>6, CursorInsertInv
<1>7. ASSUME NEW c \in Cursors, EraseCursor(c) PROVE Inv' BY <1>1, <1>7, CursorEraseInv
<1>8. ASSUME NEW c \in Cursors, MoveFirst(c) \/ MoveLast(c) PROVE Inv' BY <1>1, <1>8, EndInv
<1>9. ASSUME NEW c \in Cursors, MoveNext(c) PROVE Inv' BY <1>1, <1>9, NextInv
<1>10. ASSUME NEW c \in Cursors, MovePrev(c) PROVE Inv' BY <1>1, <1>10, PrevInv
<1>11. ASSUME NEW c \in Cursors, CreateCursor(c) PROVE Inv' BY <1>1, <1>11, CreateInv
<1>12. ASSUME NEW c \in Cursors, NEW d \in Cursors, AssignCursor(c, d) PROVE Inv' BY <1>1, <1>12, AssignInv
<1>13. QED BY <1>2, <1>3, <1>4, <1>5, <1>6, <1>7, <1>8, <1>9, <1>10, <1>11, <1>12 DEF Next

\* What the invariant says of the links.
LEMMA InvLinks ==
  ASSUME NodeCapacity >= 2, Inv
  PROVE  LinksValid
<1>1. PICK b : Shows(b) BY DEF Inv
<1>2. /\ Gaps(b) /\ MarkSeq(b) /\ Count(b) \in Nat /\ list = Shape(b) /\ list.last = Count(b)
      /\ list.count = Count(b)
  BY <1>1, ShownParts
<1>3. PICK order, k : order = Order(list) /\ k = Count(b) OBVIOUS
<1>4. order = Upto(k) /\ DOMAIN list.nodes = 1 .. k BY <1>2, <1>3, ShapeParts
<1>5. Len(order) = k /\ order \in Seq(Nat) /\ k \in Nat /\ \A i \in 1 .. k : order[i] = i
  <2>1. k \in Nat BY <1>2, <1>3
  <2>2. QED BY <1>4, <2>1, NthUpto DEF Upto
<1>6. Cardinality(DOMAIN list.nodes) = list.count BY <1>2, <1>3, <1>4, <1>5, FS_Interval
<1>7. list.last = IF order = << >> THEN NoNode ELSE Last(order)
  <2>1. CASE k = 0
    <3>1. order = << >> BY <1>5, <2>1
    <3>2. QED BY <1>2, <1>3, <2>1, <3>1 DEF NoNode
  <2>2. CASE k # 0
    <3>1. order # << >> /\ Last(order) = order[k] /\ order[k] = k BY <1>5, <2>2 DEF Last
    <3>2. QED BY <1>2, <1>3, <3>1
  <2>3. QED BY <2>1, <2>2
<1>8. ASSUME NEW i \in 1 .. k
      PROVE  /\ list.nodes[order[i]].prev = IF i = 1 THEN NoNode ELSE order[i - 1]
             /\ list.nodes[order[i]].next = IF i = Len(order) THEN NoNode ELSE order[i + 1]
             /\ Len(list.nodes[order[i]].vals) \in 1 .. NodeCapacity
             /\ i \notin {1, Len(order)} => Len(list.nodes[order[i]].vals) >= NodeCapacity \div 2
  <2>1. order[i] = i /\ i \in Nat /\ i \in 1 .. Count(b) BY <1>3, <1>5
  <2>2. /\ b[i] \in Nat /\ b[i + 1] \in Nat /\ b[i] < b[i + 1] /\ list.nodes[i].prev = i - 1
        /\ list.nodes[i].next = (IF i = k THEN 0 ELSE i + 1)
        /\ Size(list, i) = b[i + 1] - b[i]
    BY <1>1, <1>3, <2>1, ShownNode
  <2>3. list.nodes[i].prev = IF i = 1 THEN NoNode ELSE order[i - 1]
    <3>1. CASE i = 1 BY <2>2, <3>1 DEF NoNode
    <3>2. CASE i # 1
      <4>1. i - 1 \in 1 .. k BY <1>5, <3>2
      <4>2. QED BY <1>5, <2>2, <3>2, <4>1
    <3>3. QED BY <3>1, <3>2
  <2>4. list.nodes[i].next = IF i = Len(order) THEN NoNode ELSE order[i + 1]
    <3>1. CASE i = k BY <1>5, <2>2, <3>1 DEF NoNode
    <3>2. CASE i # k
      <4>1. i + 1 \in 1 .. k BY <1>5, <3>2
      <4>2. QED BY <1>5, <2>2, <3>2, <4>1
    <3>3. QED BY <3>1, <3>2
  <2>5. Len(list.nodes[i].vals) = b[i + 1] - b[i] BY <2>2 DEF Size
  <2>6. b[i + 1] <= b[i] + NodeCapacity /\ (i \notin {1, k} => b[i] + Half <= b[i + 1])
    <3>1. i \notin {1, k} => i \in 2 .. Count(b) - 1 BY <1>3, <1>5
    <3>2. QED BY <1>2, <2>1, <3>1 DEF Gaps
  <2>7. NodeCapacity \in Nat /\ Half \in Nat BY HalfFacts
  <2>8. Len(list.nodes[i].vals) \in 1 .. NodeCapacity /\ (i \notin {1, k} => Len(list.nodes[i].vals) >= Half)
    <3>1. PICK x, y, z : x = b[i] /\ y = b[i + 1] /\ z = Len(list.nodes[i].vals) OBVIOUS
    <3>2. /\ x \in Nat /\ y \in Nat /\ x < y /\ z = y - x /\ y <= x + NodeCapacity
          /\ i \notin {1, k} => x + Half <= y
      BY <2>2, <2>5, <2>6, <3>1
    <3>3. z \in 1 .. NodeCapacity /\ (i \notin {1, k} => z >= Half) BY ONLY <2>7, <3>2
    <3>4. QED BY <3>1, <3>3
  <2>9. i \notin {1, Len(order)} => Len(list.nodes[i].vals) >= NodeCapacity \div 2 BY <1>5, <2>8 DEF Half
  <2>10. QED BY ONLY <2>1, <2>3, <2>4, <2>8, <2>9
<1>9. DOMAIN order = 1 .. k BY <1>5
<1>10. QED BY <1>2, <1>3, <1>5, <1>6, <1>7, <1>8, <1>9 DEF LinksValid

\* What it says of the values.
LEMMA InvContents ==
  ASSUME NodeCapacity >= 2, Inv
  PROVE  ContentsInOrder
<1>1. PICK b : Shows(b) BY DEF Inv
<1>2. MarkSeq(b) /\ Count(b) \in Nat /\ list = Shape(b) /\ list.size = b[Len(b)] BY <1>1, ShownParts
<1>3. PICK order, k : order = Order(list) /\ k = Count(b) OBVIOUS
<1>4. order = Upto(k) BY <1>2, <1>3, ShapeParts
<1>5. Len(order) = k /\ \A i \in 1 .. k : order[i] = i BY <1>2, <1>3, <1>4, NthUpto
<1>6. ASSUME NEW i \in 1 .. k PROVE list.nodes[order[i]].vals = Piece(b[i], b[i + 1])
  BY <1>1, <1>3, <1>5, ShownNode
<1>7. [i \in 1 .. Len(order) |-> list.nodes[order[i]].vals] = [i \in 1 .. Count(b) |-> Piece(b[i], b[i + 1])]
  BY <1>3, <1>5, <1>6
<1>8. FlattenSeq([i \in 1 .. Len(order) |-> list.nodes[order[i]].vals]) = Piece(0, b[Len(b)])
  BY <1>2, <1>7, PiecesInOrder
<1>9. b[Len(b)] \in Nat
  <2>1. Gaps(b) BY <1>1, ShownParts
  <2>2. QED BY <2>1, EmptyIff
<1>10. Piece(0, b[Len(b)]) = [i \in 1 .. list.size |-> i]
  <2>1. PICK s : s = list.size OBVIOUS
  <2>2. s \in Nat BY <1>2, <1>9, <2>1
  <2>3. Piece(0, s) = [i \in 1 .. s |-> i] BY ONLY <2>2 DEF Piece
  <2>4. QED BY <1>2, <2>1, <2>3
<1>11. QED BY <1>3, <1>8, <1>10 DEF ContentsInOrder

\* What it says of the cursors.
LEMMA InvCursors ==
  ASSUME NodeCapacity >= 2, Inv
  PROVE  LinkedCursorsStayPut
<1>1. PICK b : Shows(b) BY DEF Inv
<1>2. list.size = b[Len(b)] /\ Good(cursors, seen, b) BY <1>1, ShownParts
<1>3. SUFFICES ASSUME NEW c \in Cursors, cursors[c].linked PROVE StaysPut(c)
  BY DEF LinkedCursorsStayPut
<1>4. PICK cur, s : cur = cursors[c] /\ s = seen[c] OBVIOUS
<1>5. SUFFICES CASE Invalid(cur) -> s = Nowhere
                 [] Erased(cur) /\ ~Invalid(cur) -> s.at = 0 /\ Before(cur) \in s.lo .. s.hi - 1
                 [] OTHER -> s.at # 0 /\ Position(cur) = s.at
  BY <1>4 DEF StaysPut
<1>6. Off(cur, s) \/ Placed(cur, s, b)
  <2>1. CursorOk(cur, s, b) BY <1>2, <1>4 DEF Good
  <2>2. ~Lost(cur, s) BY <1>3, <1>4, <2>1, CellIs
  <2>3. QED BY <2>1, <2>2 DEF CursorOk, Idle
<1>7. ASSUME NEW p, NEW gone, At(cur, b, p, gone), Fits(s, p, gone), gone = {}
      PROVE  ~Invalid(cur) /\ ~Erased(cur) /\ s.at # 0 /\ Position(cur) = s.at
  <2>1. PICK n, i : Inside(cur, b, {}, n, i) /\ p = b[n] + i
    <3>1. {} # {"DELETED"} OBVIOUS
    <3>2. QED BY <1>7, <3>1 DEF At
  <2>2. n \in 1 .. Count(b) /\ i \in Nat /\ b[n] + i < b[n + 1] /\ cur = Cur({}, n, i) BY <2>1 DEF Inside
  <2>3. /\ b[n] \in Nat /\ b[n + 1] \in Nat /\ list.nodes[n].vals = Piece(b[n], b[n + 1])
        /\ Size(list, n) = b[n + 1] - b[n] /\ n \in DOMAIN list.nodes
    BY <1>1, <2>2, ShownNode
  <2>4. cur.node = n /\ cur.index = i /\ ~Invalid(cur) /\ ~Erased(cur) BY <2>2, CurParts
  <2>5. i + 1 \in 1 .. b[n + 1] - b[n] /\ ~(i >= b[n + 1] - b[n]) /\ p + 1 = b[n] + (i + 1)
    BY ONLY <2>1, <2>2, <2>3
  <2>6. Piece(b[n], b[n + 1])[i + 1] = p + 1 BY ONLY <2>5 DEF Piece
  <2>7. Position(cur) = p + 1 BY <2>3, <2>4, <2>5, <2>6 DEF Position
  <2>8. p \in Nat /\ s = AtValue(p + 1)
    <3>1. {} # {"DELETED"} OBVIOUS
    <3>2. QED BY <1>7, <3>1 DEF Fits
  <2>9. s.at = p + 1 BY <2>8, AtValueParts
  <2>10. p + 1 # 0 BY <2>8
  <2>11. QED BY <2>4, <2>7, <2>9, <2>10
<1>8. ASSUME NEW p, NEW gone, At(cur, b, p, gone), Fits(s, p, gone), gone # {}
      PROVE  ~Invalid(cur) /\ Erased(cur) /\ s.at = 0 /\ Before(cur) \in s.lo .. s.hi - 1
  <2>1. PICK lo \in Nat, hi \in Nat : p \in Nat /\ s = [at |-> 0, lo |-> lo, hi |-> hi] /\ lo <= p /\ p < hi
    BY <1>8 DEF Fits
  <2>2. s.at = 0 /\ s.lo = lo /\ s.hi = hi BY <2>1
  <2>3. p \in s.lo .. s.hi - 1
    <3>1. p \in lo .. hi - 1 BY ONLY <2>1, lo \in Nat, hi \in Nat
    <3>2. QED BY <2>2, <3>1
  <2>4. ~Invalid(cur) /\ Erased(cur) /\ Before(cur) = p
    <3>1. ASSUME NEW f, NEW n, NEW i, Inside(cur, b, f, n, i), p = b[n] + i, gone = f
          PROVE  ~Invalid(cur) /\ Erased(cur) /\ Before(cur) = p
      <4>1. /\ f = {"DELETED"} /\ n \in 1 .. Count(b) /\ i \in Nat /\ b[n] + i <= b[n + 1]
            /\ cur = Cur({"DELETED"}, n, i)
        BY <1>8, <3>1 DEF Inside
      <4>2. /\ b[n] \in Nat /\ b[n + 1] \in Nat /\ list.nodes[n].vals = Piece(b[n], b[n + 1])
            /\ Size(list, n) = b[n + 1] - b[n] /\ b[n] < b[n + 1] /\ n \in DOMAIN list.nodes
        BY <1>1, <4>1, ShownNode
      <4>3. /\ cur.flags = {"DELETED"} /\ cur.node = n /\ cur.index = i /\ ~Invalid(cur) /\ Erased(cur)
        BY <4>1, CurParts
      <4>4. Before(cur) = IF i < b[n + 1] - b[n] THEN Piece(b[n], b[n + 1])[i + 1] - 1 ELSE Piece(b[n], b[n + 1])[i]
        <5>1. "SEEK_FIRST_NEXT" \notin cur.flags /\ "SEEK_LAST_NEXT" \notin cur.flags BY <4>3
        <5>2. ~(i > Size(list, n)) BY ONLY <4>1, <4>2
        <5>3. QED BY <4>2, <4>3, <5>1, <5>2 DEF Before
      <4>5. CASE i < b[n + 1] - b[n]
        <5>1. i + 1 \in 1 .. b[n + 1] - b[n] BY ONLY <4>1, <4>2, <4>5
        <5>2. Piece(b[n], b[n + 1])[i + 1] = b[n] + (i + 1) BY ONLY <5>1 DEF Piece
        <5>3. Before(cur) = (b[n] + (i + 1)) - 1 BY ONLY <4>4, <4>5, <5>2
        <5>4. (b[n] + (i + 1)) - 1 = b[n] + i BY ONLY <4>1, <4>2
        <5>5. QED BY <3>1, <4>3, <5>3, <5>4
      <4>6. CASE ~(i < b[n + 1] - b[n])
        <5>1. i \in 1 .. b[n + 1] - b[n] BY ONLY <4>1, <4>2, <4>6
        <5>2. Piece(b[n], b[n + 1])[i] = b[n] + i BY ONLY <5>1 DEF Piece
        <5>3. Before(cur) = b[n] + i BY ONLY <4>4, <4>6, <5>2
        <5>4. QED BY <3>1, <4>3, <5>3
      <4>7. QED BY <4>5, <4>6
    <3>2. CASE cur = Cur({"DELETED", "SEEK_FIRST_NEXT"}, 0, 0) /\ p = 0
      <4>1. PICK f : f = {"DELETED", "SEEK_FIRST_NEXT"} OBVIOUS
      <4>2. cur.flags = f /\ (Invalid(cur) <=> "INVALID" \in f) /\ (Erased(cur) <=> "DELETED" \in f)
        BY <3>2, <4>1, CurParts
      <4>3. "INVALID" \notin f /\ "DELETED" \in f /\ "SEEK_FIRST_NEXT" \in f BY ONLY <4>1
      <4>4. QED BY <3>2, <4>2, <4>3 DEF Before
    <3>3. CASE cur = Cur({"DELETED", "SEEK_LAST_NEXT"}, 0, 0) /\ p = b[Len(b)]
      <4>1. PICK f : f = {"DELETED", "SEEK_LAST_NEXT"} OBVIOUS
      <4>2. cur.flags = f /\ (Invalid(cur) <=> "INVALID" \in f) /\ (Erased(cur) <=> "DELETED" \in f)
        BY <3>3, <4>1, CurParts
      <4>3. /\ "INVALID" \notin f /\ "DELETED" \in f /\ "SEEK_FIRST_NEXT" \notin f /\ "SEEK_LAST_NEXT" \in f
        BY ONLY <4>1
      <4>4. QED BY <1>2, <3>3, <4>2, <4>3 DEF Before
    <3>4. QED BY <1>8, <3>1, <3>2, <3>3 DEF At
  <2>5. QED BY <2>2, <2>3, <2>4
<1>9. CASE Placed(cur, s, b)
  <2>1. PICK p, gone : At(cur, b, p, gone) /\ Fits(s, p, gone) BY <1>9 DEF Placed
  <2>2. CASE gone = {}
    <3>1. ~Invalid(cur) /\ ~Erased(cur) /\ s.at # 0 /\ Position(cur) = s.at BY <1>7, <2>1, <2>2
    <3>2. QED BY <3>1
  <2>3. CASE gone # {}
    <3>1. ~Invalid(cur) /\ Erased(cur) /\ s.at = 0 /\ Before(cur) \in s.lo .. s.hi - 1 BY <1>8, <2>1, <2>3
    <3>2. QED BY <3>1
  <2>4. QED BY <2>2, <2>3
<1>10. CASE Off(cur, s)
  <2>1. Invalid(cur) /\ s = Nowhere BY <1>10, CurParts DEF Off
  <2>2. QED BY <2>1
<1>11. QED BY <1>6, <1>9, <1>10

-----------------------------------------------------------------------------
(* Theorems.                                                               *)

LEMMA InvAlways ==
  ASSUME NodeCapacity >= 2
  PROVE  Spec => []Inv
<1>1. Init => Inv BY InitInv
<1>2. Inv /\ [Next]_vars => Inv' BY NextKeepsInv
<1>3. QED BY <1>1, <1>2, PTL DEF Spec

\* The links of the nodes and the anchor of a raw_list describe one chain in both
\* directions, whatever sequence of insertions, splits, erasures, takeovers and merges
\* led there: no node is lost or empty, and only the first and the last one are less
\* than half full.  A node has room for two values or more.
THEOREM ListLinksValid ==
  ASSUME NodeCapacity >= 2
  PROVE  Spec => []LinksValid
<1>1. Inv => LinksValid BY InvLinks
<1>2. QED BY <1>1, InvAlways, PTL

\* A walk along the nodes of a raw_list finds every value once, in the order the
\* insertions gave them, and as many as size() says, under the same condition.
THEOREM ListContentsInOrder ==
  ASSUME NodeCapacity >= 2
  PROVE  Spec => []ContentsInOrder
<1>1. Inv => ContentsInOrder BY InvContents
<1>2. QED BY <1>1, InvAlways, PTL

\* A cursor on m_cursors stays at its value through every split, merge and shift that
\* insert_at and erase_at cause; once its value is erased it stays between the
\* neighbours of that value, also when its node is destroyed; and move_next and
\* move_prev lead it to the neighbour, under the same condition.  Cursors that clear()
\* took off m_cursors take part, and what they do leaves the others in place; that such
\* a cursor does not stay itself is shown by the violation of CursorsStayPut.
THEOREM ListLinkedCursorsStayPut ==
  ASSUME NodeCapacity >= 2
  PROVE  Spec => []LinkedCursorsStayPut
<1>1. Inv => LinkedCursorsStayPut BY InvCursors
<1>2. QED BY <1>1, InvAlways, PTL
=============================================================================
