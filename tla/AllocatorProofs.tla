--------------------------- MODULE AllocatorProofs ---------------------------
(***************************************************************************)
(* The metadata that default_allocator keeps ready is always sufficient, and *)
(* every block it has got has exactly one owner, in the middle of a call and *)
(* after one that threw.                                                    *)
(*                                                                          *)
(* Between two steps of a call a block may belong to the call itself: to the *)
(* extent that free() has still to put back, or to the storage that was      *)
(* found and is not yet in the array's anchor.  The inductive invariant reads *)
(* these claims off the pending steps.                                      *)
(***************************************************************************)
EXTENDS Array, FiniteSetTheorems, WellFoundedInduction, TLAPS

Extents == [block : Nat, size : Nat \ {0}]
Trees == [height : Nat, nodes : Int]

Allocators ==
  [engine : Nat, extents : SUBSET Extents, pos : Trees, size : Trees, meta : SUBSET Nat,
   meta_total : Int, meta_free : Int, data_total : Int, data_free : Int,
   region : BOOLEAN, short : BOOLEAN]

Cover(extents) == UNION { BlocksOf(e) : e \in extents }

\* Free extents neither overlap nor touch.
Separate(e, f) == e.block + e.size < f.block \/ f.block + f.size < e.block

\* What holds of the allocator's own state after each of its steps.
Sound(a) ==
  /\ a \in Allocators
  /\ IsFiniteSet(a.extents)
  /\ \A e, f \in a.extents : e = f \/ Separate(e, f)
  /\ Cover(a.extents) \subseteq 0 .. a.engine - 1
  /\ a.meta \subseteq 0 .. a.engine - 1
  /\ Cover(a.extents) \cap a.meta = {}
  /\ a.data_free = Cardinality(Cover(a.extents))
  /\ a.meta_total = Cardinality(a.meta)
  /\ a.meta_free + a.pos.nodes + a.size.nodes = a.meta_total
  /\ a.meta_free >= 0
  /\ a.short = FALSE

-----------------------------------------------------------------------------
(* Pending steps.                                                            *)

Items ==
  [op : {"lazy", "drain", "fill", "region"}]
    \cup [op : {"put", "move"}, block : Nat, size : Nat \ {0}]
    \cup [op : {"fit"}, size : Nat \ {0}]
    \cup [op : {"reallocate"}, block : Nat, size : Nat \ {0}, new_size : Nat \ {0}]
    \cup [op : {"anchor"}, array : Arrays, blocks : Nat]
    \cup [op : {"reset"}, array : Arrays]
    \cup [op : {"write"}, array : Arrays, size : Nat]

\* The steps of fix_freelist claim no blocks.
Fixes(y) == y.op \in {"drain", "fill"}

\* The order in which the other steps of a call are done.
Rank(y) ==
  CASE y.op \in {"lazy", "put"} -> 1
    [] y.op \in {"fit", "reallocate"} -> 2
    [] y.op = "move" -> 3
    [] y.op \in {"anchor", "reset", "region"} -> 4
    [] OTHER -> 5

Ordered(s) ==
  \A p, q \in DOMAIN s : p < q /\ ~Fixes(s[p]) /\ ~Fixes(s[q]) => Rank(s[p]) < Rank(s[q])

PlanOf(s) == { y \in ToSet(s) : ~Fixes(y) }

\* The steps in s are in order, and those that claim blocks are the ones in P.
Does(s, P) == s \in Seq(Items) /\ Ordered(s) /\ PlanOf(s) = P

Plan == PlanOf(todo)

Doing(P, op) == { y \in P : y.op = op }

\* The storage that the call is about has not been found yet.
Searching(P) == Doing(P, "fit") \cup Doing(P, "reallocate") # {}

\* The blocks that free() has still to put back.
Returned(P) == UNION { BlocksOf(y) : y \in Doing(P, "put") }

\* The storage that was found, at block r, and is not yet in an anchor.
Found(P, r) ==
  IF Searching(P) THEN {} ELSE UNION { r .. r + y.blocks - 1 : y \in Doing(P, "anchor") }

Storage(A, x) == A[x].start .. A[x].start + A[x].blocks - 1

\* The storage in its anchor is the array's.
Keeps(P, x) ==
  /\ \A y \in Doing(P, "reset") : y.array # x
  /\ \A y \in Doing(P, "anchor") :
       y.array = x => y.blocks > 0 /\ (Searching(P) \/ Doing(P, "move") # {})

Kept(P, A) == UNION { Storage(A, x) : x \in { z \in Arrays : Keeps(P, z) } }

\* The blocks that the allocator has got, those of a region that is being added included.
Got(P, a) == (IF a.region \/ Doing(P, "region") # {} THEN 0 ELSE RegionSize) .. a.engine - 1

\* A set of blocks, told apart by who they belong to.
Parts(G, free, meta, put, found, kept) ==
  /\ G = free \cup meta \cup put \cup found \cup kept
  /\ free \cap meta = {} /\ free \cap put = {} /\ free \cap found = {} /\ free \cap kept = {}
  /\ meta \cap put = {} /\ meta \cap found = {} /\ meta \cap kept = {}
  /\ put \cap found = {} /\ put \cap kept = {}
  /\ found \cap kept = {}

\* Two arrays share no storage.
Apart(P, A) ==
  \A x, y \in Arrays : x # y /\ Keeps(P, x) /\ Keeps(P, y) => Storage(A, x) \cap Storage(A, y) = {}

ClaimsOK(P, a, r, A) ==
  /\ Parts(Got(P, a), Cover(a.extents), a.meta, Returned(P), Found(P, r), Kept(P, A))
  /\ Apart(P, A)

\* The steps that are pending together.
PlanOK(P, a, A) ==
  /\ Doing(P, "lazy") # {} => Searching(P)
  /\ \A y \in Doing(P, "fit") : \E z \in Doing(P, "anchor") :
       /\ z.blocks = y.size
       /\ Doing(P, "move") = {} => A[z.array].blocks = 0
  /\ \A y \in Doing(P, "reallocate") : \E z \in Doing(P, "anchor") :
       /\ z.blocks = y.new_size
       /\ A[z.array].blocks = y.size /\ A[z.array].start = y.block
       /\ Doing(P, "move") = {}
  /\ \A y \in Doing(P, "move") : \E z \in Doing(P, "anchor") :
       /\ z.blocks >= y.size
       /\ A[z.array].blocks = y.size /\ A[z.array].start = y.block
  /\ Doing(P, "region") # {} => ~a.region

Anchor == [start : Nat \cup {NoStorage}, blocks : Nat, size : Nat]

\* The anchors have their type, and storage has a place.
Anchored(A) ==
  A \in [Arrays -> Anchor] /\ \A x \in Arrays : A[x].blocks > 0 => A[x].start \in Nat

\* The allocator within its engine.
Placed(a) ==
  /\ Sound(a)
  /\ a.engine <= MaxBlocks /\ a.engine >= RegionSize
  /\ a.data_total = a.engine - (IF a.region THEN 0 ELSE RegionSize)

\* What holds of the steps P, the allocator a, the block r found last and the anchors A.
Consistent(P, a, r, A) ==
  /\ Placed(a) /\ r \in Nat /\ Anchored(A)
  /\ PlanOK(P, a, A)
  /\ ClaimsOK(P, a, r, A)

\* The inductive invariant.
Inv == Does(todo, Plan) /\ Consistent(Plan, alloc, result, arrays)

-----------------------------------------------------------------------------
(* Numbers.                                                                  *)

\* A set of natural numbers that is not empty has a least element.
LEMMA LeastNumber ==
  ASSUME NEW T \in SUBSET Nat, T # {}
  PROVE  \E m \in T : \A k \in T : m <= k
<1> DEFINE R == OpToRel(<, Nat)
<1>1. IsWellFoundedOn(R, Nat) BY NatLessThanWellFounded
<1>2. PICK m \in T : \A k \in T : ~(<<k, m>> \in R)
  <2> HIDE DEF R
  <2> QED BY <1>1, WFMin
<1>3. \A k \in T : ~(k < m) BY <1>2 DEF OpToRel
<1>4. QED BY <1>3

\* Induction, for the numbers that are in a set.
LEMMA Induction ==
  ASSUME NEW S, 0 \in S, \A n \in Nat : n \in S => n + 1 \in S
  PROVE  \A n \in Nat : n \in S
<1> SUFFICES ASSUME NEW n \in Nat, n \notin S PROVE FALSE OBVIOUS
<1> DEFINE T == { k \in Nat : k \notin S }
<1>1. PICK m \in T : \A k \in T : m <= k BY LeastNumber
<1>2. m # 0 BY <1>1
<1>3. m - 1 \in Nat /\ m - 1 \in S BY <1>1, <1>2
<1>4. QED BY <1>1, <1>3

\* The largest of three numbers, and the smallest and the largest of two.
LEMMA MaxOfThree ==
  ASSUME NEW i \in Int, NEW j \in Int, NEW k \in Int
  PROVE  LET m == Max({i, j, k}) IN m \in {i, j, k} /\ m >= i /\ m >= j /\ m >= k
<1>1. \E m \in {i, j, k} : \A y \in {i, j, k} : m >= y
  <2>1. CASE i >= j /\ i >= k BY <2>1
  <2>2. CASE j >= i /\ j >= k BY <2>2
  <2>3. CASE k >= i /\ k >= j BY <2>3
  <2>4. QED BY <2>1, <2>2, <2>3
<1>2. QED BY <1>1 DEF Max

\* The larger of two numbers.
LEMMA MaxOfTwo ==
  ASSUME NEW i \in Int, NEW j \in Int
  PROVE  LET m == Max({i, j}) IN m \in {i, j} /\ m >= i /\ m >= j
<1>1. \E m \in {i, j} : \A y \in {i, j} : m >= y
  <2>1. CASE i >= j BY <2>1
  <2>2. CASE j >= i BY <2>2
  <2>3. QED BY <2>1, <2>2
<1>2. QED BY <1>1 DEF Max

\* The smaller of two numbers.
LEMMA MinOfTwo ==
  ASSUME NEW i \in Int, NEW j \in Int
  PROVE  LET m == Min({i, j}) IN m \in {i, j} /\ m <= i /\ m <= j
<1>1. \E m \in {i, j} : \A y \in {i, j} : m <= y
  <2>1. CASE i <= j BY <2>1
  <2>2. CASE j <= i BY <2>2
  <2>3. QED BY <2>1, <2>2
<1>2. QED BY <1>1 DEF Min

\* round_towards_pow2 rounds up.
LEMMA Pow2Bound ==
  ASSUME NEW n \in Nat
  PROVE  Pow2(n) \in Nat /\ Pow2(n) >= n
<1> DEFINE Doubles(h, m) == /\ h \in [0 .. m -> Nat] /\ h[0] = 1
                            /\ \A k \in 1 .. m : h[k] = 2 * h[k - 1]
           body(h) == [k \in 0 .. n |-> IF k = 0 THEN 1 ELSE 2 * h[k - 1]]
           power == CHOOSE h : h = body(h)
<1>1. \A m \in Nat : \E h : Doubles(h, m)
  <2> DEFINE S == { m \in Nat : \E h : Doubles(h, m) }
  <2>1. 0 \in S
    <3>1. Doubles([k \in 0 .. 0 |-> 1], 0) OBVIOUS
    <3>2. QED BY <3>1
  <2>2. ASSUME NEW m \in Nat, m \in S PROVE m + 1 \in S
    <3>1. PICK h : Doubles(h, m) BY <2>2
    <3> DEFINE g == [k \in 0 .. m + 1 |-> IF k = m + 1 THEN 2 * h[m] ELSE h[k]]
    <3>2. Doubles(g, m + 1)
      <4>1. h[m] \in Nat BY <3>1
      <4>2. g \in [0 .. m + 1 -> Nat] /\ g[0] = 1 BY <3>1, <4>1
      <4>3. ASSUME NEW k \in 1 .. m + 1 PROVE g[k] = 2 * g[k - 1]
        <5>1. CASE k = m + 1 BY <5>1
        <5>2. CASE k # m + 1 BY <3>1, <5>2
        <5>3. QED BY <5>1, <5>2
      <4>4. QED BY <4>2, <4>3
    <3> HIDE DEF g, Doubles
    <3>3. QED BY <3>2
  <2> HIDE DEF S
  <2>3. \A m \in Nat : m \in S BY <2>1, <2>2, Induction
  <2>4. QED BY <2>3 DEF S
<1>2. Doubles(power, n)
  <2>1. PICK h : Doubles(h, n) BY <1>1
  <2>2. h = body(h) BY <2>1
  <2>3. power = body(power) BY <2>2
  <2> HIDE DEF power
  <2>4. power[0] = 1 /\ DOMAIN power = 0 .. n /\ \A k \in 1 .. n : power[k] = 2 * power[k - 1]
    BY <2>3
  <2> DEFINE S == { m \in Nat : m <= n => power[m] \in Nat }
  <2>5. \A m \in Nat : m \in S
    <3>1. 0 \in S BY <2>4
    <3>2. ASSUME NEW m \in Nat, m \in S PROVE m + 1 \in S
      <4>1. CASE m + 1 <= n
        <5>1. m + 1 \in 1 .. n /\ (m + 1) - 1 = m /\ power[m] \in Nat BY <3>2, <4>1
        <5>2. power[m + 1] = 2 * power[(m + 1) - 1] BY <2>4, <5>1
        <5>3. power[m + 1] \in Nat BY <5>1, <5>2
        <5>4. QED BY <5>3
      <4>2. CASE ~(m + 1 <= n) BY <4>2
      <4>3. QED BY <4>1, <4>2
    <3> HIDE DEF S
    <3>3. QED BY <3>1, <3>2, Induction
  <2>6. QED BY <2>3, <2>4, <2>5
<1> HIDE DEF power
<1> DEFINE Fits(m, p) == m <= p /\ (p = 1 \/ p \div 2 < m)
<1>3. ASSUME n # 0 PROVE \E k \in 0 .. n : Fits(n, power[k])
  <2> DEFINE S == { m \in Nat : m # 0 /\ m <= n => \E k \in 0 .. m : Fits(m, power[k]) }
  <2>1. 0 \in S OBVIOUS
  <2>2. ASSUME NEW m \in Nat, m \in S PROVE m + 1 \in S
    <3>1. CASE m = 0
      <4>1. Fits(1, power[0]) BY <1>2
      <4>2. QED BY <3>1, <4>1
    <3>2. CASE m # 0 /\ m + 1 <= n
      <4>1. PICK k \in 0 .. m : Fits(m, power[k]) BY <2>2, <3>2
      <4>2. power[k] \in Nat
        <5>1. k \in 0 .. n BY <3>2, <4>1
        <5>2. QED BY <1>2, <5>1
      <4>3. CASE m + 1 <= power[k]
        <5>1. Fits(m + 1, power[k]) BY <4>1, <4>2, <4>3
        <5>2. QED BY <5>1
      <4>4. CASE ~(m + 1 <= power[k])
        <5>1. power[k] = m BY <4>1, <4>2, <4>4
        <5>2. power[k + 1] = 2 * m
          <6>1. k + 1 \in 1 .. n /\ (k + 1) - 1 = k BY <3>2
          <6>2. power[k + 1] = 2 * power[(k + 1) - 1] BY <1>2, <6>1
          <6>3. QED BY <5>1, <6>1, <6>2
        <5>3. (2 * m) \div 2 = m OBVIOUS
        <5>4. Fits(m + 1, power[k + 1]) BY <3>2, <5>2, <5>3
        <5>5. QED BY <5>4
      <4>5. QED BY <4>3, <4>4
    <3>3. QED BY <3>1, <3>2
  <2> HIDE DEF S
  <2>3. \A m \in Nat : m \in S BY <2>1, <2>2, Induction
  <2>4. QED BY <1>3, <2>3 DEF S
<1>4. CASE n = 0 BY <1>4 DEF Pow2
<1>5. CASE n # 0
  <2> DEFINE P == { power[k] : k \in 0 .. n }
             p == CHOOSE q \in P : Fits(n, q)
  <2>1. Pow2(n) = p BY <1>5 DEF Pow2, power
  <2>2. \E q \in P : Fits(n, q) BY <1>3, <1>5
  <2>3. p \in P /\ Fits(n, p) BY <2>2
  <2>4. P \subseteq Nat BY <1>2
  <2>5. QED BY <2>1, <2>3, <2>4
<1>6. QED BY <1>4, <1>5

\* An allocation from the engine is never smaller than what is asked for.
LEMMA ChunkBound ==
  ASSUME NEW n \in Nat
  PROVE  ChunkSize(n) \in Nat \ {0} /\ ChunkSize(n) >= n
<1>1. Pow2(n) \in Nat /\ Pow2(n) >= n BY Pow2Bound
<1>2. MinChunk \in Nat \ {0} BY AllocatorAssumption
<1>3. LET m == Max({MinChunk, Pow2(n)}) IN m \in {MinChunk, Pow2(n)} /\ m >= MinChunk /\ m >= Pow2(n)
  BY <1>1, <1>2, MaxOfTwo
<1>4. QED BY <1>1, <1>2, <1>3 DEF ChunkSize

-----------------------------------------------------------------------------
(* Changes of the trees.                                                     *)

\* An erasure neither raises a tree nor adds a node to it.
LEMMA TreeErased ==
  ASSUME NEW s \in Trees, NEW n, NEW t \in TreeErase(s, n)
  PROVE  t \in Trees /\ t.height <= s.height /\ t.nodes <= s.nodes
<1>1. s.height \in Nat /\ s.nodes \in Int BY DEF Trees
<1>2. CASE \E j \in 0 .. s.height - 1 : t = [height |-> s.height, nodes |-> s.nodes - j]
  BY <1>1, <1>2 DEF Trees
<1>3. CASE \E j \in 1 .. s.height : t = [height |-> s.height - 1, nodes |-> s.nodes - j]
  BY <1>1, <1>3 DEF Trees
<1>4. QED BY <1>2, <1>3 DEF TreeErase

\* An insertion needs at most one node for each level of the tree and one for a new root.
LEMMA TreeInserted ==
  ASSUME NEW s \in Trees, NEW n, NEW t \in TreeInsert(s, n)
  PROVE  t \in Trees /\ t.nodes <= s.nodes + s.height + 1
<1>1. s.height \in Nat /\ s.nodes \in Int BY DEF Trees
<1>2. CASE \E j \in 0 .. s.height - 1 : t = [height |-> s.height, nodes |-> s.nodes + j]
  BY <1>1, <1>2 DEF Trees
<1>3. CASE \E j \in 1 .. s.height + 1 : t = [height |-> s.height + 1, nodes |-> s.nodes + j]
  BY <1>1, <1>3 DEF Trees
<1>4. QED BY <1>2, <1>3 DEF TreeInsert

\* What a change of the trees leaves alone.
SameBlocks(a, b) ==
  /\ b.engine = a.engine /\ b.meta = a.meta /\ b.meta_total = a.meta_total
  /\ b.data_total = a.data_total /\ b.region = a.region

\* The nodes of the trees and the blocks of the free list are one supply.
Balance(a) == a.meta_free + a.pos.nodes + a.size.nodes

\* New trees for the extents X: the blocks and the nodes in all stay as they are.
LEMMA TreesReplaced ==
  ASSUME NEW a \in Allocators, NEW p \in Trees, NEW s \in Trees, NEW X \in SUBSET Extents,
         NEW b, b = WithTrees(a, p, s, X)
  PROVE  /\ b \in Allocators /\ SameBlocks(a, b) /\ Balance(b) = Balance(a)
         /\ b.extents = X /\ b.pos = p /\ b.size = s
         /\ b.meta_free = a.meta_free + (a.pos.nodes - p.nodes) + (a.size.nodes - s.nodes)
         /\ b.data_free = a.data_free /\ b.short = a.short
<1>1. /\ a.meta_free \in Int /\ a.pos \in Trees /\ a.size \in Trees BY DEF Allocators
<1>2. /\ a.pos.nodes \in Int /\ a.size.nodes \in Int /\ p.nodes \in Int /\ s.nodes \in Int
  BY <1>1 DEF Trees
<1>3. a.meta_free + (a.pos.nodes - p.nodes) + (a.size.nodes - s.nodes) \in Int BY <1>1, <1>2
<1>4. /\ b \in Allocators /\ SameBlocks(a, b)
      /\ b.extents = X /\ b.pos = p /\ b.size = s
      /\ b.meta_free = a.meta_free + (a.pos.nodes - p.nodes) + (a.size.nodes - s.nodes)
      /\ b.data_free = a.data_free /\ b.short = a.short
  BY <1>3 DEF WithTrees, Allocators, SameBlocks
<1>5. Balance(b) = Balance(a) BY <1>1, <1>2, <1>4 DEF Balance
<1>6. QED BY <1>4, <1>5

\* The insertion that free_internal will do has the nodes it may need.
Ready(a) == a.meta_free >= RequiredFree(a)

\* b is a with fewer extents in the trees.
Shrunk(a, b) ==
  /\ b \in Allocators /\ SameBlocks(a, b) /\ Balance(b) = Balance(a)
  /\ b.data_free = a.data_free /\ b.short = a.short
  /\ b.meta_free >= a.meta_free /\ RequiredFree(b) <= RequiredFree(a)

\* An extent leaves both trees, and the nodes it frees go to the free list.
LEMMA ExtentErased ==
  ASSUME NEW a \in Allocators, NEW e, NEW b \in Without(a, e)
  PROVE  Shrunk(a, b) /\ b.extents = a.extents \ {e}
<1>1. /\ a.meta_free \in Int /\ a.pos \in Trees /\ a.size \in Trees /\ a.extents \in SUBSET Extents
  BY DEF Allocators
<1> DEFINE n == Cardinality(a.extents)
<1>2. PICK p \in TreeErase(a.pos, n), s \in TreeErase(a.size, n) :
        b = WithTrees(a, p, s, a.extents \ {e})
  BY DEF Without
<1> HIDE DEF n
<1>3. /\ p \in Trees /\ p.height <= a.pos.height /\ p.nodes <= a.pos.nodes BY <1>1, TreeErased
<1>4. /\ s \in Trees /\ s.height <= a.size.height /\ s.nodes <= a.size.nodes BY <1>1, TreeErased
<1>5. a.extents \ {e} \in SUBSET Extents BY <1>1
<1>6. /\ b \in Allocators /\ SameBlocks(a, b) /\ Balance(b) = Balance(a)
      /\ b.extents = a.extents \ {e} /\ b.pos = p /\ b.size = s
      /\ b.meta_free = a.meta_free + (a.pos.nodes - p.nodes) + (a.size.nodes - s.nodes)
      /\ b.data_free = a.data_free /\ b.short = a.short
  BY <1>2, <1>3, <1>4, <1>5, TreesReplaced
<1>7. /\ a.pos.nodes \in Int /\ a.size.nodes \in Int /\ p.nodes \in Int /\ s.nodes \in Int
      /\ a.pos.height \in Nat /\ a.size.height \in Nat /\ p.height \in Nat /\ s.height \in Nat
  BY <1>1, <1>3, <1>4 DEF Trees
<1>8. b.meta_free >= a.meta_free BY <1>1, <1>3, <1>4, <1>6, <1>7
<1>9. RequiredFree(b) <= RequiredFree(a) BY <1>3, <1>4, <1>6, <1>7 DEF RequiredFree
<1>10. QED BY <1>6, <1>8, <1>9 DEF Shrunk

\* An extent enters both trees: the free list has the nodes for that.
LEMMA ExtentInserted ==
  ASSUME NEW a \in Allocators, NEW e \in Extents, NEW b \in With(a, e), Ready(a)
  PROVE  /\ b \in Allocators /\ SameBlocks(a, b) /\ Balance(b) = Balance(a)
         /\ b.data_free = a.data_free /\ b.short = a.short
         /\ b.meta_free >= 0 /\ b.extents = a.extents \cup {e}
<1>1. /\ a.meta_free \in Int /\ a.pos \in Trees /\ a.size \in Trees /\ a.extents \in SUBSET Extents
  BY DEF Allocators
<1> DEFINE n == Cardinality(a.extents)
<1>2. PICK p \in TreeInsert(a.pos, n), s \in TreeInsert(a.size, n) :
        b = WithTrees(a, p, s, a.extents \cup {e})
  BY DEF With
<1> HIDE DEF n
<1>3. p \in Trees /\ p.nodes <= a.pos.nodes + a.pos.height + 1 BY <1>1, TreeInserted
<1>4. s \in Trees /\ s.nodes <= a.size.nodes + a.size.height + 1 BY <1>1, TreeInserted
<1>5. a.extents \cup {e} \in SUBSET Extents BY <1>1
<1>6. /\ b \in Allocators /\ SameBlocks(a, b) /\ Balance(b) = Balance(a)
      /\ b.extents = a.extents \cup {e} /\ b.pos = p /\ b.size = s
      /\ b.meta_free = a.meta_free + (a.pos.nodes - p.nodes) + (a.size.nodes - s.nodes)
      /\ b.data_free = a.data_free /\ b.short = a.short
  BY <1>2, <1>3, <1>4, <1>5, TreesReplaced
<1>7. /\ a.pos.nodes \in Int /\ a.size.nodes \in Int /\ p.nodes \in Int /\ s.nodes \in Int
      /\ a.pos.height \in Nat /\ a.size.height \in Nat
  BY <1>1, <1>3, <1>4 DEF Trees
<1>8. a.meta_free >= (a.pos.height + 1) + (a.size.height + 1) BY DEF Ready, RequiredFree
<1>9. b.meta_free >= 0 BY <1>1, <1>3, <1>4, <1>6, <1>7, <1>8
<1>10. QED BY <1>6, <1>9

\* The extents X without the one in S, if there is one.
Dropped(X, S) == IF S = {} THEN X ELSE X \ {CHOOSE f \in S : TRUE}

\* Erasing a neighbour, if there is one.
LEMMA NeighbourErased ==
  ASSUME NEW a \in Allocators, NEW near, NEW b \in Erased({a}, near)
  PROVE  Shrunk(a, b) /\ b.extents = Dropped(a.extents, near)
<1>1. CASE near = {}
  <2>1. b = a BY <1>1 DEF Erased
  <2>2. a.meta_free \in Int /\ RequiredFree(a) \in Int BY DEF Allocators, Trees, RequiredFree
  <2>3. QED BY <1>1, <2>1, <2>2 DEF Shrunk, SameBlocks, Dropped
<1>2. CASE near # {}
  <2>1. b \in Without(a, CHOOSE f \in near : TRUE) BY <1>2 DEF Erased
  <2>2. QED BY <1>2, <2>1, ExtentErased DEF Dropped
<1>3. QED BY <1>1, <1>2

\* One extent after another leaves the trees.
LEMMA ShrunkTwice ==
  ASSUME NEW a \in Allocators, NEW b, NEW c, Shrunk(a, b), Shrunk(b, c)
  PROVE  Shrunk(a, c)
<1>1. /\ a.meta_free \in Int /\ b.meta_free \in Int /\ c.meta_free \in Int
      /\ RequiredFree(a) \in Int /\ RequiredFree(b) \in Int /\ RequiredFree(c) \in Int
  BY DEF Allocators, Trees, RequiredFree, Shrunk
<1>2. QED BY <1>1 DEF Shrunk, SameBlocks

-----------------------------------------------------------------------------
(* Extents as sets of blocks.                                                *)

\* The fields of an extent.
LEMMA ExtentTyped ==
  ASSUME NEW b \in Nat, NEW n \in Nat \ {0}
  PROVE  Extent(b, n) \in Extents /\ Extent(b, n).block = b /\ Extent(b, n).size = n
BY DEF Extent, Extents

\* Extents without a common block lie one behind the other.
LEMMA Disjoint ==
  ASSUME NEW e \in Extents, NEW f \in Extents, BlocksOf(e) \cap BlocksOf(f) = {}
  PROVE  e.block + e.size <= f.block \/ f.block + f.size <= e.block
<1>1. e.block \in Nat /\ e.size \in Nat \ {0} /\ f.block \in Nat /\ f.size \in Nat \ {0}
  BY DEF Extents
<1>2. CASE e.block <= f.block
  <2>1. f.block \in BlocksOf(f) BY <1>1 DEF BlocksOf
  <2>2. f.block \notin BlocksOf(e) BY <2>1
  <2>3. QED BY <1>1, <1>2, <2>2 DEF BlocksOf
<1>3. CASE f.block <= e.block
  <2>1. e.block \in BlocksOf(e) BY <1>1 DEF BlocksOf
  <2>2. e.block \notin BlocksOf(f) BY <2>1
  <2>3. QED BY <1>1, <1>3, <2>2 DEF BlocksOf
<1>4. QED BY <1>1, <1>2, <1>3

\* Extents that are apart share no block.
LEMMA SeparateBlocks ==
  ASSUME NEW e \in Extents, NEW f \in Extents, Separate(e, f)
  PROVE  BlocksOf(e) \cap BlocksOf(f) = {}
<1>1. e.block \in Nat /\ e.size \in Nat \ {0} /\ f.block \in Nat /\ f.size \in Nat \ {0}
  BY DEF Extents
<1>2. QED BY <1>1 DEF Separate, BlocksOf

\* The blocks of an extent, counted.
LEMMA ExtentCount ==
  ASSUME NEW e \in Extents
  PROVE  IsFiniteSet(BlocksOf(e)) /\ Cardinality(BlocksOf(e)) = e.size /\ BlocksOf(e) # {}
<1>1. e.block \in Nat /\ e.size \in Nat \ {0} BY DEF Extents
<1> DEFINE i == e.block
           j == e.block + e.size - 1
<1>2. i \in Int /\ j \in Int /\ ~(i > j) /\ j - i + 1 = e.size /\ i \in i .. j BY <1>1
<1> HIDE DEF i, j
<1>3. IsFiniteSet(i .. j) /\ Cardinality(i .. j) = IF i > j THEN 0 ELSE j - i + 1
  BY <1>2, FS_Interval
<1>4. IsFiniteSet(i .. j) /\ Cardinality(i .. j) = e.size /\ i .. j # {} BY <1>2, <1>3
<1>5. QED BY <1>4 DEF BlocksOf, i, j

\* Blocks below the end of the file are finitely many.
LEMMA Few ==
  ASSUME NEW n \in Nat, NEW S, S \subseteq 0 .. n - 1
  PROVE  IsFiniteSet(S)
<1>1. IsFiniteSet(0 .. n - 1) BY FS_Interval
<1>2. QED BY <1>1, FS_Subset

\* Sets without a common element, counted.
LEMMA DisjointCount ==
  ASSUME NEW S, NEW T, IsFiniteSet(S), IsFiniteSet(T), S \cap T = {}
  PROVE  /\ Cardinality(S \cup T) = Cardinality(S) + Cardinality(T)
         /\ Cardinality(S) \in Nat /\ Cardinality(T) \in Nat
<1>1. /\ IsFiniteSet(S \cup T)
      /\ Cardinality(S \cup T) = Cardinality(S) + Cardinality(T) - Cardinality(S \cap T)
  BY FS_Union
<1>2. Cardinality(S \cap T) = 0 BY FS_EmptySet
<1>3. Cardinality(S) \in Nat /\ Cardinality(T) \in Nat BY FS_CardinalityType
<1>4. QED BY <1>1, <1>2, <1>3

\* An extent leaves the free space with its blocks.
LEMMA CoverWithout ==
  ASSUME NEW X \in SUBSET Extents, NEW e \in X, \A f \in X : f = e \/ Separate(e, f)
  PROVE  /\ Cover(X \ {e}) = Cover(X) \ BlocksOf(e)
         /\ BlocksOf(e) \subseteq Cover(X)
<1>1. \A f \in X : f # e => BlocksOf(e) \cap BlocksOf(f) = {} BY SeparateBlocks
<1>2. QED BY <1>1 DEF Cover

\* One extent more.
LEMMA CoverWith ==
  ASSUME NEW X, NEW e
  PROVE  Cover(X \cup {e}) = Cover(X) \cup BlocksOf(e)
BY DEF Cover

\* allocate_extent: the extent is not free any more, and there is no less metadata.
LEMMA ExtentAllocated ==
  ASSUME NEW a, Sound(a), NEW e \in a.extents, NEW b \in AllocateExtent(a, e)
  PROVE  /\ Sound(b) /\ SameBlocks(a, b)
         /\ Cover(b.extents) = Cover(a.extents) \ BlocksOf(e)
         /\ b.extents = a.extents \ {e}
         /\ b.meta_free >= a.meta_free /\ RequiredFree(b) <= RequiredFree(a)
<1>1. /\ a \in Allocators /\ e \in Extents /\ a.extents \in SUBSET Extents
      /\ a.engine \in Nat /\ a.data_free \in Int /\ a.meta_free \in Int
  BY DEF Sound, Allocators
<1>2. PICK c \in Without(a, e) : b = [c EXCEPT !.data_free = @ - e.size] BY DEF AllocateExtent
<1>3. Shrunk(a, c) /\ c.extents = a.extents \ {e} BY <1>1, ExtentErased
<1>4. c \in Allocators /\ c.data_free \in Int /\ e.size \in Nat BY <1>1, <1>3 DEF Shrunk, Allocators, Extents
<1>5. /\ b \in Allocators /\ b.data_free = c.data_free - e.size
      /\ b.engine = c.engine /\ b.extents = c.extents /\ b.pos = c.pos /\ b.size = c.size
      /\ b.meta = c.meta /\ b.meta_total = c.meta_total /\ b.meta_free = c.meta_free
      /\ b.data_total = c.data_total /\ b.region = c.region /\ b.short = c.short
  BY <1>2, <1>4 DEF Allocators
<1>6. SameBlocks(a, b) /\ Balance(b) = Balance(a) /\ b.short = a.short
  BY <1>3, <1>5 DEF Shrunk, SameBlocks, Balance
<1>7. b.meta_free >= a.meta_free /\ RequiredFree(b) <= RequiredFree(a)
  BY <1>3, <1>5 DEF Shrunk, RequiredFree
<1>8. /\ Cover(b.extents) = Cover(a.extents) \ BlocksOf(e) /\ BlocksOf(e) \subseteq Cover(a.extents)
  <2>1. \A f \in a.extents : f = e \/ Separate(e, f) BY DEF Sound
  <2>2. /\ Cover(a.extents \ {e}) = Cover(a.extents) \ BlocksOf(e)
        /\ BlocksOf(e) \subseteq Cover(a.extents)
    BY <1>1, <2>1, CoverWithout
  <2>3. QED BY <1>3, <1>5, <2>2
<1>9. b.data_free = Cardinality(Cover(b.extents))
  <2> DEFINE S == Cover(a.extents)
             T == BlocksOf(e)
  <2>1. IsFiniteSet(S \ T) BY <1>1, Few DEF Sound
  <2>2. IsFiniteSet(T) /\ Cardinality(T) = e.size BY <1>1, ExtentCount
  <2>3. (S \ T) \cap T = {} /\ (S \ T) \cup T = S BY <1>8
  <2>4. a.data_free = Cardinality(S) BY DEF Sound
  <2>5. c.data_free = a.data_free BY <1>3 DEF Shrunk
  <2> HIDE DEF S, T
  <2>6. Cardinality((S \ T) \cup T) = Cardinality(S \ T) + Cardinality(T) /\ Cardinality(S \ T) \in Nat
    BY <2>1, <2>2, <2>3, DisjointCount
  <2>7. Cardinality(S \ T) = a.data_free - e.size
    <3>1. a.data_free = Cardinality(S \ T) + e.size BY <2>2, <2>3, <2>4, <2>6
    <3>2. QED BY <1>4, <2>6, <3>1
  <2>8. QED BY <1>5, <1>8, <2>5, <2>7 DEF S, T
<1>10. IsFiniteSet(b.extents) BY <1>3, <1>5, FS_Subset DEF Sound
<1>11. \A f, g \in b.extents : f = g \/ Separate(f, g) BY <1>3, <1>5 DEF Sound
<1>12. /\ Cover(b.extents) \subseteq 0 .. b.engine - 1 /\ b.meta \subseteq 0 .. b.engine - 1
       /\ Cover(b.extents) \cap b.meta = {} /\ b.meta_total = Cardinality(b.meta)
  BY <1>6, <1>8 DEF Sound, SameBlocks
<1>13. /\ b.meta_free + b.pos.nodes + b.size.nodes = b.meta_total
       /\ b.meta_free >= 0 /\ b.short = FALSE
  <2>1. b.meta_free + b.pos.nodes + b.size.nodes = b.meta_total
    BY <1>6 DEF Sound, Balance, SameBlocks
  <2>2. b.meta_free \in Int BY <1>5 DEF Allocators
  <2>3. b.meta_free >= 0 BY <1>1, <1>7, <2>2 DEF Sound
  <2>4. b.short = FALSE BY <1>6 DEF Sound
  <2>5. QED BY <2>1, <2>3, <2>4
<1>14. Sound(b) BY <1>5, <1>9, <1>10, <1>11, <1>12, <1>13 DEF Sound
<1>15. QED BY <1>3, <1>5, <1>6, <1>7, <1>8, <1>14

-----------------------------------------------------------------------------
(* free_internal merges an extent with its neighbours.                       *)

LeftOf(X, e) == { f \in X : Touch(f, e) }
RightOf(X, e) == { f \in X : Touch(e, f) }
Others(X, e) == { f \in X : ~Touch(f, e) /\ ~Touch(e, f) }
Merger(X, e) == Extent(e.block - SizeOf(LeftOf(X, e)),
                       SizeOf(LeftOf(X, e)) + e.size + SizeOf(RightOf(X, e)))

\* An extent has at most one neighbour on each side.
LEMMA Neighbours ==
  ASSUME NEW X \in SUBSET Extents, \A f, g \in X : f = g \/ Separate(f, g), NEW e \in Extents
  PROVE  /\ \A f, g \in LeftOf(X, e) : f = g
         /\ \A f, g \in RightOf(X, e) : f = g
<1>1. ASSUME NEW f \in X PROVE f \in Extents /\ f.block \in Nat /\ f.size \in Nat \ {0}
  BY DEF Extents
<1>2. e.block \in Nat /\ e.size \in Nat \ {0} BY DEF Extents
<1>3. ASSUME NEW f \in X, NEW g \in X, Touch(f, e), Touch(g, e) PROVE f = g
  BY <1>1, <1>2, <1>3 DEF Touch, Separate
<1>4. ASSUME NEW f \in X, NEW g \in X, Touch(e, f), Touch(e, g) PROVE f = g
  BY <1>1, <1>2, <1>4 DEF Touch, Separate
<1>5. QED BY <1>3, <1>4 DEF LeftOf, RightOf

\* S holds at most one extent, and n blocks from `first' on.
Side(X, S, first, n) ==
  /\ first \in Nat /\ n \in Nat
  /\ Cover(S) = first .. first + n - 1
  /\ n > 0 => \E f \in X : f.block = first /\ f.size = n /\ S = {f}
  /\ n = 0 => S = {}

\* The neighbour on one side, if there is one.
LEMMA OneSide ==
  ASSUME NEW X \in SUBSET Extents, NEW S \in SUBSET X, \A f, g \in S : f = g,
         NEW first \in Nat, \A f \in S : f.block = first
  PROVE  Side(X, S, first, SizeOf(S))
<1>1. CASE S = {}
  <2>1. SizeOf(S) = 0 /\ Cover(S) = {} BY <1>1 DEF SizeOf, Cover
  <2> DEFINE n == SizeOf(S)
  <2>2. n = 0 BY <2>1
  <2> HIDE DEF n
  <2>3. first .. first + n - 1 = {} BY <2>2
  <2>4. Side(X, S, first, n) BY <1>1, <2>1, <2>2, <2>3 DEF Side
  <2>5. QED BY <2>4 DEF n
<1>2. CASE S # {}
  <2> DEFINE f == CHOOSE g \in S : TRUE
  <2>1. f \in S BY <1>2
  <2>2. SizeOf(S) = f.size BY <1>2 DEF SizeOf
  <2> HIDE DEF f
  <2>3. S = {f} /\ f \in X /\ f.block = first BY <2>1
  <2>4. f.size \in Nat \ {0} BY <2>3 DEF Extents
  <2>5. Cover(S) = f.block .. f.block + f.size - 1 BY <2>3 DEF Cover, BlocksOf
  <2>6. QED BY <2>2, <2>3, <2>4, <2>5 DEF Side
<1>3. QED BY <1>1, <1>2

\* The blocks that the left neighbour adds.
LEMMA LeftSide ==
  ASSUME NEW X \in SUBSET Extents, \A f, g \in X : f = g \/ Separate(f, g), NEW e \in Extents
  PROVE  LET S == LeftOf(X, e) IN Side(X, S, e.block - SizeOf(S), SizeOf(S))
<1> DEFINE S == LeftOf(X, e)
<1>1. \A f, g \in S : f = g BY Neighbours
<1>2. S \in SUBSET X BY DEF LeftOf
<1>3. e.block \in Nat BY DEF Extents
<1>4. CASE S = {}
  <2>1. SizeOf(S) = 0 /\ e.block - 0 = e.block BY <1>3, <1>4 DEF SizeOf
  <2>2. Side(X, S, e.block, SizeOf(S)) BY <1>1, <1>2, <1>3, <1>4, OneSide
  <2>3. QED BY <2>1, <2>2
<1>5. CASE S # {}
  <2>1. PICK f \in S : S = {f} BY <1>1, <1>5
  <2>2. f.block \in Nat /\ f.size \in Nat /\ f.block + f.size = e.block BY <1>2, <2>1 DEF LeftOf, Touch, Extents
  <2>3. SizeOf(S) = f.size BY <2>1 DEF SizeOf
  <2>4. f.block = e.block - SizeOf(S) BY <1>3, <2>2, <2>3
  <2>5. Side(X, S, f.block, SizeOf(S)) BY <1>1, <1>2, <2>1, <2>2, OneSide
  <2>6. QED BY <2>4, <2>5
<1>6. QED BY <1>4, <1>5

\* The blocks that the right neighbour adds.
LEMMA RightSide ==
  ASSUME NEW X \in SUBSET Extents, \A f, g \in X : f = g \/ Separate(f, g), NEW e \in Extents
  PROVE  LET S == RightOf(X, e) IN Side(X, S, e.block + e.size, SizeOf(S))
<1> DEFINE S == RightOf(X, e)
<1>1. \A f, g \in S : f = g BY Neighbours
<1>2. S \in SUBSET X BY DEF RightOf
<1>3. e.block + e.size \in Nat BY DEF Extents
<1>4. \A f \in S : f.block = e.block + e.size BY DEF RightOf, Touch
<1>5. QED BY <1>1, <1>2, <1>3, <1>4, OneSide

\* The merged extent covers the extent and its neighbours, and nothing touches it.
LEMMA MergerFits ==
  ASSUME NEW X \in SUBSET Extents, \A f, g \in X : f = g \/ Separate(f, g), NEW e \in Extents,
         BlocksOf(e) \cap Cover(X) = {}
  PROVE  /\ Merger(X, e) \in Extents
         /\ BlocksOf(Merger(X, e)) \cup Cover(Others(X, e)) = Cover(X) \cup BlocksOf(e)
         /\ \A f \in Others(X, e) : Separate(Merger(X, e), f)
         /\ Dropped(Dropped(X, RightOf(X, e)), LeftOf(X, e)) = Others(X, e)
<1> DEFINE k == SizeOf(LeftOf(X, e))
           n == SizeOf(RightOf(X, e))
           m == Merger(X, e)
           end == e.block + e.size
<1>1. e.block \in Nat /\ e.size \in Nat \ {0} /\ end \in Nat BY DEF Extents
<1>2. /\ k \in Nat /\ k <= e.block /\ Cover(LeftOf(X, e)) = e.block - k .. e.block - 1
      /\ k > 0 => \E f \in X : f.block = e.block - k /\ f.size = k /\ LeftOf(X, e) = {f}
      /\ k = 0 => LeftOf(X, e) = {}
  <2>1. Side(X, LeftOf(X, e), e.block - k, k) BY LeftSide
  <2>2. e.block - k \in Nat /\ k \in Nat /\ (e.block - k) + k - 1 = e.block - 1 BY <1>1, <2>1 DEF Side
  <2>3. k <= e.block BY <1>1, <2>2
  <2> HIDE DEF k
  <2>4. QED BY <2>1, <2>2, <2>3 DEF Side
<1>3. /\ n \in Nat /\ Cover(RightOf(X, e)) = end .. end + n - 1
      /\ n > 0 => \E f \in X : f.block = end /\ f.size = n /\ RightOf(X, e) = {f}
      /\ n = 0 => RightOf(X, e) = {}
  <2>1. Side(X, RightOf(X, e), end, n) BY RightSide
  <2> HIDE DEF n, end
  <2>2. QED BY <2>1 DEF Side
<1>4. m = Extent(e.block - k, k + e.size + n) BY DEF Merger
<1> HIDE DEF k, n, m, end
<1>a. k \in Nat /\ k <= e.block /\ n \in Nat BY <1>2, <1>3
<1>5. e.block - k \in Nat /\ k + e.size + n \in Nat \ {0} BY <1>1, <1>a
<1>6. m \in Extents /\ m.block = e.block - k /\ m.size = k + e.size + n BY <1>4, <1>5, ExtentTyped
<1>7. BlocksOf(m) = Cover(LeftOf(X, e)) \cup BlocksOf(e) \cup Cover(RightOf(X, e))
  <2>1. BlocksOf(m) = e.block - k .. end + n - 1
    <3>1. (e.block - k) + (k + e.size + n) - 1 = end + n - 1 BY <1>1, <1>a DEF end
    <3>2. QED BY <1>6, <3>1 DEF BlocksOf
  <2>2. BlocksOf(e) = e.block .. end - 1
    <3>1. e.block + e.size - 1 = end - 1 BY <1>1 DEF end
    <3>2. QED BY <3>1 DEF BlocksOf
  <2>3. e.block < end BY <1>1 DEF end
  <2>4. e.block - k .. end + n - 1 = (e.block - k .. e.block - 1) \cup (e.block .. end - 1) \cup (end .. end + n - 1)
    BY <1>1, <1>a, <2>3
  <2>5. QED BY <1>2, <1>3, <2>1, <2>2, <2>4
<1>8. X = LeftOf(X, e) \cup RightOf(X, e) \cup Others(X, e) BY DEF LeftOf, RightOf, Others
<1>9. Cover(X) = Cover(LeftOf(X, e)) \cup Cover(RightOf(X, e)) \cup Cover(Others(X, e))
  BY <1>8 DEF Cover
<1>10. ASSUME NEW f \in Others(X, e) PROVE Separate(m, f)
  <2>1. f \in X /\ f \in Extents /\ ~Touch(f, e) /\ ~Touch(e, f) /\ f.block \in Nat /\ f.size \in Nat \ {0}
    BY DEF Others, Extents
  <2>2. BlocksOf(e) \cap BlocksOf(f) = {} BY <2>1 DEF Cover
  <2>3. e.block + e.size <= f.block \/ f.block + f.size <= e.block BY <2>1, <2>2, Disjoint
  <2>4. e.block + e.size < f.block \/ f.block + f.size < e.block BY <1>1, <2>1, <2>3 DEF Touch
  <2>5. CASE e.block + e.size < f.block
    <3>1. end + n < f.block
      <4>1. CASE n = 0 BY <1>1, <2>1, <2>5, <4>1 DEF end
      <4>2. CASE n > 0
        <5>1. PICK r \in X : r.block = end /\ r.size = n /\ RightOf(X, e) = {r} BY <1>3, <4>2
        <5>2. r # f BY <2>1, <5>1 DEF RightOf
        <5>3. Separate(r, f) BY <2>1, <5>2
        <5>4. QED BY <1>1, <1>a, <2>1, <2>5, <5>1, <5>3 DEF Separate, end
      <4>3. QED BY <1>a, <4>1, <4>2
    <3>2. m.block + m.size = end + n BY <1>1, <1>a, <1>6 DEF end
    <3>3. QED BY <3>1, <3>2 DEF Separate
  <2>6. CASE f.block + f.size < e.block
    <3>1. f.block + f.size < e.block - k
      <4>1. CASE k = 0 BY <1>1, <2>1, <2>6, <4>1
      <4>2. CASE k > 0
        <5>1. PICK r \in X : r.block = e.block - k /\ r.size = k /\ LeftOf(X, e) = {r} BY <1>2, <4>2
        <5>2. r # f BY <2>1, <5>1 DEF LeftOf
        <5>3. Separate(r, f) BY <2>1, <5>2
        <5>4. QED BY <1>1, <1>a, <2>1, <2>6, <5>1, <5>3 DEF Separate
      <4>3. QED BY <1>a, <4>1, <4>2
    <3>2. QED BY <1>6, <3>1 DEF Separate
  <2>7. QED BY <2>4, <2>5, <2>6
<1>11. Dropped(Dropped(X, RightOf(X, e)), LeftOf(X, e)) = Others(X, e)
  <2>1. \A S \in {LeftOf(X, e), RightOf(X, e)} : \A Y : Dropped(Y, S) = Y \ S
    BY Neighbours DEF Dropped
  <2>2. QED BY <1>8, <2>1 DEF Others, LeftOf, RightOf
<1>12. QED BY <1>6, <1>7, <1>9, <1>10, <1>11 DEF m

\* b is w with another number of free blocks.
DataSet(w, b, free) ==
  /\ b \in Allocators /\ b.data_free = free
  /\ b.engine = w.engine /\ b.extents = w.extents /\ b.pos = w.pos /\ b.size = w.size
  /\ b.meta = w.meta /\ b.meta_total = w.meta_total /\ b.meta_free = w.meta_free
  /\ b.data_total = w.data_total /\ b.region = w.region /\ b.short = FALSE

\* The end of free_internal.
LEMMA DataFreed ==
  ASSUME NEW w \in Allocators, NEW n \in Int, w.data_free + n \in Int,
         NEW b, b = [w EXCEPT !.data_free = w.data_free + n, !.short = FALSE]
  PROVE  DataSet(w, b, w.data_free + n)
<1>1. b \in Allocators BY DEF Allocators
<1>2. QED BY <1>1 DEF Allocators, DataSet

\* free_internal: the blocks of the extent become free blocks, and the trees have had
\* the nodes they needed.
LEMMA ExtentFreed ==
  ASSUME NEW a, Sound(a), Ready(a), NEW e \in Extents, BlocksOf(e) \subseteq 0 .. a.engine - 1,
         BlocksOf(e) \cap Cover(a.extents) = {}, BlocksOf(e) \cap a.meta = {},
         NEW b \in FreeInternal(a, e)
  PROVE  Sound(b) /\ SameBlocks(a, b) /\ Cover(b.extents) = Cover(a.extents) \cup BlocksOf(e)
<1> DEFINE X == a.extents
           m == Merger(X, e)
<1>1. /\ a \in Allocators /\ X \in SUBSET Extents /\ a.engine \in Nat
      /\ a.data_free \in Int /\ a.meta_free \in Int
      /\ \A f, g \in X : f = g \/ Separate(f, g)
  BY DEF Sound, Allocators
<1>2. /\ m \in Extents
      /\ BlocksOf(m) \cup Cover(Others(X, e)) = Cover(X) \cup BlocksOf(e)
      /\ \A f \in Others(X, e) : Separate(m, f)
      /\ Dropped(Dropped(X, RightOf(X, e)), LeftOf(X, e)) = Others(X, e)
  BY <1>1, MergerFits
<1> DEFINE after(w) == [w EXCEPT !.data_free = @ + e.size, !.short = @ \/ a.meta_free < RequiredFree(a)]
           E == Erased(Erased({a}, RightOf(X, e)), LeftOf(X, e))
<1>a. PICK c \in E : \E w \in With(c, m) : b = after(w)
  <2> DEFINE U == UNION { With(c, m) : c \in E }
  <2>1. FreeInternal(a, e) = { after(w) : w \in U } BY DEF FreeInternal, LeftOf, RightOf, Merger
  <2> HIDE DEF after, E, m
  <2>2. PICK w \in U : b = after(w) BY <2>1
  <2>3. PICK c \in E : w \in With(c, m) BY <2>2
  <2>4. QED BY <2>2, <2>3
<1>3. PICK w \in With(c, m) :
        b = [w EXCEPT !.data_free = @ + e.size, !.short = @ \/ a.meta_free < RequiredFree(a)]
  BY <1>a
<1>4. PICK d \in Erased({a}, RightOf(X, e)) : c \in Erased({d}, LeftOf(X, e)) BY DEF Erased
<1>5. Shrunk(a, d) /\ d.extents = Dropped(X, RightOf(X, e))
  BY <1>1, NeighbourErased
<1>6. Shrunk(d, c) /\ c.extents = Dropped(d.extents, LeftOf(X, e))
  <2>1. d \in Allocators BY <1>5 DEF Shrunk
  <2>2. QED BY <1>4, <2>1, NeighbourErased
<1>7. c.extents = Others(X, e) BY <1>2, <1>5, <1>6
<1>8. Shrunk(a, c) /\ c \in Allocators
  <2>1. Shrunk(a, c) BY <1>1, <1>5, <1>6, ShrunkTwice
  <2>2. QED BY <2>1 DEF Shrunk
<1> HIDE DEF m, X
<1>9. Ready(c)
  <2>1. c.meta_free \in Int /\ RequiredFree(c) \in Int /\ RequiredFree(a) \in Int
    BY <1>1, <1>8 DEF Allocators, Trees, RequiredFree
  <2>2. QED BY <1>1, <1>8, <2>1 DEF Ready, Shrunk
<1>10. /\ w \in Allocators /\ SameBlocks(c, w) /\ Balance(w) = Balance(c)
       /\ w.data_free = c.data_free /\ w.short = c.short
       /\ w.meta_free >= 0 /\ w.extents = c.extents \cup {m}
  BY <1>2, <1>8, <1>9, ExtentInserted
<1>11. e.size \in Nat /\ w.data_free \in Int BY <1>10 DEF Allocators, Extents
<1>12. (a.meta_free < RequiredFree(a)) = FALSE
  <2>1. RequiredFree(a) \in Int BY <1>1 DEF Allocators, Trees, RequiredFree
  <2>2. QED BY <1>1, <2>1 DEF Ready
<1>13. w.short = FALSE BY <1>8, <1>10 DEF Shrunk, Sound
<1>14. b = [w EXCEPT !.data_free = w.data_free + e.size, !.short = FALSE] BY <1>3, <1>12, <1>13
<1> HIDE DEF after, E
<1>15. /\ b \in Allocators /\ b.data_free = w.data_free + e.size
       /\ b.engine = w.engine /\ b.extents = w.extents /\ b.pos = w.pos /\ b.size = w.size
       /\ b.meta = w.meta /\ b.meta_total = w.meta_total /\ b.meta_free = w.meta_free
       /\ b.data_total = w.data_total /\ b.region = w.region /\ b.short = FALSE
  <2>1. e.size \in Int /\ w.data_free + e.size \in Int BY <1>11
  <2>2. DataSet(w, b, w.data_free + e.size) BY <1>10, <1>14, <2>1, DataFreed
  <2>3. QED BY <2>2 DEF DataSet
<1>16. SameBlocks(a, b) /\ Balance(b) = Balance(a)
  BY <1>8, <1>10, <1>15 DEF Shrunk, SameBlocks, Balance
<1>17. Cover(b.extents) = Cover(X) \cup BlocksOf(e)
  BY <1>2, <1>7, <1>10, <1>15, CoverWith
<1>18. b.data_free = Cardinality(Cover(b.extents))
  <2>1. IsFiniteSet(Cover(X)) BY <1>1, Few DEF Sound, X
  <2>2. IsFiniteSet(BlocksOf(e)) /\ Cardinality(BlocksOf(e)) = e.size BY ExtentCount
  <2>3. Cardinality(Cover(X) \cup BlocksOf(e)) = Cardinality(Cover(X)) + Cardinality(BlocksOf(e))
    BY <2>1, <2>2, DisjointCount DEF X
  <2>4. a.data_free = Cardinality(Cover(X)) BY DEF Sound, X
  <2>5. w.data_free = a.data_free BY <1>8, <1>10 DEF Shrunk
  <2>6. QED BY <1>15, <1>17, <2>2, <2>3, <2>4, <2>5
<1>19. IsFiniteSet(b.extents)
  <2>1. IsFiniteSet(X) BY DEF Sound, X
  <2>2. IsFiniteSet(Others(X, e)) BY <2>1, FS_Subset DEF Others
  <2>3. IsFiniteSet(Others(X, e) \cup {m}) BY <2>2, FS_AddElement
  <2>4. QED BY <1>7, <1>10, <1>15, <2>3
<1>20. \A f, g \in b.extents : f = g \/ Separate(f, g)
  <2>1. b.extents = Others(X, e) \cup {m} BY <1>7, <1>10, <1>15
  <2>2. \A f, g \in Others(X, e) : f = g \/ Separate(f, g) BY <1>1 DEF Others
  <2>3. \A f \in Others(X, e) : Separate(m, f) /\ Separate(f, m) BY <1>2 DEF Separate
  <2>4. QED BY <2>1, <2>2, <2>3
<1>21. /\ Cover(b.extents) \subseteq 0 .. b.engine - 1 /\ b.meta \subseteq 0 .. b.engine - 1
       /\ Cover(b.extents) \cap b.meta = {} /\ b.meta_total = Cardinality(b.meta)
  BY <1>16, <1>17 DEF Sound, SameBlocks, X
<1>22. /\ b.meta_free + b.pos.nodes + b.size.nodes = b.meta_total
       /\ b.meta_free >= 0 /\ b.short = FALSE
  BY <1>10, <1>15, <1>16 DEF Sound, Balance, SameBlocks
<1>23. Sound(b) BY <1>15, <1>18, <1>19, <1>20, <1>21, <1>22 DEF Sound
<1>24. QED BY <1>16, <1>17, <1>23 DEF X

\* What a step does that hands blocks to the free list or takes some from there: the
\* blocks stay the allocator's.
Kin(a, b) == b.engine = a.engine /\ b.data_total = a.data_total /\ b.region = a.region

\* b is a with other metadata blocks.
MetaSet(a, b, M, free, total) ==
  /\ b \in Allocators /\ b.meta = M /\ b.meta_free = free /\ b.meta_total = total
  /\ b.engine = a.engine /\ b.extents = a.extents /\ b.pos = a.pos /\ b.size = a.size
  /\ b.data_free = a.data_free /\ b.data_total = a.data_total /\ b.region = a.region
  /\ b.short = a.short

WithMeta(a, M, free, total) == [a EXCEPT !.meta = M, !.meta_free = free, !.meta_total = total]

\* Metadata blocks come or go: the rest of the state is as it was.
LEMMA MetaChanged ==
  ASSUME NEW a \in Allocators, NEW M \in SUBSET Nat, NEW free \in Int, NEW total \in Int
  PROVE  MetaSet(a, WithMeta(a, M, free, total), M, free, total)
BY DEF WithMeta, MetaSet, Allocators

\* take_metadata
LEMMA MetadataTaken ==
  ASSUME NEW a, Sound(a), NEW e \in Extents, NEW take \in 0 .. e.size,
         BlocksOf(e) \subseteq 0 .. a.engine - 1,
         BlocksOf(e) \cap Cover(a.extents) = {}, BlocksOf(e) \cap a.meta = {}
  PROVE  LET b == TakeMetadata(a, e, take)
             T == e.block .. e.block + take - 1
         IN  /\ Sound(b) /\ Kin(a, b) /\ b.extents = a.extents /\ b.meta = a.meta \cup T
             /\ T \subseteq BlocksOf(e) /\ RequiredFree(b) = RequiredFree(a)
             /\ b.meta_free = a.meta_free + take
<1> DEFINE b == TakeMetadata(a, e, take)
           T == e.block .. e.block + take - 1
<1>1. /\ a \in Allocators /\ a.meta \in SUBSET Nat /\ a.meta_free \in Int /\ a.meta_total \in Int
      /\ a.pos \in Trees /\ a.size \in Trees /\ a.engine \in Nat
  BY DEF Sound, Allocators
<1>2. e.block \in Nat /\ e.size \in Nat \ {0} /\ take \in Nat /\ take <= e.size BY DEF Extents
<1>3. T \subseteq BlocksOf(e) /\ T \subseteq Nat BY <1>2 DEF BlocksOf
<1>4. IsFiniteSet(T) /\ Cardinality(T) = take
  <2> DEFINE i == e.block
             j == e.block + take - 1
  <2>1. i \in Int /\ j \in Int /\ (IF i > j THEN 0 ELSE j - i + 1) = take BY <1>2
  <2> HIDE DEF i, j
  <2>2. IsFiniteSet(i .. j) /\ Cardinality(i .. j) = IF i > j THEN 0 ELSE j - i + 1
    BY <2>1, FS_Interval
  <2>3. QED BY <2>1, <2>2 DEF i, j
<1>5. a.meta \cup T \in SUBSET Nat BY <1>1, <1>3
<1>6. b = WithMeta(a, a.meta \cup T, a.meta_free + take, a.meta_total + take)
  BY DEF TakeMetadata, WithMeta
<1> HIDE DEF b, T
<1>7. /\ b \in Allocators /\ b.meta = a.meta \cup T /\ b.meta_free = a.meta_free + take
      /\ b.meta_total = a.meta_total + take
      /\ b.engine = a.engine /\ b.extents = a.extents /\ b.pos = a.pos /\ b.size = a.size
      /\ b.data_free = a.data_free /\ b.data_total = a.data_total /\ b.region = a.region
      /\ b.short = a.short
  <2>1. a.meta_free + take \in Int /\ a.meta_total + take \in Int BY <1>1, <1>2
  <2>2. MetaSet(a, b, a.meta \cup T, a.meta_free + take, a.meta_total + take)
    BY <1>1, <1>5, <1>6, <2>1, MetaChanged
  <2>3. QED BY <2>2 DEF MetaSet
<1>8. b.meta_total = Cardinality(b.meta)
  <2>1. IsFiniteSet(a.meta) BY <1>1, Few DEF Sound
  <2>2. a.meta \cap T = {} BY <1>3
  <2>3. Cardinality(a.meta \cup T) = Cardinality(a.meta) + Cardinality(T) BY <1>4, <2>1, <2>2, DisjointCount
  <2>4. QED BY <1>4, <1>7, <2>3 DEF Sound
<1>9. b.meta_free + b.pos.nodes + b.size.nodes = b.meta_total /\ b.meta_free >= 0
  <2>1. a.pos.nodes \in Int /\ a.size.nodes \in Int BY <1>1 DEF Trees
  <2>2. a.meta_free + a.pos.nodes + a.size.nodes = a.meta_total /\ a.meta_free >= 0 BY DEF Sound
  <2>3. QED BY <1>1, <1>2, <1>7, <2>1, <2>2
<1>10. b.meta \subseteq 0 .. b.engine - 1 /\ Cover(b.extents) \cap b.meta = {}
  BY <1>3, <1>7 DEF Sound
<1>11. Sound(b) BY <1>7, <1>8, <1>9, <1>10 DEF Sound
<1>12. QED BY <1>3, <1>7, <1>11 DEF Kin, RequiredFree, b, T

\* An interval, cut in two.
LEMMA Split ==
  ASSUME NEW i \in Int, NEW j \in Int, NEW k \in Int, i <= j, j <= k
  PROVE  /\ i .. k - 1 = (i .. j - 1) \cup (j .. k - 1)
         /\ (i .. j - 1) \cap (j .. k - 1) = {}
OBVIOUS

\* take_metadata and free_internal together: an extent becomes free or metadata.  The
\* number of blocks needed may have been found out before the trees shrank.
LEMMA ExtentPut ==
  ASSUME NEW a, Sound(a), NEW e \in Extents, BlocksOf(e) \subseteq 0 .. a.engine - 1,
         BlocksOf(e) \cap Cover(a.extents) = {}, BlocksOf(e) \cap a.meta = {},
         NEW needed \in Nat, a.meta_free + needed >= RequiredFree(a), NEW b \in Put(a, e, needed)
  PROVE  /\ Sound(b) /\ Kin(a, b)
         /\ Cover(b.extents) \cup b.meta = Cover(a.extents) \cup a.meta \cup BlocksOf(e)
<1>1. e.block \in Nat /\ e.size \in Nat \ {0} BY DEF Extents
<1> DEFINE take == Min({needed, e.size})
           c == TakeMetadata(a, e, take)
           T == e.block .. e.block + take - 1
<1>2. take \in {needed, e.size} /\ take <= needed /\ take <= e.size
  <2>1. needed \in Int /\ e.size \in Int BY <1>1
  <2>2. QED BY <2>1, MinOfTwo
<1>3. b \in IF take = e.size THEN {c} ELSE FreeInternal(c, Extent(e.block + take, e.size - take))
  BY DEF Put
<1> HIDE DEF take
<1>4. /\ a \in Allocators /\ a.meta \in SUBSET Nat /\ a.meta_free \in Int /\ a.meta_total \in Int
      /\ a.engine \in Nat /\ RequiredFree(a) \in Int
  BY DEF Sound, Allocators, RequiredFree, Trees
<1>5. /\ Sound(c) /\ Kin(a, c) /\ c.extents = a.extents /\ c.meta = a.meta \cup T
      /\ T \subseteq BlocksOf(e) /\ RequiredFree(c) = RequiredFree(a)
      /\ c.meta_free = a.meta_free + take
  <2>1. take \in 0 .. e.size BY <1>1, <1>2
  <2>2. QED BY <2>1, MetadataTaken
<1> HIDE DEF c
<1>6. CASE take = e.size
  <2>1. b = c BY <1>3, <1>6
  <2>2. T = BlocksOf(e) BY <1>6 DEF BlocksOf
  <2>3. QED BY <1>5, <2>1, <2>2
<1>7. CASE take # e.size
  <2> DEFINE f == Extent(e.block + take, e.size - take)
  <2>1. take = needed /\ take \in Nat /\ take < e.size BY <1>1, <1>2, <1>7
  <2>2. e.block + take \in Nat /\ e.size - take \in Nat \ {0} BY <1>1, <2>1
  <2>3. f \in Extents /\ f.block = e.block + take /\ f.size = e.size - take BY <2>2, ExtentTyped
  <2>4. BlocksOf(e) = T \cup BlocksOf(f) /\ T \cap BlocksOf(f) = {}
    <3>1. f.block + f.size - 1 = e.block + e.size - 1 BY <1>1, <2>1, <2>3
    <3>2. BlocksOf(f) = e.block + take .. e.block + e.size - 1 BY <2>3, <3>1 DEF BlocksOf
    <3> DEFINE j == e.block + take
               k == e.block + e.size
    <3>3. e.block \in Int /\ j \in Int /\ k \in Int /\ e.block <= j /\ j <= k BY <1>1, <2>1
    <3>4. e.block + e.size - 1 = k - 1 /\ e.block + take - 1 = j - 1 BY <1>1, <2>1
    <3> HIDE DEF j, k
    <3>5. /\ e.block .. k - 1 = (e.block .. j - 1) \cup (j .. k - 1)
          /\ (e.block .. j - 1) \cap (j .. k - 1) = {}
      BY <3>3, Split
    <3>6. BlocksOf(e) = e.block .. k - 1 /\ T = e.block .. j - 1 /\ BlocksOf(f) = j .. k - 1
      BY <3>2, <3>4 DEF BlocksOf, j, k
    <3>7. QED BY <3>5, <3>6
  <2>5. b \in FreeInternal(c, f) BY <1>3, <1>7
  <2> HIDE DEF f, T
  <2>6. /\ BlocksOf(f) \subseteq 0 .. c.engine - 1 /\ BlocksOf(f) \cap Cover(c.extents) = {}
        /\ BlocksOf(f) \cap c.meta = {}
    BY <1>5, <2>4 DEF Kin
  <2>7. Ready(c) BY <1>4, <1>5, <2>1 DEF Ready
  <2>8. Sound(b) /\ SameBlocks(c, b) /\ Cover(b.extents) = Cover(c.extents) \cup BlocksOf(f)
    BY <1>5, <2>3, <2>5, <2>6, <2>7, ExtentFreed
  <2>9. QED BY <1>5, <2>4, <2>8 DEF SameBlocks, Kin
<1>8. QED BY <1>6, <1>7

\* needed_metadata_blocks covers what free_internal requires.
LEMMA NeededBound ==
  ASSUME NEW a \in Allocators
  PROVE  Needed(a) \in Nat /\ a.meta_free + Needed(a) >= RequiredFree(a)
<1>1. a.meta_free \in Int /\ a.meta_total \in Int /\ RequiredFree(a) \in Int
  BY DEF Allocators, Trees, RequiredFree
<1> DEFINE i == RequiredTotalMetaBlocks - a.meta_total
           j == RequiredFree(a) - a.meta_free
           m == Max({0, i, j})
<1>2. i \in Int /\ j \in Int /\ 0 \in Int BY <1>1 DEF RequiredTotalMetaBlocks
<1> HIDE DEF i, j
<1>3. m \in {0, i, j} /\ m >= 0 /\ m >= i /\ m >= j BY <1>2, MaxOfThree
<1>4. m \in Nat BY <1>2, <1>3
<1>5. Needed(a) = m BY DEF Needed, i, j
<1> HIDE DEF m
<1>6. QED BY <1>1, <1>3, <1>4, <1>5 DEF j

\* What the rounds of fix_freelist do: blocks change between free and metadata.
Shuffled(a, b) ==
  /\ Sound(b) /\ Kin(a, b)
  /\ Cover(b.extents) \cup b.meta = Cover(a.extents) \cup a.meta

\* A block leaves the free list.
GivenUp(a, k) == [a EXCEPT !.meta = @ \ {k}, !.meta_free = @ - 1, !.meta_total = @ - 1]

\* A round of the first loop: the block that leaves the free list leaves enough there.
LEMMA Drained ==
  ASSUME NEW a, Sound(a), a.meta_free > RequiredFree(a), NEW k \in a.meta,
         NEW b \in FreeInternal(GivenUp(a, k), Extent(k, 1))
  PROVE  Shuffled(a, b)
<1> DEFINE c == GivenUp(a, k)
           e == Extent(k, 1)
<1>1. /\ a \in Allocators /\ a.meta \in SUBSET Nat /\ a.meta_free \in Int /\ a.meta_total \in Int
      /\ a.engine \in Nat /\ RequiredFree(a) \in Int /\ RequiredFree(a) >= 0
      /\ a.pos.nodes \in Int /\ a.size.nodes \in Int
  BY DEF Sound, Allocators, RequiredFree, Trees
<1>2. c = WithMeta(a, a.meta \ {k}, a.meta_free - 1, a.meta_total - 1) BY DEF GivenUp, WithMeta
<1>3. k \in Nat /\ e \in Extents /\ BlocksOf(e) = {k}
  <2>1. k \in Nat BY <1>1
  <2>2. e \in Extents /\ e.block = k /\ e.size = 1 BY <2>1, ExtentTyped
  <2>3. k .. k + 1 - 1 = {k} BY <2>1
  <2>4. QED BY <2>1, <2>2, <2>3 DEF BlocksOf
<1>4. b \in FreeInternal(c, e) OBVIOUS
<1> HIDE DEF c, e
<1>5. MetaSet(a, c, a.meta \ {k}, a.meta_free - 1, a.meta_total - 1)
  <2>1. a.meta \ {k} \in SUBSET Nat /\ a.meta_free - 1 \in Int /\ a.meta_total - 1 \in Int BY <1>1
  <2>2. QED BY <1>1, <1>2, <2>1, MetaChanged
<1>6. a.meta_total - 1 = Cardinality(a.meta \ {k})
  <2>1. IsFiniteSet(a.meta) BY <1>1, Few DEF Sound
  <2>2. Cardinality(a.meta \ {k}) = Cardinality(a.meta) - 1 BY <2>1, FS_RemoveElement
  <2>3. QED BY <2>2 DEF Sound
<1>7. /\ a.meta_free - 1 >= RequiredFree(a) /\ a.meta_free - 1 >= 0
      /\ (a.meta_free - 1) + a.pos.nodes + a.size.nodes = a.meta_total - 1
  <2>1. a.meta_free + a.pos.nodes + a.size.nodes = a.meta_total BY DEF Sound
  <2>2. QED BY <1>1, <2>1
<1>8. Sound(c) BY <1>5, <1>6, <1>7 DEF Sound, MetaSet
<1>9. Ready(c) BY <1>5, <1>7 DEF Ready, RequiredFree, MetaSet
<1>10. /\ BlocksOf(e) \subseteq 0 .. c.engine - 1 /\ BlocksOf(e) \cap Cover(c.extents) = {}
       /\ BlocksOf(e) \cap c.meta = {}
  BY <1>3, <1>5 DEF Sound, MetaSet
<1>11. Sound(b) /\ SameBlocks(c, b) /\ Cover(b.extents) = Cover(c.extents) \cup BlocksOf(e)
  BY <1>3, <1>4, <1>8, <1>9, <1>10, ExtentFreed
<1>12. QED BY <1>3, <1>5, <1>11 DEF Shuffled, Kin, SameBlocks, MetaSet

\* A round of the second loop.
LEMMA Filled ==
  ASSUME NEW a, Sound(a), NEW e \in a.extents, NEW c \in AllocateExtent(a, e),
         NEW b \in Put(c, e, Needed(a))
  PROVE  Shuffled(a, b)
<1>1. a \in Allocators /\ e \in Extents /\ a.meta_free \in Int /\ RequiredFree(a) \in Int
  BY DEF Sound, Allocators, RequiredFree, Trees
<1>2. /\ Sound(c) /\ SameBlocks(a, c) /\ Cover(c.extents) = Cover(a.extents) \ BlocksOf(e)
      /\ c.meta_free >= a.meta_free /\ RequiredFree(c) <= RequiredFree(a)
  BY ExtentAllocated
<1>3. c.meta_free \in Int /\ RequiredFree(c) \in Int BY <1>2 DEF Sound, Allocators, RequiredFree, Trees
<1>4. Needed(a) \in Nat /\ a.meta_free + Needed(a) >= RequiredFree(a) BY <1>1, NeededBound
<1>5. c.meta_free + Needed(a) >= RequiredFree(c) BY <1>1, <1>2, <1>3, <1>4
<1>6. BlocksOf(e) \subseteq Cover(a.extents) BY DEF Cover
<1>7. /\ BlocksOf(e) \subseteq 0 .. c.engine - 1 /\ BlocksOf(e) \cap Cover(c.extents) = {}
      /\ BlocksOf(e) \cap c.meta = {}
  BY <1>2, <1>6 DEF Sound, SameBlocks
<1>8. /\ Sound(b) /\ Kin(c, b)
      /\ Cover(b.extents) \cup b.meta = Cover(c.extents) \cup c.meta \cup BlocksOf(e)
  BY <1>1, <1>2, <1>4, <1>5, <1>7, ExtentPut
<1>9. QED BY <1>2, <1>6, <1>8 DEF Shuffled, Kin, SameBlocks

\* The first free extent.
LEMMA FrontFound ==
  ASSUME NEW X \in SUBSET Extents, X # {}
  PROVE  (CHOOSE e \in X : \A f \in X : e.block <= f.block) \in X
<1> DEFINE T == { e.block : e \in X }
<1>1. T \in SUBSET Nat /\ T # {} BY DEF Extents
<1>2. PICK m \in T : \A k \in T : m <= k BY <1>1, LeastNumber
<1>3. PICK e \in X : m = e.block BY <1>2
<1>4. \A f \in X : e.block <= f.block BY <1>2, <1>3
<1>5. QED BY <1>4

\* The smallest extent that fits.
LEMMA BestFound ==
  ASSUME NEW X \in SUBSET Extents, X # {}
  PROVE  (CHOOSE e \in X : \A f \in X : e.size < f.size \/ (e.size = f.size /\ e.block <= f.block)) \in X
<1> DEFINE T == { e.size : e \in X }
<1>1. T \in SUBSET Nat /\ T # {} BY DEF Extents
<1>2. PICK m \in T : \A k \in T : m <= k BY <1>1, LeastNumber
<1> DEFINE Y == { e \in X : e.size = m }
           U == { e.block : e \in Y }
<1>3. U \in SUBSET Nat /\ U # {} BY <1>2 DEF Extents
<1>4. PICK n \in U : \A k \in U : n <= k BY <1>3, LeastNumber
<1>5. PICK e \in X : e.size = m /\ e.block = n BY <1>4
<1>6. ASSUME NEW f \in X PROVE e.size < f.size \/ (e.size = f.size /\ e.block <= f.block)
  <2>1. m <= f.size /\ m \in Nat /\ f.size \in Nat BY <1>1, <1>2 DEF Extents
  <2>2. CASE f.size = m
    <3>1. f.block \in U BY <2>2
    <3>2. QED BY <1>4, <1>5, <2>2, <3>1
  <2>3. CASE f.size # m BY <1>5, <2>1, <2>3
  <2>4. QED BY <2>2, <2>3
<1>7. QED BY <1>6

-----------------------------------------------------------------------------
(* The pending steps as a set.                                               *)

\* The elements of a plan.
LEMMA PlanElements ==
  ASSUME NEW s \in Seq(Items)
  PROVE  /\ \A y : y \in PlanOf(s) <=> \E p \in 1 .. Len(s) : s[p] = y /\ ~Fixes(y)
         /\ PlanOf(s) \subseteq Items
BY DEF PlanOf, ToSet

\* No step, no plan.
LEMMA DoesNothing ==
  Does(<< >>, {})
<1>1. << >> \in Seq(Items) /\ Len(<< >>) = 0 /\ DOMAIN << >> = {} OBVIOUS
<1>2. QED BY <1>1 DEF Does, Ordered, PlanOf, ToSet

\* A single step.
LEMMA DoesOne ==
  ASSUME NEW y \in Items
  PROVE  Does(<<y>>, IF Fixes(y) THEN {} ELSE {y})
<1>1. <<y>> \in Seq(Items) /\ Len(<<y>>) = 1 /\ <<y>>[1] = y /\ DOMAIN <<y>> = {1} OBVIOUS
<1>2. Ordered(<<y>>) BY <1>1 DEF Ordered
<1>3. \A z : z \in PlanOf(<<y>>) <=> \E p \in 1 .. 1 : y = z /\ ~Fixes(z)
  BY <1>1, PlanElements
<1>4. QED BY <1>1, <1>2, <1>3 DEF Does

\* One list of steps behind another.
LEMMA DoesBoth ==
  ASSUME NEW c, NEW d, NEW P, NEW Q, Does(c, P), Does(d, Q),
         \A y \in P, z \in Q : Rank(y) < Rank(z)
  PROVE  Does(c \o d, P \cup Q)
<1> DEFINE t == c \o d
           m == Len(c)
           n == Len(d)
<1>1. c \in Seq(Items) /\ d \in Seq(Items) /\ m \in Nat /\ n \in Nat BY DEF Does
<1>2. /\ t \in Seq(Items) /\ Len(t) = m + n /\ DOMAIN t = 1 .. m + n
      /\ DOMAIN c = 1 .. m /\ DOMAIN d = 1 .. n
      /\ \A p \in 1 .. m : t[p] = c[p]
      /\ \A p \in m + 1 .. m + n : t[p] = d[p - m]
  BY <1>1
<1> HIDE DEF t, m, n
<1>3. ASSUME NEW p \in 1 .. m + n
      PROVE  \/ p \in 1 .. m /\ t[p] = c[p]
             \/ p - m \in 1 .. n /\ ~(p \in 1 .. m) /\ t[p] = d[p - m]
  <2>1. CASE p <= m BY <1>1, <1>2, <2>1
  <2>2. CASE ~(p <= m) BY <1>1, <1>2, <2>2
  <2>3. QED BY <2>1, <2>2
<1>4. \A p \in 1 .. m : ~Fixes(c[p]) => c[p] \in P BY <1>2 DEF Does, PlanOf, ToSet
<1>5. \A p \in 1 .. n : ~Fixes(d[p]) => d[p] \in Q BY <1>2 DEF Does, PlanOf, ToSet
<1>6. Ordered(t)
  <2>1. SUFFICES ASSUME NEW p \in 1 .. m + n, NEW q \in 1 .. m + n, p < q, ~Fixes(t[p]), ~Fixes(t[q])
                 PROVE  Rank(t[p]) < Rank(t[q])
    BY <1>2 DEF Ordered
  <2>2. CASE p \in 1 .. m /\ q \in 1 .. m
    <3>1. t[p] = c[p] /\ t[q] = c[q] BY <1>2, <2>2
    <3>2. QED BY <1>2, <2>1, <2>2, <3>1 DEF Does, Ordered
  <2>3. CASE p \in 1 .. m /\ ~(q \in 1 .. m)
    <3>1. t[p] = c[p] /\ q - m \in 1 .. n /\ t[q] = d[q - m] BY <1>2, <1>3, <2>3
    <3>2. QED BY <1>4, <1>5, <2>1, <2>3, <3>1
  <2>4. CASE ~(p \in 1 .. m)
    <3>1. ~(q \in 1 .. m) BY <1>1, <2>1, <2>4
    <3>2. p - m \in 1 .. n /\ q - m \in 1 .. n /\ t[p] = d[p - m] /\ t[q] = d[q - m] /\ p - m < q - m
      BY <1>1, <1>3, <2>1, <2>4, <3>1
    <3>3. QED BY <1>2, <2>1, <3>2 DEF Does, Ordered
  <2>5. QED BY <2>2, <2>3, <2>4
<1>7. PlanOf(t) \subseteq P \cup Q
  <2>1. SUFFICES ASSUME NEW p \in 1 .. m + n, ~Fixes(t[p]) PROVE t[p] \in P \cup Q
    BY <1>2 DEF PlanOf, ToSet
  <2>2. QED BY <1>3, <1>4, <1>5, <2>1
<1>8. P \subseteq PlanOf(t)
  <2>1. SUFFICES ASSUME NEW p \in 1 .. m, ~Fixes(c[p]) PROVE c[p] \in PlanOf(t)
    BY <1>2 DEF Does, PlanOf, ToSet
  <2>2. p \in 1 .. m + n /\ t[p] = c[p] BY <1>1, <1>2
  <2>3. QED BY <1>2, <2>1, <2>2 DEF PlanOf, ToSet
<1>9. Q \subseteq PlanOf(t)
  <2>1. SUFFICES ASSUME NEW p \in 1 .. n, ~Fixes(d[p]) PROVE d[p] \in PlanOf(t)
    BY <1>2 DEF Does, PlanOf, ToSet
  <2>2. p + m \in 1 .. m + n /\ p + m \in m + 1 .. m + n /\ (p + m) - m = p BY <1>1
  <2>3. t[p + m] = d[p] BY <1>2, <2>2
  <2>4. QED BY <1>2, <2>1, <2>2, <2>3 DEF PlanOf, ToSet
<1>10. QED BY <1>2, <1>6, <1>7, <1>8, <1>9 DEF Does, t

\* The first step, and what is left without it.
LEMMA DoesRest ==
  ASSUME NEW s, NEW P, Does(s, P), s # << >>
  PROVE  /\ Head(s) \in Items
         /\ Fixes(Head(s)) => Does(Tail(s), P)
         /\ ~Fixes(Head(s)) => /\ Does(Tail(s), P \ {Head(s)}) /\ Head(s) \in P
                               /\ \A z \in P : z # Head(s) => Rank(Head(s)) < Rank(z)
<1> DEFINE t == Tail(s)
           n == Len(s)
           h == Head(s)
<1>1. s \in Seq(Items) /\ n \in Nat \ {0} BY DEF Does
<1>2. /\ t \in Seq(Items) /\ Len(t) = n - 1 /\ DOMAIN t = 1 .. n - 1 /\ DOMAIN s = 1 .. n
      /\ h = s[1] /\ h \in Items
      /\ \A p \in 1 .. n - 1 : t[p] = s[p + 1]
  BY <1>1
<1>3. ASSUME NEW q \in 1 .. n, q # 1 PROVE q - 1 \in 1 .. n - 1 /\ t[q - 1] = s[q]
  <2>1. q - 1 \in 1 .. n - 1 /\ (q - 1) + 1 = q BY <1>1, <1>3
  <2>2. QED BY <1>2, <2>1
<1> HIDE DEF t, n, h
<1>4. Ordered(t)
  <2>1. SUFFICES ASSUME NEW p \in 1 .. n - 1, NEW q \in 1 .. n - 1, p < q, ~Fixes(t[p]), ~Fixes(t[q])
                 PROVE  Rank(t[p]) < Rank(t[q])
    BY <1>2 DEF Ordered
  <2>2. p + 1 \in 1 .. n /\ q + 1 \in 1 .. n /\ p + 1 < q + 1 BY <1>1, <2>1
  <2>3. t[p] = s[p + 1] /\ t[q] = s[q + 1] BY <1>2
  <2>4. QED BY <1>2, <2>1, <2>2, <2>3 DEF Does, Ordered
<1>5. PlanOf(t) \subseteq P
  <2>1. SUFFICES ASSUME NEW p \in 1 .. n - 1, ~Fixes(t[p]) PROVE t[p] \in P
    BY <1>2 DEF PlanOf, ToSet
  <2>2. p + 1 \in 1 .. n /\ t[p] = s[p + 1] BY <1>1, <1>2
  <2>3. QED BY <1>2, <2>1, <2>2 DEF Does, PlanOf, ToSet
<1>6. \A y \in P : y # h => y \in PlanOf(t)
  <2>1. SUFFICES ASSUME NEW q \in 1 .. n, ~Fixes(s[q]), s[q] # h PROVE s[q] \in PlanOf(t)
    BY <1>2 DEF Does, PlanOf, ToSet
  <2>2. q # 1 BY <1>2, <2>1
  <2>3. q - 1 \in 1 .. n - 1 /\ t[q - 1] = s[q] BY <1>3, <2>2
  <2>4. QED BY <1>2, <2>1, <2>3 DEF PlanOf, ToSet
<1>7. CASE Fixes(h)
  <2>1. h \notin P BY <1>7 DEF Does, PlanOf
  <2>2. QED BY <1>2, <1>4, <1>5, <1>6, <1>7, <2>1 DEF Does, t, h
<1>8. CASE ~Fixes(h)
  <2>1. h \in P BY <1>1, <1>2, <1>8 DEF Does, PlanOf, ToSet
  <2>2. ASSUME NEW q \in 1 .. n, ~Fixes(s[q]), q # 1 PROVE Rank(h) < Rank(s[q])
    <3>1. 1 \in 1 .. n /\ 1 < q BY <1>1, <2>2
    <3>2. QED BY <1>2, <1>8, <2>2, <3>1 DEF Does, Ordered
  <2>3. \A z \in P : z # h => Rank(h) < Rank(z)
    <3>1. SUFFICES ASSUME NEW q \in 1 .. n, ~Fixes(s[q]), s[q] # h PROVE Rank(h) < Rank(s[q])
      BY <1>2 DEF Does, PlanOf, ToSet
    <3>2. q # 1 BY <1>2, <3>1
    <3>3. QED BY <2>2, <3>1, <3>2
  <2>4. h \notin PlanOf(t)
    <3>1. SUFFICES ASSUME NEW p \in 1 .. n - 1, ~Fixes(t[p]), t[p] = h PROVE FALSE
      BY <1>2 DEF PlanOf, ToSet
    <3>2. p + 1 \in 1 .. n /\ p + 1 # 1 /\ t[p] = s[p + 1] BY <1>1, <1>2
    <3>3. Rank(h) < Rank(h) BY <2>2, <3>1, <3>2
    <3>4. Rank(h) \in Int BY DEF Rank
    <3>5. QED BY <3>3, <3>4
  <2>5. QED BY <1>2, <1>4, <1>5, <1>6, <1>8, <2>1, <2>3, <2>4 DEF Does, t, h
<1>9. QED BY <1>2, <1>7, <1>8 DEF h

\* No two pending steps have the same rank.
LEMMA RanksDiffer ==
  ASSUME NEW s, NEW P, Does(s, P), NEW y \in P, NEW z \in P, Rank(y) = Rank(z)
  PROVE  y = z
<1>1. PICK p, q \in DOMAIN s : s[p] = y /\ s[q] = z /\ ~Fixes(y) /\ ~Fixes(z)
  BY DEF Does, PlanOf, ToSet
<1>2. Rank(y) \in Int BY DEF Rank
<1>3. ~(Rank(y) < Rank(z)) /\ ~(Rank(z) < Rank(y)) BY <1>2
<1>4. ~(p < q) /\ ~(q < p) BY <1>1, <1>3 DEF Does, Ordered
<1>5. p \in Int /\ q \in Int BY DEF Does
<1>6. p = q BY <1>4, <1>5
<1>7. QED BY <1>1, <1>6

PutItem(b, n) == [op |-> "put", block |-> b, size |-> n]
MoveItem(b, n) == [op |-> "move", block |-> b, size |-> n]
LazyItem == [op |-> "lazy"]
FitItem(n) == [op |-> "fit", size |-> n]
ReallocateItem(b, n, m) == [op |-> "reallocate", block |-> b, size |-> n, new_size |-> m]
AnchorItem(x, n) == [op |-> "anchor", array |-> x, blocks |-> n]
ResetItem(x) == [op |-> "reset", array |-> x]
WriteItem(x, n) == [op |-> "write", array |-> x, size |-> n]
RegionItem == [op |-> "region"]

\* Each kind of step and its place.
LEMMA ItemRanks ==
  /\ LazyItem \in Items /\ ~Fixes(LazyItem) /\ Rank(LazyItem) = 1
  /\ RegionItem \in Items /\ ~Fixes(RegionItem) /\ Rank(RegionItem) = 4
  /\ \A b \in Nat, n \in Nat \ {0} :
       /\ PutItem(b, n) \in Items /\ ~Fixes(PutItem(b, n)) /\ Rank(PutItem(b, n)) = 1
       /\ MoveItem(b, n) \in Items /\ ~Fixes(MoveItem(b, n)) /\ Rank(MoveItem(b, n)) = 3
       /\ FitItem(n) \in Items /\ ~Fixes(FitItem(n)) /\ Rank(FitItem(n)) = 2
  /\ \A b \in Nat, n, m \in Nat \ {0} :
       /\ ReallocateItem(b, n, m) \in Items /\ ~Fixes(ReallocateItem(b, n, m))
       /\ Rank(ReallocateItem(b, n, m)) = 2
  /\ \A x \in Arrays : ResetItem(x) \in Items /\ ~Fixes(ResetItem(x)) /\ Rank(ResetItem(x)) = 4
  /\ \A x \in Arrays, n \in Nat :
       /\ AnchorItem(x, n) \in Items /\ ~Fixes(AnchorItem(x, n)) /\ Rank(AnchorItem(x, n)) = 4
       /\ WriteItem(x, n) \in Items /\ ~Fixes(WriteItem(x, n)) /\ Rank(WriteItem(x, n)) = 5
BY DEF LazyItem, RegionItem, PutItem, MoveItem, FitItem, ReallocateItem, ResetItem, AnchorItem,
       WriteItem, Items, Fixes, Rank

\* fix_freelist is no part of the plan.
LEMMA FixDoes == Does(FixFreelist, {})
<1> DEFINE d == [op |-> "drain"]
           f == [op |-> "fill"]
<1>1. d \in Items /\ f \in Items /\ Fixes(d) /\ Fixes(f) BY DEF Items, Fixes
<1>2. FixFreelist = <<d>> \o <<f>> BY DEF FixFreelist
<1> HIDE DEF d, f
<1>3. Does(<<d>>, {}) /\ Does(<<f>>, {}) BY <1>1, DoesOne
<1>4. Does(<<d>> \o <<f>>, {} \cup {}) BY <1>3, DoesBoth
<1>5. QED BY <1>2, <1>4

\* What free() has to do.
PutPlan(b, n) == IF n = 0 THEN {} ELSE {PutItem(b, n)}

\* free()
LEMMA FreeDoes ==
  ASSUME NEW b \in Nat, NEW n \in Nat
  PROVE  Does(Free(b, n), PutPlan(b, n))
<1>1. CASE n = 0 BY <1>1, DoesNothing DEF Free, PutPlan
<1>2. CASE n # 0
  <2>1. Free(b, n) = FixFreelist \o <<PutItem(b, n)>> BY <1>2 DEF Free, PutItem
  <2>2. Does(<<PutItem(b, n)>>, {PutItem(b, n)}) BY <1>2, ItemRanks, DoesOne
  <2>3. Does(FixFreelist \o <<PutItem(b, n)>>, {} \cup {PutItem(b, n)}) BY <2>2, FixDoes, DoesBoth
  <2>4. QED BY <1>2, <2>1, <2>3 DEF PutPlan
<1>3. QED BY <1>1, <1>2

\* do_allocate()
LEMMA AllocateDoes ==
  ASSUME NEW n \in Nat \ {0}
  PROVE  Does(Allocate(n), {LazyItem, FitItem(n)})
<1>1. 0 \in Nat /\ Allocate(n) = (<<LazyItem>> \o FixFreelist) \o <<FitItem(n)>>
  BY DEF Allocate, Lazy, LazyItem, FitItem
<1>2. Does(<<LazyItem>>, {LazyItem}) /\ Does(<<FitItem(n)>>, {FitItem(n)}) BY <1>1, ItemRanks, DoesOne
<1>3. Does(<<LazyItem>> \o FixFreelist, {LazyItem} \cup {}) BY <1>2, FixDoes, DoesBoth
<1>4. Rank(LazyItem) < Rank(FitItem(n)) BY <1>1, ItemRanks
<1>5. Does((<<LazyItem>> \o FixFreelist) \o <<FitItem(n)>>, ({LazyItem} \cup {}) \cup {FitItem(n)})
  BY <1>2, <1>3, <1>4, DoesBoth
<1>6. ({LazyItem} \cup {}) \cup {FitItem(n)} = {LazyItem, FitItem(n)} OBVIOUS
<1>7. QED BY <1>1, <1>5, <1>6

\* do_reallocate()
LEMMA ReallocateDoes ==
  ASSUME NEW b \in Nat, NEW n \in Nat \ {0}, NEW m \in Nat \ {0}
  PROVE  Does(Reallocate(b, n, m), {LazyItem, ReallocateItem(b, n, m)})
<1> DEFINE y == ReallocateItem(b, n, m)
<1>1. Reallocate(b, n, m) = <<LazyItem>> \o <<y>> BY DEF Reallocate, Lazy, LazyItem, ReallocateItem
<1>2. y \in Items /\ ~Fixes(y) /\ Rank(LazyItem) < Rank(y) BY ItemRanks
<1> HIDE DEF y
<1>3. Does(<<LazyItem>>, {LazyItem}) /\ Does(<<y>>, {y}) BY <1>2, ItemRanks, DoesOne
<1>4. Does(<<LazyItem>> \o <<y>>, {LazyItem} \cup {y}) BY <1>2, <1>3, DoesBoth
<1>5. {LazyItem} \cup {y} = {LazyItem, y} OBVIOUS
<1>6. QED BY <1>1, <1>4, <1>5 DEF y

\* A step of the plan is done and leaves others in its place.
LEMMA StepPlan ==
  ASSUME Does(todo, Plan), todo # << >>, ~Fixes(Head(todo)), NEW c, NEW Q, Does(c, Q), Then(c),
         \A y \in Q, z \in Plan : z # Head(todo) => Rank(y) < Rank(z)
  PROVE  Does(todo', Plan') /\ Plan' = Q \cup (Plan \ {Head(todo)})
<1>1. Does(Tail(todo), Plan \ {Head(todo)}) BY DoesRest
<1>2. Does(c \o Tail(todo), Q \cup (Plan \ {Head(todo)})) BY <1>1, DoesBoth
<1>3. QED BY <1>2 DEF Then, Does, Plan

\* A loop of fix_freelist is over.
LEMMA FixPlan ==
  ASSUME Does(todo, Plan), todo # << >>, Fixes(Head(todo)), Then(<< >>)
  PROVE  Does(todo', Plan') /\ Plan' = Plan
<1>1. Does(Tail(todo), Plan) BY DoesRest
<1>2. Does(<< >> \o Tail(todo), {} \cup Plan) BY <1>1, DoesNothing, DoesBoth
<1>3. QED BY <1>2 DEF Then, Does, Plan

\* The call is over.
LEMMA DonePlan ==
  ASSUME todo' = << >>
  PROVE  Does(todo', Plan') /\ Plan' = {}
BY DoesNothing DEF Does, Plan

\* The steps that are pending have each a place of their own in the call.
Single(P) == P \subseteq Items /\ \A y, z \in P : Rank(y) = Rank(z) => y = z

\* h is the step to do next.
First(h, P) == h \in P /\ \A z \in P : z # h => Rank(h) < Rank(z)

\* The steps of a list have this property.
LEMMA SinglePlan ==
  ASSUME NEW s, NEW P, Does(s, P)
  PROVE  Single(P)
BY PlanElements, RanksDiffer DEF Does, Single

\* Which steps may be pending behind the first one.
LEMMA BehindFirst ==
  ASSUME NEW P, NEW h, Single(P), First(h, P)
  PROVE  /\ h.op \in {"lazy", "put"} => Doing(P, "put") \subseteq {h} /\ Doing(P, "lazy") \subseteq {h}
         /\ h.op \notin {"lazy", "put"} => Doing(P, "put") = {} /\ Doing(P, "lazy") = {}
         /\ h.op \in {"fit", "reallocate"} => Doing(P, "fit") \subseteq {h} /\ Doing(P, "reallocate") \subseteq {h}
         /\ h.op \in {"move", "anchor", "reset", "region", "write"} => ~Searching(P)
         /\ h.op = "move" => Doing(P, "move") = {h}
         /\ h.op \in {"anchor", "reset", "region", "write"} => Doing(P, "move") = {}
<1>1. \A y : y.op \in {"lazy", "put"} => Rank(y) = 1 BY DEF Rank
<1>2. \A y : y.op \in {"fit", "reallocate"} => Rank(y) = 2 BY DEF Rank
<1>3. \A y : y.op = "move" => Rank(y) = 3 BY DEF Rank
<1>4. \A y : y.op \notin {"lazy", "put"} => Rank(y) >= 2 BY DEF Rank
<1>5. \A y : y.op \in {"move", "anchor", "reset", "region", "write"} => Rank(y) >= 3 BY DEF Rank
<1>6. \A y : y.op \in {"anchor", "reset", "region", "write"} => Rank(y) >= 4 BY DEF Rank
<1>7. \A y : Rank(y) \in Int BY DEF Rank
<1>8. \A z \in P : z = h \/ Rank(h) < Rank(z) BY DEF First
<1>9. ASSUME h.op \in {"lazy", "put"}
      PROVE  Doing(P, "put") \subseteq {h} /\ Doing(P, "lazy") \subseteq {h}
  BY <1>1, <1>8, <1>9 DEF Doing
<1>10. ASSUME h.op \notin {"lazy", "put"} PROVE Doing(P, "put") = {} /\ Doing(P, "lazy") = {}
  <2>1. ASSUME NEW z \in P, z.op \in {"lazy", "put"} PROVE FALSE
    <3>1. z # h /\ Rank(z) = 1 /\ Rank(h) >= 2 BY <1>1, <1>4, <1>10, <2>1
    <3>2. QED BY <1>7, <1>8, <3>1
  <2>2. QED BY <2>1 DEF Doing
<1>11. ASSUME h.op \in {"fit", "reallocate"}
       PROVE  Doing(P, "fit") \subseteq {h} /\ Doing(P, "reallocate") \subseteq {h}
  BY <1>2, <1>8, <1>11 DEF Doing
<1>12. ASSUME h.op \in {"move", "anchor", "reset", "region", "write"} PROVE ~Searching(P)
  <2>1. ASSUME NEW z \in P, z.op \in {"fit", "reallocate"} PROVE FALSE
    <3>1. z # h /\ Rank(z) = 2 /\ Rank(h) >= 3 BY <1>2, <1>5, <1>12, <2>1
    <3>2. QED BY <1>7, <1>8, <3>1
  <2>2. QED BY <2>1 DEF Doing, Searching
<1>13. ASSUME h.op = "move" PROVE Doing(P, "move") = {h}
  <2>1. h \in P BY DEF First
  <2>2. \A z \in P : z.op = "move" => z = h BY <1>3, <1>8, <1>13
  <2>3. QED BY <1>13, <2>1, <2>2 DEF Doing
<1>14. ASSUME h.op \in {"anchor", "reset", "region", "write"} PROVE Doing(P, "move") = {}
  <2>1. ASSUME NEW z \in P, z.op = "move" PROVE FALSE
    <3>1. z # h /\ Rank(z) = 3 /\ Rank(h) >= 4 BY <1>3, <1>6, <1>14, <2>1
    <3>2. QED BY <1>7, <1>8, <3>1
  <2>2. QED BY <2>1 DEF Doing
<1>15. QED BY <1>9, <1>10, <1>11, <1>12, <1>13, <1>14

\* A call sets one anchor, or it resets one, or it adds a region.
LEMMA OneGoal ==
  ASSUME NEW P, Single(P), NEW z \in P
  PROVE  /\ z.op = "anchor" => Doing(P, "anchor") = {z} /\ Doing(P, "reset") = {} /\ Doing(P, "region") = {}
         /\ z.op = "reset" => Doing(P, "reset") = {z} /\ Doing(P, "anchor") = {} /\ Doing(P, "region") = {}
         /\ z.op = "region" => Doing(P, "region") = {z} /\ Doing(P, "anchor") = {} /\ Doing(P, "reset") = {}
<1>1. \A y : y.op \in {"anchor", "reset", "region"} => Rank(y) = 4 BY DEF Rank
<1>2. ASSUME z.op \in {"anchor", "reset", "region"}
      PROVE  \A y \in P : y.op \in {"anchor", "reset", "region"} => y = z
  BY <1>1, <1>2 DEF Single
<1>3. QED BY <1>2 DEF Doing

\* The claims of the arrays and of the storage found depend on these steps only.
LEMMA SameClaims ==
  ASSUME NEW P, NEW P2, NEW r, NEW A,
         \A op \in {"fit", "reallocate", "move", "anchor", "reset"} : Doing(P2, op) = Doing(P, op)
  PROVE  /\ Searching(P2) <=> Searching(P)
         /\ Found(P2, r) = Found(P, r)
         /\ \A x : Keeps(P2, x) <=> Keeps(P, x)
         /\ Kept(P2, A) = Kept(P, A)
         /\ Apart(P2, A) <=> Apart(P, A)
<1>1. /\ Doing(P2, "fit") = Doing(P, "fit") /\ Doing(P2, "reallocate") = Doing(P, "reallocate")
      /\ Doing(P2, "move") = Doing(P, "move") /\ Doing(P2, "anchor") = Doing(P, "anchor")
      /\ Doing(P2, "reset") = Doing(P, "reset")
  OBVIOUS
<1>2. Searching(P2) <=> Searching(P) BY <1>1 DEF Searching
<1>3. Found(P2, r) = Found(P, r) BY <1>1, <1>2 DEF Found
<1>4. \A x : Keeps(P2, x) <=> Keeps(P, x) BY <1>1, <1>2 DEF Keeps
<1>5. Kept(P2, A) = Kept(P, A) BY <1>4 DEF Kept
<1>6. Apart(P2, A) <=> Apart(P, A) BY <1>4 DEF Apart
<1>7. QED BY <1>2, <1>3, <1>4, <1>5, <1>6

-----------------------------------------------------------------------------
(* Who a block belongs to, from one step to the next.                        *)

\* Free blocks B, new blocks G and kept blocks E become blocks U to be put back and
\* storage N2 that was found.
LEMMA Handed ==
  ASSUME NEW D, NEW F, NEW M, NEW N, NEW K, Parts(D, F, M, {}, N, K),
         NEW B, B \subseteq F, NEW E, E \subseteq K, NEW G, G \cap D = {},
         NEW U, NEW N2, U \cup N2 = B \cup G \cup E \cup N, U \cap N2 = {}
  PROVE  Parts(D \cup G, F \ B, M, U, N2, K \ E)
<1>1. \A i : i \in D <=> i \in F \/ i \in M \/ i \in N \/ i \in K BY DEF Parts
<1>2. \A i : ~(i \in F /\ i \in M) /\ ~(i \in F /\ i \in N) /\ ~(i \in F /\ i \in K)
             /\ ~(i \in M /\ i \in N) /\ ~(i \in M /\ i \in K) /\ ~(i \in N /\ i \in K)
  BY DEF Parts
<1>3. \A i : (i \in U \/ i \in N2) <=> i \in B \/ i \in G \/ i \in E \/ i \in N OBVIOUS
<1>4. \A i : ~(i \in U /\ i \in N2) OBVIOUS
<1>5. \A i : (i \in B => i \in F) /\ (i \in E => i \in K) /\ ~(i \in G /\ i \in D) OBVIOUS
<1>6. D \cup G = (F \ B) \cup M \cup U \cup N2 \cup (K \ E) BY <1>1, <1>2, <1>3, <1>5
<1>7. (F \ B) \cap M = {} /\ (F \ B) \cap U = {} /\ (F \ B) \cap N2 = {} /\ (F \ B) \cap (K \ E) = {}
  BY <1>1, <1>2, <1>3, <1>5
<1>8. M \cap U = {} /\ M \cap N2 = {} /\ M \cap (K \ E) = {} BY <1>1, <1>2, <1>3, <1>5
<1>9. U \cap N2 = {} /\ U \cap (K \ E) = {} /\ N2 \cap (K \ E) = {} BY <1>1, <1>2, <1>3, <1>5
<1>10. QED BY <1>6, <1>7, <1>8, <1>9 DEF Parts

\* Blocks to be put back become free or metadata.
LEMMA Received ==
  ASSUME NEW D, NEW F, NEW M, NEW U, NEW N, NEW K, Parts(D, F, M, U, N, K),
         NEW F2, NEW M2, NEW U2, F2 \cup M2 \cup U2 = F \cup M \cup U, F2 \cap M2 = {},
         F2 \cap U2 = {}, M2 \cap U2 = {}
  PROVE  Parts(D, F2, M2, U2, N, K)
<1>1. \A i : (i \in F2 \/ i \in M2 \/ i \in U2) <=> (i \in F \/ i \in M \/ i \in U) OBVIOUS
<1>2. D = F2 \cup M2 \cup U2 \cup N \cup K BY <1>1 DEF Parts
<1>3. N \cap K = {} /\ \A i : (i \in F \/ i \in M \/ i \in U) => i \notin N /\ i \notin K BY DEF Parts
<1>4. QED BY <1>1, <1>2, <1>3 DEF Parts

\* The plan is as good as before when the steps that matter are the same.
LEMMA SamePlan ==
  ASSUME NEW P, NEW P2, NEW a, NEW b, NEW A, PlanOK(P, a, A),
         \A op \in {"fit", "reallocate", "move", "anchor", "region"} : Doing(P2, op) = Doing(P, op),
         Doing(P2, "lazy") \subseteq Doing(P, "lazy"), b.region = a.region
  PROVE  PlanOK(P2, b, A)
<1>1. /\ Doing(P2, "fit") = Doing(P, "fit") /\ Doing(P2, "reallocate") = Doing(P, "reallocate")
      /\ Doing(P2, "move") = Doing(P, "move") /\ Doing(P2, "anchor") = Doing(P, "anchor")
      /\ Doing(P2, "region") = Doing(P, "region")
  OBVIOUS
<1>2. QED BY <1>1 DEF PlanOK, Searching

\* A round of fix_freelist leaves all claims as they are.
LEMMA RoundKeeps ==
  ASSUME NEW P, NEW a, NEW b, NEW r, NEW A, Consistent(P, a, r, A), Shuffled(a, b)
  PROVE  Consistent(P, b, r, A)
<1>1. Sound(b) /\ Kin(a, b) /\ Cover(b.extents) \cup b.meta = Cover(a.extents) \cup a.meta BY DEF Shuffled
<1>2. Placed(b) BY <1>1 DEF Consistent, Placed, Kin
<1>3. PlanOK(P, b, A) BY <1>1, SamePlan DEF Consistent, Kin
<1>4. Got(P, b) = Got(P, a) BY <1>1 DEF Got, Kin
<1> DEFINE F == Cover(a.extents)
           F2 == Cover(b.extents)
           U == Returned(P)
           N == Found(P, r)
           K == Kept(P, A)
<1>5. Parts(Got(P, a), F, a.meta, U, N, K) BY DEF Consistent, ClaimsOK
<1>6. F2 \cup b.meta \cup U = F \cup a.meta \cup U /\ F2 \cap b.meta = {} BY <1>1 DEF Sound
<1>7. F2 \cap U = {} /\ b.meta \cap U = {} BY <1>1, <1>5 DEF Parts
<1> HIDE DEF F, F2, U, N, K
<1>8. Parts(Got(P, a), F2, b.meta, U, N, K) BY <1>5, <1>6, <1>7, Received
<1>9. QED BY <1>2, <1>3, <1>4, <1>8 DEF Consistent, ClaimsOK, F, F2, U, N, K

\* A step that claims nothing is done, or is put behind the others.
LEMMA IdleStep ==
  ASSUME NEW P, NEW P2, NEW a, NEW r, NEW A, Consistent(P, a, r, A),
         \A op \in {"fit", "reallocate", "move", "anchor", "reset", "region", "put"} :
           Doing(P2, op) = Doing(P, op),
         Doing(P2, "lazy") \subseteq Doing(P, "lazy")
  PROVE  Consistent(P2, a, r, A)
<1>1. PlanOK(P2, a, A) BY SamePlan DEF Consistent
<1>2. Found(P2, r) = Found(P, r) /\ Kept(P2, A) = Kept(P, A) /\ (Apart(P2, A) <=> Apart(P, A))
  BY SameClaims
<1>3. Doing(P2, "put") = Doing(P, "put") /\ Doing(P2, "region") = Doing(P, "region") OBVIOUS
<1>4. Returned(P2) = Returned(P) /\ Got(P2, a) = Got(P, a) BY <1>3 DEF Returned, Got
<1>5. QED BY <1>1, <1>2, <1>4 DEF Consistent, ClaimsOK

\* free() puts its extent back.
LEMMA PutKeeps ==
  ASSUME NEW P, NEW h, Single(P), First(h, P), h.op = "put",
         NEW a, NEW b, NEW r, NEW A, Consistent(P, a, r, A), Sound(b), Kin(a, b),
         Cover(b.extents) \cup b.meta = Cover(a.extents) \cup a.meta \cup BlocksOf(h)
  PROVE  Consistent(P \ {h}, b, r, A)
<1> DEFINE P2 == P \ {h}
<1>1. \A op : h.op # op => Doing(P2, op) = Doing(P, op) BY DEF Doing
<1>2. Doing(P, "put") = {h} /\ Doing(P2, "put") = {} /\ Doing(P, "lazy") = {} /\ Doing(P2, "lazy") = {}
  <2>1. Doing(P, "put") \subseteq {h} /\ Doing(P, "lazy") \subseteq {h} BY BehindFirst
  <2>2. QED BY <2>1 DEF Doing, First
<1>3. \A op \in {"fit", "reallocate", "move", "anchor", "reset", "region"} : Doing(P2, op) = Doing(P, op)
  BY <1>1
<1> HIDE DEF P2
<1>4. PlanOK(P2, b, A) BY <1>2, <1>3, SamePlan DEF Consistent, Kin
<1>5. Found(P2, r) = Found(P, r) /\ Kept(P2, A) = Kept(P, A) /\ (Apart(P2, A) <=> Apart(P, A))
  BY <1>3, SameClaims
<1>6. Doing(P2, "region") = Doing(P, "region") BY <1>3
<1>7. Got(P2, b) = Got(P, a) BY <1>6 DEF Got, Kin
<1>8. Returned(P) = BlocksOf(h) /\ Returned(P2) = {} BY <1>2 DEF Returned
<1>9. Placed(b) BY DEF Consistent, Placed, Kin
<1> DEFINE F == Cover(a.extents)
           F2 == Cover(b.extents)
           U == BlocksOf(h)
           N == Found(P, r)
           K == Kept(P, A)
<1>10. Parts(Got(P, a), F, a.meta, U, N, K) BY <1>8 DEF Consistent, ClaimsOK
<1>11. F2 \cup b.meta \cup {} = F \cup a.meta \cup U /\ F2 \cap b.meta = {} BY DEF Sound
<1> HIDE DEF F, F2, U, N, K
<1>12. Parts(Got(P, a), F2, b.meta, {}, N, K) BY <1>10, <1>11, Received
<1>13. QED BY <1>4, <1>5, <1>7, <1>8, <1>9, <1>12 DEF Consistent, ClaimsOK, F, F2, N, K, P2

\* An extent is to be put back: the new plan behind lazy_initialize and behind a search.
LEMMA PutPlanned ==
  ASSUME NEW b \in Nat, NEW n \in Nat
  PROVE  /\ Returned(PutPlan(b, n)) = b .. b + n - 1
         /\ \A op : op # "put" => Doing(PutPlan(b, n), op) = {}
         /\ \A y \in PutPlan(b, n) : Rank(y) = 1
<1>1. \A op : op # "put" => Doing(PutPlan(b, n), op) = {} BY DEF Doing, PutItem, PutPlan
<1>2. CASE n = 0 BY <1>1, <1>2 DEF Returned, Doing, PutPlan
<1>3. CASE n # 0
  <2>1. Doing(PutPlan(b, n), "put") = {PutItem(b, n)} BY <1>3 DEF Doing, PutItem, PutPlan
  <2>2. BlocksOf(PutItem(b, n)) = b .. b + n - 1 BY DEF BlocksOf, PutItem
  <2>3. Rank(PutItem(b, n)) = 1 BY DEF Rank, PutItem
  <2>4. QED BY <1>1, <1>3, <2>1, <2>2, <2>3 DEF Returned, PutPlan
<1>4. QED BY <1>2, <1>3

\* The engine's new blocks.
Grown(a, b, g) ==
  /\ b.engine = a.engine + g /\ b.data_total = a.data_total + g /\ b.region = a.region
  /\ b.engine <= MaxBlocks

GotMore(P, a, P2, b, G) == Got(P2, b) = Got(P, a) \cup G /\ G \cap Got(P, a) = {}

\* New blocks come behind those that the allocator has got.
LEMMA GrownPlaced ==
  ASSUME NEW P, NEW P2, NEW a, NEW b, NEW g \in Nat, Placed(a), Sound(b), Grown(a, b, g),
         Doing(P2, "region") = Doing(P, "region")
  PROVE  Placed(b) /\ GotMore(P, a, P2, b, a.engine .. a.engine + g - 1)
<1>1. /\ a.engine \in Nat /\ a.data_total \in Int /\ RegionSize \in Nat /\ a.engine >= RegionSize
      /\ b.engine = a.engine + g
  BY AllocatorAssumption DEF Placed, Sound, Allocators, Grown
<1>2. Placed(b) BY <1>1 DEF Placed, Grown
<1> DEFINE i == IF a.region \/ Doing(P, "region") # {} THEN 0 ELSE RegionSize
<1>3. i \in Nat /\ i <= a.engine BY <1>1
<1>4. Got(P, a) = i .. a.engine - 1 BY DEF Got
<1>5. Got(P2, b) = i .. b.engine - 1 BY DEF Got, Grown
<1> HIDE DEF i
<1>6. /\ i .. b.engine - 1 = (i .. a.engine - 1) \cup (a.engine .. b.engine - 1)
      /\ (i .. a.engine - 1) \cap (a.engine .. b.engine - 1) = {}
  BY <1>1, <1>3, Split
<1>7. a.engine .. b.engine - 1 = a.engine .. a.engine + g - 1
  <2>1. b.engine - 1 = a.engine + g - 1 BY <1>1
  <2>2. QED BY <2>1
<1>8. QED BY <1>2, <1>4, <1>5, <1>6, <1>7 DEF GotMore

\* The step h is done and leaves an extent to be put back, if that is not empty.
NextPlan(P, h, b, n) == PutPlan(b, n) \cup (P \ {h})

\* P2 is P without the step h, and the blocks U are to be put back.
StepDone(P, P2, h, U) ==
  /\ Returned(P2) = U
  /\ \A op : op # "put" => Doing(P2, op) = Doing(P, op) \ {h}
  /\ \A op : op # "put" /\ op # h.op => Doing(P2, op) = Doing(P, op)

\* The steps behind h, when an extent is to be put back.
LEMMA PutNext ==
  ASSUME NEW P, NEW h, NEW b \in Nat, NEW n \in Nat, Doing(P, "put") = {}
  PROVE  StepDone(P, NextPlan(P, h, b, n), h, b .. b + n - 1)
<1> DEFINE P2 == NextPlan(P, h, b, n)
<1>1. \A op : Doing(P2, op) = Doing(PutPlan(b, n), op) \cup (Doing(P, op) \ {h})
  BY DEF Doing, NextPlan
<1>2. \A op : h.op # op => Doing(P2, op) = Doing(PutPlan(b, n), op) \cup Doing(P, op)
  BY DEF Doing, NextPlan
<1> HIDE DEF P2
<1>3. /\ Returned(PutPlan(b, n)) = b .. b + n - 1
      /\ \A op : op # "put" => Doing(PutPlan(b, n), op) = {}
  BY PutPlanned
<1>4. Doing(P2, "put") = Doing(PutPlan(b, n), "put") BY <1>1
<1>5. Returned(P2) = Returned(PutPlan(b, n)) BY <1>4 DEF Returned
<1>6. \A op : op # "put" => Doing(P2, op) = Doing(P, op) \ {h} BY <1>1, <1>3
<1>7. \A op : op # "put" /\ op # h.op => Doing(P2, op) = Doing(P, op) BY <1>2, <1>3
<1>8. QED BY <1>3, <1>5, <1>6, <1>7 DEF P2, StepDone

\* lazy_initialize gets blocks from the engine and frees them.
LEMMA LazyGrows ==
  ASSUME NEW P, NEW h, Single(P), First(h, P), h.op = "lazy",
         NEW a, NEW b, NEW r, NEW A, Consistent(P, a, r, A), Sound(b), NEW g \in Nat, Grown(a, b, g),
         b.extents = a.extents, b.meta = a.meta
  PROVE  Consistent(NextPlan(P, h, a.engine, g), b, r, A)
<1> DEFINE P2 == NextPlan(P, h, a.engine, g)
           G == a.engine .. a.engine + g - 1
           F == Cover(a.extents)
           N == Found(P, r)
           K == Kept(P, A)
<1>0. a.engine \in Nat /\ Placed(a) BY DEF Consistent, Placed, Sound, Allocators
<1>1. Doing(P, "put") = {} /\ Doing(P, "lazy") \subseteq {h}
  <2>1. Doing(P, "put") \subseteq {h} /\ Doing(P, "lazy") \subseteq {h} BY BehindFirst
  <2>2. QED BY <2>1 DEF Doing
<1>2. /\ Returned(P2) = G
      /\ \A op : op # "put" => Doing(P2, op) = Doing(P, op) \ {h}
      /\ \A op : op # "put" /\ op # "lazy" => Doing(P2, op) = Doing(P, op)
  <2>1. StepDone(P, P2, h, G) BY <1>0, <1>1, PutNext
  <2> HIDE DEF P2, G
  <2>2. QED BY <2>1 DEF StepDone
<1> HIDE DEF P2
<1>4. Doing(P2, "lazy") = {} BY <1>1, <1>2
<1>5. \A op \in {"fit", "reallocate", "move", "anchor", "reset", "region"} : Doing(P2, op) = Doing(P, op)
  BY <1>2
<1>6. Returned(P) = {} BY <1>1 DEF Returned
<1>7. PlanOK(P2, b, A) BY <1>4, <1>5, SamePlan DEF Consistent, Grown
<1>8. Found(P2, r) = N /\ Kept(P2, A) = K /\ (Apart(P2, A) <=> Apart(P, A)) BY <1>5, SameClaims
<1>9. Doing(P2, "region") = Doing(P, "region") BY <1>5
<1>10. Placed(b) /\ Got(P2, b) = Got(P, a) \cup G /\ G \cap Got(P, a) = {}
  <2>1. Placed(b) /\ GotMore(P, a, P2, b, G) BY <1>0, <1>9, GrownPlaced
  <2> HIDE DEF G
  <2>2. QED BY <2>1 DEF GotMore
<1>11. Parts(Got(P, a), F, a.meta, {}, N, K) BY <1>6 DEF Consistent, ClaimsOK
<1> HIDE DEF F, G, N, K
<1>12. G \cap N = {} /\ G \cup N = {} \cup G \cup {} \cup N BY <1>10, <1>11 DEF Parts
<1>13. Parts(Got(P, a) \cup G, F \ {}, a.meta, G, N, K \ {}) BY <1>10, <1>11, <1>12, Handed
<1>14. F \ {} = F /\ K \ {} = K OBVIOUS
<1>15. QED BY <1>2, <1>7, <1>8, <1>10, <1>13, <1>14 DEF Consistent, ClaimsOK, F, P2

\* A call that throws has not begun to hand out blocks, and its array keeps its own.
LEMMA ThrowKeeps ==
  ASSUME NEW P, Single(P), Searching(P), Doing(P, "put") = {},
         NEW a, NEW r, NEW A, Consistent(P, a, r, A)
  PROVE  Consistent({}, a, 0, A)
<1>1. \A op : Doing({}, op) = {} BY DEF Doing
<1>2. PICK z \in Doing(P, "anchor") : z.blocks > 0
  <2>1. CASE \E y \in Doing(P, "fit") : TRUE
    <3>1. PICK y \in Doing(P, "fit") : TRUE BY <2>1
    <3>2. PICK z \in Doing(P, "anchor") : z.blocks = y.size BY <3>1 DEF Consistent, PlanOK
    <3>3. y.size \in Nat \ {0} BY DEF Doing, Single, Items
    <3>4. QED BY <3>2, <3>3
  <2>2. CASE \E y \in Doing(P, "reallocate") : TRUE
    <3>1. PICK y \in Doing(P, "reallocate") : TRUE BY <2>2
    <3>2. PICK z \in Doing(P, "anchor") : z.blocks = y.new_size BY <3>1 DEF Consistent, PlanOK
    <3>3. y.new_size \in Nat \ {0} BY DEF Doing, Single, Items
    <3>4. QED BY <3>2, <3>3
  <2>3. QED BY <2>1, <2>2 DEF Searching
<1>3. Doing(P, "anchor") = {z} /\ Doing(P, "reset") = {} /\ Doing(P, "region") = {}
  <2>1. z \in P /\ z.op = "anchor" BY DEF Doing
  <2>2. QED BY <2>1, OneGoal
<1>4. \A x : Keeps(P, x) BY <1>2, <1>3 DEF Keeps
<1>5. \A x : Keeps({}, x) BY <1>1 DEF Keeps
<1>6. Kept({}, A) = Kept(P, A) /\ (Apart({}, A) <=> Apart(P, A)) BY <1>4, <1>5 DEF Kept, Apart
<1>7. Found({}, 0) = {} /\ Found(P, r) = {} BY <1>1 DEF Found
<1>8. Returned({}) = {} /\ Returned(P) = {} BY <1>1 DEF Returned
<1>9. Got({}, a) = Got(P, a) BY <1>1, <1>3 DEF Got
<1>10. PlanOK({}, a, A) BY <1>1 DEF PlanOK
<1>11. QED BY <1>6, <1>7, <1>8, <1>9, <1>10 DEF Consistent, ClaimsOK

\* What is known of the anchor that a search or a move is for.
LEMMA AnchorPlanned ==
  ASSUME NEW P, Single(P), NEW a, NEW A, PlanOK(P, a, A), NEW h \in P,
         h.op \in {"fit", "reallocate", "move"}
  PROVE  \E z \in P :
           /\ Doing(P, "anchor") = {z} /\ Doing(P, "reset") = {} /\ Doing(P, "region") = {}
           /\ z.array \in Arrays /\ z.blocks \in Nat \ {0}
           /\ h.op = "fit" => z.blocks = h.size /\ (Doing(P, "move") = {} => A[z.array].blocks = 0)
           /\ h.op = "reallocate" => /\ z.blocks = h.new_size /\ A[z.array].blocks = h.size
                                     /\ A[z.array].start = h.block /\ Doing(P, "move") = {}
           /\ h.op = "move" => /\ z.blocks >= h.size /\ A[z.array].blocks = h.size
                               /\ A[z.array].start = h.block
<1>1. ASSUME NEW z \in Doing(P, "anchor")
      PROVE  /\ Doing(P, "anchor") = {z} /\ Doing(P, "reset") = {} /\ Doing(P, "region") = {}
             /\ z \in P /\ z.array \in Arrays /\ z.blocks \in Nat
  <2>1. z \in P /\ z.op = "anchor" /\ z \in Items BY DEF Doing, Single
  <2>2. z.array \in Arrays /\ z.blocks \in Nat BY <2>1 DEF Items
  <2>3. QED BY <2>1, <2>2, OneGoal
<1>2. h \in Items /\ h \in Doing(P, h.op) BY DEF Single, Doing
<1>3. CASE h.op = "fit"
  <2>1. h.size \in Nat \ {0} BY <1>2, <1>3 DEF Items
  <2>2. PICK z \in Doing(P, "anchor") : z.blocks = h.size /\ (Doing(P, "move") = {} => A[z.array].blocks = 0)
    BY <1>2, <1>3 DEF PlanOK
  <2>3. QED BY <1>1, <1>3, <2>1, <2>2
<1>4. CASE h.op = "reallocate"
  <2>1. h.new_size \in Nat \ {0} BY <1>2, <1>4 DEF Items
  <2>2. PICK z \in Doing(P, "anchor") :
          /\ z.blocks = h.new_size /\ A[z.array].blocks = h.size
          /\ A[z.array].start = h.block /\ Doing(P, "move") = {}
    BY <1>2, <1>4 DEF PlanOK
  <2>3. QED BY <1>1, <1>4, <2>1, <2>2
<1>5. CASE h.op = "move"
  <2>1. h.size \in Nat \ {0} BY <1>2, <1>5 DEF Items
  <2>2. PICK z \in Doing(P, "anchor") :
          z.blocks >= h.size /\ A[z.array].blocks = h.size /\ A[z.array].start = h.block
    BY <1>2, <1>5 DEF PlanOK
  <2>3. z.blocks \in Nat \ {0} BY <1>1, <2>1, <2>2
  <2>4. QED BY <1>1, <1>5, <2>2, <2>3
<1>6. QED BY <1>3, <1>4, <1>5

\* As long as storage is looked for, or its content has not been moved, every array keeps
\* its storage; behind that, all but the one whose anchor is to be set.
LEMMA WhoKeeps ==
  ASSUME NEW P, NEW z, Doing(P, "anchor") = {z}, Doing(P, "reset") = {}, z.blocks \in Nat \ {0}
  PROVE  /\ Searching(P) \/ Doing(P, "move") # {} => \A x : Keeps(P, x)
         /\ ~Searching(P) /\ Doing(P, "move") = {} => \A x : Keeps(P, x) <=> x # z.array
BY DEF Keeps

HandsOver(P, P2, A, x) ==
  /\ Kept(P2, A) = Kept(P, A) \ Storage(A, x)
  /\ Storage(A, x) \subseteq Kept(P, A)
  /\ Apart(P2, A)

\* An array that hands its storage over takes it from the blocks kept.
LEMMA StorageLeft ==
  ASSUME NEW P, NEW P2, NEW A, NEW x \in Arrays, \A y : Keeps(P, y), \A y : Keeps(P2, y) <=> y # x,
         Apart(P, A)
  PROVE  HandsOver(P, P2, A, x)
<1>1. \A y \in Arrays : y # x => Storage(A, y) \cap Storage(A, x) = {} BY DEF Apart
<1>2. Apart(P2, A) BY DEF Apart
<1>3. Storage(A, x) \subseteq Kept(P, A) BY DEF Kept
<1>4. Kept(P2, A) = UNION { Storage(A, y) : y \in { w \in Arrays : w # x } } BY DEF Kept
<1>5. Kept(P, A) = UNION { Storage(A, y) : y \in Arrays } BY DEF Kept
<1>6. \A i : i \in Kept(P2, A) <=> \E y \in Arrays : y # x /\ i \in Storage(A, y) BY <1>4
<1>7. \A i : i \in Kept(P, A) <=> \E y \in Arrays : i \in Storage(A, y) BY <1>5
<1>8. \A i : i \in Kept(P2, A) <=> i \in Kept(P, A) /\ i \notin Storage(A, x) BY <1>1, <1>6, <1>7
<1>9. QED BY <1>2, <1>3, <1>8 DEF HandsOver

\* Nothing is kept where there is no block.
LEMMA NoBlocks ==
  ASSUME NEW A, Anchored(A), NEW x \in Arrays, A[x].blocks = 0
  PROVE  Storage(A, x) = {}
<1>1. A[x].start \in Int BY DEF Anchored, Anchor, NoStorage
<1>2. QED BY <1>1 DEF Storage

\* allocate() and reallocate() have found storage: at r2, from free blocks B, from new
\* blocks and, in reallocate(), from the storage there was; what is left is put back.
LEMMA StorageFound ==
  ASSUME NEW P, NEW h, Single(P), First(h, P), h.op \in {"fit", "reallocate"},
         NEW a, NEW b, NEW r, NEW A, Consistent(P, a, r, A), Sound(b), NEW g \in Nat, Grown(a, b, g),
         b.meta = a.meta,
         NEW B, B \subseteq Cover(a.extents), Cover(b.extents) = Cover(a.extents) \ B,
         NEW r2 \in Nat, NEW u \in Nat, NEW n \in Nat, NEW m,
         h.op = "fit" => m = h.size, h.op = "reallocate" => m = h.new_size,
         NEW E, E = IF h.op = "fit" THEN {} ELSE h.block .. h.block + h.size - 1,
         (u .. u + n - 1) \cup (r2 .. r2 + m - 1) = B \cup (a.engine .. a.engine + g - 1) \cup E,
         (u .. u + n - 1) \cap (r2 .. r2 + m - 1) = {}
  PROVE  Consistent(NextPlan(P, h, u, n), b, r2, A)
<1> DEFINE P2 == NextPlan(P, h, u, n)
           G == a.engine .. a.engine + g - 1
           F == Cover(a.extents)
           K == Kept(P, A)
           U == u .. u + n - 1
           N == r2 .. r2 + m - 1
<1>1. /\ h \in P /\ Placed(a) /\ PlanOK(P, a, A) /\ Anchored(A) /\ Apart(P, A)
      /\ Parts(Got(P, a), F, a.meta, Returned(P), Found(P, r), K)
  BY DEF First, Consistent, ClaimsOK
<1>2. PICK z \in P :
           /\ Doing(P, "anchor") = {z} /\ Doing(P, "reset") = {} /\ Doing(P, "region") = {}
           /\ z.array \in Arrays /\ z.blocks \in Nat \ {0}
           /\ h.op = "fit" => z.blocks = h.size /\ (Doing(P, "move") = {} => A[z.array].blocks = 0)
           /\ h.op = "reallocate" => /\ z.blocks = h.new_size /\ A[z.array].blocks = h.size
                                     /\ A[z.array].start = h.block /\ Doing(P, "move") = {}
  BY <1>1, AnchorPlanned
<1>3. /\ Doing(P, "put") = {} /\ Doing(P, "lazy") = {}
      /\ Doing(P, "fit") \subseteq {h} /\ Doing(P, "reallocate") \subseteq {h}
  BY BehindFirst
<1>4. /\ Returned(P2) = U
      /\ \A op : op # "put" => Doing(P2, op) = Doing(P, op) \ {h}
      /\ \A op : op # "put" /\ op # h.op => Doing(P2, op) = Doing(P, op)
  <2>1. StepDone(P, P2, h, U) BY <1>3, PutNext
  <2> HIDE DEF P2, U
  <2>2. QED BY <2>1 DEF StepDone
<1> HIDE DEF P2, U
<1>5. /\ Doing(P2, "fit") = {} /\ Doing(P2, "reallocate") = {} /\ Doing(P2, "lazy") = {}
      /\ Doing(P2, "move") = Doing(P, "move") /\ Doing(P2, "anchor") = {z}
      /\ Doing(P2, "reset") = {} /\ Doing(P2, "region") = {}
  BY <1>2, <1>3, <1>4
<1>6. Searching(P) /\ ~Searching(P2)
  <2>1. h \in Doing(P, "fit") \/ h \in Doing(P, "reallocate") BY <1>1 DEF Doing
  <2>2. QED BY <1>5, <2>1 DEF Searching
<1>7. z.blocks = m BY <1>2
<1>8. Returned(P) = {} /\ Found(P, r) = {} /\ Found(P2, r2) = N
  BY <1>3, <1>5, <1>6, <1>7 DEF Returned, Found
<1>9. \A x : Keeps(P, x) BY <1>2, <1>6, WhoKeeps
<1>10. Kept(P2, A) = K \ E /\ E \subseteq K /\ Apart(P2, A)
  <2>1. CASE Doing(P, "move") # {}
    <3>1. h.op = "fit" /\ E = {} BY <1>2, <2>1
    <3>2. \A x : Keeps(P2, x) BY <1>2, <1>5, <2>1, WhoKeeps
    <3>3. Kept(P2, A) = K BY <1>9, <3>2 DEF Kept
    <3>4. Apart(P2, A) BY <1>1, <1>9 DEF Apart
    <3>5. QED BY <3>1, <3>3, <3>4
  <2>2. CASE Doing(P, "move") = {}
    <3>1. \A x : Keeps(P2, x) <=> x # z.array BY <1>2, <1>5, <1>6, <2>2, WhoKeeps
    <3>2. /\ Kept(P2, A) = K \ Storage(A, z.array) /\ Storage(A, z.array) \subseteq K
          /\ Apart(P2, A)
      <4>1. HandsOver(P, P2, A, z.array) BY <1>1, <1>2, <1>9, <3>1, StorageLeft
      <4>2. QED BY <4>1 DEF HandsOver
    <3>3. E = Storage(A, z.array)
      <4>1. CASE h.op = "fit" BY <1>1, <1>2, <2>2, <4>1, NoBlocks
      <4>2. CASE h.op # "fit" BY <1>2, <4>2 DEF Storage
      <4>3. QED BY <4>1, <4>2
    <3>4. QED BY <3>2, <3>3
  <2>3. QED BY <2>1, <2>2
<1>11. PlanOK(P2, b, A)
  <2>1. \A y \in Doing(P, "move") : \E w \in {z} :
          w.blocks >= y.size /\ A[w.array].blocks = y.size /\ A[w.array].start = y.block
    BY <1>1, <1>2 DEF PlanOK
  <2>2. QED BY <1>5, <2>1 DEF PlanOK
<1>12. Placed(b) /\ Got(P2, b) = Got(P, a) \cup G /\ G \cap Got(P, a) = {}
  <2>1. Placed(b) /\ GotMore(P, a, P2, b, G) BY <1>1, <1>2, <1>5, GrownPlaced
  <2> HIDE DEF G
  <2>2. QED BY <2>1 DEF GotMore
<1>13. Parts(Got(P, a), F, a.meta, {}, {}, K) BY <1>1, <1>8
<1>14. U \cup N = B \cup G \cup E /\ U \cap N = {} BY DEF U
<1> HIDE DEF F, G, N, K
<1>15. U \cup N = B \cup G \cup E \cup {} BY <1>14
<1>16. B \subseteq F BY DEF F
<1>17. Parts(Got(P, a) \cup G, F \ B, a.meta, U, N, K \ E) BY <1>10, <1>12, <1>13, <1>14, <1>15, <1>16, Handed
<1>18. Parts(Got(P2, b), Cover(b.extents), b.meta, Returned(P2), Found(P2, r2), Kept(P2, A))
  BY <1>4, <1>8, <1>10, <1>12, <1>17 DEF F
<1>19. QED BY <1>1, <1>10, <1>11, <1>12, <1>18 DEF Consistent, ClaimsOK, P2

\* reallocate() finds no place next to the storage: it will allocate and move.
MovePlan(h) == {LazyItem, FitItem(h.new_size), MoveItem(h.block, h.size)}

\* The claims are as before: the storage there was is kept until it has been moved.
LEMMA MovePlanned ==
  ASSUME NEW P, NEW h, Single(P), First(h, P), h.op = "reallocate", h.new_size >= h.size,
         NEW a, NEW r, NEW A, Consistent(P, a, r, A)
  PROVE  Consistent(MovePlan(h) \cup (P \ {h}), a, r, A)
<1> DEFINE P2 == MovePlan(h) \cup (P \ {h})
<1>1. h \in P /\ PlanOK(P, a, A) BY DEF First, Consistent
<1>2. PICK z \in P :
        /\ Doing(P, "anchor") = {z} /\ Doing(P, "reset") = {} /\ Doing(P, "region") = {}
        /\ z.blocks \in Nat \ {0} /\ z.blocks = h.new_size /\ A[z.array].blocks = h.size
        /\ A[z.array].start = h.block /\ Doing(P, "move") = {}
  BY <1>1, AnchorPlanned
<1>3. Doing(P, "put") = {} /\ Doing(P, "fit") \subseteq {h} /\ Doing(P, "reallocate") \subseteq {h}
  BY BehindFirst
<1>4. /\ Doing(P2, "put") = {} /\ Doing(P2, "reallocate") = {}
      /\ Doing(P2, "fit") = {FitItem(h.new_size)} /\ Doing(P2, "move") = {MoveItem(h.block, h.size)}
      /\ Doing(P2, "anchor") = {z} /\ Doing(P2, "reset") = {} /\ Doing(P2, "region") = {}
  <2>1. \A op : Doing(P2, op) = Doing(MovePlan(h), op) \cup (Doing(P, op) \ {h}) BY DEF Doing
  <2>2. /\ Doing(MovePlan(h), "put") = {} /\ Doing(MovePlan(h), "reallocate") = {}
        /\ Doing(MovePlan(h), "anchor") = {} /\ Doing(MovePlan(h), "reset") = {}
        /\ Doing(MovePlan(h), "region") = {}
    BY DEF Doing, MovePlan, LazyItem, FitItem, MoveItem
  <2>3. /\ Doing(MovePlan(h), "fit") = {FitItem(h.new_size)}
        /\ Doing(MovePlan(h), "move") = {MoveItem(h.block, h.size)}
    BY DEF Doing, MovePlan, LazyItem, FitItem, MoveItem
  <2>4. h # z
    <3>1. z.op = "anchor" BY <1>2 DEF Doing
    <3>2. QED BY <3>1
  <2> HIDE DEF P2
  <2>5. Doing(P, "fit") \ {h} = {} /\ Doing(P, "reallocate") \ {h} = {} BY <1>3
  <2>6. QED BY <1>2, <1>3, <2>1, <2>2, <2>3, <2>4, <2>5
<1> HIDE DEF P2
<1>5. Searching(P) /\ Searching(P2)
  <2>1. h \in Doing(P, "reallocate") BY <1>1 DEF Doing
  <2>2. QED BY <1>4, <2>1 DEF Searching
<1>6. \A x : Keeps(P, x) /\ Keeps(P2, x) BY <1>2, <1>4, <1>5, WhoKeeps
<1>7. Kept(P2, A) = Kept(P, A) /\ (Apart(P2, A) <=> Apart(P, A)) BY <1>6 DEF Kept, Apart
<1>8. Returned(P2) = Returned(P) /\ Found(P2, r) = Found(P, r) /\ Got(P2, a) = Got(P, a)
  BY <1>2, <1>3, <1>4, <1>5 DEF Returned, Found, Got
<1>9. PlanOK(P2, a, A)
  <2>1. FitItem(h.new_size).size = h.new_size BY DEF FitItem
  <2>2. MoveItem(h.block, h.size).size = h.size /\ MoveItem(h.block, h.size).block = h.block
    BY DEF MoveItem
  <2>3. Doing(P2, "move") # {} BY <1>4
  <2>4. z.blocks >= h.size BY <1>2
  <2>5. QED BY <1>2, <1>4, <1>5, <2>1, <2>2, <2>3, <2>4 DEF PlanOK
<1>10. QED BY <1>7, <1>8, <1>9 DEF Consistent, ClaimsOK, P2

\* The content is in its new place, and the old storage is to be freed.
LEMMA StorageMoved ==
  ASSUME NEW P, NEW h, Single(P), First(h, P), h.op = "move",
         NEW a, NEW r, NEW A, Consistent(P, a, r, A)
  PROVE  Consistent(NextPlan(P, h, h.block, h.size), a, r, A)
<1> DEFINE P2 == NextPlan(P, h, h.block, h.size)
           F == Cover(a.extents)
           K == Kept(P, A)
           N == Found(P, r)
<1>1. /\ h \in P /\ PlanOK(P, a, A) /\ Apart(P, A) /\ Doing(P, "move") = {h}
      /\ Parts(Got(P, a), F, a.meta, Returned(P), N, K)
  BY BehindFirst DEF First, Consistent, ClaimsOK
<1>2. PICK z \in P :
        /\ Doing(P, "anchor") = {z} /\ Doing(P, "reset") = {} /\ Doing(P, "region") = {}
        /\ z.array \in Arrays /\ z.blocks \in Nat \ {0} /\ A[z.array].blocks = h.size
        /\ A[z.array].start = h.block
  BY <1>1, AnchorPlanned
<1> DEFINE U == Storage(A, z.array)
<1>3. Doing(P, "put") = {} /\ Doing(P, "lazy") = {} /\ ~Searching(P) BY BehindFirst
<1>4. h.block \in Nat /\ h.size \in Nat BY <1>1 DEF Single, Items
<1>5. /\ Returned(P2) = U
      /\ \A op : op # "put" => Doing(P2, op) = Doing(P, op) \ {h}
      /\ \A op : op # "put" /\ op # "move" => Doing(P2, op) = Doing(P, op)
  <2>1. StepDone(P, P2, h, h.block .. h.block + h.size - 1) BY <1>3, <1>4, PutNext
  <2>2. U = h.block .. h.block + h.size - 1 BY <1>2 DEF Storage
  <2> HIDE DEF P2, U
  <2>3. QED BY <2>1, <2>2 DEF StepDone
<1> HIDE DEF P2, U
<1>6. /\ Doing(P2, "move") = {} /\ Doing(P2, "lazy") = {}
      /\ Doing(P2, "fit") = Doing(P, "fit") /\ Doing(P2, "reallocate") = Doing(P, "reallocate")
      /\ Doing(P2, "anchor") = {z} /\ Doing(P2, "reset") = {} /\ Doing(P2, "region") = {}
  BY <1>1, <1>2, <1>3, <1>5
<1>7. ~Searching(P2) BY <1>3, <1>6 DEF Searching
<1>8. Found(P2, r) = N /\ Returned(P) = {} /\ Got(P2, a) = Got(P, a)
  BY <1>2, <1>3, <1>6, <1>7 DEF Found, Returned, Got
<1>9. \A x : Keeps(P, x) BY <1>1, <1>2, WhoKeeps
<1>10. \A x : Keeps(P2, x) <=> x # z.array BY <1>2, <1>6, <1>7, WhoKeeps
<1>11. Kept(P2, A) = K \ U /\ U \subseteq K /\ Apart(P2, A)
  <2>1. HandsOver(P, P2, A, z.array) BY <1>1, <1>2, <1>9, <1>10, StorageLeft
  <2>2. QED BY <2>1 DEF HandsOver, U
<1>12. PlanOK(P2, a, A) BY <1>6, <1>7 DEF PlanOK, Searching
<1>13. Parts(Got(P, a), F, a.meta, {}, N, K) BY <1>1, <1>8
<1> HIDE DEF F, N, K
<1>14. U \cup N = {} \cup {} \cup U \cup N /\ U \cap N = {} BY <1>11, <1>13 DEF Parts
<1>15. Parts(Got(P, a) \cup {}, F \ {}, a.meta, U, N, K \ U) BY <1>11, <1>13, <1>14, Handed
<1>16. F \ {} = F /\ Got(P, a) \cup {} = Got(P, a) OBVIOUS
<1>17. Parts(Got(P2, a), F, a.meta, Returned(P2), Found(P2, r), Kept(P2, A))
  BY <1>5, <1>8, <1>11, <1>15, <1>16
<1>18. QED BY <1>11, <1>12, <1>17 DEF Consistent, ClaimsOK, F, P2

\* The region has been added.
LEMMA RegionCounted ==
  ASSUME NEW P, NEW h, Single(P), First(h, P), h.op = "region",
         NEW a, NEW b, NEW r, NEW A, Consistent(P, a, r, A), Sound(b), b.engine = a.engine,
         b.extents = a.extents, b.meta = a.meta, b.region = TRUE,
         b.data_total = a.data_total + RegionSize
  PROVE  Consistent(P \ {h}, b, r, A)
<1> DEFINE P2 == P \ {h}
<1>1. \A op : h.op # op => Doing(P2, op) = Doing(P, op) BY DEF Doing
<1>2. h \in P /\ Doing(P, "region") = {h} /\ Doing(P2, "region") = {}
  <2>1. h \in P /\ Doing(P, "region") = {h} BY OneGoal DEF First
  <2>2. QED BY <2>1 DEF Doing
<1>3. \A op \in {"fit", "reallocate", "move", "anchor", "reset"} : Doing(P2, op) = Doing(P, op) BY <1>1
<1>4. Doing(P2, "put") = Doing(P, "put") /\ Doing(P2, "lazy") = Doing(P, "lazy") BY <1>1
<1> HIDE DEF P2
<1>5. /\ Doing(P2, "fit") = Doing(P, "fit") /\ Doing(P2, "reallocate") = Doing(P, "reallocate")
      /\ Doing(P2, "move") = Doing(P, "move") /\ Doing(P2, "anchor") = Doing(P, "anchor")
  BY <1>3
<1>6. ~a.region BY <1>2 DEF Consistent, PlanOK
<1>7. PlanOK(P2, b, A) BY <1>2, <1>4, <1>5 DEF Consistent, PlanOK, Searching
<1>8. /\ Found(P2, r) = Found(P, r) /\ Kept(P2, A) = Kept(P, A) /\ (Apart(P2, A) <=> Apart(P, A))
  BY <1>3, SameClaims
<1>9. Returned(P2) = Returned(P) /\ Got(P2, b) = Got(P, a) BY <1>2, <1>4 DEF Returned, Got
<1>10. Placed(b)
  <2>1. RegionSize \in Int /\ a.engine \in Int BY AllocatorAssumption DEF Consistent, Placed, Sound, Allocators
  <2>2. QED BY <1>6, <2>1 DEF Consistent, Placed
<1>11. QED BY <1>7, <1>8, <1>9, <1>10 DEF Consistent, ClaimsOK, P2

Settles(P, P2, A, A2, N) == Kept(P2, A2) = N \cup Kept(P, A) /\ Apart(P2, A2)

\* An array without storage gets the blocks N.
LEMMA Resettled ==
  ASSUME NEW P, NEW P2, NEW A, NEW A2, NEW x \in Arrays, NEW N,
         \A y : Keeps(P, y) <=> y # x, \A y : Keeps(P2, y),
         \A y \in Arrays : y # x => Storage(A2, y) = Storage(A, y), Storage(A2, x) = N,
         N \cap Kept(P, A) = {}, Apart(P, A)
  PROVE  Settles(P, P2, A, A2, N)
<1>1. Kept(P, A) = UNION { Storage(A, y) : y \in { w \in Arrays : w # x } } BY DEF Kept
<1>2. Kept(P2, A2) = UNION { Storage(A2, y) : y \in Arrays } BY DEF Kept
<1>3. \A i : i \in Kept(P, A) <=> \E y \in Arrays : y # x /\ i \in Storage(A, y) BY <1>1
<1>4. \A i : i \in Kept(P2, A2) <=> \E y \in Arrays : i \in Storage(A2, y) BY <1>2
<1>5. \A i : i \in Kept(P2, A2) <=> i \in N \/ i \in Kept(P, A) BY <1>3, <1>4
<1>6. ASSUME NEW y \in Arrays, NEW w \in Arrays, y # w PROVE Storage(A2, y) \cap Storage(A2, w) = {}
  <2>1. CASE y # x /\ w # x BY <1>6, <2>1 DEF Apart
  <2>2. CASE y = x
    <3>1. Storage(A2, w) \subseteq Kept(P, A) BY <1>3, <1>6, <2>2
    <3>2. QED BY <2>2, <3>1
  <2>3. CASE w = x
    <3>1. Storage(A2, y) \subseteq Kept(P, A) BY <1>3, <1>6, <2>3
    <3>2. QED BY <2>3, <3>1
  <2>4. QED BY <2>1, <2>2, <2>3
<1>7. Apart(P2, A2) BY <1>6 DEF Apart
<1>8. QED BY <1>5, <1>7 DEF Settles

\* What was found is kept.
LEMMA FoundKept ==
  ASSUME NEW D, NEW F, NEW M, NEW N, NEW K, Parts(D, F, M, {}, N, K)
  PROVE  Parts(D, F, M, {}, {}, N \cup K) /\ N \cap K = {}
<1>1. D = F \cup M \cup {} \cup {} \cup (N \cup K) BY DEF Parts
<1>2. F \cap M = {} /\ F \cap (N \cup K) = {} /\ M \cap (N \cup K) = {} /\ N \cap K = {} BY DEF Parts
<1>3. QED BY <1>1, <1>2 DEF Parts

\* The last step that has to do with storage is done: the anchor of x has the blocks N.
LEMMA StorageSettled ==
  ASSUME NEW P, NEW h, Single(P), First(h, P), h.op \in {"anchor", "reset"}, h.array \in Arrays,
         NEW a, NEW r, NEW A, Consistent(P, a, r, A), NEW A2, Anchored(A2), NEW r2 \in Nat,
         \A y \in Arrays : y # h.array => A2[y] = A[y],
         Storage(A2, h.array) = IF h.op = "reset" THEN {} ELSE r .. r + h.blocks - 1
  PROVE  Consistent(P \ {h}, a, r2, A2)
<1> DEFINE P2 == P \ {h}
           F == Cover(a.extents)
           K == Kept(P, A)
           N == Found(P, r)
<1>1. h \in P /\ Apart(P, A) /\ Parts(Got(P, a), F, a.meta, Returned(P), N, K)
  BY DEF First, Consistent, ClaimsOK
<1>2. /\ Doing(P, "put") = {} /\ Doing(P, "lazy") = {} /\ ~Searching(P) /\ Doing(P, "move") = {}
  BY BehindFirst
<1>3. /\ h.op = "anchor" => Doing(P, "anchor") = {h} /\ Doing(P, "reset") = {} /\ Doing(P, "region") = {}
      /\ h.op = "reset" => Doing(P, "reset") = {h} /\ Doing(P, "anchor") = {} /\ Doing(P, "region") = {}
  BY <1>1, OneGoal
<1>4. Doing(P, "fit") = {} /\ Doing(P, "reallocate") = {} BY <1>2 DEF Searching
<1>5. /\ Doing(P2, "put") = {} /\ Doing(P2, "lazy") = {} /\ Doing(P2, "move") = {}
      /\ Doing(P2, "fit") = {} /\ Doing(P2, "reallocate") = {}
      /\ Doing(P2, "anchor") = {} /\ Doing(P2, "reset") = {} /\ Doing(P2, "region") = {}
  <2>1. \A op : Doing(P2, op) = Doing(P, op) \ {h} BY DEF Doing
  <2> HIDE DEF P2
  <2>2. QED BY <1>2, <1>3, <1>4, <2>1
<1> HIDE DEF P2
<1>6. PlanOK(P2, a, A2) BY <1>5 DEF PlanOK
<1>7. \A y : Keeps(P2, y) BY <1>5 DEF Keeps
<1>8. \A y : Keeps(P, y) <=> y # h.array BY <1>2, <1>3 DEF Keeps
<1>9. Returned(P) = {} /\ Returned(P2) = {} /\ Got(P2, a) = Got(P, a) /\ Found(P2, r2) = {}
  BY <1>2, <1>3, <1>5 DEF Returned, Got, Found
<1>10. N = IF h.op = "reset" THEN {} ELSE r .. r + h.blocks - 1 BY <1>2, <1>3 DEF Found
<1>11. \A y \in Arrays : y # h.array => Storage(A2, y) = Storage(A, y) BY DEF Storage
<1> HIDE DEF F, K, N
<1>12. Parts(Got(P, a), F, a.meta, {}, N, K) BY <1>1, <1>9
<1>13. Parts(Got(P, a), F, a.meta, {}, {}, N \cup K) /\ N \cap K = {} BY <1>12, FoundKept
<1>14. Kept(P2, A2) = N \cup K /\ Apart(P2, A2)
  <2>1. Storage(A2, h.array) = N BY <1>10
  <2>2. N \cap Kept(P, A) = {} BY <1>13 DEF K
  <2>3. Settles(P, P2, A, A2, N) BY <1>1, <1>7, <1>8, <1>11, <2>1, <2>2, Resettled
  <2>4. QED BY <2>3 DEF Settles, K
<1>15. Parts(Got(P2, a), F, a.meta, Returned(P2), Found(P2, r2), Kept(P2, A2)) BY <1>9, <1>13, <1>14
<1>16. QED BY <1>6, <1>14, <1>15 DEF Consistent, ClaimsOK, F, P2

\* The number of values in an array does not matter to the allocator.
LEMMA SizeSet ==
  ASSUME NEW P, Single(P), NEW a, NEW r, NEW A, Consistent(P, a, r, A),
         NEW x \in Arrays, NEW n \in Nat
  PROVE  Consistent(P, a, r, [A EXCEPT ![x].size = n])
<1> DEFINE A2 == [A EXCEPT ![x].size = n]
<1>1. A \in [Arrays -> Anchor] BY DEF Consistent, Anchored
<1>2. A2 \in [Arrays -> Anchor] /\ \A y \in Arrays : A2[y].blocks = A[y].blocks /\ A2[y].start = A[y].start
  BY <1>1 DEF Anchor
<1> HIDE DEF A2
<1>3. Anchored(A2) BY <1>2 DEF Consistent, Anchored
<1>4. \A y \in Arrays : Storage(A2, y) = Storage(A, y) BY <1>2 DEF Storage
<1>5. Kept(P, A2) = Kept(P, A) /\ (Apart(P, A2) <=> Apart(P, A)) BY <1>4 DEF Kept, Apart
<1>6. \A z \in Doing(P, "anchor") : z.array \in Arrays
  <2>1. \A z \in Items : z.op = "anchor" => z.array \in Arrays BY DEF Items
  <2>2. QED BY <2>1 DEF Doing, Single
<1>7. \A z \in Doing(P, "anchor") : A2[z.array].blocks = A[z.array].blocks /\ A2[z.array].start = A[z.array].start
  BY <1>2, <1>6
<1>8. PlanOK(P, a, A2) BY <1>7 DEF Consistent, PlanOK
<1>9. QED BY <1>3, <1>5, <1>8 DEF Consistent, ClaimsOK, A2

\* Between two calls every array keeps its storage.
LEMMA AtRest ==
  ASSUME NEW a, NEW r, NEW A, Consistent({}, a, r, A)
  PROVE  /\ \A x : Keeps({}, x)
         /\ Returned({}) = {} /\ Found({}, r) = {} /\ ~Searching({})
         /\ Parts(Got({}, a), Cover(a.extents), a.meta, {}, {}, Kept({}, A)) /\ Apart({}, A)
         /\ Got({}, a) = (IF a.region THEN 0 ELSE RegionSize) .. a.engine - 1
<1>1. \A op : Doing({}, op) = {} BY DEF Doing
<1>2. \A x : Keeps({}, x) BY <1>1 DEF Keeps
<1>3. Returned({}) = {} /\ Found({}, r) = {} /\ ~Searching({}) BY <1>1 DEF Returned, Found, Searching
<1>4. Got({}, a) = (IF a.region THEN 0 ELSE RegionSize) .. a.engine - 1 BY <1>1 DEF Got
<1>5. Parts(Got({}, a), Cover(a.extents), a.meta, Returned({}), Found({}, r), Kept({}, A)) /\ Apart({}, A)
  BY DEF Consistent, ClaimsOK
<1>6. QED BY <1>2, <1>3, <1>4, <1>5

\* A call that looks for storage begins.
LEMMA SearchBegins ==
  ASSUME NEW a, NEW r, NEW A, Consistent({}, a, r, A), NEW x \in Arrays, NEW n \in Nat \ {0}, NEW y,
         \/ y = FitItem(n) /\ A[x].blocks = 0
         \/ y = ReallocateItem(A[x].start, A[x].blocks, n)
  PROVE  Consistent({LazyItem, y, AnchorItem(x, n)}, a, r, A)
<1> DEFINE P == {LazyItem, y, AnchorItem(x, n)}
           z == AnchorItem(x, n)
<1>1. /\ z.op = "anchor" /\ z.array = x /\ z.blocks = n BY DEF AnchorItem
<1>2. LazyItem.op = "lazy" BY DEF LazyItem
<1>3. y.op \in {"fit", "reallocate"} BY DEF FitItem, ReallocateItem
<1>4. /\ Doing(P, "anchor") = {z} /\ Doing(P, "reset") = {} /\ Doing(P, "region") = {}
      /\ Doing(P, "put") = {} /\ Doing(P, "move") = {}
      /\ Doing(P, "fit") \subseteq {y} /\ Doing(P, "reallocate") \subseteq {y}
      /\ y \in Doing(P, "fit") \cup Doing(P, "reallocate")
  <2> HIDE DEF z
  <2>1. P = {LazyItem, y, z} BY DEF z
  <2> HIDE DEF P
  <2>2. QED BY <1>1, <1>2, <1>3, <2>1 DEF Doing
<1>5. Searching(P) BY <1>4 DEF Searching
<1> HIDE DEF P
<1>6. PlanOK(P, a, A)
  <2>1. CASE y = FitItem(n) /\ A[x].blocks = 0
    <3>1. y.op = "fit" /\ y.size = n BY <2>1 DEF FitItem
    <3>2. Doing(P, "reallocate") = {} BY <1>4, <3>1 DEF Doing
    <3> HIDE DEF z
    <3>3. QED BY <1>1, <1>4, <1>5, <2>1, <3>1, <3>2 DEF PlanOK
  <2>2. CASE y = ReallocateItem(A[x].start, A[x].blocks, n)
    <3>1. y.op = "reallocate" /\ y.new_size = n /\ y.size = A[x].blocks /\ y.block = A[x].start
      BY <2>2 DEF ReallocateItem
    <3>2. Doing(P, "fit") = {} BY <1>4, <3>1 DEF Doing
    <3> HIDE DEF z
    <3>3. QED BY <1>1, <1>4, <1>5, <3>1, <3>2 DEF PlanOK
  <2>3. QED BY <2>1, <2>2
<1>7. \A w : Keeps(P, w) BY <1>1, <1>4, <1>5, WhoKeeps
<1>8. \A w : Keeps({}, w) BY AtRest
<1>9. Kept(P, A) = Kept({}, A) /\ (Apart(P, A) <=> Apart({}, A)) BY <1>7, <1>8 DEF Kept, Apart
<1>10. Returned(P) = {} /\ Found(P, r) = {} /\ Got(P, a) = Got({}, a)
  <2>1. Doing({}, "region") = {} BY DEF Doing
  <2>2. QED BY <1>4, <1>5, <2>1 DEF Returned, Found, Got
<1>11. Parts(Got({}, a), Cover(a.extents), a.meta, {}, {}, Kept({}, A)) /\ Apart({}, A) BY AtRest
<1>12. QED BY <1>6, <1>9, <1>10, <1>11 DEF Consistent, ClaimsOK, P

\* A call that frees the storage of x begins; z is the step behind it.
LEMMA FreeBegins ==
  ASSUME NEW a, NEW r, NEW A, Consistent({}, a, r, A), NEW x \in Arrays, A[x].blocks > 0, NEW z,
         z = AnchorItem(x, 0) \/ z = ResetItem(x)
  PROVE  Consistent({PutItem(A[x].start, A[x].blocks), z}, a, r, A)
<1> DEFINE u == PutItem(A[x].start, A[x].blocks)
           P == {u, z}
           U == Storage(A, x)
           F == Cover(a.extents)
           K == Kept({}, A)
<1>1. u.op = "put" /\ BlocksOf(u) = U BY DEF PutItem, BlocksOf, Storage
<1>2. \/ z.op = "anchor" /\ z.blocks = 0 /\ z.array = x
      \/ z.op = "reset" /\ z.array = x
  BY DEF AnchorItem, ResetItem
<1> HIDE DEF u
<1>3. /\ Doing(P, "put") = {u} /\ Doing(P, "lazy") = {} /\ Doing(P, "fit") = {}
      /\ Doing(P, "reallocate") = {} /\ Doing(P, "move") = {} /\ Doing(P, "region") = {}
      /\ Doing(P, "anchor") \cup Doing(P, "reset") = {z}
  BY <1>1, <1>2 DEF Doing
<1>3a. z.op = "anchor" => Doing(P, "anchor") = {z} /\ Doing(P, "reset") = {} BY <1>1 DEF Doing
<1>3b. z.op = "reset" => Doing(P, "reset") = {z} /\ Doing(P, "anchor") = {} BY <1>1 DEF Doing
<1> HIDE DEF P
<1>4. ~Searching(P) BY <1>3 DEF Searching
<1>5. \A y : Keeps(P, y) <=> y # x BY <1>2, <1>3a, <1>3b, <1>4 DEF Keeps
<1>6. \A y : Keeps({}, y) /\ Apart({}, A) /\ Parts(Got({}, a), F, a.meta, {}, {}, K)
  BY AtRest
<1>7. Kept(P, A) = K \ U /\ U \subseteq K /\ Apart(P, A)
  <2>1. HandsOver({}, P, A, x) BY <1>5, <1>6, StorageLeft
  <2>2. QED BY <2>1 DEF HandsOver
<1>8. PlanOK(P, a, A) BY <1>3 DEF PlanOK
<1>9. Found(P, r) = {}
  <2>0. r \in Nat BY DEF Consistent
  <2>1. CASE z.op = "anchor"
    <3>1. z.blocks = 0 BY <1>2, <2>1
    <3>2. r .. r + z.blocks - 1 = {} BY <2>0, <3>1
    <3>3. QED BY <1>3a, <1>4, <2>1, <3>2 DEF Found
  <2>2. CASE z.op = "reset" BY <1>3b, <1>4, <2>2 DEF Found
  <2>3. QED BY <1>2, <2>1, <2>2
<1>10. Returned(P) = U /\ Got(P, a) = Got({}, a)
  <2>1. Doing({}, "region") = {} BY DEF Doing
  <2>2. QED BY <1>1, <1>3, <2>1 DEF Returned, Got
<1> HIDE DEF F, U, K
<1>11. U \cup {} = {} \cup {} \cup U \cup {} /\ U \cap {} = {} OBVIOUS
<1>12. Parts(Got({}, a) \cup {}, F \ {}, a.meta, U, {}, K \ U) BY <1>6, <1>7, <1>11, Handed
<1>13. F \ {} = F /\ Got({}, a) \cup {} = Got({}, a) OBVIOUS
<1>14. Parts(Got(P, a), F, a.meta, Returned(P), Found(P, r), Kept(P, A))
  BY <1>7, <1>9, <1>10, <1>12, <1>13
<1>15. QED BY <1>7, <1>8, <1>14 DEF Consistent, ClaimsOK, F, P, u

\* add_region() begins.
LEMMA RegionBegins ==
  ASSUME NEW a, NEW r, NEW A, Consistent({}, a, r, A), ~a.region, RegionSize > 0
  PROVE  Consistent({PutItem(0, RegionSize), RegionItem}, a, r, A)
<1> DEFINE u == PutItem(0, RegionSize)
           P == {u, RegionItem}
           U == 0 .. RegionSize - 1
           D == RegionSize .. a.engine - 1
           F == Cover(a.extents)
           K == Kept({}, A)
<1>0. RegionSize \in Nat /\ a.engine \in Nat /\ a.engine >= RegionSize
  BY AllocatorAssumption DEF Consistent, Placed, Sound, Allocators
<1>1. u.op = "put" /\ BlocksOf(u) = U
  <2>1. 0 + RegionSize - 1 = RegionSize - 1 BY <1>0
  <2>2. QED BY <2>1 DEF PutItem, BlocksOf
<1>2. RegionItem.op = "region" BY DEF RegionItem
<1> HIDE DEF u
<1>3. /\ Doing(P, "put") = {u} /\ Doing(P, "lazy") = {} /\ Doing(P, "fit") = {}
      /\ Doing(P, "reallocate") = {} /\ Doing(P, "move") = {} /\ Doing(P, "region") = {RegionItem}
      /\ Doing(P, "anchor") = {} /\ Doing(P, "reset") = {}
  BY <1>1, <1>2 DEF Doing
<1> HIDE DEF P
<1>4. PlanOK(P, a, A) BY <1>3 DEF PlanOK
<1>5. \A op \in {"fit", "reallocate", "move", "anchor", "reset"} : Doing(P, op) = Doing({}, op)
  <2>1. \A op : Doing({}, op) = {} BY DEF Doing
  <2>2. QED BY <1>3, <2>1
<1>6. Found(P, r) = Found({}, r) /\ Kept(P, A) = K /\ (Apart(P, A) <=> Apart({}, A))
  BY <1>5, SameClaims
<1>7. /\ Found({}, r) = {} /\ Apart({}, A) /\ Parts(Got({}, a), F, a.meta, {}, {}, K)
      /\ Got({}, a) = D
  BY AtRest
<1>8. Returned(P) = U /\ Got(P, a) = 0 .. a.engine - 1 BY <1>1, <1>3 DEF Returned, Got
<1>9. 0 .. a.engine - 1 = U \cup D /\ U \cap D = {}
  <2>1. 0 \in Int /\ 0 <= RegionSize BY <1>0
  <2>2. QED BY <1>0, <2>1, Split
<1> HIDE DEF F, U, K, D
<1>10. U \cup {} = {} \cup U \cup {} \cup {} /\ U \cap {} = {} OBVIOUS
<1>11. Parts(D, F, a.meta, {}, {}, K) BY <1>7
<1>12. Parts(D \cup U, F \ {}, a.meta, U, {}, K \ {}) BY <1>9, <1>10, <1>11, Handed
<1>13. F \ {} = F /\ K \ {} = K /\ D \cup U = U \cup D OBVIOUS
<1>14. Parts(Got(P, a), F, a.meta, Returned(P), Found(P, r), Kept(P, A))
  BY <1>6, <1>7, <1>8, <1>9, <1>12, <1>13
<1>15. QED BY <1>4, <1>6, <1>7, <1>14 DEF Consistent, ClaimsOK, F, P, u

-----------------------------------------------------------------------------
(* The steps of the allocator.                                               *)

\* The invariant in the next state.
LEMMA InvNext ==
  ASSUME Does(todo', Plan'), Consistent(Plan', alloc', result', arrays')
  PROVE  Inv'
BY DEF Inv

\* What is known before a step that is part of the plan.
LEMMA HeadFirst ==
  ASSUME Inv, todo # << >>, ~Fixes(Head(todo))
  PROVE  /\ Single(Plan) /\ First(Head(todo), Plan) /\ Head(todo) \in Items /\ Does(todo, Plan)
         /\ Consistent(Plan, alloc, result, arrays)
<1>1. Does(todo, Plan) /\ Consistent(Plan, alloc, result, arrays) BY DEF Inv
<1>2. Single(Plan) BY <1>1, SinglePlan
<1>3. /\ Head(todo) \in Items /\ Head(todo) \in Plan
      /\ \A z \in Plan : z # Head(todo) => Rank(Head(todo)) < Rank(z)
  BY <1>1, DoesRest
<1>4. QED BY <1>1, <1>2, <1>3 DEF First

\* A step is done and leaves an extent to be put back.
LEMMA PutBehind ==
  ASSUME Inv, todo # << >>, ~Fixes(Head(todo)), NEW b \in Nat, NEW n \in Nat, Then(Free(b, n))
  PROVE  Does(todo', Plan') /\ Plan' = NextPlan(Plan, Head(todo), b, n)
<1>1. First(Head(todo), Plan) /\ Does(todo, Plan) BY HeadFirst
<1>2. Does(Free(b, n), PutPlan(b, n)) BY FreeDoes
<1>3. \A y \in PutPlan(b, n) : Rank(y) = 1 BY PutPlanned
<1>4. Rank(Head(todo)) >= 1 /\ \A z : Rank(z) \in Int BY DEF Rank
<1>5. \A y \in PutPlan(b, n), z \in Plan : z # Head(todo) => Rank(y) < Rank(z)
  BY <1>1, <1>3, <1>4 DEF First
<1>6. Does(todo', Plan') /\ Plan' = PutPlan(b, n) \cup (Plan \ {Head(todo)})
  BY <1>1, <1>2, <1>5, StepPlan
<1>7. QED BY <1>6 DEF NextPlan

\* A step is done and leaves nothing.
LEMMA NothingBehind ==
  ASSUME Inv, todo # << >>, ~Fixes(Head(todo)), Then(<< >>)
  PROVE  Does(todo', Plan') /\ Plan' = Plan \ {Head(todo)}
<1>1. Does(todo, Plan) BY DEF Inv
<1>2. Does(todo', Plan') /\ Plan' = {} \cup (Plan \ {Head(todo)}) BY <1>1, DoesNothing, StepPlan
<1>3. QED BY <1>2

\* The engine grows.
GrownTo(a, b, g) ==
  /\ Sound(b) /\ Grown(a, b, g) /\ b.extents = a.extents /\ b.meta = a.meta

WithEngine(a, e, t) == [a EXCEPT !.engine = e, !.data_total = t]

\* The engine is set to another size: the rest of the state is as it was.
LEMMA EngineSet ==
  ASSUME NEW a \in Allocators, NEW e \in Nat, NEW t \in Int
  PROVE  LET b == WithEngine(a, e, t)
         IN  /\ b \in Allocators /\ b.engine = e /\ b.data_total = t
             /\ b.region = a.region /\ b.extents = a.extents /\ b.meta = a.meta /\ b.pos = a.pos
             /\ b.size = a.size /\ b.meta_total = a.meta_total /\ b.meta_free = a.meta_free
             /\ b.data_free = a.data_free /\ b.short = a.short
BY DEF WithEngine, Allocators

\* allocate_from_engine
LEMMA EngineGrown ==
  ASSUME NEW a, Sound(a), NEW n \in Nat, a.engine + ChunkSize(n) <= MaxBlocks
  PROVE  GrownTo(a, FromEngine(a, n).state, ChunkSize(n))
<1> DEFINE g == ChunkSize(n)
           b == WithEngine(a, a.engine + g, a.data_total + g)
<1>1. g \in Nat BY ChunkBound
<1>2. a \in Allocators /\ a.engine \in Nat /\ a.data_total \in Int BY DEF Sound, Allocators
<1>3. FromEngine(a, n).state = b BY DEF FromEngine, WithEngine
<1> HIDE DEF g
<1>4. /\ b \in Allocators /\ b.engine = a.engine + g /\ b.data_total = a.data_total + g
      /\ b.region = a.region /\ b.extents = a.extents /\ b.meta = a.meta /\ b.pos = a.pos
      /\ b.size = a.size /\ b.meta_total = a.meta_total /\ b.meta_free = a.meta_free
      /\ b.data_free = a.data_free /\ b.short = a.short
  <2>1. a.engine + g \in Nat /\ a.data_total + g \in Int BY <1>1, <1>2
  <2>2. QED BY <1>2, <2>1, EngineSet
<1> HIDE DEF b
<1>5. 0 .. a.engine - 1 \subseteq 0 .. b.engine - 1 BY <1>1, <1>2, <1>4
<1>6. Sound(b) BY <1>4, <1>5 DEF Sound
<1>7. QED BY <1>3, <1>4, <1>6 DEF GrownTo, Grown, g

\* bad_alloc
LEMMA ThrowInv ==
  ASSUME Inv, At("lazy") \/ At("fit") \/ At("reallocate"), Throw, UNCHANGED arrays
  PROVE  Inv'
<1>1. todo # << >> /\ Head(todo).op \in {"lazy", "fit", "reallocate"} BY DEF At
<1>2. ~Fixes(Head(todo)) BY <1>1 DEF Fixes
<1>3. Single(Plan) /\ First(Head(todo), Plan) /\ Consistent(Plan, alloc, result, arrays)
  BY <1>1, <1>2, HeadFirst
<1>4. Head(todo) \in Plan BY <1>3 DEF First
<1>5. Searching(Plan)
  <2>1. CASE Head(todo).op = "lazy"
    <3>1. Head(todo) \in Doing(Plan, "lazy") BY <1>4, <2>1 DEF Doing
    <3>2. QED BY <1>3, <3>1 DEF Consistent, PlanOK
  <2>2. CASE Head(todo).op \in {"fit", "reallocate"} BY <1>4, <2>2 DEF Searching, Doing
  <2>3. QED BY <1>1, <2>1, <2>2
<1>6. Doing(Plan, "put") = {}
  <2>1. CASE Head(todo).op = "lazy"
    <3>1. Doing(Plan, "put") \subseteq {Head(todo)} BY <1>3, <2>1, BehindFirst
    <3>2. QED BY <2>1, <3>1 DEF Doing
  <2>2. CASE Head(todo).op \in {"fit", "reallocate"} BY <1>3, <2>2, BehindFirst
  <2>3. QED BY <1>1, <2>1, <2>2
<1>7. Consistent({}, alloc, 0, arrays) BY <1>3, <1>5, <1>6, ThrowKeeps
<1>8. Does(todo', Plan') /\ Plan' = {} BY DonePlan DEF Throw
<1>9. alloc' = alloc /\ result' = 0 /\ arrays' = arrays BY DEF Throw
<1>10. QED BY <1>7, <1>8, <1>9, InvNext

\* lazy_initialize()
LEMMA LazyInitializeInv ==
  ASSUME Inv, LazyInitialize, UNCHANGED arrays
  PROVE  Inv'
<1> DEFINE h == Head(todo)
<1>1. todo # << >> /\ h.op = "lazy" /\ At("lazy") BY DEF LazyInitialize, At
<1>2. ~Fixes(h) BY <1>1 DEF Fixes
<1>3. Single(Plan) /\ First(h, Plan) /\ Consistent(Plan, alloc, result, arrays)
  BY <1>1, <1>2, HeadFirst
<1> HIDE DEF h
<1>4. CASE alloc.meta_total >= RequiredTotalMetaBlocks
  <2>1. Then(<< >>) /\ UNCHANGED <<alloc, content, result>> BY <1>4 DEF LazyInitialize
  <2>2. Does(todo', Plan') /\ Plan' = Plan \ {h} BY <1>1, <1>2, <2>1, NothingBehind DEF h
  <2>3. /\ \A op \in {"fit", "reallocate", "move", "anchor", "reset", "region", "put"} :
             Doing(Plan \ {h}, op) = Doing(Plan, op)
        /\ Doing(Plan \ {h}, "lazy") \subseteq Doing(Plan, "lazy")
    BY <1>1 DEF Doing
  <2>4. Consistent(Plan \ {h}, alloc, result, arrays) BY <1>3, <2>3, IdleStep
  <2>5. QED BY <2>1, <2>2, <2>4, InvNext
<1>5. CASE ~(alloc.meta_total >= RequiredTotalMetaBlocks) /\ ~Throw
  <2> DEFINE n == RequiredTotalMetaBlocks - alloc.meta_total
             g == ChunkSize(n)
             b == FromEngine(alloc, n).state
  <2>1. CanGrow(n) /\ alloc' = b /\ Then(Free(alloc.engine, g)) /\ UNCHANGED <<content, result>>
    <3>1. /\ CanGrow(n) /\ alloc' = b /\ UNCHANGED <<content, result>>
          /\ Then(Free(FromEngine(alloc, n).extent.block, FromEngine(alloc, n).extent.size))
      BY <1>5 DEF LazyInitialize
    <3>2. FromEngine(alloc, n).extent.block = alloc.engine /\ FromEngine(alloc, n).extent.size = g
      BY DEF FromEngine, Extent
    <3>3. QED BY <3>1, <3>2
  <2>2. Sound(alloc) /\ alloc.meta_total \in Int /\ alloc.engine \in Nat
    BY <1>3 DEF Consistent, Placed, Sound, Allocators
  <2>3. n \in Nat BY <1>5, <2>2 DEF RequiredTotalMetaBlocks
  <2>4. g \in Nat BY <2>3, ChunkBound
  <2>5. alloc.engine + ChunkSize(n) <= MaxBlocks BY <2>1 DEF CanGrow
  <2> HIDE DEF n
  <2>6. GrownTo(alloc, b, g) BY <2>2, <2>3, <2>5, EngineGrown
  <2> HIDE DEF b, g
  <2>7. Does(todo', Plan') /\ Plan' = NextPlan(Plan, h, alloc.engine, g)
    BY <1>1, <1>2, <2>1, <2>2, <2>4, PutBehind DEF h
  <2>8. Consistent(NextPlan(Plan, h, alloc.engine, g), b, result, arrays)
    BY <1>1, <1>3, <2>4, <2>6, LazyGrows DEF GrownTo
  <2>9. QED BY <2>1, <2>7, <2>8, InvNext
<1>6. CASE Throw BY <1>1, <1>6, ThrowInv
<1>7. QED BY <1>4, <1>5, <1>6

\* A round of the first loop of fix_freelist.
LEMMA DrainInv ==
  ASSUME Inv, Drain, UNCHANGED arrays
  PROVE  Inv'
<1>1. todo # << >> /\ Head(todo).op = "drain" BY DEF Drain, At
<1>2. Fixes(Head(todo)) BY <1>1 DEF Fixes
<1>3. Does(todo, Plan) /\ Consistent(Plan, alloc, result, arrays) BY DEF Inv
<1>4. CASE alloc.meta_free > RequiredFree(alloc) /\ alloc.meta_total > RequiredTotalMetaBlocks
  <2>1. PICK k \in alloc.meta :
          /\ alloc' \in FreeInternal([alloc EXCEPT !.meta = @ \ {k}, !.meta_free = @ - 1,
                                                   !.meta_total = @ - 1], Extent(k, 1))
          /\ UNCHANGED <<content, todo, result>>
    BY <1>4 DEF Drain
  <2>2. Sound(alloc) BY <1>3 DEF Consistent, Placed
  <2>3. Shuffled(alloc, alloc')
    <3>1. alloc' \in FreeInternal(GivenUp(alloc, k), Extent(k, 1)) BY <2>1 DEF GivenUp
    <3>2. QED BY <1>4, <2>2, <3>1, Drained
  <2>4. Consistent(Plan, alloc', result, arrays) BY <1>3, <2>3, RoundKeeps
  <2>5. Plan' = Plan BY <2>1 DEF Plan
  <2>6. QED BY <1>3, <2>1, <2>4, <2>5, InvNext
<1>5. CASE ~(alloc.meta_free > RequiredFree(alloc) /\ alloc.meta_total > RequiredTotalMetaBlocks)
  <2>1. Then(<< >>) /\ UNCHANGED <<alloc, content, result>> BY <1>5 DEF Drain
  <2>2. Does(todo', Plan') /\ Plan' = Plan BY <1>1, <1>2, <1>3, <2>1, FixPlan
  <2>3. QED BY <1>3, <2>1, <2>2, InvNext
<1>6. QED BY <1>4, <1>5

\* A round of the second loop of fix_freelist.
LEMMA FillInv ==
  ASSUME Inv, Fill, UNCHANGED arrays
  PROVE  Inv'
<1>1. todo # << >> /\ Head(todo).op = "fill" BY DEF Fill, At
<1>2. Fixes(Head(todo)) BY <1>1 DEF Fixes
<1>3. Does(todo, Plan) /\ Consistent(Plan, alloc, result, arrays) BY DEF Inv
<1>4. CASE alloc.meta_free < RequiredFree(alloc) /\ alloc.extents # {}
  <2>1. PICK c \in AllocateExtent(alloc, FrontExtent) : alloc' \in Put(c, FrontExtent, Needed(alloc))
    BY <1>4 DEF Fill
  <2>2. UNCHANGED <<content, todo, result>> BY <1>4 DEF Fill
  <2>3. Sound(alloc) BY <1>3 DEF Consistent, Placed
  <2>4. alloc.extents \in SUBSET Extents BY <2>3 DEF Sound, Allocators
  <2>5. FrontExtent \in alloc.extents BY <1>4, <2>4, FrontFound DEF FrontExtent
  <2>6. Shuffled(alloc, alloc') BY <2>1, <2>3, <2>5, Filled
  <2>7. Consistent(Plan, alloc', result, arrays) BY <1>3, <2>6, RoundKeeps
  <2>8. Plan' = Plan BY <2>2 DEF Plan
  <2>9. QED BY <1>3, <2>2, <2>7, <2>8, InvNext
<1>5. CASE ~(alloc.meta_free < RequiredFree(alloc) /\ alloc.extents # {})
  <2>1. Then(<< >>) /\ UNCHANGED <<alloc, content, result>> BY <1>5 DEF Fill
  <2>2. Does(todo', Plan') /\ Plan' = Plan BY <1>1, <1>2, <1>3, <2>1, FixPlan
  <2>3. QED BY <1>3, <2>1, <2>2, InvNext
<1>6. QED BY <1>4, <1>5

\* The last part of free().
LEMMA PutBackInv ==
  ASSUME Inv, PutBack, UNCHANGED arrays
  PROVE  Inv'
<1> DEFINE h == Head(todo)
           e == Extent(h.block, h.size)
<1>1. todo # << >> /\ h.op = "put" BY DEF PutBack, At
<1>2. ~Fixes(h) BY <1>1 DEF Fixes
<1>3. Single(Plan) /\ First(h, Plan) /\ Consistent(Plan, alloc, result, arrays) /\ h \in Items
  BY <1>1, <1>2, HeadFirst
<1>4. alloc' \in Put(alloc, e, Needed(alloc)) /\ Then(<< >>) /\ UNCHANGED result BY DEF PutBack
<1>5. Does(todo', Plan') /\ Plan' = Plan \ {h} BY <1>1, <1>2, <1>4, NothingBehind
<1>6. h.block \in Nat /\ h.size \in Nat \ {0} BY <1>1, <1>3 DEF Items
<1>7. e \in Extents /\ BlocksOf(e) = BlocksOf(h) BY <1>6, ExtentTyped DEF BlocksOf
<1> HIDE DEF e, h
<1>8. Sound(alloc) /\ alloc.engine \in Nat /\ alloc \in Allocators /\ RegionSize \in Nat
  BY <1>3, AllocatorAssumption DEF Consistent, Placed, Sound, Allocators
<1>9. /\ BlocksOf(e) \subseteq 0 .. alloc.engine - 1
      /\ BlocksOf(e) \cap Cover(alloc.extents) = {} /\ BlocksOf(e) \cap alloc.meta = {}
  <2>1. h \in Doing(Plan, "put") BY <1>1, <1>3 DEF Doing, First
  <2>2. BlocksOf(e) \subseteq Returned(Plan) BY <1>7, <2>1 DEF Returned
  <2>3. /\ Returned(Plan) \subseteq Got(Plan, alloc) /\ Returned(Plan) \cap Cover(alloc.extents) = {}
        /\ Returned(Plan) \cap alloc.meta = {}
    BY <1>3 DEF Consistent, ClaimsOK, Parts
  <2>4. Got(Plan, alloc) \subseteq 0 .. alloc.engine - 1 BY <1>8 DEF Got
  <2>5. QED BY <2>2, <2>3, <2>4
<1>10. Needed(alloc) \in Nat /\ alloc.meta_free + Needed(alloc) >= RequiredFree(alloc)
  BY <1>8, NeededBound
<1>11. /\ Sound(alloc') /\ Kin(alloc, alloc')
       /\ Cover(alloc'.extents) \cup alloc'.meta = Cover(alloc.extents) \cup alloc.meta \cup BlocksOf(e)
  BY <1>4, <1>7, <1>8, <1>9, <1>10, ExtentPut
<1>12. Consistent(Plan \ {h}, alloc', result, arrays) BY <1>1, <1>3, <1>7, <1>11, PutKeeps
<1>13. QED BY <1>4, <1>5, <1>12, InvNext

\* n blocks from block b on.
Run(b, n) == b .. b + n - 1

\* A run of blocks, cut in two.
LEMMA RunSplit ==
  ASSUME NEW i \in Nat, NEW j \in Nat, NEW k \in Nat, j <= k
  PROVE  /\ Run(i, k) = Run(i, j) \cup Run(i + j, k - j) /\ Run(i, j) \cap Run(i + j, k - j) = {}
         /\ Run(i, 0) = {}
<1>1. /\ i .. (i + k) - 1 = (i .. (i + j) - 1) \cup (i + j .. (i + k) - 1)
      /\ (i .. (i + j) - 1) \cap (i + j .. (i + k) - 1) = {}
  BY Split
<1>2. /\ i + k - 1 = (i + k) - 1 /\ i + j - 1 = (i + j) - 1
      /\ (i + j) + (k - j) - 1 = (i + k) - 1
  OBVIOUS
<1>3. i .. i + 0 - 1 = {} OBVIOUS
<1>4. QED BY <1>1, <1>2, <1>3 DEF Run

\* j blocks from i on and the l blocks behind them are used up to the m-th, and the n
\* blocks from u on are left.
Cut(i, j, l, m, u, n) ==
  /\ Run(u, n) \cup Run(i, m) = Run(i, j) \cup Run(i + j, l)
  /\ Run(u, n) \cap Run(i, m) = {}
  /\ u \in Nat /\ n \in Nat

\* Two runs, one behind the other, cut at another place.
LEMMA CutTwice ==
  ASSUME NEW i \in Nat, NEW j \in Nat, NEW l \in Nat, NEW m \in Nat, m <= j + l,
         NEW u, NEW n, u = i + m, n = (j + l) - m
  PROVE  Cut(i, j, l, m, u, n)
<1> DEFINE k == j + l
<1>1. k \in Nat /\ j <= k /\ k - j = l /\ m <= k /\ n = k - m OBVIOUS
<1> HIDE DEF k
<1>2. Run(i, k) = Run(i, j) \cup Run(i + j, k - j) BY <1>1, RunSplit
<1>3. Run(i, k) = Run(i, m) \cup Run(i + m, k - m) /\ Run(i, m) \cap Run(i + m, k - m) = {}
  BY <1>1, RunSplit
<1>4. u \in Nat /\ n \in Nat BY <1>1
<1>5. QED BY <1>1, <1>2, <1>3, <1>4 DEF Cut

\* The pieces of a search: what is put back and what is used, against where it is from.
Pieces(u, n, r, m, B, G, E) ==
  Run(u, n) \cup Run(r, m) = B \cup G \cup E /\ Run(u, n) \cap Run(r, m) = {}

\* allocate() or reallocate() has found storage.
LEMMA FoundInv ==
  ASSUME Inv, todo # << >>, Head(todo).op \in {"fit", "reallocate"}, UNCHANGED arrays,
         NEW g \in Nat, Sound(alloc'), Grown(alloc, alloc', g), alloc'.meta = alloc.meta,
         NEW B, B \subseteq Cover(alloc.extents), Cover(alloc'.extents) = Cover(alloc.extents) \ B,
         result' \in Nat, NEW u \in Nat, NEW n \in Nat, Then(Free(u, n)), NEW m,
         Head(todo).op = "fit" => m = Head(todo).size,
         Head(todo).op = "reallocate" => m = Head(todo).new_size,
         NEW E, E = IF Head(todo).op = "fit" THEN {} ELSE Run(Head(todo).block, Head(todo).size),
         Pieces(u, n, result', m, B, Run(alloc.engine, g), E)
  PROVE  Inv'
<1> DEFINE h == Head(todo)
<1>1. ~Fixes(h) BY DEF Fixes
<1>2. Single(Plan) /\ First(h, Plan) /\ Consistent(Plan, alloc, result, arrays) BY <1>1, HeadFirst
<1>3. Does(todo', Plan') /\ Plan' = NextPlan(Plan, h, u, n) BY <1>1, PutBehind
<1>4. /\ (u .. u + n - 1) \cup (result' .. result' + m - 1)
             = B \cup (alloc.engine .. alloc.engine + g - 1) \cup E
      /\ (u .. u + n - 1) \cap (result' .. result' + m - 1) = {}
  BY DEF Pieces, Run
<1>5. E = IF h.op = "fit" THEN {} ELSE h.block .. h.block + h.size - 1 BY DEF Run
<1> DEFINE a2 == alloc'
           r2 == result'
<1>6. Consistent(NextPlan(Plan, h, u, n), a2, r2, arrays)
  <2>1. /\ Sound(a2) /\ Grown(alloc, a2, g) /\ a2.meta = alloc.meta
        /\ Cover(a2.extents) = Cover(alloc.extents) \ B /\ r2 \in Nat
        /\ (u .. u + n - 1) \cup (r2 .. r2 + m - 1) = B \cup (alloc.engine .. alloc.engine + g - 1) \cup E
        /\ (u .. u + n - 1) \cap (r2 .. r2 + m - 1) = {}
    BY <1>4
  <2>2. h.op \in {"fit", "reallocate"} /\ (h.op = "fit" => m = h.size) /\ (h.op = "reallocate" => m = h.new_size)
    OBVIOUS
  <2> HIDE DEF a2, r2, h
  <2>3. QED BY <1>2, <1>5, <2>1, <2>2, StorageFound
<1>7. QED BY <1>3, <1>6, InvNext

\* An extent leaves the trees of a, which has grown by g blocks since c.
LEMMA ExtentUsed ==
  ASSUME NEW c, NEW a, NEW g, GrownTo(c, a, g), NEW e \in a.extents, NEW b \in AllocateExtent(a, e)
  PROVE  /\ Sound(b) /\ Grown(c, b, g) /\ b.meta = c.meta
         /\ BlocksOf(e) \subseteq Cover(c.extents) /\ Cover(b.extents) = Cover(c.extents) \ BlocksOf(e)
<1>1. Sound(a) /\ Grown(c, a, g) /\ a.extents = c.extents /\ a.meta = c.meta BY DEF GrownTo
<1>2. Sound(b) /\ SameBlocks(a, b) /\ Cover(b.extents) = Cover(a.extents) \ BlocksOf(e)
  BY <1>1, ExtentAllocated
<1>3. BlocksOf(e) \subseteq Cover(a.extents) BY DEF Cover
<1>4. QED BY <1>1, <1>2, <1>3 DEF SameBlocks, Grown

\* No growth is growth by nothing.
LEMMA NotGrown ==
  ASSUME NEW a, Placed(a)
  PROVE  GrownTo(a, a, 0) /\ Run(a.engine, 0) = {} /\ a.engine \in Nat
<1>1. Sound(a) /\ a.engine \in Nat /\ a.data_total \in Int /\ a.engine <= MaxBlocks
  BY DEF Placed, Sound, Allocators
<1>2. a.engine + 0 = a.engine /\ a.data_total + 0 = a.data_total BY <1>1
<1>3. Run(a.engine, 0) = {} BY <1>1, RunSplit
<1>4. QED BY <1>1, <1>2, <1>3 DEF GrownTo, Grown

\* allocate() behind fix_freelist.
LEMMA FitInv ==
  ASSUME Inv, Fit, UNCHANGED arrays
  PROVE  Inv'
<1> DEFINE h == Head(todo)
           n == h.size
           fits == { e \in alloc.extents : e.size >= n }
           best == CHOOSE e \in fits :
                     \A f \in fits : e.size < f.size \/ (e.size = f.size /\ e.block <= f.block)
           last == { e \in alloc.extents : BordersEnd(alloc, e) }
<1>1. todo # << >> /\ h.op = "fit" /\ At("fit") BY DEF Fit, At
<1>2. ~Fixes(h) BY <1>1 DEF Fixes
<1>3. Consistent(Plan, alloc, result, arrays) /\ h \in Items BY <1>1, <1>2, HeadFirst
<1>4. n \in Nat \ {0} BY <1>1, <1>3 DEF Items
<1>5. Placed(alloc) /\ Sound(alloc) /\ alloc.extents \in SUBSET Extents /\ alloc.engine \in Nat
  BY <1>3 DEF Consistent, Placed, Sound, Allocators
<1>6. \A e \in alloc.extents : e.block \in Nat /\ e.size \in Nat \ {0} BY <1>5 DEF Extents
<1>7. GrownTo(alloc, alloc, 0) /\ Run(alloc.engine, 0) = {} BY <1>5, NotGrown
<1>8. CASE fits # {}
  <2>1. Use(alloc, best) /\ Then(Free(best.block + n, best.size - n)) BY <1>8 DEF Fit
  <2>2. best \in fits
    <3>1. fits \in SUBSET Extents BY <1>5
    <3> HIDE DEF fits
    <3>2. QED BY <1>8, <3>1, BestFound
  <2> HIDE DEF best
  <2>3. best \in alloc.extents /\ best.size >= n BY <2>2
  <2>4. alloc' \in AllocateExtent(alloc, best) /\ result' = best.block BY <2>1 DEF Use
  <2>5. /\ Sound(alloc') /\ Grown(alloc, alloc', 0) /\ alloc'.meta = alloc.meta
        /\ BlocksOf(best) \subseteq Cover(alloc.extents)
        /\ Cover(alloc'.extents) = Cover(alloc.extents) \ BlocksOf(best)
    BY <1>7, <2>3, <2>4, ExtentUsed
  <2> HIDE DEF n, h
  <2> DEFINE u == best.block + n
             k == best.size - n
  <2>6. best.block \in Nat /\ best.size \in Nat /\ n \in Nat /\ n <= best.size
    BY <1>4, <1>6, <2>3
  <2>7. u = best.block + n /\ k = (best.size + 0) - n /\ n <= best.size + 0 /\ 0 \in Nat BY <2>6
  <2>8. Run(best.block + best.size, 0) = {}
    <3>1. best.block + best.size \in Nat BY <2>6
    <3>2. QED BY <3>1, RunSplit
  <2>9. BlocksOf(best) = Run(best.block, best.size) BY DEF BlocksOf, Run
  <2> HIDE DEF u, k
  <2>10. Cut(best.block, best.size, 0, n, u, k) BY <2>6, <2>7, CutTwice
  <2>10a. Pieces(u, k, result', n, BlocksOf(best), Run(alloc.engine, 0), {}) /\ u \in Nat /\ k \in Nat
    BY <1>7, <2>4, <2>8, <2>9, <2>10 DEF Pieces, Cut
  <2>11. Then(Free(u, k)) BY <2>1 DEF u, k
  <2>12. 0 \in Nat /\ result' \in Nat BY <2>4, <2>6
  <2>13. QED BY <1>1, <2>5, <2>10a, <2>11, <2>12, FoundInv DEF h, n
<1>9. CASE fits = {} /\ last # {} /\ ~Throw
  <2> DEFINE e == CHOOSE f \in last : TRUE
             k == n - e.size
             g == ChunkSize(k)
             a2 == FromEngine(alloc, k).state
  <2>1. CanGrow(k) /\ Use(a2, e) /\ Then(Free(e.block + n, e.size + g - n))
    <3>1. /\ CanGrow(k) /\ Use(a2, e)
          /\ Then(Free(e.block + n, e.size + FromEngine(alloc, k).extent.size - n))
      BY <1>9 DEF Fit
    <3>2. FromEngine(alloc, k).extent.size = g BY DEF FromEngine, Extent
    <3>3. QED BY <3>1, <3>2
  <2>2. e \in last BY <1>9
  <2> HIDE DEF e
  <2>3. e \in alloc.extents /\ e.block + e.size = alloc.engine BY <2>2 DEF BordersEnd
  <2>4. ~(e.size >= n) BY <1>9, <2>3
  <2> HIDE DEF n, h, fits, last
  <2>5. /\ e.block \in Nat /\ e.size \in Nat /\ n \in Nat /\ k \in Nat BY <1>4, <1>6, <2>3, <2>4
  <2>6. alloc.engine + ChunkSize(k) <= MaxBlocks BY <2>1 DEF CanGrow
  <2>7. g \in Nat /\ g >= k BY <2>5, ChunkBound
  <2>8. n <= e.size + g BY <2>5, <2>7
  <2> HIDE DEF k
  <2>9. GrownTo(alloc, a2, g) BY <1>5, <2>5, <2>6, EngineGrown
  <2> HIDE DEF g, a2
  <2>10. alloc' \in AllocateExtent(a2, e) /\ result' = e.block BY <2>1 DEF Use
  <2>11. e \in a2.extents BY <2>3, <2>9 DEF GrownTo
  <2>12. /\ Sound(alloc') /\ Grown(alloc, alloc', g) /\ alloc'.meta = alloc.meta
         /\ BlocksOf(e) \subseteq Cover(alloc.extents)
         /\ Cover(alloc'.extents) = Cover(alloc.extents) \ BlocksOf(e)
    BY <2>9, <2>10, <2>11, ExtentUsed
  <2> DEFINE u == e.block + n
             w == e.size + g - n
  <2>13. u = e.block + n /\ w = (e.size + g) - n BY <2>5, <2>7
  <2>14. BlocksOf(e) = Run(e.block, e.size) BY DEF BlocksOf, Run
  <2> HIDE DEF u, w
  <2>15. Cut(e.block, e.size, g, n, u, w) BY <2>5, <2>7, <2>8, <2>13, CutTwice
  <2>16. Pieces(u, w, result', n, BlocksOf(e), Run(alloc.engine, g), {}) /\ u \in Nat /\ w \in Nat
    BY <2>3, <2>10, <2>14, <2>15 DEF Pieces, Cut
  <2>17. Then(Free(u, w)) BY <2>1 DEF u, w
  <2>18. result' \in Nat BY <2>5, <2>10
  <2>19. QED BY <1>1, <2>7, <2>12, <2>16, <2>17, <2>18, FoundInv DEF h, n
<1>10. CASE fits = {} /\ last = {} /\ ~Throw
  <2> DEFINE g == ChunkSize(n)
             a2 == FromEngine(alloc, n).state
  <2>1. /\ CanGrow(n) /\ alloc' = a2 /\ result' = alloc.engine
        /\ Then(Free(alloc.engine + n, g - n))
    <3>1. /\ CanGrow(n) /\ alloc' = a2 /\ result' = FromEngine(alloc, n).extent.block
          /\ Then(Free(FromEngine(alloc, n).extent.block + n, FromEngine(alloc, n).extent.size - n))
      BY <1>10 DEF Fit
    <3>2. FromEngine(alloc, n).extent.size = g /\ FromEngine(alloc, n).extent.block = alloc.engine
      BY DEF FromEngine, Extent
    <3>3. QED BY <3>1, <3>2
  <2> HIDE DEF n, h, fits, last
  <2>2. alloc.engine + ChunkSize(n) <= MaxBlocks BY <2>1 DEF CanGrow
  <2>3. g \in Nat /\ g >= n BY <1>4, ChunkBound
  <2>4. GrownTo(alloc, a2, g) BY <1>4, <1>5, <2>2, EngineGrown
  <2> HIDE DEF g, a2
  <2>5. Sound(alloc') /\ Grown(alloc, alloc', g) /\ alloc'.meta = alloc.meta
        /\ Cover(alloc'.extents) = Cover(alloc.extents) \ {}
    BY <2>1, <2>4 DEF GrownTo
  <2> DEFINE u == alloc.engine + n
             k == g - n
  <2>6. u = alloc.engine + n /\ k = (g + 0) - n /\ n <= g + 0 /\ 0 \in Nat BY <1>4, <1>5, <2>3
  <2>7. Run(alloc.engine + g, 0) = {}
    <3>1. alloc.engine + g \in Nat BY <1>5, <2>3
    <3>2. QED BY <3>1, RunSplit
  <2> HIDE DEF u, k
  <2>8. Cut(alloc.engine, g, 0, n, u, k) BY <1>4, <1>5, <2>3, <2>6, CutTwice
  <2>8a. Pieces(u, k, result', n, {}, Run(alloc.engine, g), {}) /\ u \in Nat /\ k \in Nat
    BY <2>1, <2>7, <2>8 DEF Pieces, Cut
  <2>9. Then(Free(u, k)) BY <2>1 DEF u, k
  <2>10. result' \in Nat BY <1>5, <2>1
  <2>11. {} \subseteq Cover(alloc.extents) OBVIOUS
  <2>12. QED BY <1>1, <2>3, <2>5, <2>8a, <2>9, <2>10, <2>11, FoundInv DEF h, n
<1>11. CASE Throw BY <1>1, <1>11, ThrowInv
<1>12. QED BY <1>8, <1>9, <1>10, <1>11

\* What an attempt of reallocate() leads to.
Attempt(left, e, right, m, need, next, prev, d) ==
  \/ /\ m < e.size /\ alloc' = alloc /\ result' = e.block /\ content' = content
     /\ Then(Free(e.block + m, e.size - m))
  \/ /\ m >= e.size /\ \E f \in right : f.size >= need
     /\ alloc' \in AllocateExtent(alloc, next) /\ result' = e.block /\ content' = content
     /\ Then(Free(next.block + need, next.size - need))
  \/ /\ m >= e.size /\ left # {} /\ Use(alloc, prev)
     /\ content' = CopyBlocks(e.block, prev.block, e.size)
     /\ Then(Free(prev.block + m, prev.size + e.size - m))
  \/ /\ m >= e.size /\ \A f \in right : f.size < need
     /\ \E f \in right : BordersEnd(alloc, f)
     /\ CanGrow(d) /\ alloc' \in AllocateExtent(FromEngine(alloc, d).state, next)
     /\ result' = e.block /\ content' = content
     /\ Then(Free(FromEngine(alloc, d).extent.block + d, FromEngine(alloc, d).extent.size - d))
  \/ /\ m >= e.size /\ BordersEnd(alloc, e)
     /\ CanGrow(need) /\ alloc' = FromEngine(alloc, need).state
     /\ result' = e.block /\ content' = content
     /\ Then(Free(FromEngine(alloc, need).extent.block + need, FromEngine(alloc, need).extent.size - need))
  \/ /\ m >= e.size /\ alloc' = alloc /\ result' = result /\ content' = content
     /\ Then(Allocate(m) \o <<MoveItem(e.block, e.size)>>)
  \/ Throw

\* One of the attempts is made.
LEMMA ReallocateCases ==
  ASSUME NEW left, NEW e, NEW right, NEW m \in Nat, e.size \in Nat, \A f \in right : f.size \in Nat,
         ReallocateBetween(left, e, right, m),
         NEW need, need = m - e.size,
         NEW next, next = CHOOSE f \in right : TRUE,
         NEW prev, prev = CHOOSE f \in left : TRUE,
         NEW d, d = need - next.size
  PROVE  Attempt(left, e, right, m, need, next, prev, d)
<1>1. CASE m < e.size BY <1>1 DEF ReallocateBetween, Attempt
<1>2. CASE m >= e.size /\ \E f \in right : f.size >= need BY <1>2 DEF ReallocateBetween, Attempt
<1>3. CASE m >= e.size /\ (\A f \in right : f.size < need) /\ left # {}
  BY <1>3 DEF ReallocateBetween, Attempt
<1>4. CASE /\ m >= e.size /\ (\A f \in right : f.size < need) /\ left = {}
           /\ \E f \in right : BordersEnd(alloc, f)
  BY <1>4 DEF ReallocateBetween, Attempt
<1>5. CASE m >= e.size /\ right = {} /\ left = {} /\ BordersEnd(alloc, e)
  BY <1>5 DEF ReallocateBetween, Attempt
<1>6. CASE /\ m >= e.size /\ (\A f \in right : f.size < need) /\ left = {}
           /\ ~(\E f \in right : BordersEnd(alloc, f)) /\ ~(right = {} /\ BordersEnd(alloc, e))
  BY <1>6 DEF ReallocateBetween, Attempt, MoveItem
<1>7. m < e.size \/ m >= e.size OBVIOUS
<1>8. (\E f \in right : f.size >= need) \/ (\A f \in right : f.size < need) OBVIOUS
<1>9. QED BY <1>1, <1>2, <1>3, <1>4, <1>5, <1>6, <1>7, <1>8

\* reallocate() behind lazy_initialize.
LEMMA ReallocateInv ==
  ASSUME Inv, ReallocateStep, UNCHANGED arrays
  PROVE  Inv'
<1> DEFINE h == Head(todo)
           b == h.block
           s == h.size
           e == Extent(b, s)
           m == h.new_size
           need == m - s
           right == { f \in alloc.extents : Touch(e, f) }
           left == { f \in alloc.extents : Touch(f, e) /\ f.size >= need }
           next == CHOOSE f \in right : TRUE
           prev == CHOOSE f \in left : TRUE
           E == Run(b, s)
<1>1. todo # << >> /\ h.op = "reallocate" /\ At("reallocate") BY DEF ReallocateStep, At
<1>0. ReallocateBetween(left, e, right, m)
  <2>1. ReallocateBetween({ f \in alloc.extents : Touch(f, e) /\ f.size >= m - e.size }, e, right, m)
    BY DEF ReallocateStep
  <2>2. e.size = s BY DEF Extent
  <2>3. QED BY <2>1, <2>2
<1>2. ~Fixes(h) BY <1>1 DEF Fixes
<1>3. Consistent(Plan, alloc, result, arrays) /\ h \in Items BY <1>1, <1>2, HeadFirst
<1>4. b \in Nat /\ s \in Nat \ {0} /\ m \in Nat \ {0} BY <1>1, <1>3 DEF Items
<1>5. /\ Placed(alloc) /\ Sound(alloc) /\ alloc.extents \in SUBSET Extents /\ alloc.engine \in Nat
      /\ \A f, g \in alloc.extents : f = g \/ Separate(f, g)
  BY <1>3 DEF Consistent, Placed, Sound, Allocators
<1>6. \A f \in alloc.extents : f.block \in Nat /\ f.size \in Nat \ {0} BY <1>5 DEF Extents
<1>7. GrownTo(alloc, alloc, 0) /\ Run(alloc.engine, 0) = {} BY <1>5, NotGrown
<1>8. e \in Extents /\ e.block = b /\ e.size = s BY <1>4, ExtentTyped
<1>9. \A f, g \in right : f = g
  <2>1. \A f, g \in RightOf(alloc.extents, e) : f = g BY <1>5, <1>8, Neighbours
  <2>2. QED BY <2>1 DEF RightOf
<1>10. \A f \in right : b + s = f.block BY <1>8 DEF Touch
<1>11. \A f \in left : f.block + f.size = b /\ f.size >= need BY <1>8 DEF Touch
<1>12. \A f : BlocksOf(f) = Run(f.block, f.size) BY DEF BlocksOf, Run
<1>13. Sound(alloc) /\ Grown(alloc, alloc, 0) BY <1>7 DEF GrownTo
<1>14. ASSUME m < s, alloc' = alloc, result' = b, Then(Free(b + m, s - m)) PROVE Inv'
  <2>1. Then(Free(b + m, s - m)) /\ result' = b /\ alloc' = alloc BY <1>14
  <2> DEFINE u == b + m
             k == s - m
  <2>2. u = b + m /\ k = (s + 0) - m /\ m <= s + 0 /\ 0 \in Nat BY <1>4, <1>14
  <2> HIDE DEF h, b, s, e, m, u, k, E
  <2>3. Run(b + s, 0) = {}
    <3>1. b + s \in Nat BY <1>4
    <3>2. QED BY <3>1, RunSplit
  <2>4. Cut(b, s, 0, m, u, k) BY <1>4, <2>2, CutTwice
  <2>5. Pieces(u, k, result', m, {}, Run(alloc.engine, 0), E) /\ u \in Nat /\ k \in Nat
    BY <1>7, <2>1, <2>3, <2>4 DEF Pieces, Cut, E
  <2>6. Then(Free(u, k)) BY <2>1 DEF u, k
  <2>7. /\ {} \subseteq Cover(alloc.extents) /\ Cover(alloc'.extents) = Cover(alloc.extents) \ {}
        /\ alloc'.meta = alloc.meta /\ Sound(alloc') /\ Grown(alloc, alloc', 0)
    BY <1>13, <2>1
  <2>8. QED BY <1>1, <1>4, <2>1, <2>2, <2>5, <2>6, <2>7, FoundInv DEF h, b, s, m, E
<1>15. ASSUME m >= s, \E f \in right : f.size >= need,
              alloc' \in AllocateExtent(alloc, next), result' = b,
              Then(Free(next.block + need, next.size - need))
       PROVE  Inv'
  <2>2. /\ alloc' \in AllocateExtent(alloc, next) /\ result' = b
        /\ Then(Free(next.block + need, next.size - need))
    BY <1>15
  <2>3. next \in right BY <1>15
  <2> HIDE DEF next
  <2>4. next.size >= need /\ next \in alloc.extents /\ b + s = next.block
    BY <1>9, <1>10, <1>15, <2>3
  <2>5. /\ Sound(alloc') /\ Grown(alloc, alloc', 0) /\ alloc'.meta = alloc.meta
        /\ BlocksOf(next) \subseteq Cover(alloc.extents)
        /\ Cover(alloc'.extents) = Cover(alloc.extents) \ BlocksOf(next)
    BY <1>7, <2>2, <2>4, ExtentUsed
  <2> DEFINE u == next.block + need
             k == next.size - need
  <2>6. next.block \in Nat /\ next.size \in Nat BY <1>6, <2>4
  <2> HIDE DEF h, b, s, e, m, E, right, left
  <2>7. u = b + m /\ k = (s + next.size) - m /\ m <= s + next.size BY <1>4, <2>4, <2>6
  <2> HIDE DEF u, k, need
  <2>8. Cut(b, s, next.size, m, u, k) BY <1>4, <2>6, <2>7, CutTwice
  <2>9. BlocksOf(next) = Run(b + s, next.size) BY <1>12, <2>4
  <2>10. Pieces(u, k, result', m, BlocksOf(next), Run(alloc.engine, 0), E) /\ u \in Nat /\ k \in Nat
    BY <1>7, <2>2, <2>8, <2>9 DEF Pieces, Cut, E
  <2>11. Then(Free(u, k)) /\ result' \in Nat /\ 0 \in Nat BY <1>4, <2>2 DEF u, k
  <2>12. QED BY <1>1, <2>5, <2>10, <2>11, FoundInv DEF h, b, s, m, E
<1>16. ASSUME m >= s, left # {}, Use(alloc, prev), Then(Free(prev.block + m, prev.size + s - m))
       PROVE  Inv'
  <2>2. Use(alloc, prev) /\ Then(Free(prev.block + m, prev.size + s - m)) BY <1>16
  <2>3. prev \in left BY <1>16
  <2> HIDE DEF prev
  <2>4. prev.size >= need /\ prev \in alloc.extents /\ prev.block + prev.size = b
    BY <1>11, <2>3
  <2>5. alloc' \in AllocateExtent(alloc, prev) /\ result' = prev.block BY <2>2 DEF Use
  <2>6. /\ Sound(alloc') /\ Grown(alloc, alloc', 0) /\ alloc'.meta = alloc.meta
        /\ BlocksOf(prev) \subseteq Cover(alloc.extents)
        /\ Cover(alloc'.extents) = Cover(alloc.extents) \ BlocksOf(prev)
    BY <1>7, <2>4, <2>5, ExtentUsed
  <2> DEFINE u == prev.block + m
             k == prev.size + s - m
  <2>7. prev.block \in Nat /\ prev.size \in Nat BY <1>6, <2>4
  <2> HIDE DEF h, b, s, e, m, E, right, left
  <2>8. u = prev.block + m /\ k = (prev.size + s) - m /\ m <= prev.size + s BY <1>4, <2>4, <2>7
  <2> HIDE DEF u, k, need
  <2>9. Cut(prev.block, prev.size, s, m, u, k) BY <1>4, <2>7, <2>8, CutTwice
  <2>10. BlocksOf(prev) = Run(prev.block, prev.size) BY <1>12
  <2>11. Pieces(u, k, result', m, BlocksOf(prev), Run(alloc.engine, 0), E) /\ u \in Nat /\ k \in Nat
    BY <1>7, <2>4, <2>5, <2>9, <2>10 DEF Pieces, Cut, E
  <2>12. Then(Free(u, k)) /\ result' \in Nat /\ 0 \in Nat BY <2>2, <2>5, <2>7 DEF u, k
  <2>13. QED BY <1>1, <2>6, <2>11, <2>12, FoundInv DEF h, b, s, m, E
<1> DEFINE d == need - next.size
<1>17. ASSUME m >= s, \A f \in right : f.size < need, \E f \in right : BordersEnd(alloc, f),
              CanGrow(d), result' = b, alloc' \in AllocateExtent(FromEngine(alloc, d).state, next),
              Then(Free(FromEngine(alloc, d).extent.block + d, FromEngine(alloc, d).extent.size - d))
       PROVE  Inv'
  <2> DEFINE g == ChunkSize(d)
             a2 == FromEngine(alloc, d).state
  <2>2. /\ CanGrow(d) /\ alloc' \in AllocateExtent(a2, next) /\ result' = b
        /\ Then(Free(alloc.engine + d, g - d))
    <3>1. FromEngine(alloc, d).extent.size = g /\ FromEngine(alloc, d).extent.block = alloc.engine
      BY DEF FromEngine, Extent
    <3>2. QED BY <1>17, <3>1
  <2>3. next \in right BY <1>17
  <2> HIDE DEF next
  <2>4. next \in alloc.extents /\ b + s = next.block /\ next.size < need
    BY <1>10, <1>17, <2>3
  <2>5. next.block + next.size = alloc.engine
    <3>1. PICK f \in right : BordersEnd(alloc, f) BY <1>17
    <3>2. f = next BY <1>9, <2>3, <3>1
    <3>3. QED BY <3>1, <3>2 DEF BordersEnd
  <2>6. next.block \in Nat /\ next.size \in Nat BY <1>6, <2>4
  <2>7. d \in Nat BY <1>4, <2>4, <2>6
  <2>8. alloc.engine + ChunkSize(d) <= MaxBlocks BY <2>2 DEF CanGrow
  <2>9. g \in Nat /\ g >= d BY <2>7, ChunkBound
  <2> HIDE DEF h, b, s, e, m, E, right, left
  <2>10. d = m - s - next.size /\ m <= (s + next.size) + g BY <1>4, <2>6, <2>7, <2>9
  <2> DEFINE u == alloc.engine + d
             k == g - d
  <2>11. u = b + m /\ k = ((s + next.size) + g) - m /\ s + next.size \in Nat
         /\ b + (s + next.size) = alloc.engine
    BY <1>4, <2>4, <2>5, <2>6, <2>9, <2>10
  <2> HIDE DEF u, k, need, d
  <2>12. GrownTo(alloc, a2, g) BY <1>5, <2>7, <2>8, EngineGrown
  <2> HIDE DEF g, a2
  <2>13. next \in a2.extents BY <2>4, <2>12 DEF GrownTo
  <2>14. /\ Sound(alloc') /\ Grown(alloc, alloc', g) /\ alloc'.meta = alloc.meta
         /\ BlocksOf(next) \subseteq Cover(alloc.extents)
         /\ Cover(alloc'.extents) = Cover(alloc.extents) \ BlocksOf(next)
    BY <2>2, <2>12, <2>13, ExtentUsed
  <2>15. Cut(b, s + next.size, g, m, u, k) BY <1>4, <2>9, <2>10, <2>11, CutTwice
  <2>16. Run(b, s + next.size) = E \cup BlocksOf(next)
    <3>1. s <= s + next.size /\ (s + next.size) - s = next.size /\ s \in Nat BY <1>4, <2>6
    <3>2. Run(b, s + next.size) = Run(b, s) \cup Run(b + s, (s + next.size) - s)
      BY <1>4, <2>11, <3>1, RunSplit
    <3>3. QED BY <1>12, <2>4, <3>1, <3>2 DEF E
  <2>17. Pieces(u, k, result', m, BlocksOf(next), Run(alloc.engine, g), E) /\ u \in Nat /\ k \in Nat
    BY <2>2, <2>11, <2>15, <2>16 DEF Pieces, Cut
  <2>18. Then(Free(u, k)) /\ result' \in Nat BY <1>4, <2>2 DEF u, k
  <2>19. QED BY <1>1, <2>9, <2>14, <2>17, <2>18, FoundInv DEF h, b, s, m, E
<1>18. ASSUME m >= s, BordersEnd(alloc, e),
              CanGrow(need), alloc' = FromEngine(alloc, need).state, result' = b,
              Then(Free(FromEngine(alloc, need).extent.block + need,
                        FromEngine(alloc, need).extent.size - need))
       PROVE  Inv'
  <2> DEFINE g == ChunkSize(need)
             a2 == FromEngine(alloc, need).state
  <2>2. /\ CanGrow(need) /\ alloc' = a2 /\ result' = b
        /\ Then(Free(alloc.engine + need, g - need))
    <3>1. FromEngine(alloc, need).extent.size = g /\ FromEngine(alloc, need).extent.block = alloc.engine
      BY DEF FromEngine, Extent
    <3>2. QED BY <1>18, <3>1
  <2>3. b + s = alloc.engine BY <1>8, <1>18 DEF BordersEnd
  <2>4. need \in Nat BY <1>4, <1>18
  <2>5. alloc.engine + ChunkSize(need) <= MaxBlocks BY <2>2 DEF CanGrow
  <2>6. g \in Nat /\ g >= need BY <2>4, ChunkBound
  <2> HIDE DEF h, b, s, e, m, E, right, left
  <2> DEFINE u == alloc.engine + need
             k == g - need
  <2>7. u = b + m /\ k = (s + g) - m /\ m <= s + g BY <1>4, <1>5, <2>3, <2>6
  <2> HIDE DEF u, k, need
  <2>8. GrownTo(alloc, a2, g) BY <1>5, <2>4, <2>5, EngineGrown
  <2> HIDE DEF g, a2
  <2>9. /\ Sound(alloc') /\ Grown(alloc, alloc', g) /\ alloc'.meta = alloc.meta
        /\ {} \subseteq Cover(alloc.extents) /\ Cover(alloc'.extents) = Cover(alloc.extents) \ {}
    BY <2>2, <2>8 DEF GrownTo
  <2>10. Cut(b, s, g, m, u, k) BY <1>4, <2>6, <2>7, CutTwice
  <2>11. Pieces(u, k, result', m, {}, Run(alloc.engine, g), E) /\ u \in Nat /\ k \in Nat
    BY <2>2, <2>3, <2>10 DEF Pieces, Cut, E
  <2>12. Then(Free(u, k)) /\ result' \in Nat BY <1>4, <2>2 DEF u, k
  <2>13. QED BY <1>1, <2>6, <2>9, <2>11, <2>12, FoundInv DEF h, b, s, m, E
<1>19. CASE Throw BY <1>1, <1>19, ThrowInv
<1>20. ASSUME m >= s, alloc' = alloc, result' = result, Then(Allocate(m) \o <<MoveItem(b, s)>>)
       PROVE  Inv'
  <2>1. Single(Plan) /\ First(h, Plan) /\ Does(todo, Plan) BY <1>1, <1>2, HeadFirst
  <2> HIDE DEF h, e, E, right, left, next, prev, need
  <2>2. Does(Allocate(m), {LazyItem, FitItem(m)}) BY <1>4, AllocateDoes
  <2>3. /\ MoveItem(b, s) \in Items /\ ~Fixes(MoveItem(b, s)) /\ Rank(MoveItem(b, s)) = 3
        /\ Rank(LazyItem) = 1 /\ Rank(FitItem(m)) = 2
    BY <1>4, ItemRanks
  <2>4. Does(<<MoveItem(b, s)>>, {MoveItem(b, s)}) BY <2>3, DoesOne
  <2>5. Does(Allocate(m) \o <<MoveItem(b, s)>>, {LazyItem, FitItem(m)} \cup {MoveItem(b, s)})
    BY <2>2, <2>3, <2>4, DoesBoth
  <2>6. MovePlan(h) = {LazyItem, FitItem(m)} \cup {MoveItem(b, s)} BY DEF MovePlan
  <2>7. ASSUME NEW y \in MovePlan(h), NEW z \in Plan, z # h PROVE Rank(y) < Rank(z)
    <3>1. Rank(h) = 2 /\ \A w : Rank(w) \in Int BY <1>1 DEF Rank
    <3>2. Rank(y) <= 3 BY <2>3, <2>6
    <3>3. Rank(z) > 2 BY <2>1, <2>7, <3>1 DEF First
    <3>4. Rank(z) # 3
      <4>1. SUFFICES ASSUME Rank(z) = 3 PROVE FALSE OBVIOUS
      <4>2. z.op = "move" BY <4>1 DEF Rank
      <4>3. Doing(Plan, "move") # {} BY <2>7, <4>2 DEF Doing
      <4>4. h \in Doing(Plan, "reallocate") BY <1>1, <2>1 DEF Doing, First
      <4>5. QED BY <1>3, <4>3, <4>4 DEF Consistent, PlanOK
    <3>5. QED BY <3>1, <3>2, <3>3, <3>4
  <2>8. Does(todo', Plan') /\ Plan' = MovePlan(h) \cup (Plan \ {h})
    <3>1. Does(Allocate(m) \o <<MoveItem(b, s)>>, MovePlan(h)) BY <2>5, <2>6
    <3> DEFINE c == Allocate(m) \o <<MoveItem(b, s)>>
    <3>2. Does(c, MovePlan(h)) /\ Then(c) BY <1>20, <3>1
    <3> HIDE DEF c
    <3>3. QED BY <1>1, <1>2, <2>1, <2>7, <3>2, StepPlan DEF h
  <2>9. Consistent(MovePlan(h) \cup (Plan \ {h}), alloc, result, arrays)
    BY <1>1, <1>3, <1>20, <2>1, MovePlanned
  <2>10. QED BY <1>20, <2>8, <2>9, InvNext
<1>21. QED
  <2>1. e.size = s /\ e.block = b /\ m \in Nat /\ s \in Nat BY <1>4, <1>8
  <2>2. \A f \in right : f.size \in Nat BY <1>6
  <2>3. ReallocateBetween(left, e, right, m) BY <1>0
  <2>4. need = m - e.size /\ next = CHOOSE f \in right : TRUE BY <1>8
  <2>5. prev = CHOOSE f \in left : TRUE OBVIOUS
  <2>6. d = need - next.size OBVIOUS
  <2> HIDE DEF h, b, s, e, m, right, left, need, next, prev, d
  <2>7. Attempt(left, e, right, m, need, next, prev, d)
    BY <2>1, <2>2, <2>3, <2>4, <2>5, <2>6, ReallocateCases
  <2>8. QED BY <1>14, <1>15, <1>16, <1>17, <1>18, <1>19, <1>20, <2>1, <2>7 DEF Attempt

\* The end of reallocate(), when the data goes to new storage.
LEMMA MoveInv ==
  ASSUME Inv, Move, UNCHANGED arrays
  PROVE  Inv'
<1> DEFINE h == Head(todo)
<1>1. todo # << >> /\ h.op = "move" /\ Then(Free(h.block, h.size)) /\ alloc' = alloc /\ result' = result
  BY DEF Move, At
<1>2. ~Fixes(h) BY <1>1 DEF Fixes
<1>3. /\ Single(Plan) /\ First(h, Plan) /\ Consistent(Plan, alloc, result, arrays) /\ h \in Items
  BY <1>1, <1>2, HeadFirst
<1>4. h.block \in Nat /\ h.size \in Nat BY <1>1, <1>3 DEF Items
<1>5. Does(todo', Plan') /\ Plan' = NextPlan(Plan, h, h.block, h.size)
  BY <1>1, <1>2, <1>4, PutBehind
<1>6. Consistent(NextPlan(Plan, h, h.block, h.size), alloc, result, arrays)
  BY <1>1, <1>3, StorageMoved
<1>7. QED BY <1>1, <1>5, <1>6, InvNext

WithRegion(a, t) == [a EXCEPT !.data_total = t, !.region = TRUE]

\* The region is counted: the rest of the state is as it was.
LEMMA RegionSet ==
  ASSUME NEW a \in Allocators, NEW t \in Int
  PROVE  LET b == WithRegion(a, t)
         IN  /\ b \in Allocators /\ b.engine = a.engine /\ b.data_total = t
             /\ b.region = TRUE /\ b.extents = a.extents /\ b.meta = a.meta /\ b.pos = a.pos
             /\ b.size = a.size /\ b.meta_total = a.meta_total /\ b.meta_free = a.meta_free
             /\ b.data_free = a.data_free /\ b.short = a.short
BY DEF WithRegion, Allocators

\* The end of add_region().
LEMMA CountRegionInv ==
  ASSUME Inv, CountRegion, UNCHANGED arrays
  PROVE  Inv'
<1> DEFINE h == Head(todo)
<1>1. todo # << >> /\ h.op = "region" /\ Then(<< >>) /\ result' = result BY DEF CountRegion, At
<1>2. ~Fixes(h) BY <1>1 DEF Fixes
<1>3. /\ Single(Plan) /\ First(h, Plan) /\ Consistent(Plan, alloc, result, arrays)
  BY <1>1, <1>2, HeadFirst
<1>4. Does(todo', Plan') /\ Plan' = Plan \ {h} BY <1>1, <1>2, NothingBehind
<1> DEFINE t == alloc.data_total + RegionSize
           b == WithRegion(alloc, t)
<1>5. alloc' = b BY DEF CountRegion, WithRegion
<1>6. Sound(alloc) /\ alloc \in Allocators BY <1>3 DEF Consistent, Placed, Sound
<1>7. t \in Int BY <1>6, AllocatorAssumption DEF Allocators
<1> HIDE DEF b
<1>8. /\ b \in Allocators /\ b.engine = alloc.engine /\ b.data_total = t
      /\ b.region = TRUE /\ b.extents = alloc.extents /\ b.meta = alloc.meta /\ b.pos = alloc.pos
      /\ b.size = alloc.size /\ b.meta_total = alloc.meta_total /\ b.meta_free = alloc.meta_free
      /\ b.data_free = alloc.data_free /\ b.short = alloc.short
  BY <1>6, <1>7, RegionSet DEF b
<1>9. Sound(b) BY <1>6, <1>8 DEF Sound
<1>10. Consistent(Plan \ {h}, b, result, arrays) BY <1>1, <1>3, <1>8, <1>9, RegionCounted
<1>11. QED BY <1>1, <1>4, <1>5, <1>10, InvNext

\* The end of extent::resize.
LEMMA SetAnchorInv ==
  ASSUME Inv, SetAnchor
  PROVE  Inv'
<1> DEFINE h == Head(todo)
           n == h.blocks
           A2 == arrays'
<1>1. todo # << >> /\ h.op = "anchor" /\ Then(<< >>) /\ result' = 0 /\ alloc' = alloc
  BY DEF SetAnchor, At
<1>2. ~Fixes(h) BY <1>1 DEF Fixes
<1>3. /\ Single(Plan) /\ First(h, Plan) /\ Consistent(Plan, alloc, result, arrays) /\ h \in Items
  BY <1>1, <1>2, HeadFirst
<1>4. Does(todo', Plan') /\ Plan' = Plan \ {h} BY <1>1, <1>2, NothingBehind
<1>5. h.array \in Arrays /\ n \in Nat BY <1>1, <1>3 DEF Items
<1>6. Anchored(arrays) /\ result \in Nat BY <1>3 DEF Consistent
<1> DEFINE start == IF n = 0 THEN NoStorage ELSE result
<1>7. arrays' = [arrays EXCEPT ![h.array].blocks = n, ![h.array].start = start]
  BY DEF SetAnchor
<1>8. start \in Nat \cup {NoStorage} /\ (n > 0 => start \in Nat) BY <1>5, <1>6 DEF NoStorage
<1>9. arrays \in [Arrays -> Anchor] BY <1>6 DEF Anchored
<1> HIDE DEF start, n
<1>10. /\ A2 \in [Arrays -> Anchor] /\ A2[h.array].blocks = n /\ A2[h.array].start = start
       /\ \A y \in Arrays : y # h.array => A2[y] = arrays[y]
  BY <1>5, <1>7, <1>8, <1>9 DEF Anchor
<1> HIDE DEF A2
<1>11. Anchored(A2)
  <2>1. \A x \in Arrays : A2[x].blocks > 0 => A2[x].start \in Nat BY <1>6, <1>8, <1>10 DEF Anchored
  <2>2. QED BY <1>10, <2>1 DEF Anchored
<1>12. Storage(A2, h.array) = result .. result + n - 1
  <2>1. Storage(A2, h.array) = start .. start + n - 1 BY <1>10 DEF Storage
  <2>2. CASE n = 0
    <3>1. Storage(A2, h.array) = {} BY <1>5, <1>10, <1>11, <2>2, NoBlocks
    <3>2. result .. result + 0 - 1 = {} BY <1>6
    <3>3. QED BY <2>2, <3>1, <3>2
  <2>3. CASE n # 0 BY <2>1, <2>3 DEF start
  <2>4. QED BY <2>2, <2>3
<1>13. Storage(A2, h.array) = IF h.op = "reset" THEN {} ELSE result .. result + h.blocks - 1
  BY <1>1, <1>12 DEF n
<1> HIDE DEF h
<1>14. Consistent(Plan \ {h}, alloc, 0, A2)
  BY <1>1, <1>3, <1>5, <1>10, <1>11, <1>13, StorageSettled
<1>15. QED BY <1>1, <1>4, <1>14, InvNext DEF A2

\* The end of reset().
LEMMA SetResetInv ==
  ASSUME Inv, SetReset
  PROVE  Inv'
<1> DEFINE h == Head(todo)
           A2 == arrays'
<1>1. todo # << >> /\ h.op = "reset" /\ Then(<< >>) /\ result' = result /\ alloc' = alloc
  BY DEF SetReset, At
<1>2. ~Fixes(h) BY <1>1 DEF Fixes
<1>3. /\ Single(Plan) /\ First(h, Plan) /\ Consistent(Plan, alloc, result, arrays) /\ h \in Items
  BY <1>1, <1>2, HeadFirst
<1>4. Does(todo', Plan') /\ Plan' = Plan \ {h} BY <1>1, <1>2, NothingBehind
<1>5. h.array \in Arrays BY <1>1, <1>3 DEF Items
<1>6. Anchored(arrays) /\ result \in Nat /\ arrays \in [Arrays -> Anchor] BY <1>3 DEF Consistent, Anchored
<1>7. arrays' = [arrays EXCEPT ![h.array] = [start |-> NoStorage, blocks |-> 0, size |-> 0]]
  BY DEF SetReset
<1>8. /\ A2 \in [Arrays -> Anchor] /\ A2[h.array].blocks = 0 /\ A2[h.array].start = NoStorage
      /\ \A y \in Arrays : y # h.array => A2[y] = arrays[y]
  BY <1>5, <1>6, <1>7 DEF Anchor
<1> HIDE DEF A2
<1>9. Anchored(A2)
  <2>1. \A x \in Arrays : A2[x].blocks > 0 => A2[x].start \in Nat BY <1>6, <1>8 DEF Anchored
  <2>2. QED BY <1>8, <2>1 DEF Anchored
<1>10. Storage(A2, h.array) = {}  BY <1>5, <1>8, <1>9, NoBlocks
<1>11. Storage(A2, h.array) = IF h.op = "reset" THEN {} ELSE result .. result + h.blocks - 1
  BY <1>1, <1>10
<1> HIDE DEF h
<1>12. Consistent(Plan \ {h}, alloc, result, A2)
  BY <1>1, <1>3, <1>5, <1>6, <1>8, <1>9, <1>11, StorageSettled
<1>13. QED BY <1>1, <1>4, <1>12, InvNext DEF A2

\* The end of push_back and of resize().
LEMMA WriteValuesInv ==
  ASSUME Inv, WriteValues
  PROVE  Inv'
<1> DEFINE h == Head(todo)
<1>1. todo # << >> /\ h.op = "write" /\ Then(<< >>) /\ result' = result /\ alloc' = alloc
  BY DEF WriteValues, At
<1>2. ~Fixes(h) BY <1>1 DEF Fixes
<1>3. /\ Single(Plan) /\ First(h, Plan) /\ Consistent(Plan, alloc, result, arrays) /\ h \in Items
  BY <1>1, <1>2, HeadFirst
<1>4. Does(todo', Plan') /\ Plan' = Plan \ {h} BY <1>1, <1>2, NothingBehind
<1>5. h.array \in Arrays /\ h.size \in Nat BY <1>1, <1>3 DEF Items
<1>6. arrays' = [arrays EXCEPT ![h.array].size = h.size] BY DEF WriteValues
<1> HIDE DEF h
<1>7. Consistent(Plan, alloc, result, arrays') BY <1>3, <1>5, <1>6, SizeSet
<1>8. \A op : op # "write" => Doing(Plan \ {h}, op) = Doing(Plan, op) BY <1>1 DEF Doing
<1>9. Consistent(Plan \ {h}, alloc, result, arrays') BY <1>7, <1>8, IdleStep
<1>10. QED BY <1>1, <1>4, <1>9, InvNext

-----------------------------------------------------------------------------
(* Calls.                                                                    *)

\* Between two calls no step is pending.
LEMMA RestPlan ==
  ASSUME Inv, todo = << >>
  PROVE  Consistent({}, alloc, result, arrays)
<1>1. Does(todo, {}) BY DoesNothing
<1>2. Plan = {} BY <1>1 DEF Plan, Does
<1>3. QED BY <1>2 DEF Inv

\* The call with the steps s may begin; values may be written at its end.
MayBegin(s) ==
  \E Q : /\ Does(s, Q) /\ Consistent(Q, alloc, result, arrays)
         /\ \A y \in Q : Rank(y) < 5

\* A call begins.
LEMMA CallInv ==
  ASSUME NEW s, MayBegin(s), todo' = s, UNCHANGED <<alloc, result, arrays>>
  PROVE  Inv'
<1>1. PICK Q : Does(s, Q) /\ Consistent(Q, alloc, result, arrays) BY DEF MayBegin
<1>2. Does(todo', Q) BY <1>1
<1>3. Plan' = Q BY <1>2 DEF Plan, Does
<1>4. QED BY <1>1, <1>2, <1>3, InvNext

\* A call that does nothing but write begins.
LEMMA NothingReady ==
  ASSUME Consistent({}, alloc, result, arrays)
  PROVE  MayBegin(<< >>)
<1>1. Does(<< >>, {}) BY DoesNothing
<1>2. QED BY <1>1 DEF MayBegin

\* A call that writes at its end begins.
LEMMA WriteCallInv ==
  ASSUME NEW s, MayBegin(s), NEW x \in Arrays, NEW n \in Nat, todo' = s \o Write(x, n),
         UNCHANGED <<alloc, result, arrays>>
  PROVE  Inv'
<1>1. PICK Q : /\ Does(s, Q) /\ Consistent(Q, alloc, result, arrays)
               /\ \A y \in Q : Rank(y) < 5
  BY DEF MayBegin
<1> DEFINE w == WriteItem(x, n)
<1>2. w \in Items /\ ~Fixes(w) /\ Rank(w) = 5 /\ w.op = "write"
  <2>1. w.op = "write" BY DEF WriteItem
  <2>2. QED BY <2>1, ItemRanks
<1>3. Write(x, n) = <<w>> BY DEF Write, WriteItem
<1> HIDE DEF w
<1>4. Does(<<w>>, {w}) BY <1>2, DoesOne
<1>5. Does(s \o <<w>>, Q \cup {w}) BY <1>1, <1>2, <1>4, DoesBoth
<1> DEFINE P2 == Q \cup {w}
<1>6. \A op : op # "write" => Doing(P2, op) = Doing(Q, op) BY <1>2 DEF Doing
<1> HIDE DEF P2
<1>7. Consistent(P2, alloc, result, arrays) BY <1>1, <1>6, IdleStep
<1>8. Does(todo', P2) BY <1>3, <1>5 DEF P2
<1>9. Plan' = P2 BY <1>8 DEF Plan, Does
<1>10. QED BY <1>7, <1>8, <1>9, InvNext

\* A list of steps and the step that ends it.
LEMMA DoesLast ==
  ASSUME NEW s, NEW P, Does(s, P), NEW z \in Items, ~Fixes(z), \A y \in P : Rank(y) < Rank(z)
  PROVE  Does(s \o <<z>>, P \cup {z})
<1>1. Does(<<z>>, {z}) BY DoesOne
<1>2. QED BY <1>1, DoesBoth

\* The storage of an array is freed, and the step z is next.
LEMMA FreeReady ==
  ASSUME Consistent({}, alloc, result, arrays), NEW x \in Arrays, arrays[x].blocks > 0,
         NEW z, z = AnchorItem(x, 0) \/ z = ResetItem(x)
  PROVE  MayBegin(Free(arrays[x].start, arrays[x].blocks) \o <<z>>)
<1> DEFINE b == arrays[x].start
           n == arrays[x].blocks
<1>1. b \in Nat /\ n \in Nat /\ n # 0 BY DEF Consistent, Anchored, Anchor
<1>2. Consistent({PutItem(b, n), z}, alloc, result, arrays) BY FreeBegins
<1>3. z \in Items /\ ~Fixes(z) /\ Rank(z) = 4 BY ItemRanks
<1> HIDE DEF b, n
<1>4. Rank(PutItem(b, n)) = 1 BY <1>1, ItemRanks
<1>5. Does(Free(b, n), PutPlan(b, n)) /\ PutPlan(b, n) = {PutItem(b, n)} BY <1>1, FreeDoes DEF PutPlan
<1>6. Does(Free(b, n) \o <<z>>, {PutItem(b, n)} \cup {z}) BY <1>3, <1>4, <1>5, DoesLast
<1> DEFINE Q == {PutItem(b, n), z}
<1>7. Q = {PutItem(b, n)} \cup {z} /\ \A y \in Q : Rank(y) < 5 BY <1>3, <1>4
<1> HIDE DEF Q
<1>8. Does(Free(b, n) \o <<z>>, Q) BY <1>6, <1>7
<1>9. Consistent(Q, alloc, result, arrays) BY <1>2 DEF Q
<1>10. MayBegin(Free(b, n) \o <<z>>) BY <1>7, <1>8, <1>9 DEF MayBegin
<1>11. QED BY <1>10 DEF b, n

\* Storage of n blocks is looked for, and the anchor is set.
LEMMA SearchReady ==
  ASSUME Consistent({}, alloc, result, arrays), NEW x \in Arrays, NEW n \in Nat \ {0}, NEW y, NEW s,
         \/ y = FitItem(n) /\ arrays[x].blocks = 0
         \/ y = ReallocateItem(arrays[x].start, arrays[x].blocks, n),
         y \in Items, Rank(y) = 2, Does(s, {LazyItem, y})
  PROVE  MayBegin(s \o <<AnchorItem(x, n)>>)
<1> DEFINE z == AnchorItem(x, n)
<1>1. Consistent({LazyItem, y, z}, alloc, result, arrays) BY SearchBegins
<1>2. z \in Items /\ ~Fixes(z) /\ Rank(z) = 4 BY ItemRanks
<1>3. Rank(LazyItem) = 1 BY ItemRanks
<1> HIDE DEF z
<1>4. Does(s \o <<z>>, {LazyItem, y} \cup {z}) BY <1>2, <1>3, DoesLast
<1> DEFINE Q == {LazyItem, y, z}
<1>5. Q = {LazyItem, y} \cup {z} /\ \A w \in Q : Rank(w) < 5 BY <1>2, <1>3
<1> HIDE DEF Q
<1>6. Does(s \o <<z>>, Q) BY <1>4, <1>5
<1>7. Consistent(Q, alloc, result, arrays) BY <1>1 DEF Q
<1>8. MayBegin(s \o <<z>>) BY <1>5, <1>6, <1>7 DEF MayBegin
<1>9. QED BY <1>8 DEF z

\* extent::resize begins.
LEMMA ResizeReady ==
  ASSUME Consistent({}, alloc, result, arrays), NEW x \in Arrays, NEW n \in Nat
  PROVE  MayBegin(ResizeExtent(x, n))
<1> DEFINE b == arrays[x].start
           k == arrays[x].blocks
           z == AnchorItem(x, n)
<1>1. k \in Nat /\ (k > 0 => b \in Nat) BY DEF Consistent, Anchored, Anchor
<1>2. CASE n = k
  <2>1. ResizeExtent(x, n) = << >> BY <1>2 DEF ResizeExtent
  <2>2. QED BY <2>1, NothingReady
<1>3. CASE n # k /\ k = 0
  <2>1. ResizeExtent(x, n) = Allocate(n) \o <<z>> BY <1>3 DEF ResizeExtent, AnchorItem
  <2>2. n \in Nat \ {0} BY <1>3
  <2>3. FitItem(n) \in Items /\ Rank(FitItem(n)) = 2
    <3>1. 0 \in Nat OBVIOUS
    <3>2. QED BY <2>2, <3>1, ItemRanks
  <2>4. Does(Allocate(n), {LazyItem, FitItem(n)}) BY <2>2, AllocateDoes
  <2>5. QED BY <1>3, <2>1, <2>2, <2>3, <2>4, SearchReady
<1>4. CASE n # k /\ k # 0 /\ n = 0
  <2>1. ResizeExtent(x, n) = Free(b, k) \o <<z>> BY <1>4 DEF ResizeExtent, AnchorItem
  <2>2. z = AnchorItem(x, 0) BY <1>4
  <2>3. k > 0 BY <1>1, <1>4
  <2> HIDE DEF z
  <2>4. QED BY <2>1, <2>2, <2>3, FreeReady
<1>5. CASE n # k /\ k # 0 /\ n # 0
  <2>1. ResizeExtent(x, n) = Reallocate(b, k, n) \o <<z>> BY <1>5 DEF ResizeExtent, AnchorItem
  <2>2. n \in Nat \ {0} /\ k \in Nat \ {0} /\ b \in Nat BY <1>1, <1>5
  <2> DEFINE y == ReallocateItem(b, k, n)
  <2>3. y \in Items /\ Rank(y) = 2 BY <2>2, ItemRanks
  <2>4. Does(Reallocate(b, k, n), {LazyItem, y}) BY <2>2, ReallocateDoes
  <2>5. QED BY <2>1, <2>2, <2>3, <2>4, SearchReady
<1>6. QED BY <1>2, <1>3, <1>4, <1>5

\* Blocks for a number of values.
LEMMA CeilDivNat ==
  ASSUME NEW n \in Nat, NEW d \in Nat \ {0}
  PROVE  CeilDiv(n, d) \in Nat
BY DEF CeilDiv

\* The growth strategies.
LEMMA NewSizeNat ==
  ASSUME NEW x, NEW n \in Nat
  PROVE  NewSize(x, n) \in Nat
<1>1. LinearChunk \in Nat \ {0} BY ArrayAssumption
<1>2. CASE x \in LinearArrays
  <2>1. CeilDiv(n, LinearChunk) \in Nat BY <1>1, CeilDivNat
  <2>2. QED BY <1>1, <1>2, <2>1 DEF NewSize
<1>3. CASE x \notin LinearArrays BY <1>3, Pow2Bound DEF NewSize
<1>4. QED BY <1>2, <1>3

\* reserve() begins.
LEMMA ReservedReady ==
  ASSUME Consistent({}, alloc, result, arrays), NEW x \in Arrays, NEW n \in Nat
  PROVE  MayBegin(Reserved(x, n))
<1> DEFINE needed == CeilDiv(n, BlockCapacity)
<1>1. BlockCapacity \in Nat \ {0} BY ArrayAssumption
<1>2. needed \in Nat BY <1>1, CeilDivNat
<1>3. CASE needed > arrays[x].blocks
  <2>1. Reserved(x, n) = ResizeExtent(x, NewSize(x, needed)) BY <1>3 DEF Reserved
  <2>2. NewSize(x, needed) \in Nat BY <1>2, NewSizeNat
  <2>3. QED BY <2>1, <2>2, ResizeReady
<1>4. CASE ~(needed > arrays[x].blocks)
  <2>1. Reserved(x, n) = << >> BY <1>4 DEF Reserved
  <2>2. QED BY <2>1, NothingReady
<1>5. QED BY <1>3, <1>4

\* add_region() begins.
LEMMA AddRegionInv ==
  ASSUME Inv, AddRegion, UNCHANGED arrays
  PROVE  Inv'
<1>1. /\ todo = << >> /\ ~alloc.region /\ RegionSize > 0 /\ UNCHANGED <<alloc, result, arrays>>
      /\ todo' = Free(0, RegionSize) \o <<RegionItem>>
  BY DEF AddRegion, RegionItem
<1>2. Consistent({}, alloc, result, arrays) BY <1>1, RestPlan
<1> DEFINE p == PutItem(0, RegionSize)
           z == RegionItem
           Q == {p, z}
<1>3. Consistent(Q, alloc, result, arrays) BY <1>1, <1>2, RegionBegins
<1>4. 0 \in Nat /\ RegionSize \in Nat \ {0} BY <1>1, AllocatorAssumption
<1>5. Rank(p) = 1 /\ Rank(z) = 4 /\ z \in Items /\ ~Fixes(z) BY <1>4, ItemRanks
<1>6. Does(Free(0, RegionSize), {p})
  <2>1. PutPlan(0, RegionSize) = {p} BY <1>4 DEF PutPlan
  <2>2. QED BY <1>4, <2>1, FreeDoes
<1> HIDE DEF p, z
<1>7. Does(Free(0, RegionSize) \o <<z>>, {p} \cup {z}) BY <1>5, <1>6, DoesLast
<1>8. Q = {p} \cup {z} /\ \A y \in Q : Rank(y) < 5 BY <1>5
<1> HIDE DEF Q
<1>9. Does(Free(0, RegionSize) \o <<z>>, Q) BY <1>7, <1>8
<1>10. MayBegin(Free(0, RegionSize) \o <<z>>) BY <1>3, <1>8, <1>9 DEF MayBegin
<1>11. QED BY <1>1, <1>10, CallInv DEF z

\* push_back()
LEMMA PushBackInv ==
  ASSUME Inv, NEW x \in Arrays, PushBack(x)
  PROVE  Inv'
<1> DEFINE s == IF arrays[x].size \div BlockCapacity = arrays[x].blocks
                THEN ResizeExtent(x, NewSize(x, arrays[x].blocks + 1)) ELSE << >>
           n == arrays[x].size + 1
<1>1. todo = << >> /\ todo' = s \o Write(x, n) /\ UNCHANGED <<alloc, result, arrays>>
  BY DEF PushBack, Calls
<1>2. Consistent({}, alloc, result, arrays) BY <1>1, RestPlan
<1>3. arrays[x].size \in Nat /\ arrays[x].blocks \in Nat BY <1>2 DEF Consistent, Anchored, Anchor
<1>4. n \in Nat /\ arrays[x].blocks + 1 \in Nat BY <1>3
<1>5. MayBegin(s)
  <2>1. MayBegin(<< >>) BY <1>2, NothingReady
  <2>2. NewSize(x, arrays[x].blocks + 1) \in Nat BY <1>4, NewSizeNat
  <2>3. MayBegin(ResizeExtent(x, NewSize(x, arrays[x].blocks + 1))) BY <1>2, <2>2, ResizeReady
  <2>4. QED BY <2>1, <2>3
<1> HIDE DEF s, n
<1>6. QED BY <1>1, <1>4, <1>5, WriteCallInv

\* resize(), to more values
LEMMA ResizeInv ==
  ASSUME Inv, NEW x \in Arrays, NEW n \in Nat, Resize(x, n)
  PROVE  Inv'
<1>1. todo = << >> /\ todo' = Reserved(x, n) \o Write(x, n) /\ UNCHANGED <<alloc, result, arrays>>
  BY DEF Resize, Calls
<1>2. MayBegin(Reserved(x, n)) BY <1>1, RestPlan, ReservedReady
<1>3. QED BY <1>1, <1>2, WriteCallInv

\* reserve()
LEMMA ReserveInv ==
  ASSUME Inv, NEW x \in Arrays, NEW n \in Nat, Reserve(x, n)
  PROVE  Inv'
<1>1. todo = << >> /\ todo' = Reserved(x, n) /\ UNCHANGED <<alloc, result, arrays>>
  BY DEF Reserve, Calls
<1>2. MayBegin(Reserved(x, n)) BY <1>1, RestPlan, ReservedReady
<1>3. QED BY <1>1, <1>2, CallInv

\* shrink() and shrink_to_fit()
LEMMA ShrinkInv ==
  ASSUME Inv, NEW x \in Arrays, NEW exact \in BOOLEAN, Shrink(x, exact)
  PROVE  Inv'
<1> DEFINE needed == CeilDiv(arrays[x].size, BlockCapacity)
           n == IF exact THEN needed ELSE NewSize(x, needed)
<1>1. todo = << >> /\ todo' = ResizeExtent(x, n) /\ UNCHANGED <<alloc, result, arrays>>
  BY DEF Shrink, Calls
<1>2. Consistent({}, alloc, result, arrays) BY <1>1, RestPlan
<1>3. arrays[x].size \in Nat /\ BlockCapacity \in Nat \ {0}
  BY <1>2, ArrayAssumption DEF Consistent, Anchored, Anchor
<1>4. needed \in Nat BY <1>3, CeilDivNat
<1> HIDE DEF needed
<1>5. n \in Nat BY <1>4, NewSizeNat
<1> HIDE DEF n
<1>6. MayBegin(ResizeExtent(x, n)) BY <1>2, <1>5, ResizeReady
<1>7. QED BY <1>1, <1>6, CallInv

\* reset()
LEMMA ResetInv ==
  ASSUME Inv, NEW x \in Arrays, Reset(x)
  PROVE  Inv'
<1> DEFINE s == Free(arrays[x].start, arrays[x].blocks) \o <<ResetItem(x)>>
<1>1. /\ todo = << >> /\ arrays[x].blocks > 0 /\ UNCHANGED <<alloc, result, arrays>>
      /\ todo' = s
  BY DEF Reset, Calls, ResetItem
<1>2. MayBegin(s) BY <1>1, RestPlan, FreeReady
<1> HIDE DEF s
<1>3. QED BY <1>1, <1>2, CallInv

\* pop_back(), and resize() to fewer values
LEMMA TruncateInv ==
  ASSUME Inv, NEW x \in Arrays, NEW n \in Nat, Truncate(x, n)
  PROVE  Inv'
<1>1. /\ todo' = todo /\ alloc' = alloc /\ result' = result
      /\ arrays' = [arrays EXCEPT ![x].size = n]
  BY DEF Truncate
<1>2. Does(todo, Plan) /\ Consistent(Plan, alloc, result, arrays) BY DEF Inv
<1>3. Single(Plan) BY <1>2, SinglePlan
<1>4. Consistent(Plan, alloc, result, arrays') BY <1>1, <1>2, <1>3, SizeSet
<1>5. Plan' = Plan BY <1>1 DEF Plan
<1>6. QED BY <1>1, <1>2, <1>4, <1>5, InvNext

-----------------------------------------------------------------------------
(* The invariant.                                                            *)

\* No block has been used, and no array has storage.
LEMMA InitInv ==
  ASSUME Init
  PROVE  Inv
<1>1. /\ alloc.engine = RegionSize /\ alloc.extents = {} /\ alloc.pos = NoTree /\ alloc.size = NoTree
      /\ alloc.meta = {} /\ alloc.meta_total = 0 /\ alloc.meta_free = 0 /\ alloc.data_total = 0
      /\ alloc.data_free = 0 /\ alloc.region = FALSE /\ alloc.short = FALSE
  BY DEF Init, AllocatorInit
<1>2. todo = << >> /\ result = 0 BY DEF Init, AllocatorInit
<1>3. RegionSize \in Nat /\ MaxBlocks \in Nat /\ RegionSize <= MaxBlocks BY AllocatorAssumption
<1>4. NoTree \in Trees /\ NoTree.nodes = 0 BY DEF NoTree, Trees
<1>5. alloc \in Allocators BY <1>3, <1>4 DEF Init, AllocatorInit, Allocators
<1>6. Cover(alloc.extents) = {} BY <1>1 DEF Cover
<1>7. IsFiniteSet(alloc.extents) /\ Cardinality(alloc.meta) = 0 /\ Cardinality(Cover(alloc.extents)) = 0
  BY <1>1, <1>6, FS_EmptySet
<1>8. Sound(alloc)
  <2>1. alloc.meta_free + alloc.pos.nodes + alloc.size.nodes = alloc.meta_total BY <1>1, <1>4
  <2>2. QED BY <1>1, <1>5, <1>6, <1>7, <2>1 DEF Sound
<1>9. Placed(alloc) BY <1>1, <1>3, <1>8 DEF Placed
<1>10. /\ arrays \in [Arrays -> Anchor]
       /\ \A x \in Arrays : arrays[x].blocks = 0 /\ arrays[x].start = NoStorage
  BY DEF Init, Anchor
<1>11. Anchored(arrays) BY <1>10 DEF Anchored
<1>12. \A x \in Arrays : Storage(arrays, x) = {} BY <1>10, <1>11, NoBlocks
<1>13. \A op : Doing({}, op) = {} BY DEF Doing
<1>14. PlanOK({}, alloc, arrays) BY <1>13 DEF PlanOK
<1>15. Kept({}, arrays) = {} BY <1>12 DEF Kept
<1>16. Apart({}, arrays) BY <1>12 DEF Apart
<1>17. Returned({}) = {} /\ Found({}, result) = {} BY <1>13 DEF Returned, Found
<1>18. Got({}, alloc) = {} BY <1>1, <1>3, <1>13 DEF Got
<1>19. ClaimsOK({}, alloc, result, arrays)
  BY <1>1, <1>6, <1>15, <1>16, <1>17, <1>18 DEF ClaimsOK, Parts
<1>20. Consistent({}, alloc, result, arrays) BY <1>2, <1>9, <1>11, <1>14, <1>19 DEF Consistent
<1>21. Does(todo, {}) BY <1>2, DoesNothing
<1>22. Plan = {} BY <1>21 DEF Plan, Does
<1>23. QED BY <1>20, <1>21, <1>22 DEF Inv

\* Every step of a call, every call and every step of another program keeps it.
LEMMA InvInductive ==
  ASSUME Inv, [Next]_vars
  PROVE  Inv'
<1>1. CASE AllocatorStep /\ UNCHANGED arrays
  BY <1>1, LazyInitializeInv, DrainInv, FillInv, PutBackInv, FitInv, ReallocateInv, MoveInv,
     CountRegionInv DEF AllocatorStep
<1>2. CASE SetAnchor \/ SetReset \/ WriteValues BY <1>2, SetAnchorInv, SetResetInv, WriteValuesInv
<1>3. CASE AddRegion /\ UNCHANGED arrays BY <1>3, AddRegionInv
<1>4. ASSUME NEW x \in Arrays,
             \/ PushBack(x) \/ Shrink(x, TRUE) \/ Shrink(x, FALSE) \/ Reset(x)
             \/ Resize(x, MaxElements) \/ Reserve(x, MaxElements)
             \/ \E n \in 0 .. MaxElements : Truncate(x, n)
      PROVE  Inv'
  <2>1. MaxElements \in Nat /\ TRUE \in BOOLEAN /\ FALSE \in BOOLEAN BY ArrayAssumption
  <2>2. ASSUME NEW n \in 0 .. MaxElements, Truncate(x, n) PROVE Inv' BY <2>1, <2>2, TruncateInv
  <2>3. QED BY <1>4, <2>1, <2>2, PushBackInv, ShrinkInv, ResetInv, ResizeInv, ReserveInv
<1>5. CASE UNCHANGED vars
  <2>1. todo' = todo /\ alloc' = alloc /\ result' = result /\ arrays' = arrays BY <1>5 DEF vars
  <2>2. Plan' = Plan BY <2>1 DEF Plan
  <2>3. Does(todo, Plan) /\ Consistent(Plan, alloc, result, arrays) BY DEF Inv
  <2>4. QED BY <2>1, <2>2, <2>3, InvNext
<1>6. QED BY <1>1, <1>2, <1>3, <1>4, <1>5 DEF Next, Step

\* What the invariant says between two calls.
LEMMA RestCounters ==
  ASSUME Inv
  PROVE  CountersExact
<1> SUFFICES ASSUME todo = << >>
             PROVE  /\ alloc.data_total = Cardinality(Managed)
                    /\ alloc.data_free = Cardinality(FreeBlocks)
                    /\ alloc.meta_total = Cardinality(alloc.meta)
                    /\ alloc.meta_free + alloc.pos.nodes + alloc.size.nodes = alloc.meta_total
                    /\ \A e, f \in alloc.extents : ~Touch(e, f)
  BY DEF CountersExact
<1>1. Placed(alloc) /\ Sound(alloc) BY RestPlan DEF Consistent, Placed
<1>2. alloc.engine \in Nat /\ alloc.extents \subseteq Extents BY <1>1 DEF Sound, Allocators
<1>3. FreeBlocks = Cover(alloc.extents) BY DEF FreeBlocks, Cover
<1>4. alloc.data_total = Cardinality(Managed)
  <2> DEFINE i == IF alloc.region THEN 0 ELSE RegionSize
             j == alloc.engine - 1
  <2>1. /\ i \in Nat /\ j \in Int /\ i <= j + 1 /\ alloc.data_total = (j - i) + 1
    BY <1>1, <1>2, AllocatorAssumption DEF Placed
  <2>2. Managed = i .. j BY DEF Managed
  <2> HIDE DEF i, j
  <2>3. Cardinality(i .. j) = IF i > j THEN 0 ELSE j - i + 1 BY <2>1, FS_Interval
  <2>4. QED BY <2>1, <2>2, <2>3
<1>5. ASSUME NEW e \in alloc.extents, NEW f \in alloc.extents PROVE ~Touch(e, f)
  <2>1. e.block \in Nat /\ e.size \in Nat \ {0} /\ f.block \in Nat /\ f.size \in Nat \ {0}
    BY <1>2 DEF Extents
  <2>2. e = f \/ Separate(e, f) BY <1>1 DEF Sound
  <2>3. QED BY <2>1, <2>2 DEF Separate, Touch
<1>6. QED BY <1>1, <1>3, <1>4, <1>5 DEF Sound

\* The same of the blocks.
LEMMA RestBlocks ==
  ASSUME Inv
  PROVE  BlocksAccounted
<1> DEFINE F == Cover(alloc.extents)
           M == alloc.meta
           K == Kept({}, arrays)
<1> SUFFICES ASSUME todo = << >>
             PROVE  /\ Managed = FreeBlocks \cup M \cup UNION { StorageOf(x) : x \in Arrays }
                    /\ FreeBlocks \cap M = {}
                    /\ \A x \in Arrays : StorageOf(x) \cap (FreeBlocks \cup M) = {}
                    /\ \A x, y \in Arrays : x # y => StorageOf(x) \cap StorageOf(y) = {}
  BY DEF BlocksAccounted
<1>1. /\ \A x : Keeps({}, x)
      /\ Parts(Got({}, alloc), F, M, {}, {}, K) /\ Apart({}, arrays)
      /\ Got({}, alloc) = (IF alloc.region THEN 0 ELSE RegionSize) .. alloc.engine - 1
  BY RestPlan, AtRest
<1>2. Got({}, alloc) = Managed BY <1>1 DEF Managed
<1>3. FreeBlocks = F BY DEF FreeBlocks, Cover
<1>4. \A x : StorageOf(x) = Storage(arrays, x) BY DEF StorageOf, Storage
<1>5. UNION { StorageOf(x) : x \in Arrays } = K
  <2>1. { z \in Arrays : Keeps({}, z) } = Arrays BY <1>1
  <2>2. K = UNION { Storage(arrays, x) : x \in Arrays } BY <2>1 DEF Kept
  <2>3. QED BY <1>4, <2>2
<1>6. \A x \in Arrays : StorageOf(x) \subseteq K BY <1>5
<1> HIDE DEF F, K
<1>7. Managed = F \cup M \cup K /\ F \cap M = {} /\ F \cap K = {} /\ M \cap K = {}
  BY <1>1, <1>2 DEF Parts
<1>8. \A x \in Arrays : StorageOf(x) \cap (F \cup M) = {} BY <1>6, <1>7
<1>9. \A x, y \in Arrays : x # y => StorageOf(x) \cap StorageOf(y) = {} BY <1>1, <1>4 DEF Apart
<1>10. QED BY <1>3, <1>5, <1>7, <1>8, <1>9

-----------------------------------------------------------------------------
(* Theorems.                                                                 *)

\* The invariant holds at all times: in the middle of a call, after one that threw, and
\* whatever shapes the trees of free extents take.
THEOREM InvAlways == Spec => []Inv
<1>1. Init => Inv BY InitInv
<1>2. Inv /\ [Next]_vars => Inv' BY InvInductive
<1>3. QED BY <1>1, <1>2, PTL DEF Spec

\* free_internal and allocate_metadata_block never find the list of metadata blocks too
\* short: their assertions hold for every size of region, chunk and engine.
THEOREM MetadataAlwaysSuffices == Spec => []MetadataSuffices
<1>1. Inv => MetadataSuffices BY DEF Inv, Consistent, Placed, Sound, MetadataSuffices
<1>2. QED BY <1>1, InvAlways, PTL

\* stats() and validate(): the counters in the anchor agree with the extents, and the
\* extents are merged, whenever no call is under way.
THEOREM CountersAlwaysExact == Spec => []CountersExact
<1>1. Inv => CountersExact BY RestCounters
<1>2. QED BY <1>1, InvAlways, PTL

\* No block is lost and none has two owners, whenever no call is under way.
THEOREM BlocksAlwaysAccounted == Spec => []BlocksAccounted
<1>1. Inv => BlocksAccounted BY RestBlocks
<1>2. QED BY <1>1, InvAlways, PTL

-----------------------------------------------------------------------------
(* Arrays lose no values: whatever happens to their storage, in place or by *)
(* moving, and wherever a call throws.                                      *)
(*                                                                          *)
(* On top of whose the blocks are, the invariant says for every moment of a *)
(* call where the values of each array are to be found: at the place in its *)
(* anchor, or already at the one that was found for it.                     *)

Contents == [0 .. MaxBlocks - 1 -> SUBSET (Arrays \X Nat)]

\* n blocks have room for so many values.
Within(size, n) == \A i \in 0 .. size - 1 : i \div BlockCapacity < n

\* The first values of x are in the blocks from b on.
Has(C, x, size, b) == \A i \in 0 .. size - 1 : <<x, i>> \in C[b + i \div BlockCapacity]

\* The values of an array that keeps its storage are there.
KeptValues(P, A, C) ==
  \A x \in Arrays : Keeps(P, x) => /\ Within(A[x].size, A[x].blocks)
                                   /\ Has(C, x, A[x].size, A[x].start)

\* The storage that an anchor is to get has room for the values, and they are there as
\* soon as it was found, unless they have still to be moved.
AnchorValues(P, r, A, C) ==
  \A z \in Doing(P, "anchor") :
    /\ Within(A[z.array].size, z.blocks)
    /\ ~Searching(P) /\ Doing(P, "move") = {} => Has(C, z.array, A[z.array].size, r)

\* Values that are to be written will find room.
WriteFits(P, A) ==
  \A w \in Doing(P, "write") :
    /\ Doing(P, "reset") = {}
    /\ Doing(P, "anchor") = {} => Within(w.size, A[w.array].blocks)
    /\ \A z \in Doing(P, "anchor") : z.array = w.array /\ Within(w.size, z.blocks)

ValuesOK(P, r, A, C) ==
  C \in Contents /\ KeptValues(P, A, C) /\ AnchorValues(P, r, A, C) /\ WriteFits(P, A)

\* With Inv, the inductive invariant.
ValuesInv == ValuesOK(Plan, result, arrays, content)

-----------------------------------------------------------------------------
(* Division.                                                                 *)

\* Quotient and remainder.
LEMMA Quotient ==
  ASSUME NEW i \in Nat, NEW d \in Nat \ {0}
  PROVE  /\ i \div d \in Nat /\ i % d \in Nat
         /\ i = d * (i \div d) + (i % d) /\ i % d < d
OBVIOUS

\* A product grows with its factors.
LEMMA Products ==
  ASSUME NEW d \in Nat \ {0}, NEW p \in Nat, NEW q \in Nat, p < q
  PROVE  d * p + d <= d * q
<1>1. PICK k \in Nat : q = p + 1 + k
  <2>1. q - p - 1 \in Nat /\ q = p + 1 + (q - p - 1) OBVIOUS
  <2>2. QED BY <2>1
<1>2. d * q = d * p + d + d * k BY <1>1
<1>3. d * k \in Nat /\ d * p \in Nat OBVIOUS
<1>4. QED BY <1>2, <1>3

\* Quotients are monotonic, and grow by one at most.
LEMMA QuotientGrows ==
  ASSUME NEW d \in Nat \ {0}, NEW i \in Nat, NEW j \in Nat, i <= j
  PROVE  i \div d <= j \div d /\ (j + 1) \div d <= j \div d + 1
<1> DEFINE p == i \div d
           q == j \div d
           s == (j + 1) \div d
<1>1. /\ p \in Nat /\ i % d \in Nat /\ i = d * p + (i % d) /\ i % d < d
      /\ q \in Nat /\ j % d \in Nat /\ j = d * q + (j % d) /\ j % d < d
      /\ s \in Nat /\ (j + 1) % d \in Nat /\ j + 1 = d * s + ((j + 1) % d) /\ (j + 1) % d < d
  BY Quotient
<1> HIDE DEF p, q, s
<1> DEFINE u == i % d
           v == j % d
           w == (j + 1) % d
<1>a. /\ u \in Nat /\ v \in Nat /\ w \in Nat /\ i = d * p + u /\ j = d * q + v /\ j + 1 = d * s + w
      /\ u < d /\ v < d /\ w < d
  BY <1>1
<1> HIDE DEF u, v, w
<1>b. d * p \in Nat /\ d * q \in Nat /\ d * s \in Nat BY <1>1
<1>2. p <= q
  <2>1. SUFFICES ASSUME q < p PROVE FALSE BY <1>1
  <2>2. d * q + d <= d * p BY <1>1, <2>1, Products
  <2>3. QED BY <1>a, <1>b, <2>2
<1>3. s <= q + 1
  <2>1. SUFFICES ASSUME q + 1 < s PROVE FALSE BY <1>1
  <2>2. q + 1 \in Nat BY <1>1
  <2>3. d * (q + 1) + d <= d * s BY <1>1, <2>1, <2>2, Products
  <2>4. d * (q + 1) = d * q + d BY <1>1
  <2>5. QED BY <1>a, <1>b, <2>3, <2>4
<1>4. QED BY <1>2, <1>3 DEF p, q, s

\* The first value of a block has no values before it there.
LEMMA FirstInBlock ==
  ASSUME NEW d \in Nat \ {0}, NEW i \in Nat, NEW j \in Nat, i \div d = j \div d, j % d = 0
  PROVE  j <= i
<1>1. /\ i \div d \in Nat /\ i % d \in Nat /\ i = d * (i \div d) + (i % d)
      /\ j = d * (j \div d) + (j % d)
  BY Quotient
<1>2. j = d * (i \div d) BY <1>1
<1>3. d * (i \div d) \in Nat BY <1>1
<1>4. QED BY <1>1, <1>2, <1>3

\* Room for n values.
LEMMA CeilDivFits ==
  ASSUME NEW d \in Nat \ {0}, NEW n \in Nat
  PROVE  CeilDiv(n, d) * d >= n /\ \A i \in 0 .. n - 1 : i \div d < CeilDiv(n, d)
<1> DEFINE c == CeilDiv(n, d)
<1> DEFINE k == n + d - 1
           v == k % d
<1>1. k \in Nat /\ c = k \div d BY DEF CeilDiv
<1> HIDE DEF k, c
<1>2. c \in Nat /\ v \in Nat /\ k = d * c + v /\ v < d BY <1>1, Quotient
<1> HIDE DEF v
<1>3. d * c \in Nat /\ c * d = d * c BY <1>2
<1>4. k = n + d - 1 /\ d * c >= n BY <1>2, <1>3 DEF k
<1>5. ASSUME NEW i \in 0 .. n - 1 PROVE i \div d < c
  <2> DEFINE q == i \div d
             u == i % d
  <2>1. i \in Nat OBVIOUS
  <2>2. q \in Nat /\ u \in Nat /\ i = d * q + u /\ u < d BY <2>1, Quotient
  <2> HIDE DEF q, u
  <2>3. SUFFICES ASSUME c <= q PROVE FALSE BY <1>2, <2>2 DEF q
  <2>4. d * c <= d * q
    <3>1. CASE c = q BY <1>3, <3>1
    <3>2. CASE c < q
      <4>1. d * c + d <= d * q BY <1>2, <2>2, <3>2, Products
      <4>2. d * q \in Nat BY <2>2
      <4>3. QED BY <1>3, <4>1, <4>2
    <3>3. QED BY <1>2, <2>2, <2>3, <3>1, <3>2
  <2>5. d * q \in Nat BY <2>2
  <2>6. QED BY <1>3, <1>4, <2>2, <2>4, <2>5
<1>6. QED BY <1>3, <1>4, <1>5 DEF c

-----------------------------------------------------------------------------
(* copy_blocks                                                               *)

\* C2 is C after n blocks were copied from src to dest.
Copied(C, C2, src, dest, n) ==
  /\ C2 \in Contents
  /\ \A j \in 0 .. n - 1 : C2[dest + j] = C[src + j]
  /\ \A b \in 0 .. MaxBlocks - 1 : ~(dest <= b /\ b < dest + n) => C2[b] = C[b]

\* One block is copied, the k-th.
CopyOne(c, src, dest, k) == [c EXCEPT ![dest + k - 1] = c[src + k - 1]]

\* c2 is c with the content of block i in block j.
OneDone(c, c2, i, j) ==
  c2 \in Contents /\ c2[j] = c[i] /\ \A b \in 0 .. MaxBlocks - 1 : b # j => c2[b] = c[b]

\* What that does.
LEMMA OneCopied ==
  ASSUME NEW c \in Contents, NEW src \in Nat, NEW dest \in Nat, NEW n \in Nat, src + n <= MaxBlocks,
         dest + n <= MaxBlocks, NEW k \in 1 .. n
  PROVE  OneDone(c, CopyOne(c, src, dest, k), src + (k - 1), dest + (k - 1))
<1>1. MaxBlocks \in Nat BY AllocatorAssumption
<1>2. dest + (k - 1) \in 0 .. MaxBlocks - 1 /\ src + (k - 1) \in 0 .. MaxBlocks - 1 BY <1>1
<1>3. dest + k - 1 = dest + (k - 1) /\ src + k - 1 = src + (k - 1) OBVIOUS
<1>4. QED BY <1>2, <1>3 DEF CopyOne, Contents, OneDone

\* h lists the content of the blocks behind each copy.
Copies(h, src, dest, n) ==
  /\ h \in [0 .. n -> Contents]
  /\ CopyBlocks(src, dest, n) = h[n] /\ h[0] = content
  /\ \A k \in 1 .. n : h[k] = CopyOne(h[k - 1], src, dest, k)

\* The blocks are copied one by one.
LEMMA CopySteps ==
  ASSUME content \in Contents, NEW src \in Nat, NEW dest \in Nat, NEW n \in Nat,
         src + n <= MaxBlocks, dest + n <= MaxBlocks
  PROVE  \E h : Copies(h, src, dest, n)
<1> DEFINE One(c, k) == CopyOne(c, src, dest, k)
           Steps(h, m) == /\ h \in [0 .. m -> Contents] /\ h[0] = content
                          /\ \A k \in 1 .. m : h[k] = One(h[k - 1], k)
           body(h) == [k \in 0 .. n |-> IF k = 0 THEN content ELSE One(h[k - 1], k)]
           copied == CHOOSE h : h = body(h)
<1>1. CopyBlocks(src, dest, n) = copied[n] BY DEF CopyBlocks, CopyOne
<1>2. \A c \in Contents, k \in 1 .. n : One(c, k) \in Contents BY OneCopied DEF OneDone
<1> HIDE DEF One
<1>3. \A m \in Nat : m <= n => \E h : Steps(h, m)
  <2> DEFINE S == { m \in Nat : m <= n => \E h : Steps(h, m) }
  <2>1. 0 \in S
    <3>1. Steps([k \in 0 .. 0 |-> content], 0) OBVIOUS
    <3>2. QED BY <3>1
  <2>2. ASSUME NEW m \in Nat, m \in S PROVE m + 1 \in S
    <3>1. SUFFICES ASSUME m + 1 <= n PROVE \E h : Steps(h, m + 1) OBVIOUS
    <3>2. PICK h : Steps(h, m) BY <2>2, <3>1
    <3> DEFINE g == [k \in 0 .. m + 1 |-> IF k = m + 1 THEN One(h[m], m + 1) ELSE h[k]]
    <3>3. Steps(g, m + 1)
      <4>1. h[m] \in Contents /\ m + 1 \in 1 .. n BY <3>1, <3>2
      <4>2. One(h[m], m + 1) \in Contents BY <1>2, <4>1
      <4>3. g \in [0 .. m + 1 -> Contents] /\ g[0] = content BY <3>2, <4>2
      <4>4. ASSUME NEW k \in 1 .. m + 1 PROVE g[k] = One(g[k - 1], k)
        <5>1. CASE k = m + 1
          <6>1. k - 1 = m /\ g[k] = One(h[m], m + 1) /\ g[m] = h[m] BY <5>1
          <6>2. QED BY <5>1, <6>1
        <5>2. CASE k # m + 1
          <6>1. k \in 1 .. m /\ g[k] = h[k] /\ g[k - 1] = h[k - 1] BY <5>2
          <6>2. QED BY <3>2, <6>1
        <5>3. QED BY <5>1, <5>2
      <4>5. QED BY <4>3, <4>4
    <3> HIDE DEF g, Steps
    <3>4. QED BY <3>3
  <2> HIDE DEF S
  <2>3. \A m \in Nat : m \in S BY <2>1, <2>2, Induction
  <2>4. QED BY <2>3 DEF S
<1>4. PICK h : Steps(h, n) BY <1>3
<1>5. h = body(h) BY <1>4
<1>6. copied = body(copied) BY <1>5
<1> HIDE DEF copied
<1>7. copied[0] = content /\ \A k \in 1 .. n : copied[k] = One(copied[k - 1], k)
  <2>1. \A k \in 0 .. n : copied[k] = body(copied)[k] BY <1>6
  <2>2. \A k \in 0 .. n : copied[k] = IF k = 0 THEN content ELSE One(copied[k - 1], k) BY <2>1
  <2> HIDE DEF body
  <2>3. QED BY <2>2
<1>8. \A k \in 0 .. n : copied[k] \in Contents
  <2> DEFINE S == { m \in Nat : m <= n => copied[m] \in Contents }
  <2>1. 0 \in S BY <1>7
  <2>2. ASSUME NEW m \in Nat, m \in S PROVE m + 1 \in S
    <3>1. SUFFICES ASSUME m + 1 <= n PROVE copied[m + 1] \in Contents OBVIOUS
    <3>2. m + 1 \in 1 .. n /\ (m + 1) - 1 = m /\ copied[m] \in Contents BY <2>2, <3>1
    <3>3. copied[m + 1] = One(copied[m], m + 1) BY <1>7, <3>2
    <3>4. QED BY <1>2, <3>2, <3>3
  <2> HIDE DEF S
  <2>3. \A m \in Nat : m \in S BY <2>1, <2>2, Induction
  <2>4. QED BY <2>3 DEF S
<1>9. copied \in [0 .. n -> Contents]
  <2> DEFINE g(k) == IF k = 0 THEN content ELSE One(copied[k - 1], k)
  <2>1. copied = [k \in 0 .. n |-> g(k)] BY <1>6
  <2>2. \A k \in 0 .. n : g(k) \in Contents
    <3>1. \A k \in 0 .. n : copied[k] = g(k) BY <2>1
    <3> HIDE DEF g
    <3>2. QED BY <1>8, <3>1
  <2> HIDE DEF g
  <2>3. QED BY <2>1, <2>2
<1>10. \A k \in 1 .. n : copied[k] = CopyOne(copied[k - 1], src, dest, k) BY <1>7 DEF One
<1>11. Copies(copied, src, dest, n) BY <1>1, <1>7, <1>9, <1>10 DEF Copies
<1>12. QED BY <1>11

\* Copying forwards, the source behind the destination or apart from it, loses nothing of
\* the source and leaves all other blocks alone.
LEMMA CopyForward ==
  ASSUME content \in Contents, NEW src \in Nat, NEW dest \in Nat, NEW n \in Nat,
         src + n <= MaxBlocks, dest + n <= MaxBlocks, dest < src \/ src + n <= dest
  PROVE  Copied(content, CopyBlocks(src, dest, n), src, dest, n)
<1>0. PICK h : Copies(h, src, dest, n) BY CopySteps
<1>1. /\ h \in [0 .. n -> Contents] /\ CopyBlocks(src, dest, n) = h[n] /\ h[0] = content
      /\ \A k \in 1 .. n : h[k] = CopyOne(h[k - 1], src, dest, k)
  BY <1>0 DEF Copies
<1> DEFINE Done(m) == /\ \A j \in 0 .. m - 1 : h[m][dest + j] = content[src + j]
                      /\ \A b \in 0 .. MaxBlocks - 1 : ~(dest <= b /\ b < dest + m) => h[m][b] = content[b]
           S == { m \in Nat : m <= n => Done(m) }
<1>2. 0 \in S BY <1>1
<1>3. ASSUME NEW m \in Nat, m \in S PROVE m + 1 \in S
  <2>1. SUFFICES ASSUME m + 1 <= n PROVE Done(m + 1) OBVIOUS
  <2> DEFINE k == m + 1
             c == h[m]
             c2 == h[k]
  <2>2. Done(m) BY <1>3, <2>1
  <2>3. k \in 1 .. n /\ k - 1 = m /\ c \in Contents BY <1>1, <2>1
  <2>4. c2 = CopyOne(c, src, dest, k) BY <1>1, <2>3
  <2>5. /\ c2[dest + m] = c[src + m]
        /\ \A b \in 0 .. MaxBlocks - 1 : b # dest + m => c2[b] = c[b]
    <3> HIDE DEF c, k, c2
    <3>1. OneDone(c, c2, src + (k - 1), dest + (k - 1)) BY <2>3, <2>4, OneCopied
    <3>2. QED BY <2>3, <3>1 DEF OneDone
  <2>6. MaxBlocks \in Nat BY AllocatorAssumption
  <2>7. src + m \in 0 .. MaxBlocks - 1 /\ ~(dest <= src + m /\ src + m < dest + m) BY <2>1, <2>6
  <2>8. c[src + m] = content[src + m] BY <2>2, <2>7
  <2> HIDE DEF c, c2
  <2>9. ASSUME NEW j \in 0 .. k - 1 PROVE c2[dest + j] = content[src + j]
    <3>1. CASE j = m BY <2>5, <2>8, <3>1
    <3>2. CASE j # m
      <4>1. j \in 0 .. m - 1 /\ dest + j \in 0 .. MaxBlocks - 1 /\ dest + j # dest + m
        BY <2>1, <2>6, <3>2
      <4>2. c2[dest + j] = c[dest + j] BY <2>5, <4>1
      <4>3. c[dest + j] = content[src + j] BY <2>2, <4>1 DEF c
      <4>4. QED BY <4>2, <4>3
    <3>3. QED BY <3>1, <3>2
  <2>10. ASSUME NEW b \in 0 .. MaxBlocks - 1, ~(dest <= b /\ b < dest + k) PROVE c2[b] = content[b]
    <3>1. b # dest + m /\ ~(dest <= b /\ b < dest + m) BY <2>10
    <3>2. c2[b] = c[b] BY <2>5, <3>1
    <3>3. c[b] = content[b] BY <2>2, <3>1 DEF c
    <3>4. QED BY <3>2, <3>3
  <2>11. QED BY <2>9, <2>10 DEF c2
<1> HIDE DEF S
<1>4. \A m \in Nat : m \in S BY <1>2, <1>3, Induction
<1>5. Done(n) BY <1>4 DEF S
<1>6. h[n] \in Contents BY <1>1
<1>7. QED BY <1>1, <1>5, <1>6 DEF Copied

-----------------------------------------------------------------------------
(* What may happen to the places of values.                                  *)

\* The blocks of values have numbers.
LEMMA ValueBlock ==
  ASSUME NEW size \in Nat, NEW i \in 0 .. size - 1
  PROVE  i \in Nat /\ i \div BlockCapacity \in Nat
<1>1. i \in Nat /\ BlockCapacity \in Nat \ {0} BY ArrayAssumption
<1>2. QED BY <1>1, Quotient

\* What matters to values of the plan.
LEMMA SameValues ==
  ASSUME NEW P, NEW P2, NEW r, NEW A, NEW C, ValuesOK(P, r, A, C),
         \A op \in {"fit", "reallocate", "move", "anchor", "reset", "write"} : Doing(P2, op) = Doing(P, op)
  PROVE  ValuesOK(P2, r, A, C)
<1>1. (Searching(P2) <=> Searching(P)) /\ \A x : Keeps(P2, x) <=> Keeps(P, x) BY SameClaims
<1>2. /\ Doing(P2, "move") = Doing(P, "move") /\ Doing(P2, "anchor") = Doing(P, "anchor")
      /\ Doing(P2, "reset") = Doing(P, "reset") /\ Doing(P2, "write") = Doing(P, "write")
  OBVIOUS
<1>3. KeptValues(P2, A, C) BY <1>1 DEF ValuesOK, KeptValues
<1>4. AnchorValues(P2, r, A, C) BY <1>1, <1>2 DEF ValuesOK, AnchorValues
<1>5. WriteFits(P2, A) BY <1>2 DEF ValuesOK, WriteFits
<1>6. QED BY <1>3, <1>4, <1>5 DEF ValuesOK

\* Blocks of storage are blocks of the engine, and apart from those to be put back.
LEMMA KeptInside ==
  ASSUME NEW P, NEW a, NEW r, NEW A, Consistent(P, a, r, A)
  PROVE  /\ \A b \in Kept(P, A) : b \in 0 .. MaxBlocks - 1 /\ b \notin Returned(P) /\ b \notin Found(P, r)
         /\ \A b \in Found(P, r) : b \in 0 .. MaxBlocks - 1 /\ b \notin Returned(P)
         /\ \A b \in Cover(a.extents) : b \in 0 .. MaxBlocks - 1 /\ b \notin Kept(P, A)
<1>1. Parts(Got(P, a), Cover(a.extents), a.meta, Returned(P), Found(P, r), Kept(P, A))
  BY DEF Consistent, ClaimsOK
<1>2. a.engine \in Nat /\ a.engine <= MaxBlocks BY DEF Consistent, Placed, Sound, Allocators
<1>3. \A b \in Got(P, a) : b \in 0 .. MaxBlocks - 1
  <2>1. RegionSize \in Nat /\ MaxBlocks \in Nat BY AllocatorAssumption
  <2>2. QED BY <1>2, <2>1 DEF Got
<1>4. QED BY <1>1, <1>3 DEF Parts

\* The block of a value that is in place is in the storage of its array.
LEMMA PlaceKept ==
  ASSUME NEW P, NEW a, NEW r, NEW A, Consistent(P, a, r, A), NEW x \in Arrays, Keeps(P, x),
         NEW j \in Nat, j < A[x].blocks
  PROVE  A[x].start + j \in Storage(A, x) /\ A[x].start + j \in Kept(P, A)
<1>1. A[x].blocks \in Nat /\ A[x].start \in Nat BY DEF Consistent, Anchored, Anchor
<1>2. A[x].start + j \in Storage(A, x) BY <1>1 DEF Storage
<1>3. QED BY <1>2 DEF Kept

\* The same of storage that was found.
LEMMA PlaceFound ==
  ASSUME NEW P, NEW r \in Nat, ~Searching(P), NEW z \in Doing(P, "anchor"), z.blocks \in Nat,
         NEW j \in Nat, j < z.blocks
  PROVE  r + j \in Found(P, r)
<1>1. r + j \in r .. r + z.blocks - 1 OBVIOUS
<1>2. QED BY <1>1 DEF Found

\* The number of values in an array.
LEMMA SizeNat ==
  ASSUME NEW P, NEW a, NEW r, NEW A, Consistent(P, a, r, A), NEW x \in Arrays
  PROVE  A[x].size \in Nat /\ A[x].blocks \in Nat
BY DEF Consistent, Anchored, Anchor

\* The fields of a step that sets an anchor, or writes.
LEMMA AnchorFields ==
  ASSUME NEW P, Single(P)
  PROVE  /\ \A z \in Doing(P, "anchor") : z.array \in Arrays /\ z.blocks \in Nat
         /\ \A w \in Doing(P, "write") : w.array \in Arrays /\ w.size \in Nat
<1>1. ASSUME NEW z \in Doing(P, "anchor") PROVE z.array \in Arrays /\ z.blocks \in Nat
  <2>1. z \in Items /\ z.op = "anchor" BY DEF Doing, Single
  <2>2. QED BY <2>1 DEF Items
<1>2. ASSUME NEW w \in Doing(P, "write") PROVE w.array \in Arrays /\ w.size \in Nat
  <2>1. w \in Items /\ w.op = "write" BY DEF Doing, Single
  <2>2. QED BY <2>1 DEF Items
<1>3. QED BY <1>1, <1>2

\* Blocks may change that are neither kept nor found.
LEMMA OthersChange ==
  ASSUME NEW P, Single(P), NEW a, NEW r, NEW A, Consistent(P, a, r, A), NEW C, ValuesOK(P, r, A, C),
         NEW C2 \in Contents, \A b \in Kept(P, A) : C2[b] = C[b], \A b \in Found(P, r) : C2[b] = C[b]
  PROVE  ValuesOK(P, r, A, C2)
<1>1. ASSUME NEW x \in Arrays, Keeps(P, x) PROVE Has(C2, x, A[x].size, A[x].start)
  <2>1. Within(A[x].size, A[x].blocks) /\ Has(C, x, A[x].size, A[x].start)
    BY <1>1 DEF ValuesOK, KeptValues
  <2>2. ASSUME NEW i \in 0 .. A[x].size - 1 PROVE <<x, i>> \in C2[A[x].start + i \div BlockCapacity]
    <3> DEFINE j == i \div BlockCapacity
    <3>1. A[x].size \in Nat BY SizeNat
    <3>2. j \in Nat /\ j < A[x].blocks BY <2>1, <3>1, ValueBlock DEF Within
    <3>3. <<x, i>> \in C[A[x].start + j] BY <2>1 DEF Has
    <3> HIDE DEF j
    <3>4. A[x].start + j \in Kept(P, A) BY <1>1, <3>2, PlaceKept
    <3>5. <<x, i>> \in C2[A[x].start + j] BY <3>3, <3>4
    <3>6. QED BY <3>5 DEF j
  <2>3. QED BY <2>2 DEF Has
<1>2. KeptValues(P, A, C2) BY <1>1 DEF ValuesOK, KeptValues
<1>3. ASSUME NEW z \in Doing(P, "anchor"), ~Searching(P), Doing(P, "move") = {}
      PROVE  Has(C2, z.array, A[z.array].size, r)
  <2> DEFINE x == z.array
  <2>1. x \in Arrays /\ z.blocks \in Nat BY AnchorFields
  <2>2. Within(A[x].size, z.blocks) /\ Has(C, x, A[x].size, r) BY <1>3 DEF ValuesOK, AnchorValues
  <2>3. A[x].size \in Nat /\ r \in Nat BY <2>1, SizeNat DEF Consistent
  <2> HIDE DEF x
  <2>4. ASSUME NEW i \in 0 .. A[x].size - 1 PROVE <<x, i>> \in C2[r + i \div BlockCapacity]
    <3> DEFINE j == i \div BlockCapacity
    <3>1. j \in Nat /\ j < z.blocks BY <2>2, <2>3, ValueBlock DEF Within
    <3>2. <<x, i>> \in C[r + j] BY <2>2 DEF Has
    <3> HIDE DEF j
    <3>3. r + j \in Found(P, r) BY <1>3, <2>1, <2>3, <3>1, PlaceFound
    <3>4. <<x, i>> \in C2[r + j] BY <3>2, <3>3
    <3>5. QED BY <3>4 DEF j
  <2>5. Has(C2, x, A[x].size, r) BY <2>4 DEF Has
  <2>6. QED BY <2>5 DEF x
<1>4. AnchorValues(P, r, A, C2) BY <1>3 DEF ValuesOK, AnchorValues
<1>5. QED BY <1>2, <1>4 DEF ValuesOK

\* As long as storage is looked for, every array keeps its own.
LEMMA SearchKeeps ==
  ASSUME NEW P, Single(P), Searching(P), NEW a, NEW r, NEW A, Consistent(P, a, r, A)
  PROVE  \A x : Keeps(P, x)
<1>1. PICK h \in P : h.op \in {"fit", "reallocate"} BY DEF Searching, Doing
<1>2. PlanOK(P, a, A) BY DEF Consistent
<1>3. PICK z \in P : Doing(P, "anchor") = {z} /\ Doing(P, "reset") = {} /\ z.blocks \in Nat \ {0}
  BY <1>1, <1>2, AnchorPlanned
<1>4. QED BY <1>3, WhoKeeps

\* A call that throws leaves the values where they were.
LEMMA ThrowValues ==
  ASSUME NEW P, Single(P), Searching(P), NEW a, NEW r, NEW A, Consistent(P, a, r, A),
         NEW C, ValuesOK(P, r, A, C)
  PROVE  ValuesOK({}, 0, A, C)
<1>1. \A x : Keeps(P, x) BY SearchKeeps
<1>2. \A op : Doing({}, op) = {} BY DEF Doing
<1>3. KeptValues({}, A, C) BY <1>1 DEF ValuesOK, KeptValues
<1>4. AnchorValues({}, 0, A, C) /\ WriteFits({}, A) BY <1>2 DEF AnchorValues, WriteFits
<1>5. QED BY <1>3, <1>4 DEF ValuesOK

\* A step of a search, or the move at its end.
LEMMA ValuesPlaced ==
  ASSUME NEW P, NEW P2, NEW z, Doing(P, "anchor") = {z}, Doing(P2, "anchor") = {z},
         Doing(P2, "reset") = {}, Doing(P2, "write") = Doing(P, "write"), z.blocks \in Nat \ {0},
         \A x : Keeps(P, x), NEW r, NEW r2, NEW A, NEW C, ValuesOK(P, r, A, C), NEW C2 \in Contents,
         ~Searching(P2) /\ Doing(P2, "move") = {} => Has(C2, z.array, A[z.array].size, r2),
         \A x \in Arrays : x # z.array \/ Searching(P2) \/ Doing(P2, "move") # {}
                             => Has(C2, x, A[x].size, A[x].start)
  PROVE  ValuesOK(P2, r2, A, C2)
<1>1. ASSUME NEW x, x = z.array, Keeps(P2, x) PROVE Searching(P2) \/ Doing(P2, "move") # {}
  BY <1>1 DEF Keeps
<1>2. \A x \in Arrays : Within(A[x].size, A[x].blocks) BY DEF ValuesOK, KeptValues
<1>3. KeptValues(P2, A, C2) BY <1>1, <1>2 DEF KeptValues
<1>4. AnchorValues(P2, r2, A, C2) BY DEF ValuesOK, AnchorValues
<1>5. WriteFits(P2, A)
  <2>1. ASSUME NEW w \in Doing(P2, "write") PROVE z.array = w.array /\ Within(w.size, z.blocks)
    BY DEF ValuesOK, WriteFits
  <2>2. QED BY <2>1 DEF WriteFits
<1>6. QED BY <1>3, <1>4, <1>5 DEF ValuesOK

\* The anchor is set, or reset: A2 has the storage that was found.
LEMMA ValuesSettled ==
  ASSUME NEW P, NEW h, Single(P), First(h, P), h.op \in {"anchor", "reset"}, h.array \in Arrays,
         NEW r, NEW A, NEW C, ValuesOK(P, r, A, C), NEW A2, NEW r2,
         \A y \in Arrays : y # h.array => A2[y] = A[y],
         Within(A2[h.array].size, A2[h.array].blocks), Has(C, h.array, A2[h.array].size, A2[h.array].start),
         h.op = "anchor" => A2[h.array].blocks = h.blocks
  PROVE  ValuesOK(P \ {h}, r2, A2, C)
<1> DEFINE P2 == P \ {h}
<1>1. h \in P BY DEF First
<1>2. ~Searching(P) /\ Doing(P, "move") = {} BY BehindFirst
<1>3. /\ h.op = "anchor" => Doing(P, "anchor") = {h} /\ Doing(P, "reset") = {}
      /\ h.op = "reset" => Doing(P, "reset") = {h} /\ Doing(P, "anchor") = {}
  BY <1>1, OneGoal
<1>4. Doing(P2, "anchor") = {} /\ Doing(P2, "reset") = {} /\ Doing(P2, "write") = Doing(P, "write")
  <2>1. \A op : Doing(P2, op) = Doing(P, op) \ {h} BY DEF Doing
  <2>2. h \notin Doing(P, "write") BY DEF Doing
  <2> HIDE DEF P2
  <2>3. QED BY <1>3, <2>1, <2>2
<1> HIDE DEF P2
<1>5. \A y : Keeps(P, y) <=> y # h.array BY <1>2, <1>3 DEF Keeps
<1>6. KeptValues(P2, A2, C)
  <2>1. ASSUME NEW x \in Arrays
        PROVE  Within(A2[x].size, A2[x].blocks) /\ Has(C, x, A2[x].size, A2[x].start)
    <3>1. CASE x = h.array BY <3>1
    <3>2. CASE x # h.array
      <4>1. A2[x] = A[x] /\ Keeps(P, x) BY <1>5, <3>2
      <4>2. Within(A[x].size, A[x].blocks) /\ Has(C, x, A[x].size, A[x].start)
        BY <4>1 DEF ValuesOK, KeptValues
      <4>3. QED BY <4>1, <4>2
    <3>3. QED BY <3>1, <3>2
  <2>2. QED BY <2>1 DEF KeptValues
<1>7. AnchorValues(P2, r2, A2, C) BY <1>4 DEF AnchorValues
<1>8. WriteFits(P2, A2)
  <2>1. ASSUME NEW w \in Doing(P2, "write") PROVE Within(w.size, A2[w.array].blocks)
    <3>1. w \in Doing(P, "write") BY <1>4
    <3>2. Doing(P, "reset") = {} BY <3>1 DEF ValuesOK, WriteFits
    <3>3. h.op = "anchor" BY <1>3, <3>2
    <3>4. h.array = w.array /\ Within(w.size, h.blocks) BY <1>3, <3>1, <3>3 DEF ValuesOK, WriteFits
    <3>5. QED BY <3>3, <3>4
  <2>2. QED BY <1>4, <2>1 DEF WriteFits
<1>9. QED BY <1>6, <1>7, <1>8 DEF ValuesOK, P2

-----------------------------------------------------------------------------
(* Steps.                                                                    *)

\* The steps of two lists.
LEMMA BothPlans ==
  ASSUME NEW T, NEW c \in Seq(T), NEW d \in Seq(T)
  PROVE  PlanOf(c \o d) = PlanOf(c) \cup PlanOf(d)
<1>1. ToSet(c \o d) = ToSet(c) \cup ToSet(d)
  <2>1. /\ Len(c) \in Nat /\ Len(d) \in Nat /\ DOMAIN c = 1 .. Len(c) /\ DOMAIN d = 1 .. Len(d)
        /\ DOMAIN (c \o d) = 1 .. Len(c) + Len(d)
        /\ \A p \in 1 .. Len(c) : (c \o d)[p] = c[p]
        /\ \A p \in 1 .. Len(d) : (c \o d)[Len(c) + p] = d[p]
    OBVIOUS
  <2> DEFINE s == c \o d
             k == Len(c)
             l == Len(d)
  <2> HIDE DEF s, k, l
  <2>2. /\ k \in Nat /\ l \in Nat /\ DOMAIN c = 1 .. k /\ DOMAIN d = 1 .. l /\ DOMAIN s = 1 .. k + l
        /\ \A p \in 1 .. k : s[p] = c[p]
        /\ \A p \in 1 .. l : s[k + p] = d[p]
    BY <2>1 DEF s, k, l
  <2>3. ASSUME NEW y \in ToSet(s) PROVE y \in ToSet(c) \cup ToSet(d)
    <3>1. PICK p \in 1 .. k + l : s[p] = y BY <2>2 DEF ToSet
    <3>2. CASE p <= k BY <2>2, <3>1, <3>2 DEF ToSet
    <3>3. CASE p > k
      <4>1. p - k \in 1 .. l /\ k + (p - k) = p BY <2>2, <3>1, <3>3
      <4>2. d[p - k] = y BY <2>2, <3>1, <4>1
      <4>3. QED BY <2>2, <4>1, <4>2 DEF ToSet
    <3>4. QED BY <2>2, <3>2, <3>3
  <2>4. ASSUME NEW y \in ToSet(c) PROVE y \in ToSet(s)
    <3>1. PICK p \in 1 .. k : c[p] = y BY <2>2 DEF ToSet
    <3>2. p \in 1 .. k + l /\ s[p] = y BY <2>2, <3>1
    <3>3. QED BY <2>2, <3>2 DEF ToSet
  <2>5. ASSUME NEW y \in ToSet(d) PROVE y \in ToSet(s)
    <3>1. PICK p \in 1 .. l : d[p] = y BY <2>2 DEF ToSet
    <3>2. k + p \in 1 .. k + l /\ s[k + p] = y BY <2>2, <3>1
    <3>3. QED BY <2>2, <3>2 DEF ToSet
  <2>6. QED BY <2>3, <2>4, <2>5 DEF s
<1>2. QED BY <1>1 DEF PlanOf

\* A step is done and leaves those in c.
LEMMA StepsBehind ==
  ASSUME Inv, todo # << >>, ~Fixes(Head(todo)), NEW T, NEW c \in Seq(T), Then(c)
  PROVE  Plan' = PlanOf(c) \cup (Plan \ {Head(todo)})
<1>1. Does(todo, Plan) BY DEF Inv
<1>2. Does(Tail(todo), Plan \ {Head(todo)}) BY <1>1, DoesRest
<1>3. Tail(todo) \in Seq(Items) /\ PlanOf(Tail(todo)) = Plan \ {Head(todo)} BY <1>2 DEF Does
<1> DEFINE t == Tail(todo)
           U == T \cup Items
<1>4. t \in Seq(U) /\ c \in Seq(U) BY <1>3
<1> HIDE DEF t, U
<1>5. PlanOf(c \o t) = PlanOf(c) \cup PlanOf(t) BY <1>4, BothPlans
<1>6. Plan' = PlanOf(c \o t) BY DEF Plan, Then, t
<1>7. QED BY <1>3, <1>5, <1>6 DEF t

\* A step is done, and blocks are to be freed.
LEMMA FreeBehind ==
  ASSUME Inv, todo # << >>, ~Fixes(Head(todo)), NEW u, NEW n, Then(Free(u, n))
  PROVE  \A op : op # "put" => Doing(Plan', op) = Doing(Plan, op) \ {Head(todo)}
<1> DEFINE c == Free(u, n)
           p == PutItem(u, n)
           T == {[op |-> "drain"], [op |-> "fill"], p}
<1>2. c \in Seq(T)
  <2>1. c = << >> \/ c = FixFreelist \o <<p>> BY DEF Free, PutItem
  <2>2. FixFreelist \in Seq(T) BY DEF FixFreelist
  <2>3. <<p>> \in Seq(T) /\ << >> \in Seq(T) OBVIOUS
  <2> HIDE DEF T, p, c
  <2>4. FixFreelist \o <<p>> \in Seq(T) BY <2>2, <2>3
  <2>5. QED BY <2>1, <2>3, <2>4
<1>3. PlanOf(c) \subseteq {p}
  <2>1. Fixes([op |-> "drain"]) /\ Fixes([op |-> "fill"]) BY DEF Fixes
  <2>2. \A y \in ToSet(c) : y \in T
    <3> HIDE DEF T, c
    <3>1. QED BY <1>2 DEF ToSet
  <2> HIDE DEF p, c
  <2>3. QED BY <2>1, <2>2 DEF PlanOf
<1>4. p.op = "put" BY DEF PutItem
<1> HIDE DEF T, c, p
<1>5. Then(c) BY DEF c
<1>6. Plan' = PlanOf(c) \cup (Plan \ {Head(todo)}) BY <1>2, <1>5, StepsBehind
<1>7. QED BY <1>3, <1>4, <1>6 DEF Doing

\* The invariant in the next state.
LEMMA ValuesNext ==
  ASSUME ValuesOK(Plan', result', arrays', content')
  PROVE  ValuesInv'
BY DEF ValuesInv

\* A step that has nothing to do with the storage of arrays.
LEMMA IdleValues ==
  ASSUME ValuesInv, UNCHANGED <<result, arrays, content>>,
         \A op \in {"fit", "reallocate", "move", "anchor", "reset", "write"} : Doing(Plan', op) = Doing(Plan, op)
  PROVE  ValuesInv'
<1>1. ValuesOK(Plan', result, arrays, content) BY SameValues DEF ValuesInv
<1>2. QED BY <1>1, ValuesNext

\* bad_alloc
LEMMA ThrowValuesInv ==
  ASSUME Inv, ValuesInv, At("lazy") \/ At("fit") \/ At("reallocate"), Throw, UNCHANGED arrays
  PROVE  ValuesInv'
<1>1. todo # << >> /\ Head(todo).op \in {"lazy", "fit", "reallocate"} BY DEF At
<1>2. ~Fixes(Head(todo)) BY <1>1 DEF Fixes
<1>3. Single(Plan) /\ First(Head(todo), Plan) /\ Consistent(Plan, alloc, result, arrays)
  BY <1>1, <1>2, HeadFirst
<1>4. Head(todo) \in Plan BY <1>3 DEF First
<1>5. Searching(Plan)
  <2>1. CASE Head(todo).op = "lazy"
    <3>1. Head(todo) \in Doing(Plan, "lazy") BY <1>4, <2>1 DEF Doing
    <3>2. QED BY <1>3, <3>1 DEF Consistent, PlanOK
  <2>2. CASE Head(todo).op \in {"fit", "reallocate"} BY <1>4, <2>2 DEF Searching, Doing
  <2>3. QED BY <1>1, <2>1, <2>2
<1>6. ValuesOK({}, 0, arrays, content) BY <1>3, <1>5, ThrowValues DEF ValuesInv
<1>7. Plan' = {} BY DonePlan DEF Throw
<1>8. result' = 0 /\ arrays' = arrays /\ content' = content BY DEF Throw
<1>9. QED BY <1>6, <1>7, <1>8, ValuesNext

\* lazy_initialize()
LEMMA LazyInitializeValues ==
  ASSUME Inv, ValuesInv, LazyInitialize, UNCHANGED arrays
  PROVE  ValuesInv'
<1> DEFINE h == Head(todo)
<1>1. todo # << >> /\ h.op = "lazy" /\ At("lazy") BY DEF LazyInitialize, At
<1>2. ~Fixes(h) BY <1>1 DEF Fixes
<1>3. CASE Throw BY <1>1, <1>3, ThrowValuesInv
<1>4. ASSUME NEW u, NEW n, Then(Free(u, n)), UNCHANGED <<content, result>> PROVE ValuesInv'
  <2>1. \A op : op # "put" => Doing(Plan', op) = Doing(Plan, op) \ {h} BY <1>1, <1>2, <1>4, FreeBehind
  <2>2. \A op : op # "lazy" => h \notin Doing(Plan, op) BY <1>1 DEF Doing
  <2>3. \A op \in {"fit", "reallocate", "move", "anchor", "reset", "write"} :
          Doing(Plan', op) = Doing(Plan, op)
    BY <2>1, <2>2
  <2>4. QED BY <1>4, <2>3, IdleValues
<1>5. << >> = Free(0, 0) BY DEF Free
<1>6. Throw \/ \E u, n : Then(Free(u, n)) /\ UNCHANGED <<content, result>>
  BY <1>5 DEF LazyInitialize
<1>7. QED BY <1>3, <1>4, <1>6

\* A round of fix_freelist, or the end of one of its loops.
LEMMA FixValues ==
  ASSUME Inv, ValuesInv, Drain \/ Fill, UNCHANGED arrays
  PROVE  ValuesInv'
<1>1. todo # << >> /\ Fixes(Head(todo)) BY DEF Drain, Fill, At, Fixes
<1>2. UNCHANGED <<content, result>> /\ (todo' = todo \/ Then(<< >>)) BY DEF Drain, Fill
<1>3. Plan' = Plan
  <2>1. CASE todo' = todo BY <2>1 DEF Plan
  <2>2. CASE Then(<< >>) BY <1>1, <2>2, FixPlan DEF Inv
  <2>3. QED BY <1>2, <2>1, <2>2
<1>4. QED BY <1>2, <1>3, IdleValues

\* The last part of free(): the blocks belong to no array.
LEMMA PutBackValues ==
  ASSUME Inv, ValuesInv, PutBack, UNCHANGED arrays
  PROVE  ValuesInv'
<1> DEFINE h == Head(todo)
           e == Extent(h.block, h.size)
<1>1. /\ todo # << >> /\ h.op = "put" /\ Then(<< >>) /\ result' = result
      /\ content' = [b \in DOMAIN content |-> IF b \in BlocksOf(e) THEN {} ELSE content[b]]
  BY DEF PutBack, At
<1>2. ~Fixes(h) BY <1>1 DEF Fixes
<1>3. Single(Plan) /\ First(h, Plan) /\ Consistent(Plan, alloc, result, arrays) BY <1>1, <1>2, HeadFirst
<1>4. Plan' = Plan \ {h} BY <1>1, <1>2, NothingBehind
<1>5. BlocksOf(e) \subseteq Returned(Plan)
  <2>1. BlocksOf(e) = BlocksOf(h) BY DEF BlocksOf, Extent
  <2>2. h \in Doing(Plan, "put") BY <1>1, <1>3 DEF First, Doing
  <2>3. QED BY <2>1, <2>2 DEF Returned
<1>6. ValuesOK(Plan, result, arrays, content) /\ content \in Contents BY DEF ValuesInv, ValuesOK
<1> DEFINE C2 == content'
<1>7. C2 \in Contents /\ \A b \in 0 .. MaxBlocks - 1 : b \notin BlocksOf(e) => C2[b] = content[b]
  BY <1>1, <1>6 DEF Contents
<1> HIDE DEF C2, e
<1>8. /\ \A b \in Kept(Plan, arrays) : b \in 0 .. MaxBlocks - 1 /\ b \notin Returned(Plan)
      /\ \A b \in Found(Plan, result) : b \in 0 .. MaxBlocks - 1 /\ b \notin Returned(Plan)
  BY <1>3, KeptInside
<1>9. /\ \A b \in Kept(Plan, arrays) : C2[b] = content[b]
      /\ \A b \in Found(Plan, result) : C2[b] = content[b]
  BY <1>5, <1>7, <1>8
<1>10. ValuesOK(Plan, result, arrays, C2) BY <1>3, <1>6, <1>7, <1>9, OthersChange
<1>11. \A op : op # "put" => Doing(Plan \ {h}, op) = Doing(Plan, op) BY <1>1 DEF Doing
<1>12. ValuesOK(Plan \ {h}, result, arrays, C2) BY <1>10, <1>11, SameValues
<1>13. QED BY <1>1, <1>4, <1>12, ValuesNext DEF C2

\* The end of add_region().
LEMMA CountRegionValues ==
  ASSUME Inv, ValuesInv, CountRegion, UNCHANGED arrays
  PROVE  ValuesInv'
<1> DEFINE h == Head(todo)
<1>1. todo # << >> /\ h.op = "region" /\ Then(<< >>) /\ UNCHANGED <<content, result>>
  BY DEF CountRegion, At
<1>2. ~Fixes(h) BY <1>1 DEF Fixes
<1>3. Plan' = Plan \ {h} BY <1>1, <1>2, NothingBehind
<1>4. \A op : op # "region" => Doing(Plan \ {h}, op) = Doing(Plan, op) BY <1>1 DEF Doing
<1>5. QED BY <1>1, <1>3, <1>4, IdleValues

\* Values that were copied are in the new place.
LEMMA CopiedHas ==
  ASSUME NEW C, NEW C2, NEW src, NEW dest, NEW n, Copied(C, C2, src, dest, n), NEW x,
         NEW size \in Nat, Within(size, n), Has(C, x, size, src), n \in Nat
  PROVE  Has(C2, x, size, dest)
<1>1. ASSUME NEW i \in 0 .. size - 1 PROVE <<x, i>> \in C2[dest + i \div BlockCapacity]
  <2> DEFINE j == i \div BlockCapacity
  <2>1. j \in Nat /\ j < n BY ValueBlock DEF Within
  <2>2. <<x, i>> \in C[src + j] BY DEF Has
  <2> HIDE DEF j
  <2>3. j \in 0 .. n - 1 BY <2>1
  <2>4. C2[dest + j] = C[src + j] BY <2>3 DEF Copied
  <2>5. <<x, i>> \in C2[dest + j] BY <2>2, <2>4
  <2>6. QED BY <2>5 DEF j
<1>2. QED BY <1>1 DEF Has

\* Values that were not in the way are where they were.
LEMMA OutsideHas ==
  ASSUME NEW C, NEW C2, NEW src, NEW dest, NEW n, Copied(C, C2, src, dest, n), NEW x,
         NEW size \in Nat, NEW k, Within(size, k), NEW b, Has(C, x, size, b),
         \A j \in Nat : j < k => b + j \in 0 .. MaxBlocks - 1 /\ ~(dest <= b + j /\ b + j < dest + n)
  PROVE  Has(C2, x, size, b)
<1>1. ASSUME NEW i \in 0 .. size - 1 PROVE <<x, i>> \in C2[b + i \div BlockCapacity]
  <2> DEFINE j == i \div BlockCapacity
  <2>1. j \in Nat /\ j < k BY ValueBlock DEF Within
  <2>2. <<x, i>> \in C[b + j] BY DEF Has
  <2> HIDE DEF j
  <2>3. C2[b + j] = C[b + j] BY <2>1 DEF Copied
  <2>4. <<x, i>> \in C2[b + j] BY <2>2, <2>3
  <2>5. QED BY <2>4 DEF j
<1>2. QED BY <1>1 DEF Has

\* Storage of no blocks has no values.
LEMMA NoValues ==
  ASSUME NEW size \in Nat, Within(size, 0), NEW C, NEW x, NEW b
  PROVE  size = 0 /\ Has(C, x, size, b)
<1>1. size = 0
  <2>1. SUFFICES ASSUME size # 0 PROVE FALSE OBVIOUS
  <2>2. 0 \in 0 .. size - 1 BY <2>1
  <2>3. 0 \div BlockCapacity \in Nat /\ 0 \div BlockCapacity < 0 BY <2>2, ValueBlock DEF Within
  <2>4. QED BY <2>3
<1>2. QED BY <1>1 DEF Has

\* What allocate() does to the content of blocks: nothing.
LEMMA FitOutcome ==
  ASSUME Fit
  PROVE  Throw \/ (content' = content /\ \E u, n : Then(Free(u, n)))
BY DEF Fit

\* allocate() behind fix_freelist.
LEMMA FitValues ==
  ASSUME Inv, ValuesInv, Fit, UNCHANGED arrays
  PROVE  ValuesInv'
<1> DEFINE h == Head(todo)
           P2 == Plan'
<1>1. todo # << >> /\ h.op = "fit" /\ At("fit") BY DEF Fit, At
<1>2. ~Fixes(h) BY <1>1 DEF Fixes
<1>3. /\ Single(Plan) /\ First(h, Plan) /\ Consistent(Plan, alloc, result, arrays)
      /\ PlanOK(Plan, alloc, arrays) /\ h \in Plan
  BY <1>1, <1>2, HeadFirst DEF First, Consistent
<1>4. CASE Throw BY <1>1, <1>4, ThrowValuesInv
<1>5. ASSUME content' = content, NEW u, NEW n, Then(Free(u, n)) PROVE ValuesInv'
  <2>1. PICK z \in Plan :
          /\ Doing(Plan, "anchor") = {z} /\ Doing(Plan, "reset") = {}
          /\ z.array \in Arrays /\ z.blocks \in Nat \ {0}
          /\ h.op = "fit" => (Doing(Plan, "move") = {} => arrays[z.array].blocks = 0)
    BY <1>1, <1>3, AnchorPlanned
  <2>2. \A op : op # "put" => Doing(P2, op) = Doing(Plan, op) \ {h} BY <1>1, <1>2, <1>5, FreeBehind
  <2>3. \A op : op # "fit" => h \notin Doing(Plan, op) BY <1>1 DEF Doing
  <2> HIDE DEF P2
  <2>4. /\ Doing(P2, "anchor") = {z} /\ Doing(P2, "reset") = {}
        /\ Doing(P2, "write") = Doing(Plan, "write") /\ Doing(P2, "move") = Doing(Plan, "move")
    BY <2>1, <2>2, <2>3
  <2>5. Searching(Plan) BY <1>1, <1>3 DEF Searching, Doing
  <2>6. \A x : Keeps(Plan, x) BY <1>3, <2>5, SearchKeeps
  <2>7. ValuesOK(Plan, result, arrays, content) /\ content \in Contents BY DEF ValuesInv, ValuesOK
  <2>8. \A x \in Arrays : /\ Within(arrays[x].size, arrays[x].blocks)
                          /\ Has(content, x, arrays[x].size, arrays[x].start)
    BY <2>6, <2>7 DEF ValuesOK, KeptValues
  <2>9. Doing(P2, "move") = {} => Has(content, z.array, arrays[z.array].size, result')
    <3>1. SUFFICES ASSUME Doing(Plan, "move") = {}
                   PROVE  Has(content, z.array, arrays[z.array].size, result')
      BY <2>4
    <3>2. arrays[z.array].blocks = 0 BY <1>1, <2>1, <3>1
    <3>3. arrays[z.array].size \in Nat /\ Within(arrays[z.array].size, 0)
      BY <1>3, <2>1, <2>8, <3>2, SizeNat
    <3>4. QED BY <3>3, NoValues
  <2> DEFINE r2 == result'
  <2> HIDE DEF r2
  <2>10. ValuesOK(P2, r2, arrays, content)
    <3>1. Doing(P2, "move") = {} => Has(content, z.array, arrays[z.array].size, r2) BY <2>9 DEF r2
    <3>2. QED BY <2>1, <2>4, <2>6, <2>7, <2>8, <3>1, ValuesPlaced
  <2>11. QED BY <1>5, <2>10, ValuesNext DEF P2, r2
<1>6. QED BY <1>4, <1>5, FitOutcome

\* What reallocate() does to the content of blocks.
LEMMA ReallocateOutcome ==
  ASSUME Inv, ReallocateStep, NEW h, h = Head(todo)
  PROVE  \/ content' = content /\ result' = h.block /\ \E u, n : Then(Free(u, n))
         \/ \E f \in alloc.extents :
              /\ f.block + f.size = h.block /\ result' = f.block
              /\ content' = CopyBlocks(h.block, f.block, h.size) /\ \E u, n : Then(Free(u, n))
         \/ content' = content /\ Then(Allocate(h.new_size) \o <<MoveItem(h.block, h.size)>>)
         \/ Throw
<1> DEFINE b == h.block
           s == h.size
           e == Extent(b, s)
           m == h.new_size
           need == m - s
           right == { f \in alloc.extents : Touch(e, f) }
           left == { f \in alloc.extents : Touch(f, e) /\ f.size >= need }
           next == CHOOSE f \in right : TRUE
           prev == CHOOSE f \in left : TRUE
           d == need - next.size
<1>1. todo # << >> /\ h.op = "reallocate" BY DEF ReallocateStep, At
<1>2. ~Fixes(h) BY <1>1 DEF Fixes
<1>3. Consistent(Plan, alloc, result, arrays) /\ h \in Items BY <1>1, <1>2, HeadFirst
<1>4. b \in Nat /\ s \in Nat \ {0} /\ m \in Nat \ {0} BY <1>1, <1>3 DEF Items
<1>5. e.size = s /\ e.block = b BY DEF Extent
<1>6. ReallocateBetween(left, e, right, m)
  <2>1. ReallocateBetween({ f \in alloc.extents : Touch(f, e) /\ f.size >= m - e.size }, e, right, m)
    BY DEF ReallocateStep
  <2>2. QED BY <1>5, <2>1
<1>7. \A f \in right : f.size \in Nat BY <1>3 DEF Consistent, Placed, Sound, Allocators, Extents
<1>8. \A f \in left : f \in alloc.extents /\ f.block + f.size = b BY <1>5 DEF Touch
<1>9. need = m - e.size /\ m \in Nat /\ s \in Nat BY <1>4, <1>5
<1>10. next = (CHOOSE f \in right : TRUE) /\ prev = (CHOOSE f \in left : TRUE) OBVIOUS
<1>11. d = need - next.size OBVIOUS
<1>12. left # {} => prev \in left OBVIOUS
<1> HIDE DEF e, right, left, need, next, prev, d
<1>13. Attempt(left, e, right, m, need, next, prev, d)
  BY <1>5, <1>6, <1>7, <1>9, <1>10, <1>11, ReallocateCases
<1>14. CASE left # {} /\ Use(alloc, prev) /\ content' = CopyBlocks(b, prev.block, s) /\ \E u, n : Then(Free(u, n))
  <2>1. prev \in alloc.extents /\ prev.block + prev.size = b BY <1>8, <1>12, <1>14
  <2>2. result' = prev.block BY <1>14 DEF Use
  <2>3. QED BY <1>14, <2>1, <2>2
<1>15. QED BY <1>5, <1>13, <1>14 DEF Attempt


\* reallocate() goes on to look for storage, and to move the values.
LEMMA MoveBehind ==
  ASSUME Inv, todo # << >>, NEW h, h = Head(todo), h.op = "reallocate",
         Then(Allocate(h.new_size) \o <<MoveItem(h.block, h.size)>>)
  PROVE  Plan' = MovePlan(h) \cup (Plan \ {h})
<1> DEFINE m == h.new_size
           y == MoveItem(h.block, h.size)
           c == Allocate(m) \o <<y>>
<1>1. ~Fixes(h) BY DEF Fixes
<1>2. h \in Items BY <1>1, HeadFirst
<1>3. h.block \in Nat /\ h.size \in Nat \ {0} /\ m \in Nat \ {0} BY <1>2 DEF Items
<1>4. y \in Items /\ ~Fixes(y) BY <1>3, ItemRanks
<1>5. MovePlan(h) = {LazyItem, FitItem(m)} \cup {y} BY DEF MovePlan
<1> HIDE DEF y, m
<1>6. Does(Allocate(m), {LazyItem, FitItem(m)}) /\ Does(<<y>>, {y}) BY <1>3, <1>4, AllocateDoes, DoesOne
<1>7. /\ Allocate(m) \in Seq(Items) /\ PlanOf(Allocate(m)) = {LazyItem, FitItem(m)}
      /\ <<y>> \in Seq(Items) /\ PlanOf(<<y>>) = {y}
  BY <1>6 DEF Does
<1>8. PlanOf(c) = MovePlan(h)
  <2> DEFINE d == Allocate(m)
             e == <<y>>
  <2> HIDE DEF d, e
  <2>1. d \in Seq(Items) /\ e \in Seq(Items) BY <1>7 DEF d, e
  <2>2. PlanOf(d \o e) = PlanOf(d) \cup PlanOf(e) BY <2>1, BothPlans
  <2>3. QED BY <1>5, <1>7, <2>2 DEF d, e
<1>9. c \in Seq(Items) BY <1>7
<1>10. Then(c) BY DEF y, m
<1> HIDE DEF c
<1>11. Plan' = PlanOf(c) \cup (Plan \ {h}) BY <1>1, <1>9, <1>10, StepsBehind
<1>12. QED BY <1>8, <1>11

\* The storage of an array, and where it ends.
LEMMA StorageInside ==
  ASSUME NEW P, NEW a, NEW r, NEW A, Consistent(P, a, r, A), NEW x \in Arrays, Keeps(P, x),
         A[x].blocks > 0
  PROVE  A[x].start \in Nat /\ A[x].blocks \in Nat /\ A[x].start + A[x].blocks <= MaxBlocks
<1>1. A[x].blocks \in Nat /\ A[x].start \in Nat BY DEF Consistent, Anchored, Anchor
<1> DEFINE j == A[x].blocks - 1
<1>2. j \in Nat /\ j < A[x].blocks BY <1>1
<1> HIDE DEF j
<1>3. A[x].start + j \in Kept(P, A) BY <1>2, PlaceKept
<1>4. A[x].start + j \in 0 .. MaxBlocks - 1 BY <1>3, KeptInside
<1>5. MaxBlocks \in Nat BY AllocatorAssumption
<1>6. QED BY <1>1, <1>4, <1>5 DEF j

\* Other arrays have nothing in the storage of one.
LEMMA OthersOutside ==
  ASSUME NEW P, NEW a, NEW r, NEW A, Consistent(P, a, r, A), NEW x \in Arrays, NEW y \in Arrays,
         x # y, Keeps(P, x), Keeps(P, y), NEW j \in Nat, j < A[y].blocks
  PROVE  /\ A[y].start + j \in Int
         /\ ~(A[x].start <= A[y].start + j /\ A[y].start + j < A[x].start + A[x].blocks)
<1> DEFINE c == A[y].start + j
<1>1. c \in Storage(A, y) BY PlaceKept
<1>2. Storage(A, x) \cap Storage(A, y) = {} BY DEF Consistent, ClaimsOK, Apart
<1>3. c \notin Storage(A, x) BY <1>1, <1>2
<1>4. A[y].start \in Int /\ A[x].start \in Int /\ A[x].blocks \in Int
  BY DEF Consistent, Anchored, Anchor, NoStorage
<1>5. c \in Int BY <1>4
<1> HIDE DEF c
<1>6. ~(A[x].start <= c /\ c < A[x].start + A[x].blocks) BY <1>3, <1>4, <1>5 DEF Storage
<1>7. QED BY <1>5, <1>6 DEF c

\* The blocks of a free extent are no array's.
LEMMA FreeOutside ==
  ASSUME NEW P, NEW a, NEW r, NEW A, Consistent(P, a, r, A), NEW f \in a.extents, NEW c \in Kept(P, A)
  PROVE  /\ f.block \in Nat /\ f.size \in Nat \ {0} /\ c \in 0 .. MaxBlocks - 1
         /\ ~(f.block <= c /\ c < f.block + f.size)
<1>1. f.block \in Nat /\ f.size \in Nat \ {0} BY DEF Consistent, Placed, Sound, Allocators, Extents
<1>2. c \in 0 .. MaxBlocks - 1 /\ c \notin Cover(a.extents) BY KeptInside
<1>3. c \notin BlocksOf(f) BY <1>2 DEF Cover
<1>4. QED BY <1>1, <1>2, <1>3 DEF BlocksOf

\* reallocate() behind lazy_initialize.
LEMMA ReallocateValues ==
  ASSUME Inv, ValuesInv, ReallocateStep, UNCHANGED arrays
  PROVE  ValuesInv'
<1> DEFINE h == Head(todo)
           P2 == Plan'
           r2 == result'
           C2 == content'
<1>1. todo # << >> /\ h.op = "reallocate" /\ At("reallocate") BY DEF ReallocateStep, At
<1>2. ~Fixes(h) BY <1>1 DEF Fixes
<1>3. /\ Single(Plan) /\ First(h, Plan) /\ Consistent(Plan, alloc, result, arrays)
      /\ PlanOK(Plan, alloc, arrays) /\ h \in Plan
  BY <1>1, <1>2, HeadFirst DEF First, Consistent
<1>4. PICK z \in Plan :
        /\ Doing(Plan, "anchor") = {z} /\ Doing(Plan, "reset") = {}
        /\ z.array \in Arrays /\ z.blocks \in Nat \ {0}
        /\ z.blocks = h.new_size /\ arrays[z.array].blocks = h.size
        /\ arrays[z.array].start = h.block /\ Doing(Plan, "move") = {}
  BY <1>1, <1>3, AnchorPlanned
<1>5. Searching(Plan) BY <1>1, <1>3 DEF Searching, Doing
<1>6. \A x : Keeps(Plan, x) BY <1>3, <1>5, SearchKeeps
<1>7. ValuesOK(Plan, result, arrays, content) /\ content \in Contents BY DEF ValuesInv, ValuesOK
<1>8. \A x \in Arrays : /\ Within(arrays[x].size, arrays[x].blocks)
                        /\ Has(content, x, arrays[x].size, arrays[x].start)
  BY <1>6, <1>7 DEF ValuesOK, KeptValues
<1>9. \A op : op # "reallocate" => h \notin Doing(Plan, op) BY <1>1 DEF Doing
<1> HIDE DEF P2, r2, C2
<1>10. ASSUME NEW u, NEW n, Then(Free(u, n)), C2 \in Contents,
              Has(C2, z.array, arrays[z.array].size, r2),
              \A x \in Arrays : x # z.array => Has(C2, x, arrays[x].size, arrays[x].start)
       PROVE  ValuesInv'
  <2>1. \A op : op # "put" => Doing(P2, op) = Doing(Plan, op) \ {h}
    BY <1>1, <1>2, <1>10, FreeBehind DEF P2
  <2>2. /\ Doing(P2, "anchor") = {z} /\ Doing(P2, "reset") = {}
        /\ Doing(P2, "write") = Doing(Plan, "write") /\ Doing(P2, "move") = {}
    BY <1>4, <1>9, <2>1
  <2>3. ~Searching(P2)
    <3>1. Doing(Plan, "fit") \subseteq {h} /\ Doing(Plan, "reallocate") \subseteq {h}
      BY <1>1, <1>3, BehindFirst
    <3>2. QED BY <2>1, <3>1 DEF Searching
  <2>4. ValuesOK(P2, r2, arrays, C2)
    BY <1>4, <1>6, <1>7, <1>10, <2>2, <2>3, ValuesPlaced
  <2>5. QED BY <2>4, ValuesNext DEF P2, r2, C2
<1>11. CASE content' = content /\ result' = h.block /\ \E u, n : Then(Free(u, n))
  <2>1. C2 = content /\ r2 = h.block BY <1>11 DEF C2, r2
  <2>2. QED BY <1>4, <1>7, <1>8, <1>10, <1>11, <2>1
<1>12. ASSUME NEW f \in alloc.extents, f.block + f.size = h.block, result' = f.block,
              content' = CopyBlocks(h.block, f.block, h.size), NEW u, NEW n, Then(Free(u, n))
       PROVE  ValuesInv'
  <2> DEFINE x == z.array
             src == h.block
             dest == f.block
             k == h.size
  <2>1. h \in Items BY <1>1, <1>2, HeadFirst
  <2>2. src \in Nat /\ k \in Nat \ {0} BY <1>1, <2>1 DEF Items
  <2>3. f.block \in Nat /\ f.size \in Nat \ {0} BY <1>3 DEF Consistent, Placed, Sound, Allocators, Extents
  <2>4. src + k <= MaxBlocks BY <1>3, <1>4, <1>6, <2>2, StorageInside
  <2>5. dest \in Nat /\ dest < src BY <1>12, <2>2, <2>3
  <2>6. MaxBlocks \in Nat BY AllocatorAssumption
  <2>7. dest + k <= MaxBlocks BY <2>2, <2>4, <2>5, <2>6
  <2>8. C2 = CopyBlocks(src, dest, k) /\ r2 = dest BY <1>12 DEF C2, r2
  <2> HIDE DEF src, dest, k
  <2>9. Copied(content, C2, src, dest, k) BY <1>7, <2>2, <2>4, <2>5, <2>7, <2>8, CopyForward
  <2>10. Has(C2, x, arrays[x].size, r2)
    <3>1. arrays[x].size \in Nat BY <1>3, <1>4, SizeNat
    <3>2. Within(arrays[x].size, k) /\ Has(content, x, arrays[x].size, src) BY <1>4, <1>8 DEF src, k
    <3> HIDE DEF x
    <3>3. QED BY <2>2, <2>8, <2>9, <3>1, <3>2, CopiedHas
  <2>11. ASSUME NEW y \in Arrays, y # x PROVE Has(C2, y, arrays[y].size, arrays[y].start)
    <3>1. ASSUME NEW j \in Nat, j < arrays[y].blocks
          PROVE  /\ arrays[y].start + j \in 0 .. MaxBlocks - 1
                 /\ ~(dest <= arrays[y].start + j /\ arrays[y].start + j < dest + k)
      <4> DEFINE c == arrays[y].start + j
      <4>1. c \in Kept(Plan, arrays) BY <1>3, <1>6, <3>1, PlaceKept
      <4>2. c \in 0 .. MaxBlocks - 1 /\ ~(f.block <= c /\ c < f.block + f.size) BY <1>3, <4>1, FreeOutside
      <4>3. ~(arrays[x].start <= c /\ c < arrays[x].start + arrays[x].blocks)
        BY <1>3, <1>4, <1>6, <2>11, <3>1, OthersOutside
      <4>4. ~(src <= c /\ c < src + k) BY <1>4, <4>3 DEF src, k
      <4>5. ~(dest <= c /\ c < src) BY <1>12, <4>2 DEF dest, src
      <4> HIDE DEF c
      <4>6. ~(dest <= c /\ c < dest + k) BY <2>2, <2>5, <2>6, <4>2, <4>4, <4>5
      <4>7. QED BY <4>2, <4>6 DEF c
    <3>2. arrays[y].size \in Nat BY <1>3, SizeNat
    <3>3. QED BY <1>8, <2>9, <3>1, <3>2, OutsideHas
  <2>12. C2 \in Contents BY <2>9 DEF Copied
  <2>13. QED BY <1>10, <1>12, <2>10, <2>11, <2>12
<1>13. CASE content' = content /\ Then(Allocate(h.new_size) \o <<MoveItem(h.block, h.size)>>)
  <2>1. P2 = MovePlan(h) \cup (Plan \ {h}) BY <1>1, <1>13, MoveBehind DEF P2
  <2>2. \A op : Doing(P2, op) = Doing(MovePlan(h), op) \cup (Doing(Plan, op) \ {h}) BY <2>1 DEF Doing
  <2>3. /\ Doing(MovePlan(h), "anchor") = {} /\ Doing(MovePlan(h), "reset") = {}
        /\ Doing(MovePlan(h), "write") = {} /\ FitItem(h.new_size) \in Doing(MovePlan(h), "fit")
    BY DEF Doing, MovePlan, LazyItem, FitItem, MoveItem
  <2>4. /\ Doing(P2, "anchor") = {z} /\ Doing(P2, "reset") = {}
        /\ Doing(P2, "write") = Doing(Plan, "write") /\ Searching(P2)
    BY <1>4, <1>9, <2>2, <2>3 DEF Searching
  <2>5. C2 = content BY <1>13 DEF C2
  <2>6. ValuesOK(P2, r2, arrays, C2) BY <1>4, <1>6, <1>7, <1>8, <2>4, <2>5, ValuesPlaced
  <2>7. QED BY <2>6, ValuesNext DEF P2, r2, C2
<1>14. CASE Throw BY <1>1, <1>14, ThrowValuesInv
<1>15. QED BY <1>11, <1>12, <1>13, <1>14, ReallocateOutcome

\* The end of reallocate(), when the data goes to new storage.
LEMMA MoveValues ==
  ASSUME Inv, ValuesInv, Move, UNCHANGED arrays
  PROVE  ValuesInv'
<1> DEFINE h == Head(todo)
           P2 == Plan'
           C2 == content'
           src == h.block
           n == h.size
<1>1. /\ todo # << >> /\ h.op = "move" /\ Then(Free(h.block, h.size)) /\ result' = result
      /\ C2 = CopyBlocks(src, result, n)
  BY DEF Move, At
<1>2. ~Fixes(h) BY <1>1 DEF Fixes
<1>3. /\ Single(Plan) /\ First(h, Plan) /\ Consistent(Plan, alloc, result, arrays)
      /\ PlanOK(Plan, alloc, arrays) /\ h \in Plan /\ h \in Items /\ result \in Nat
  BY <1>1, <1>2, HeadFirst DEF First, Consistent
<1>4. PICK z \in Plan :
        /\ Doing(Plan, "anchor") = {z} /\ Doing(Plan, "reset") = {}
        /\ z.array \in Arrays /\ z.blocks \in Nat \ {0}
        /\ z.blocks >= h.size /\ arrays[z.array].blocks = h.size /\ arrays[z.array].start = h.block
  BY <1>1, <1>3, AnchorPlanned
<1>5. ~Searching(Plan) /\ Doing(Plan, "move") = {h} BY <1>1, <1>3, BehindFirst
<1>6. \A x : Keeps(Plan, x) BY <1>4, <1>5, WhoKeeps
<1>7. ValuesOK(Plan, result, arrays, content) /\ content \in Contents BY DEF ValuesInv, ValuesOK
<1>8. \A x \in Arrays : /\ Within(arrays[x].size, arrays[x].blocks)
                        /\ Has(content, x, arrays[x].size, arrays[x].start)
  BY <1>6, <1>7 DEF ValuesOK, KeptValues
<1>9. src \in Nat /\ n \in Nat \ {0} BY <1>1, <1>3 DEF Items
<1>10. \A op : op # "put" => Doing(P2, op) = Doing(Plan, op) \ {h} BY <1>1, <1>2, FreeBehind
<1>11. \A op : op # "move" => h \notin Doing(Plan, op) BY <1>1 DEF Doing
<1>12. src + n <= MaxBlocks BY <1>3, <1>4, <1>6, <1>9, StorageInside
<1>13. MaxBlocks \in Nat BY AllocatorAssumption
<1>14. ASSUME NEW b \in Int, result <= b, b < result + n
       PROVE  b \in 0 .. MaxBlocks - 1 /\ b \notin Kept(Plan, arrays)
  <2> DEFINE j == b - result
  <2>1. j \in Nat /\ j < z.blocks /\ result + j = b BY <1>3, <1>4, <1>9, <1>14
  <2> HIDE DEF j
  <2>2. result + j \in Found(Plan, result) BY <1>3, <1>4, <1>5, <2>1, PlaceFound
  <2>3. QED BY <1>3, <2>1, <2>2, KeptInside
<1> HIDE DEF P2, C2
<1>15. result + n <= MaxBlocks
  <2>1. result + (n - 1) \in 0 .. MaxBlocks - 1 BY <1>3, <1>9, <1>14
  <2>2. QED BY <1>3, <1>9, <1>13, <2>1
<1>16. result < src \/ src + n <= result
  <2>1. SUFFICES ASSUME src <= result, result < src + n PROVE FALSE BY <1>3, <1>9
  <2> DEFINE j == result - src
  <2>2. j \in Nat /\ j < arrays[z.array].blocks /\ arrays[z.array].start + j = result
    BY <1>3, <1>4, <1>9, <2>1
  <2> HIDE DEF j
  <2>3. result \in Kept(Plan, arrays) BY <1>3, <1>4, <1>6, <2>2, PlaceKept
  <2>4. result \notin Kept(Plan, arrays) BY <1>3, <1>9, <1>14
  <2>5. QED BY <2>3, <2>4
<1> HIDE DEF src, n
<1>17. Copied(content, C2, src, result, n) BY <1>1, <1>3, <1>7, <1>9, <1>12, <1>15, <1>16, CopyForward
<1>18. Has(C2, z.array, arrays[z.array].size, result)
  <2>1. arrays[z.array].size \in Nat BY <1>3, <1>4, SizeNat
  <2>2. Within(arrays[z.array].size, n) /\ Has(content, z.array, arrays[z.array].size, src)
    BY <1>4, <1>8 DEF src, n
  <2>3. QED BY <1>9, <1>17, <2>1, <2>2, CopiedHas
<1>19. ASSUME NEW y \in Arrays PROVE Has(C2, y, arrays[y].size, arrays[y].start)
  <2>1. ASSUME NEW j \in Nat, j < arrays[y].blocks
        PROVE  /\ arrays[y].start + j \in 0 .. MaxBlocks - 1
               /\ ~(result <= arrays[y].start + j /\ arrays[y].start + j < result + n)
    <3> DEFINE c == arrays[y].start + j
    <3>1. c \in Kept(Plan, arrays) BY <1>3, <1>6, <2>1, PlaceKept
    <3>2. c \in 0 .. MaxBlocks - 1 BY <1>3, <3>1, KeptInside
    <3> HIDE DEF c
    <3>3. ~(result <= c /\ c < result + n) BY <1>14, <3>1, <3>2
    <3>4. QED BY <3>2, <3>3 DEF c
  <2>2. arrays[y].size \in Nat BY <1>3, SizeNat
  <2>3. QED BY <1>8, <1>17, <2>1, <2>2, OutsideHas
<1>20. /\ Doing(P2, "anchor") = {z} /\ Doing(P2, "reset") = {}
       /\ Doing(P2, "write") = Doing(Plan, "write")
  BY <1>4, <1>10, <1>11 DEF P2
<1>21. C2 \in Contents BY <1>17 DEF Copied
<1>22. ValuesOK(P2, result, arrays, C2)
  BY <1>4, <1>6, <1>7, <1>18, <1>19, <1>20, <1>21, ValuesPlaced
<1>23. QED BY <1>1, <1>22, ValuesNext DEF P2, C2

\* The end of extent::resize: the values are in the storage that the anchor gets.
LEMMA SetAnchorValues ==
  ASSUME Inv, ValuesInv, SetAnchor
  PROVE  ValuesInv'
<1> DEFINE h == Head(todo)
           x == h.array
           n == h.blocks
           A2 == arrays'
           start == IF n = 0 THEN NoStorage ELSE result
<1>1. todo # << >> /\ h.op = "anchor" /\ Then(<< >>) /\ content' = content BY DEF SetAnchor, At
<1>2. ~Fixes(h) BY <1>1 DEF Fixes
<1>3. /\ Single(Plan) /\ First(h, Plan) /\ Consistent(Plan, alloc, result, arrays) /\ h \in Items
  BY <1>1, <1>2, HeadFirst
<1>4. Plan' = Plan \ {h} BY <1>1, <1>2, NothingBehind
<1>5. x \in Arrays /\ n \in Nat BY <1>1, <1>3 DEF Items
<1>6. arrays \in [Arrays -> Anchor] BY <1>3 DEF Consistent, Anchored
<1>7. arrays' = [arrays EXCEPT ![x].blocks = n, ![x].start = start] BY DEF SetAnchor
<1>8. h \in Doing(Plan, "anchor") BY <1>1, <1>3 DEF First, Doing
<1>9. ~Searching(Plan) /\ Doing(Plan, "move") = {} BY <1>1, <1>3, BehindFirst
<1>10. ValuesOK(Plan, result, arrays, content) BY DEF ValuesInv
<1>11. Within(arrays[x].size, n) /\ Has(content, x, arrays[x].size, result)
  BY <1>8, <1>9, <1>10 DEF ValuesOK, AnchorValues
<1>12. arrays[x].size \in Nat BY <1>3, <1>5, SizeNat
<1> HIDE DEF start, n, x
<1>13. /\ A2[x].blocks = n /\ A2[x].start = start /\ A2[x].size = arrays[x].size
       /\ \A y \in Arrays : y # x => A2[y] = arrays[y]
  BY <1>5, <1>6, <1>7 DEF Anchor
<1> HIDE DEF A2
<1>14. Has(content, x, arrays[x].size, start)
  <2>1. CASE n = 0 BY <1>11, <1>12, <2>1, NoValues
  <2>2. CASE n # 0 BY <1>11, <2>2 DEF start
  <2>3. QED BY <2>1, <2>2
<1>15. /\ \A y \in Arrays : y # h.array => A2[y] = arrays[y]
       /\ Within(A2[h.array].size, A2[h.array].blocks)
       /\ Has(content, h.array, A2[h.array].size, A2[h.array].start)
       /\ A2[h.array].blocks = h.blocks /\ h.array \in Arrays
  BY <1>5, <1>11, <1>13, <1>14 DEF x, n
<1> DEFINE r2 == result'
<1> HIDE DEF h, r2
<1>16. ValuesOK(Plan \ {h}, r2, A2, content)
  BY <1>1, <1>3, <1>10, <1>15, ValuesSettled
<1>17. QED BY <1>1, <1>4, <1>16, ValuesNext DEF A2, r2

\* The end of reset(): there are no values left.
LEMMA SetResetValues ==
  ASSUME Inv, ValuesInv, SetReset
  PROVE  ValuesInv'
<1> DEFINE h == Head(todo)
           A2 == arrays'
<1>1. todo # << >> /\ h.op = "reset" /\ Then(<< >>) /\ content' = content BY DEF SetReset, At
<1>2. ~Fixes(h) BY <1>1 DEF Fixes
<1>3. /\ Single(Plan) /\ First(h, Plan) /\ Consistent(Plan, alloc, result, arrays) /\ h \in Items
  BY <1>1, <1>2, HeadFirst
<1>4. Plan' = Plan \ {h} BY <1>1, <1>2, NothingBehind
<1>5. h.array \in Arrays BY <1>1, <1>3 DEF Items
<1>6. arrays \in [Arrays -> Anchor] BY <1>3 DEF Consistent, Anchored
<1>7. arrays' = [arrays EXCEPT ![h.array] = [start |-> NoStorage, blocks |-> 0, size |-> 0]]
  BY DEF SetReset
<1>8. A2[h.array].size = 0 /\ \A y \in Arrays : y # h.array => A2[y] = arrays[y]
  BY <1>5, <1>6, <1>7
<1>9. ValuesOK(Plan, result, arrays, content) BY DEF ValuesInv
<1> HIDE DEF A2
<1>10. \A b : Within(0, b) /\ Has(content, h.array, 0, b) BY DEF Within, Has
<1>11. /\ Within(A2[h.array].size, A2[h.array].blocks)
       /\ Has(content, h.array, A2[h.array].size, A2[h.array].start)
  BY <1>8, <1>10
<1> DEFINE r2 == result'
<1> HIDE DEF h, r2
<1>12. ValuesOK(Plan \ {h}, r2, A2, content)
  BY <1>1, <1>3, <1>5, <1>8, <1>9, <1>11, ValuesSettled
<1>13. QED BY <1>1, <1>4, <1>12, ValuesNext DEF A2, r2

\* What writing the values from .. to - 1 does to the content of blocks.
Written(C, C2, b, x, from, to) ==
  /\ C2 \in Contents
  /\ \A i \in from .. to - 1 : b + i \div BlockCapacity \in 0 .. MaxBlocks - 1
       => <<x, i>> \in C2[b + i \div BlockCapacity]
  /\ \A k \in 0 .. MaxBlocks - 1 :
       (\A i \in from .. to - 1 : b + i \div BlockCapacity = k => i % BlockCapacity # 0)
         => C[k] \subseteq C2[k]

\* Only blocks whose first value is written lose what was in them.
LEMMA WrittenSo ==
  ASSUME ValuesInv, Inv, WriteValues, NEW x, x = Head(todo).array, x \in Arrays
  PROVE  Written(content, content', arrays[x].start, x, arrays[x].size, Head(todo).size)
<1> DEFINE from == arrays[x].size
           to == Head(todo).size
           b == arrays[x].start
           N(k) == { i \in from .. to - 1 : b + i \div BlockCapacity = k }
           Z(k) == \E i \in N(k) : i % BlockCapacity = 0
           W(k) == { <<x, i>> : i \in N(k) }
           C2 == content'
<1>1. C2 = [k \in DOMAIN content |-> (IF Z(k) THEN {} ELSE content[k]) \cup W(k)]
  BY DEF WriteValues
<1>2. content \in Contents BY DEF ValuesInv, ValuesOK
<1>3. from \in Nat BY SizeNat DEF Inv
<1>4. \A k : \A i \in N(k) : i \in Nat BY <1>3
<1>5. \A k : W(k) \subseteq Arrays \X Nat BY <1>4
<1> HIDE DEF from, to, b, C2, N, Z, W
<1>6. /\ C2 \in Contents
      /\ \A k \in 0 .. MaxBlocks - 1 : C2[k] = (IF Z(k) THEN {} ELSE content[k]) \cup W(k)
  BY <1>1, <1>2, <1>5 DEF Contents
<1>7. ASSUME NEW i \in from .. to - 1, b + i \div BlockCapacity \in 0 .. MaxBlocks - 1
      PROVE  <<x, i>> \in C2[b + i \div BlockCapacity]
  <2> DEFINE k == b + i \div BlockCapacity
  <2>1. i \in N(k) BY DEF N
  <2>2. k \in 0 .. MaxBlocks - 1 BY <1>7
  <2> HIDE DEF k
  <2>3. <<x, i>> \in W(k) BY <2>1 DEF W
  <2>4. <<x, i>> \in C2[k] BY <1>6, <2>2, <2>3
  <2>5. QED BY <2>4 DEF k
<1>8. ASSUME NEW k \in 0 .. MaxBlocks - 1,
             \A i \in from .. to - 1 : b + i \div BlockCapacity = k => i % BlockCapacity # 0
      PROVE  content[k] \subseteq C2[k]
  <2>1. ~Z(k) BY <1>8 DEF Z, N
  <2>2. QED BY <1>6, <2>1
<1>9. Written(content, C2, b, x, from, to) BY <1>6, <1>7, <1>8 DEF Written
<1>10. QED BY <1>9 DEF C2, b, from, to

\* The write is the last step of a call.
LEMMA WriteLast ==
  ASSUME NEW P, Single(P), NEW h, First(h, P), h.op = "write"
  PROVE  P = {h}
<1>1. ASSUME NEW y \in P, y # h PROVE FALSE
  <2>1. Rank(h) = 5 BY DEF Rank
  <2>2. 5 < Rank(y) BY <1>1, <2>1 DEF First
  <2>3. Rank(y) \in {1, 2, 3, 4, 5} BY DEF Rank
  <2>4. QED BY <2>2, <2>3
<1>2. QED BY <1>1 DEF First

\* The end of push_back and of resize(): old values stay, new ones are there.
LEMMA WriteValuesValues ==
  ASSUME Inv, ValuesInv, WriteValues
  PROVE  ValuesInv'
<1> DEFINE h == Head(todo)
           x == h.array
           to == h.size
           A == arrays
           A2 == arrays'
           C2 == content'
<1>1. todo # << >> /\ h.op = "write" /\ Then(<< >>) BY DEF WriteValues, At
<1>2. ~Fixes(h) BY <1>1 DEF Fixes
<1>3. /\ Single(Plan) /\ First(h, Plan) /\ Consistent(Plan, alloc, result, A) /\ h \in Items
  BY <1>1, <1>2, HeadFirst
<1>4. Plan = {h} /\ Plan' = {}
  <2>1. Plan = {h} BY <1>1, <1>3, WriteLast
  <2>2. Plan' = Plan \ {h} BY <1>1, <1>2, NothingBehind
  <2> HIDE DEF h
  <2>3. QED BY <2>1, <2>2
<1>5. x \in Arrays /\ to \in Nat BY <1>1, <1>3 DEF Items
<1>6. A \in [Arrays -> Anchor] BY <1>3 DEF Consistent, Anchored
<1>7. A2 = [A EXCEPT ![x].size = to] BY DEF WriteValues
<1>8. Written(content, C2, A[x].start, x, A[x].size, to) BY <1>5, WrittenSo
<1>9. ValuesOK(Plan, result, A, content) BY DEF ValuesInv
<1> HIDE DEF x, to, A2, C2
<1>10. /\ A2[x].size = to /\ A2[x].blocks = A[x].blocks /\ A2[x].start = A[x].start
       /\ \A y \in Arrays : y # x => A2[y] = A[y]
  BY <1>5, <1>6, <1>7 DEF Anchor
<1> HIDE DEF A
<1>11. /\ Doing(Plan, "anchor") = {} /\ Doing(Plan, "reset") = {} /\ h \in Doing(Plan, "write")
  BY <1>1, <1>4 DEF Doing
<1>12. (\A y : Keeps(Plan, y)) /\ \A op : Doing({}, op) = {} BY <1>11 DEF Keeps, Doing
<1>13. Within(to, A[x].blocks) BY <1>9, <1>11 DEF ValuesOK, WriteFits, x, to
<1>14. \A y \in Arrays : Within(A[y].size, A[y].blocks) /\ Has(content, y, A[y].size, A[y].start)
  BY <1>9, <1>12 DEF ValuesOK, KeptValues
<1>15. BlockCapacity \in Nat \ {0} BY ArrayAssumption
<1>16. \A y \in Arrays : A[y].size \in Nat /\ A[y].blocks \in Nat BY <1>3, SizeNat
<1>17. ASSUME NEW y \in Arrays, NEW j \in Nat, j < A[y].blocks
       PROVE  A[y].start + j \in 0 .. MaxBlocks - 1 /\ A[y].start \in Nat
  <2>1. A[y].start + j \in Kept(Plan, A) BY <1>3, <1>12, <1>17, PlaceKept
  <2>2. A[y].start \in Nat BY <1>3, <1>16, <1>17 DEF Consistent, Anchored
  <2>3. QED BY <1>3, <2>1, <2>2, KeptInside
<1>18. Has(C2, x, to, A[x].start)
  <2>1. ASSUME NEW i \in 0 .. to - 1 PROVE <<x, i>> \in C2[A[x].start + i \div BlockCapacity]
    <3> DEFINE j == i \div BlockCapacity
               k == A[x].start + j
    <3>1. i \in Nat /\ j \in Nat /\ j < A[x].blocks BY <1>5, <1>13, ValueBlock DEF Within
    <3> HIDE DEF j
    <3>2. k \in 0 .. MaxBlocks - 1 /\ A[x].start \in Nat BY <1>5, <1>17, <3>1
    <3> HIDE DEF k
    <3>3. CASE i >= A[x].size
      <4>1. i \in A[x].size .. to - 1 BY <1>5, <1>16, <3>1, <3>3
      <4>2. A[x].start + i \div BlockCapacity \in 0 .. MaxBlocks - 1 BY <3>2 DEF k, j
      <4>3. QED BY <1>8, <4>1, <4>2 DEF Written
    <3>4. CASE i < A[x].size
      <4>1. i \in 0 .. A[x].size - 1 BY <1>5, <1>16, <3>1, <3>4
      <4>2. <<x, i>> \in content[k] BY <1>5, <1>14, <4>1 DEF Has, k, j
      <4>3. ASSUME NEW p \in A[x].size .. to - 1, A[x].start + p \div BlockCapacity = k
            PROVE  p % BlockCapacity # 0
        <5>1. p \in Nat /\ p > i BY <1>5, <1>16, <3>1, <3>4
        <5>2. p \div BlockCapacity \in Nat BY <1>15, <5>1, Quotient
        <5> DEFINE q == p \div BlockCapacity
        <5>3. A[x].start + q = A[x].start + j BY <4>3 DEF k
        <5> HIDE DEF q
        <5>4. q \in Nat BY <5>2 DEF q
        <5>5. q = j BY <3>1, <3>2, <5>3, <5>4
        <5>6. i \div BlockCapacity = p \div BlockCapacity BY <5>5 DEF q, j
        <5>7. SUFFICES ASSUME p % BlockCapacity = 0 PROVE FALSE OBVIOUS
        <5>8. p <= i BY <1>15, <3>1, <5>1, <5>6, <5>7, FirstInBlock
        <5>9. QED BY <3>1, <5>1, <5>8
      <4>4. content[k] \subseteq C2[k] BY <1>8, <3>2, <4>3 DEF Written
      <4>5. <<x, i>> \in C2[k] BY <4>2, <4>4
      <4>6. QED BY <4>5 DEF k, j
    <3>5. QED BY <1>5, <1>16, <3>1, <3>3, <3>4
  <2>2. QED BY <2>1 DEF Has
<1>19. ASSUME NEW y \in Arrays, y # x PROVE Has(C2, y, A[y].size, A[y].start)
  <2>1. ASSUME NEW i \in 0 .. A[y].size - 1 PROVE <<y, i>> \in C2[A[y].start + i \div BlockCapacity]
    <3> DEFINE j == i \div BlockCapacity
               k == A[y].start + j
    <3>1. j \in Nat /\ j < A[y].blocks BY <1>14, <1>16, ValueBlock DEF Within
    <3>2. <<y, i>> \in content[k] BY <1>14 DEF Has
    <3> HIDE DEF j
    <3>3. k \in 0 .. MaxBlocks - 1 BY <1>17, <3>1
    <3>4. k \in Int /\ ~(A[x].start <= k /\ k < A[x].start + A[x].blocks)
      BY <1>3, <1>5, <1>12, <1>19, <3>1, OthersOutside
    <3> HIDE DEF k
    <3>5. ASSUME NEW p \in A[x].size .. to - 1 PROVE A[x].start + p \div BlockCapacity # k
      <4>1. p \in 0 .. to - 1 BY <1>5, <1>16
      <4> DEFINE q == p \div BlockCapacity
      <4>2. q \in Nat /\ q < A[x].blocks BY <1>5, <1>13, <4>1, ValueBlock DEF Within
      <4> HIDE DEF q
      <4>3. A[x].start \in Nat BY <1>5, <1>17, <4>2
      <4>4. A[x].blocks \in Nat BY <1>5, <1>16
      <4>5. A[x].start + q # k BY <3>4, <4>2, <4>3, <4>4
      <4>6. QED BY <4>5 DEF q
    <3>6. content[k] \subseteq C2[k] BY <1>8, <3>3, <3>5 DEF Written
    <3>7. <<y, i>> \in C2[k] BY <3>2, <3>6
    <3>8. QED BY <3>7 DEF k, j
  <2>2. QED BY <2>1 DEF Has
<1>20. ASSUME NEW y \in Arrays
       PROVE  Within(A2[y].size, A2[y].blocks) /\ Has(C2, y, A2[y].size, A2[y].start)
  <2>1. CASE y = x BY <1>10, <1>13, <1>18, <2>1
  <2>2. CASE y # x BY <1>10, <1>14, <1>19, <2>2
  <2>3. QED BY <2>1, <2>2
<1> DEFINE r2 == result'
<1> HIDE DEF r2
<1>21. ValuesOK({}, r2, A2, C2)
  <2>1. KeptValues({}, A2, C2) BY <1>20 DEF KeptValues
  <2>2. AnchorValues({}, r2, A2, C2) /\ WriteFits({}, A2) BY <1>12 DEF AnchorValues, WriteFits
  <2>3. C2 \in Contents BY <1>8 DEF Written
  <2>4. QED BY <2>1, <2>2, <2>3 DEF ValuesOK
<1>22. QED BY <1>4, <1>21, ValuesNext DEF A2, C2, r2

-----------------------------------------------------------------------------
(* Calls.                                                                    *)

\* More blocks have room, too, and for one value more if there is a block for it.
LEMMA WithinGrows ==
  ASSUME NEW m \in Nat, NEW n \in Nat, Within(m, n)
  PROVE  /\ \A k \in Nat : n <= k => Within(m, k)
         /\ \A l \in Nat : l <= m => Within(l, n)
         /\ m \div BlockCapacity <= n
         /\ m \div BlockCapacity < n => Within(m + 1, n)
<1>1. BlockCapacity \in Nat \ {0} BY ArrayAssumption
<1>2. \A i \in 0 .. m - 1 : i \div BlockCapacity \in Nat /\ i \div BlockCapacity < n
  BY ValueBlock DEF Within
<1>3. ASSUME NEW k \in Nat, n <= k PROVE Within(m, k)
  <2>1. ASSUME NEW i \in 0 .. m - 1 PROVE i \div BlockCapacity < k
    <3> DEFINE j == i \div BlockCapacity
    <3>1. j \in Nat /\ j < n BY <1>2
    <3> HIDE DEF j
    <3>2. j < k BY <1>3, <3>1
    <3>3. QED BY <3>2 DEF j
  <2>2. QED BY <2>1 DEF Within
<1>4. ASSUME NEW l \in Nat, l <= m PROVE Within(l, n)
  <2>1. \A i \in 0 .. l - 1 : i \in 0 .. m - 1 BY <1>4
  <2>2. QED BY <1>2, <2>1 DEF Within
<1>5. m \div BlockCapacity <= n
  <2>1. CASE m = 0
    <3>1. 0 \div BlockCapacity = 0 BY <1>1
    <3>2. QED BY <2>1, <3>1
  <2>2. CASE m # 0
    <3> DEFINE l == m - 1
               p == l \div BlockCapacity
    <3>1. l \in Nat /\ l \in 0 .. m - 1 /\ l + 1 = m /\ l <= l BY <2>2
    <3>2. p \in Nat /\ p < n BY <1>2, <3>1
    <3> HIDE DEF l
    <3>3. (l + 1) \div BlockCapacity <= p + 1 BY <1>1, <3>1, QuotientGrows
    <3> DEFINE q == m \div BlockCapacity
    <3>4. q <= p + 1 BY <3>1, <3>3
    <3>5. q \in Nat BY <1>1, Quotient
    <3> HIDE DEF p, q
    <3>6. q <= n BY <3>2, <3>4, <3>5
    <3>7. QED BY <3>6 DEF q
  <2>3. QED BY <2>1, <2>2
<1>6. ASSUME m \div BlockCapacity < n PROVE Within(m + 1, n)
  <2>1. ASSUME NEW i \in 0 .. (m + 1) - 1 PROVE i \div BlockCapacity < n
    <3>1. i = m \/ i \in 0 .. m - 1 OBVIOUS
    <3>2. QED BY <1>2, <1>6, <3>1
  <2>2. QED BY <2>1 DEF Within
<1>7. QED BY <1>3, <1>4, <1>5, <1>6

\* The growth strategies give what was asked for.
LEMMA NewSizeFits ==
  ASSUME NEW x, NEW n \in Nat
  PROVE  NewSize(x, n) \in Nat /\ NewSize(x, n) >= n
<1>1. LinearChunk \in Nat \ {0} BY ArrayAssumption
<1>2. CASE x \in LinearArrays
  <2>1. CeilDiv(n, LinearChunk) * LinearChunk >= n BY <1>1, CeilDivFits
  <2>2. QED BY <1>2, <2>1, NewSizeNat DEF NewSize
<1>3. CASE x \notin LinearArrays BY <1>3, Pow2Bound DEF NewSize
<1>4. QED BY <1>2, <1>3

\* A call begins, with the steps in Q.
LEMMA CallValues ==
  ASSUME NEW a, NEW r, NEW A, Consistent({}, a, r, A), NEW C, ValuesOK({}, r, A, C), NEW Q,
         \A z \in Doing(Q, "anchor") :
           /\ z.array \in Arrays /\ Within(A[z.array].size, z.blocks)
           /\ Searching(Q) \/ z.blocks = 0,
         WriteFits(Q, A)
  PROVE  ValuesOK(Q, r, A, C)
<1>1. \A x : Keeps({}, x) BY AtRest
<1>2. KeptValues(Q, A, C) BY <1>1 DEF ValuesOK, KeptValues
<1>3. ASSUME NEW z \in Doing(Q, "anchor"), ~Searching(Q) PROVE Has(C, z.array, A[z.array].size, r)
  <2>1. z.array \in Arrays /\ Within(A[z.array].size, 0) BY <1>3
  <2>2. A[z.array].size \in Nat BY <2>1, SizeNat
  <2>3. QED BY <2>1, <2>2, NoValues
<1>4. AnchorValues(Q, r, A, C) BY <1>3 DEF AnchorValues
<1>5. QED BY <1>2, <1>4 DEF ValuesOK

\* Blocks are freed, and the step z is next.
LEMMA FreeThen ==
  ASSUME NEW b \in Nat, NEW n \in Nat \ {0}, NEW z \in Items, ~Fixes(z), Rank(z) = 4
  PROVE  Does(Free(b, n) \o <<z>>, {PutItem(b, n), z})
<1>1. Rank(PutItem(b, n)) = 1 BY ItemRanks
<1>2. Does(Free(b, n), PutPlan(b, n)) /\ PutPlan(b, n) = {PutItem(b, n)} BY FreeDoes DEF PutPlan
<1>3. Does(Free(b, n) \o <<z>>, {PutItem(b, n)} \cup {z}) BY <1>1, <1>2, DoesLast
<1>4. {PutItem(b, n)} \cup {z} = {PutItem(b, n), z} OBVIOUS
<1>5. QED BY <1>3, <1>4

\* What extent::resize is going to do.
Resizes(Q, x, n) ==
  /\ Doing(Q, "write") = {} /\ Doing(Q, "reset") = {}
  /\ n = arrays[x].blocks => Doing(Q, "anchor") = {}
  /\ n # arrays[x].blocks => Doing(Q, "anchor") = {AnchorItem(x, n)} /\ (Searching(Q) \/ n = 0)

\* The steps of extent::resize.
LEMMA ResizePlan ==
  ASSUME Consistent({}, alloc, result, arrays), NEW x \in Arrays, NEW n \in Nat
  PROVE  \E Q : Does(ResizeExtent(x, n), Q) /\ Resizes(Q, x, n)
<1> DEFINE b == arrays[x].start
           k == arrays[x].blocks
           z == AnchorItem(x, n)
<1>1. k \in Nat /\ (k > 0 => b \in Nat) BY DEF Consistent, Anchored, Anchor
<1>2. z \in Items /\ ~Fixes(z) /\ Rank(z) = 4 BY ItemRanks
<1>3. CASE n = k
  <2>1. ResizeExtent(x, n) = << >> BY <1>3 DEF ResizeExtent
  <2>2. Does(<< >>, {}) BY DoesNothing
  <2>3. \A op : Doing({}, op) = {} BY DEF Doing
  <2>4. Resizes({}, x, n) BY <1>3, <2>3 DEF Resizes
  <2>5. QED BY <2>1, <2>2, <2>4
<1>4. ASSUME NEW y, NEW s, y \in Items, Rank(y) = 2, y.op \in {"fit", "reallocate"}, n # k,
             Does(s, {LazyItem, y}), ResizeExtent(x, n) = s \o <<z>>
      PROVE  \E Q : Does(ResizeExtent(x, n), Q) /\ Resizes(Q, x, n)
  <2> DEFINE Q == {LazyItem, y} \cup {z}
  <2>1. Rank(LazyItem) = 1 BY ItemRanks
  <2>2. LazyItem.op = "lazy" /\ z.op = "anchor" BY DEF LazyItem, AnchorItem
  <2> HIDE DEF z
  <2>3. Does(s \o <<z>>, Q) BY <1>2, <1>4, <2>1, DoesLast
  <2>4. /\ Doing(Q, "write") = {} /\ Doing(Q, "reset") = {} /\ Doing(Q, "anchor") = {z}
        /\ y \in Doing(Q, "fit") \cup Doing(Q, "reallocate")
    BY <1>4, <2>2 DEF Doing
  <2> HIDE DEF Q
  <2>5. Searching(Q) BY <2>4 DEF Searching
  <2>6. Resizes(Q, x, n) BY <1>4, <2>4, <2>5 DEF Resizes, z
  <2>7. QED BY <1>4, <2>3, <2>6
<1>5. CASE n # k /\ k = 0
  <2>1. ResizeExtent(x, n) = Allocate(n) \o <<z>> BY <1>5 DEF ResizeExtent, AnchorItem
  <2>2. n \in Nat \ {0} BY <1>5
  <2>3. FitItem(n) \in Items /\ Rank(FitItem(n)) = 2 /\ FitItem(n).op = "fit"
    <3>1. 0 \in Nat OBVIOUS
    <3>2. FitItem(n).op = "fit" BY DEF FitItem
    <3>3. QED BY <2>2, <3>1, <3>2, ItemRanks
  <2>4. Does(Allocate(n), {LazyItem, FitItem(n)}) BY <2>2, AllocateDoes
  <2>5. QED BY <1>4, <1>5, <2>1, <2>3, <2>4
<1>6. CASE n # k /\ k # 0 /\ n = 0
  <2>1. ResizeExtent(x, n) = Free(b, k) \o <<z>> BY <1>6 DEF ResizeExtent, AnchorItem
  <2>2. k \in Nat \ {0} /\ b \in Nat BY <1>1, <1>6
  <2> DEFINE p == PutItem(b, k)
             Q == {p, z}
  <2>3. Does(Free(b, k) \o <<z>>, Q) BY <1>2, <2>2, FreeThen
  <2>4. p.op = "put" /\ z.op = "anchor" BY DEF PutItem, AnchorItem
  <2> HIDE DEF p, z
  <2>5. Doing(Q, "write") = {} /\ Doing(Q, "reset") = {} /\ Doing(Q, "anchor") = {z}
    BY <2>4 DEF Doing
  <2> HIDE DEF Q
  <2>6. Resizes(Q, x, n) BY <1>6, <2>5 DEF Resizes, z
  <2>7. QED BY <2>1, <2>3, <2>6
<1>7. CASE n # k /\ k # 0 /\ n # 0
  <2>1. ResizeExtent(x, n) = Reallocate(b, k, n) \o <<z>> BY <1>7 DEF ResizeExtent, AnchorItem
  <2>2. n \in Nat \ {0} /\ k \in Nat \ {0} /\ b \in Nat BY <1>1, <1>7
  <2> DEFINE y == ReallocateItem(b, k, n)
  <2>3. y \in Items /\ Rank(y) = 2 /\ y.op = "reallocate"
    <3>1. y.op = "reallocate" BY DEF ReallocateItem
    <3> HIDE DEF b, k
    <3>2. QED BY <2>2, <3>1, ItemRanks
  <2>4. Does(Reallocate(b, k, n), {LazyItem, y}) BY <2>2, ReallocateDoes
  <2> HIDE DEF y
  <2>5. QED BY <1>4, <1>7, <2>1, <2>3, <2>4
<1>8. QED BY <1>3, <1>5, <1>6, <1>7

\* What the calls below have in common.
LEMMA RestValues ==
  ASSUME Inv, ValuesInv, todo = << >>
  PROVE  /\ Consistent({}, alloc, result, arrays) /\ ValuesOK({}, result, arrays, content)
         /\ Plan = {} /\ \A x \in Arrays : Within(arrays[x].size, arrays[x].blocks)
<1>1. Does(todo, {}) BY DoesNothing
<1>2. Plan = {} BY <1>1 DEF Plan, Does
<1>3. Consistent({}, alloc, result, arrays) /\ ValuesOK({}, result, arrays, content)
  BY <1>2 DEF Inv, ValuesInv
<1>4. \A x : Keeps({}, x) BY <1>3, AtRest
<1>5. QED BY <1>2, <1>3, <1>4 DEF ValuesOK, KeptValues

\* A call that resizes the storage, and writes nothing.
LEMMA ResizeCallValues ==
  ASSUME Inv, ValuesInv, todo = << >>, NEW x \in Arrays, NEW n \in Nat, Within(arrays[x].size, n),
         todo' = ResizeExtent(x, n), UNCHANGED <<result, arrays, content>>
  PROVE  ValuesInv'
<1>1. Consistent({}, alloc, result, arrays) /\ ValuesOK({}, result, arrays, content) BY RestValues
<1>2. PICK Q : Does(ResizeExtent(x, n), Q) /\ Resizes(Q, x, n) BY <1>1, ResizePlan
<1>3. Plan' = Q BY <1>2 DEF Plan, Does
<1>4. WriteFits(Q, arrays) BY <1>2 DEF Resizes, WriteFits
<1>5. AnchorItem(x, n).array = x /\ AnchorItem(x, n).blocks = n BY DEF AnchorItem
<1>6. \A z \in Doing(Q, "anchor") :
        /\ z.array \in Arrays /\ Within(arrays[z.array].size, z.blocks)
        /\ Searching(Q) \/ z.blocks = 0
  BY <1>2, <1>5 DEF Resizes
<1>7. ValuesOK(Q, result, arrays, content) BY <1>1, <1>4, <1>6, CallValues
<1>8. QED BY <1>3, <1>7, ValuesNext

\* A call that resizes the storage, and writes: there will be room.
LEMMA WriteCallValues ==
  ASSUME Inv, ValuesInv, todo = << >>, NEW x \in Arrays, NEW n \in Nat, Within(arrays[x].size, n),
         NEW m \in Nat, Within(m, n),
         todo' = ResizeExtent(x, n) \o Write(x, m), UNCHANGED <<result, arrays, content>>
  PROVE  ValuesInv'
<1>1. Consistent({}, alloc, result, arrays) /\ ValuesOK({}, result, arrays, content) BY RestValues
<1>2. PICK Q : Does(ResizeExtent(x, n), Q) /\ Resizes(Q, x, n) BY <1>1, ResizePlan
<1> DEFINE w == WriteItem(x, m)
           P2 == Q \cup {w}
<1>3. w \in Items /\ ~Fixes(w) /\ w.op = "write" /\ w.array = x /\ w.size = m
  <2>1. w.op = "write" /\ w.array = x /\ w.size = m BY DEF WriteItem
  <2>2. QED BY <2>1, ItemRanks
<1>4. Write(x, m) = <<w>> BY DEF Write, WriteItem
<1> HIDE DEF w
<1>5. Plan' = P2
  <2> DEFINE c == ResizeExtent(x, n)
             d == <<w>>
  <2>1. Does(d, {w}) BY <1>3, DoesOne
  <2> HIDE DEF c, d
  <2>2. c \in Seq(Items) /\ d \in Seq(Items) /\ PlanOf(c) = Q /\ PlanOf(d) = {w}
    BY <1>2, <2>1 DEF Does, c
  <2>3. PlanOf(c \o d) = Q \cup {w} BY <2>2, BothPlans
  <2>4. todo' = c \o d BY <1>4 DEF c, d
  <2>5. QED BY <2>3, <2>4 DEF Plan
<1>6. Doing(P2, "write") = {w} /\ \A op : op # "write" => Doing(P2, op) = Doing(Q, op)
  BY <1>2, <1>3 DEF Doing, Resizes
<1> HIDE DEF P2
<1>7. Searching(P2) <=> Searching(Q) BY <1>6 DEF Searching
<1>8. AnchorItem(x, n).array = x /\ AnchorItem(x, n).blocks = n BY DEF AnchorItem
<1>9. \A z \in Doing(P2, "anchor") :
        /\ z.array \in Arrays /\ Within(arrays[z.array].size, z.blocks)
        /\ Searching(P2) \/ z.blocks = 0
  BY <1>2, <1>6, <1>7, <1>8 DEF Resizes
<1>10. WriteFits(P2, arrays)
  <2>1. Doing(P2, "reset") = {} /\ Doing(P2, "anchor") = Doing(Q, "anchor") BY <1>2, <1>6 DEF Resizes
  <2>2. Doing(Q, "anchor") = {} => Within(m, arrays[x].blocks)
    BY <1>2 DEF Resizes
  <2>3. \A z \in Doing(Q, "anchor") : z.array = x /\ Within(m, z.blocks) BY <1>2, <1>8 DEF Resizes
  <2>4. QED BY <1>3, <1>6, <2>1, <2>2, <2>3 DEF WriteFits
<1>11. ValuesOK(P2, result, arrays, content) BY <1>1, <1>9, <1>10, CallValues
<1>12. QED BY <1>5, <1>11, ValuesNext

\* Storage that stays as it is.
LEMMA NoResize ==
  ASSUME NEW x
  PROVE  ResizeExtent(x, arrays[x].blocks) = << >>
BY DEF ResizeExtent

\* push_back()
LEMMA PushBackValues ==
  ASSUME Inv, ValuesInv, NEW x \in Arrays, PushBack(x)
  PROVE  ValuesInv'
<1> DEFINE size == arrays[x].size
           k == arrays[x].blocks
           n == IF size \div BlockCapacity = k THEN NewSize(x, k + 1) ELSE k
<1>1. todo = << >> /\ UNCHANGED <<result, arrays, content>> BY DEF PushBack, Calls
<1>2. todo' = ResizeExtent(x, n) \o Write(x, size + 1)
  BY NoResize DEF PushBack, Calls
<1>3. Consistent({}, alloc, result, arrays) /\ Within(size, k) BY <1>1, RestValues
<1>4. size \in Nat /\ k \in Nat BY <1>3, SizeNat
<1>5. NewSize(x, k + 1) \in Nat /\ NewSize(x, k + 1) >= k + 1 BY <1>4, NewSizeFits
<1>6. n \in Nat /\ k <= n BY <1>4, <1>5
<1>7. size \div BlockCapacity \in Nat /\ size \div BlockCapacity <= k
  BY <1>3, <1>4, WithinGrows, Quotient, ArrayAssumption
<1>8. size \div BlockCapacity < n
  <2> DEFINE q == size \div BlockCapacity
  <2>1. q \in Nat /\ q <= k BY <1>7
  <2>2. n = IF q = k THEN NewSize(x, k + 1) ELSE k OBVIOUS
  <2> HIDE DEF q, n, k
  <2>3. q < n BY <1>4, <1>5, <2>1, <2>2
  <2>4. QED BY <2>3 DEF q
<1> HIDE DEF n, size, k
<1>9. Within(size, n) BY <1>3, <1>4, <1>6, WithinGrows
<1>10. Within(size + 1, n) BY <1>4, <1>6, <1>8, <1>9, WithinGrows
<1>11. Within(arrays[x].size, n) /\ size + 1 \in Nat BY <1>4, <1>9 DEF size
<1>12. QED BY <1>1, <1>2, <1>6, <1>10, <1>11, WriteCallValues

\* reserve() has room for what it was asked for, and loses none.
LEMMA ReservedFits ==
  ASSUME NEW x \in Arrays, arrays[x].blocks \in Nat, NEW n \in Nat
  PROVE  \E k \in Nat : Reserved(x, n) = ResizeExtent(x, k) /\ k >= arrays[x].blocks /\ Within(n, k)
<1> DEFINE needed == CeilDiv(n, BlockCapacity)
<1>1. BlockCapacity \in Nat \ {0} BY ArrayAssumption
<1>2. needed \in Nat BY <1>1, CeilDivNat
<1>3. Within(n, needed) BY <1>1, CeilDivFits DEF Within
<1>4. Reserved(x, n) = IF needed > arrays[x].blocks THEN ResizeExtent(x, NewSize(x, needed)) ELSE << >>
  BY DEF Reserved
<1> HIDE DEF needed
<1>5. CASE needed > arrays[x].blocks
  <2>1. NewSize(x, needed) \in Nat /\ NewSize(x, needed) >= needed BY <1>2, NewSizeFits
  <2>2. Within(n, NewSize(x, needed)) BY <1>2, <1>3, <2>1, WithinGrows
  <2>3. NewSize(x, needed) >= arrays[x].blocks BY <1>2, <1>5, <2>1
  <2>4. QED BY <1>4, <1>5, <2>1, <2>2, <2>3
<1>6. CASE ~(needed > arrays[x].blocks)
  <2>1. needed <= arrays[x].blocks BY <1>2, <1>6
  <2>2. Within(n, arrays[x].blocks) BY <1>2, <1>3, <2>1, WithinGrows
  <2>3. Reserved(x, n) = ResizeExtent(x, arrays[x].blocks) BY <1>4, <1>6, NoResize
  <2>4. QED BY <2>2, <2>3
<1>7. QED BY <1>5, <1>6

\* resize(), to more values
LEMMA ResizeValues ==
  ASSUME Inv, ValuesInv, NEW x \in Arrays, NEW n \in Nat, Resize(x, n)
  PROVE  ValuesInv'
<1>1. todo = << >> /\ todo' = Reserved(x, n) \o Write(x, n) /\ UNCHANGED <<result, arrays, content>>
  BY DEF Resize, Calls
<1>2. Consistent({}, alloc, result, arrays) /\ Within(arrays[x].size, arrays[x].blocks)
  BY <1>1, RestValues
<1>3. arrays[x].size \in Nat /\ arrays[x].blocks \in Nat BY <1>2, SizeNat
<1>4. PICK k \in Nat : Reserved(x, n) = ResizeExtent(x, k) /\ k >= arrays[x].blocks /\ Within(n, k)
  BY <1>3, ReservedFits
<1>5. Within(arrays[x].size, k) BY <1>2, <1>3, <1>4, WithinGrows
<1>6. QED BY <1>1, <1>4, <1>5, WriteCallValues

\* reserve()
LEMMA ReserveValues ==
  ASSUME Inv, ValuesInv, NEW x \in Arrays, NEW n \in Nat, Reserve(x, n)
  PROVE  ValuesInv'
<1>1. todo = << >> /\ todo' = Reserved(x, n) /\ UNCHANGED <<result, arrays, content>>
  BY DEF Reserve, Calls
<1>2. Consistent({}, alloc, result, arrays) /\ Within(arrays[x].size, arrays[x].blocks)
  BY <1>1, RestValues
<1>3. arrays[x].size \in Nat /\ arrays[x].blocks \in Nat BY <1>2, SizeNat
<1>4. PICK k \in Nat : Reserved(x, n) = ResizeExtent(x, k) /\ k >= arrays[x].blocks /\ Within(n, k)
  BY <1>3, ReservedFits
<1>5. Within(arrays[x].size, k) BY <1>2, <1>3, <1>4, WithinGrows
<1>6. QED BY <1>1, <1>4, <1>5, ResizeCallValues

\* shrink() and shrink_to_fit() leave room for the values.
LEMMA ShrinkValues ==
  ASSUME Inv, ValuesInv, NEW x \in Arrays, NEW exact \in BOOLEAN, Shrink(x, exact)
  PROVE  ValuesInv'
<1> DEFINE needed == CeilDiv(arrays[x].size, BlockCapacity)
           n == IF exact THEN needed ELSE NewSize(x, needed)
<1>1. todo = << >> /\ todo' = ResizeExtent(x, n) /\ UNCHANGED <<result, arrays, content>>
  BY DEF Shrink, Calls
<1>2. Consistent({}, alloc, result, arrays) BY <1>1, RestValues
<1>3. arrays[x].size \in Nat /\ BlockCapacity \in Nat \ {0} BY <1>2, ArrayAssumption, SizeNat
<1>4. needed \in Nat BY <1>3, CeilDivNat
<1>5. Within(arrays[x].size, needed) BY <1>3, CeilDivFits DEF Within
<1> HIDE DEF needed
<1>6. NewSize(x, needed) \in Nat /\ NewSize(x, needed) >= needed BY <1>4, NewSizeFits
<1>7. n \in Nat /\ needed <= n BY <1>4, <1>6
<1> HIDE DEF n
<1>8. Within(arrays[x].size, n) BY <1>3, <1>4, <1>5, <1>7, WithinGrows
<1>9. QED BY <1>1, <1>7, <1>8, ResizeCallValues

\* reset()
LEMMA ResetValues ==
  ASSUME Inv, ValuesInv, NEW x \in Arrays, Reset(x)
  PROVE  ValuesInv'
<1> DEFINE b == arrays[x].start
           n == arrays[x].blocks
           p == PutItem(b, n)
           z == ResetItem(x)
           Q == {p, z}
<1>1. /\ todo = << >> /\ n > 0 /\ UNCHANGED <<result, arrays, content>>
      /\ todo' = Free(b, n) \o <<z>>
  BY DEF Reset, Calls, ResetItem
<1>2. Consistent({}, alloc, result, arrays) /\ ValuesOK({}, result, arrays, content)
  BY <1>1, RestValues
<1>3. b \in Nat /\ n \in Nat \ {0} BY <1>1, <1>2 DEF Consistent, Anchored, Anchor
<1>4. z \in Items /\ ~Fixes(z) /\ Rank(z) = 4 BY ItemRanks
<1>5. p.op = "put" /\ z.op = "reset" BY DEF PutItem, ResetItem
<1> HIDE DEF z, b, n
<1>6. Does(Free(b, n) \o <<z>>, Q) BY <1>3, <1>4, FreeThen
<1> HIDE DEF p
<1>7. Doing(Q, "anchor") = {} /\ Doing(Q, "write") = {} BY <1>5 DEF Doing
<1> HIDE DEF Q
<1>8. Plan' = Q BY <1>1, <1>6 DEF Plan, Does
<1>9. WriteFits(Q, arrays) BY <1>7 DEF WriteFits
<1>10. ValuesOK(Q, result, arrays, content) BY <1>2, <1>7, <1>9, CallValues
<1>11. QED BY <1>1, <1>8, <1>10, ValuesNext

\* add_region()
LEMMA AddRegionValues ==
  ASSUME Inv, ValuesInv, AddRegion, UNCHANGED arrays
  PROVE  ValuesInv'
<1> DEFINE p == PutItem(0, RegionSize)
           z == RegionItem
           Q == {p, z}
<1>1. /\ todo = << >> /\ RegionSize > 0 /\ UNCHANGED <<result, arrays, content>>
      /\ todo' = Free(0, RegionSize) \o <<z>>
  BY DEF AddRegion, RegionItem
<1>2. Plan = {} BY <1>1, RestValues
<1>3. 0 \in Nat /\ RegionSize \in Nat \ {0} BY <1>1, AllocatorAssumption
<1>4. z \in Items /\ ~Fixes(z) /\ Rank(z) = 4 BY ItemRanks
<1>5. p.op = "put" /\ z.op = "region" BY DEF PutItem, RegionItem
<1> HIDE DEF z
<1>6. Does(Free(0, RegionSize) \o <<z>>, Q) BY <1>3, <1>4, FreeThen
<1> HIDE DEF p
<1>7. \A op : op # "put" /\ op # "region" => Doing(Q, op) = Doing({}, op) BY <1>5 DEF Doing
<1> HIDE DEF Q
<1>8. Plan' = Q BY <1>1, <1>6 DEF Plan, Does
<1>9. QED BY <1>1, <1>2, <1>7, <1>8, IdleValues

\* pop_back(), and resize() to fewer values
LEMMA TruncateValues ==
  ASSUME Inv, ValuesInv, NEW x \in Arrays, NEW n \in Nat, Truncate(x, n)
  PROVE  ValuesInv'
<1> DEFINE A2 == arrays'
<1>1. /\ todo = << >> /\ todo' = todo /\ UNCHANGED <<result, content>> /\ n < arrays[x].size
      /\ arrays' = [arrays EXCEPT ![x].size = n]
  BY DEF Truncate
<1>2. /\ Consistent({}, alloc, result, arrays) /\ ValuesOK({}, result, arrays, content) /\ Plan = {}
      /\ \A y \in Arrays : Within(arrays[y].size, arrays[y].blocks)
  BY <1>1, RestValues
<1>3. arrays \in [Arrays -> Anchor] BY <1>2 DEF Consistent, Anchored
<1>4. /\ A2[x].size = n /\ A2[x].blocks = arrays[x].blocks /\ A2[x].start = arrays[x].start
      /\ \A y \in Arrays : y # x => A2[y] = arrays[y]
  BY <1>1, <1>3 DEF Anchor
<1> HIDE DEF A2
<1>5. \A y : Keeps({}, y) BY <1>2, AtRest
<1>6. \A y \in Arrays : Has(content, y, arrays[y].size, arrays[y].start)
  BY <1>2, <1>5 DEF ValuesOK, KeptValues
<1>7. arrays[x].size \in Nat /\ arrays[x].blocks \in Nat BY <1>2, SizeNat
<1>8. Within(n, arrays[x].blocks) BY <1>1, <1>2, <1>7, WithinGrows
<1>9. Has(content, x, n, arrays[x].start)
  <2>1. \A i \in 0 .. n - 1 : i \in 0 .. arrays[x].size - 1 BY <1>1, <1>7
  <2>2. QED BY <1>6, <2>1 DEF Has
<1>10. ASSUME NEW y \in Arrays
       PROVE  Within(A2[y].size, A2[y].blocks) /\ Has(content, y, A2[y].size, A2[y].start)
  <2>1. CASE y = x BY <1>4, <1>8, <1>9, <2>1
  <2>2. CASE y # x BY <1>2, <1>4, <1>6, <2>2
  <2>3. QED BY <2>1, <2>2
<1>11. \A op : Doing({}, op) = {} BY DEF Doing
<1>12. ValuesOK({}, result, A2, content)
  BY <1>2, <1>10, <1>11 DEF ValuesOK, KeptValues, AnchorValues, WriteFits
<1>13. Plan' = {} BY <1>1, <1>2 DEF Plan
<1>14. QED BY <1>1, <1>12, <1>13, ValuesNext DEF A2

-----------------------------------------------------------------------------
(* The theorem.                                                              *)

\* At first there are no values.
LEMMA InitValues ==
  ASSUME Init
  PROVE  ValuesInv
<1>1. /\ todo = << >> /\ content = [b \in 0 .. MaxBlocks - 1 |-> {}]
      /\ arrays = [x \in Arrays |-> [start |-> NoStorage, blocks |-> 0, size |-> 0]]
  BY DEF Init, AllocatorInit
<1>2. Does(todo, {}) BY <1>1, DoesNothing
<1>3. Plan = {} BY <1>2 DEF Plan, Does
<1>4. content \in Contents BY <1>1 DEF Contents
<1>5. \A x \in Arrays : arrays[x].size = 0 BY <1>1
<1>6. \A x, b : Within(0, b) /\ Has(content, x, 0, b) BY DEF Within, Has
<1>7. KeptValues({}, arrays, content) BY <1>5, <1>6 DEF KeptValues
<1>8. \A op : Doing({}, op) = {} BY DEF Doing
<1>9. AnchorValues({}, result, arrays, content) /\ WriteFits({}, arrays)
  BY <1>8 DEF AnchorValues, WriteFits
<1>10. QED BY <1>3, <1>4, <1>7, <1>9 DEF ValuesInv, ValuesOK

\* Every step keeps track of where the values are.
LEMMA ValuesInductive ==
  ASSUME Inv, ValuesInv, [Next]_vars
  PROVE  ValuesInv'
<1>1. CASE AllocatorStep /\ UNCHANGED arrays
  BY <1>1, LazyInitializeValues, FixValues, PutBackValues, FitValues, ReallocateValues, MoveValues,
     CountRegionValues DEF AllocatorStep
<1>2. CASE SetAnchor BY <1>2, SetAnchorValues
<1>3. CASE SetReset BY <1>3, SetResetValues
<1>4. CASE WriteValues BY <1>4, WriteValuesValues
<1>5. CASE AddRegion /\ UNCHANGED arrays BY <1>5, AddRegionValues
<1>6. ASSUME NEW x \in Arrays,
             \/ PushBack(x) \/ Shrink(x, TRUE) \/ Shrink(x, FALSE) \/ Reset(x)
             \/ Resize(x, MaxElements) \/ Reserve(x, MaxElements)
             \/ \E n \in 0 .. MaxElements : Truncate(x, n)
      PROVE  ValuesInv'
  <2>1. MaxElements \in Nat BY ArrayAssumption
  <2>2. CASE Shrink(x, TRUE) BY <2>2, ShrinkValues
  <2>3. CASE Shrink(x, FALSE) BY <2>3, ShrinkValues
  <2>4. ASSUME NEW n \in 0 .. MaxElements, Truncate(x, n) PROVE ValuesInv'
    <3>1. n \in Nat BY <2>1
    <3>2. QED BY <2>4, <3>1, TruncateValues
  <2>5. QED BY <1>6, <2>1, <2>2, <2>3, <2>4, PushBackValues, ResetValues, ResizeValues, ReserveValues
<1>7. CASE UNCHANGED vars
  <2>1. UNCHANGED <<result, arrays, content>> /\ Plan' = Plan BY <1>7 DEF vars, Plan
  <2>2. QED BY <2>1, IdleValues
<1>8. QED BY <1>1, <1>2, <1>3, <1>4, <1>5, <1>6, <1>7 DEF Next, Step

\* Between two calls the values are in the storage of the anchors.
LEMMA ValuesThere ==
  ASSUME Inv, ValuesInv
  PROVE  ArraysKeepValues
<1>1. ASSUME todo = << >>, NEW x \in Arrays, NEW i \in 0 .. arrays[x].size - 1
      PROVE  /\ i \div BlockCapacity < arrays[x].blocks
             /\ <<x, i>> \in content[arrays[x].start + i \div BlockCapacity]
  <2>1. /\ Consistent({}, alloc, result, arrays) /\ ValuesOK({}, result, arrays, content)
        /\ Within(arrays[x].size, arrays[x].blocks)
    BY <1>1, RestValues
  <2>2. Keeps({}, x) BY <2>1, AtRest
  <2>3. Has(content, x, arrays[x].size, arrays[x].start) BY <2>1, <2>2 DEF ValuesOK, KeptValues
  <2>4. QED BY <2>1, <2>3 DEF Within, Has
<1>2. QED BY <1>1 DEF ArraysKeepValues

\* No array loses a value, however its storage was reallocated, whatever the calls on the
\* other arrays did to theirs, and wherever the allocator threw.
THEOREM ArraysAlwaysKeepValues == Spec => []ArraysKeepValues
<1>1. Init => ValuesInv BY InitValues
<1>2. Inv /\ ValuesInv /\ [Next]_vars => ValuesInv' BY ValuesInductive
<1>3. Inv /\ ValuesInv => ArraysKeepValues BY ValuesThere
<1>4. QED BY <1>1, <1>2, <1>3, InvAlways, PTL DEF Spec
=============================================================================
