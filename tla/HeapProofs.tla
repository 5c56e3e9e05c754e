----------------------------- MODULE HeapProofs -----------------------------
(***************************************************************************)
(* A heap keeps its objects, for every size of blocks and slots, every     *)
(* size of objects up to 2^32 less a block (NoWrap) and every sequence of  *)
(* calls.                                                                  *)
(*                                                                         *)
(* A page is PageOk when its objects lie behind the free pointer, apart    *)
(* from each other, and the bytes between them are counted. Compaction     *)
(* shifts the object with the greatest offset first, so that none lands    *)
(* on one that has still to be moved; that there is room for it, and for   *)
(* every object that the free map promises room for, is a matter of        *)
(* counting bytes. Above the pages, the invariant follows each reference   *)
(* to its bytes.                                                           *)
(***************************************************************************)
EXTENDS Heap, FiniteSetTheorems, SequenceTheorems, WellFoundedInduction, TLAPS

-----------------------------------------------------------------------------
(* Numbers and sets.                                                       *)

\* A set of natural numbers that is not empty has a least element.
LEMMA LeastNumber ==
  ASSUME NEW T \in SUBSET Nat, T # {}
  PROVE  \E m \in T : \A k \in T : m <= k
<1> DEFINE R == OpToRel(<, Nat)
<1>1. IsWellFoundedOn(R, Nat) BY NatLessThanWellFounded
<1>2. PICK m \in T : \A k \in T : ~(<<k, m>> \in R)
  <2> HIDE DEF R
  <2> QED BY <1>1, WFMin
<1>3. \A k \in T : ~(k < m) BY <1>2 DEF OpToRel
<1>4. QED BY <1>3

\* Induction, for the numbers that are in a set.
LEMMA Induction ==
  ASSUME NEW S, 0 \in S, \A n \in Nat : n \in S => n + 1 \in S
  PROVE  \A n \in Nat : n \in S
<1> SUFFICES ASSUME NEW n \in Nat, n \notin S PROVE FALSE OBVIOUS
<1> DEFINE T == { k \in Nat : k \notin S }
<1>1. PICK m \in T : \A k \in T : m <= k BY LeastNumber
<1>2. m # 0 BY <1>1
<1>3. m - 1 \in Nat /\ m - 1 \in S BY <1>1, <1>2
<1>4. QED BY <1>1, <1>3

\* As many numbers as there are from a to b.
LEMMA Interval ==
  ASSUME NEW a \in Nat, NEW b \in Nat
  PROVE  IsFiniteSet(a .. a + b - 1) /\ Cardinality(a .. a + b - 1) = b
<1>1. a \in Int /\ a + b - 1 \in Int OBVIOUS
<1>2. /\ IsFiniteSet(a .. a + b - 1)
      /\ Cardinality(a .. a + b - 1) = IF a > a + b - 1 THEN 0 ELSE (a + b - 1) - a + 1
  BY <1>1, FS_Interval
<1>3. QED BY <1>2

\* A finite set without one of its elements.
LEMMA OneLess ==
  ASSUME NEW S, IsFiniteSet(S), NEW x \in S
  PROVE  /\ IsFiniteSet(S \ {x}) /\ Cardinality(S) \in Nat /\ Cardinality(S \ {x}) \in Nat
         /\ Cardinality(S \ {x}) = Cardinality(S) - 1
<1>1. IsFiniteSet(S \ {x}) /\ Cardinality(S \ {x}) = Cardinality(S) - 1 BY FS_RemoveElement
<1>2. QED BY <1>1, FS_CardinalityType

\* Sets that have no element in common.
LEMMA TwoSets ==
  ASSUME NEW S, NEW T, IsFiniteSet(S), IsFiniteSet(T), S \cap T = {}
  PROVE  /\ IsFiniteSet(S \cup T) /\ Cardinality(S \cup T) = Cardinality(S) + Cardinality(T)
         /\ Cardinality(S) \in Nat /\ Cardinality(T) \in Nat
<1>1. IsFiniteSet(S \cup T)
      /\ Cardinality(S \cup T) = Cardinality(S) + Cardinality(T) - Cardinality(S \cap T)
  BY FS_Union
<1>2. Cardinality(S \cap T) = 0 BY FS_EmptySet
<1>3. Cardinality(S) \in Nat /\ Cardinality(T) \in Nat BY FS_CardinalityType
<1>4. QED BY <1>1, <1>2, <1>3

-----------------------------------------------------------------------------
(* Objects in a page.                                                      *)

Slots == [offset : Nat, size : Nat]

Bytes(s) == s.offset .. s.offset + s.size - 1

\* The bytes of the objects D.
Taken(slots, D) == UNION { Bytes(slots[i]) : i \in D }

\* An object between lo and the end of the page.
Sits(s, lo) == s \in Slots /\ s.size > 0 /\ lo <= s.offset /\ s.offset + s.size <= BlockSize

Apart(s, t) == s.offset + s.size <= t.offset \/ t.offset + t.size <= s.offset

\* Objects that sit side by side.
Laid(slots, D, lo) ==
  /\ \A i \in D : Sits(slots[i], lo)
  /\ \A i, j \in D : i # j => Apart(slots[i], slots[j])

\* One more object takes as many bytes as it has.
LEMMA TakenMore ==
  ASSUME NEW slots, NEW D, IsFiniteSet(Taken(slots, D)), NEW x, x \notin D,
         Laid(slots, D \cup {x}, 0)
  PROVE  /\ Taken(slots, D \cup {x}) = Taken(slots, D) \cup Bytes(slots[x])
         /\ Taken(slots, D) \cap Bytes(slots[x]) = {}
         /\ IsFiniteSet(Taken(slots, D \cup {x}))
         /\ Cardinality(Taken(slots, D)) \in Nat
         /\ Cardinality(Taken(slots, D \cup {x})) = Cardinality(Taken(slots, D)) + slots[x].size
<1>1. Taken(slots, D \cup {x}) = Taken(slots, D) \cup Bytes(slots[x]) BY DEF Taken
<1>2. ASSUME NEW i \in D, NEW p, p \in Bytes(slots[i]), p \in Bytes(slots[x]) PROVE FALSE
  <2>1. Apart(slots[i], slots[x]) BY <1>2 DEF Laid
  <2>2. Sits(slots[i], 0) /\ Sits(slots[x], 0) BY DEF Laid
  <2>3. QED BY <1>2, <2>1, <2>2 DEF Apart, Sits, Slots, Bytes
<1>3. Taken(slots, D) \cap Bytes(slots[x]) = {} BY <1>2 DEF Taken
<1>4. slots[x].offset \in Nat /\ slots[x].size \in Nat BY DEF Laid, Sits, Slots
<1>5. IsFiniteSet(Bytes(slots[x])) /\ Cardinality(Bytes(slots[x])) = slots[x].size
  BY <1>4, Interval DEF Bytes
<1>6. QED BY <1>1, <1>3, <1>5, TwoSets

\* The bytes taken are some of those from lo on.
LEMMA TakenBound ==
  ASSUME NEW slots, NEW D, NEW lo \in Nat, NEW size \in Nat, lo + size = BlockSize,
         Laid(slots, D, lo)
  PROVE  /\ Taken(slots, D) \subseteq lo .. BlockSize - 1 /\ IsFiniteSet(Taken(slots, D))
         /\ Cardinality(Taken(slots, D)) \in Nat /\ Cardinality(Taken(slots, D)) <= size
         /\ Cardinality((lo .. BlockSize - 1) \ Taken(slots, D)) = size - Cardinality(Taken(slots, D))
<1> DEFINE R == lo .. BlockSize - 1
           T == Taken(slots, D)
<1>1. T \subseteq R
  <2> SUFFICES ASSUME NEW i \in D, NEW p \in Bytes(slots[i]) PROVE p \in R BY DEF Taken
  <2>1. Sits(slots[i], lo) BY DEF Laid
  <2>2. QED BY <2>1 DEF Sits, Slots, Bytes
<1>2. IsFiniteSet(R) /\ Cardinality(R) = size
  <2>1. R = lo .. lo + size - 1 OBVIOUS
  <2>2. QED BY <2>1, Interval
<1> HIDE DEF R, T
<1>3. IsFiniteSet(T) /\ Cardinality(T) <= Cardinality(R) BY <1>1, <1>2, FS_Subset
<1>4. Cardinality(R \ T) = Cardinality(R) - Cardinality(R \cap T) BY <1>2, FS_Difference
<1>5. R \cap T = T BY <1>1
<1>6. Cardinality(T) \in Nat BY <1>3, FS_CardinalityType
<1>7. QED BY <1>1, <1>2, <1>3, <1>4, <1>5, <1>6 DEF R, T

-----------------------------------------------------------------------------
(* Compaction, step by step.                                               *)

Start(page) == [page EXCEPT !.free_ptr = BlockSize, !.free_fragmented = 0]

First(page, s) == CHOOSE i \in s : \A j \in s : page.slots[i].offset <= page.slots[j].offset

Cut(c) == [c EXCEPT !.data = [p \in DOMAIN @ |-> IF p < c.free_ptr THEN None ELSE @[p]]]

\* The objects of a set are shifted one after the other, the first of them at the end.
LEMMA CompactSteps ==
  ASSUME NEW page, IsFiniteSet(UsedSlots(page)),
         \A s \in SUBSET UsedSlots(page) : s # {} => First(page, s) \in s
  PROVE  \E g : /\ g[{}] = Start(page)
                /\ \A s \in SUBSET UsedSlots(page) :
                     s # {} => g[s] = Shift(page, First(page, s), g[s \ {First(page, s)}])
                /\ PageCompact(page) = Cut(g[UsedSlots(page)])
<1> DEFINE U == UsedSlots(page)
           Val(q, s) == IF s = {} THEN Start(page)
                        ELSE Shift(page, First(page, s), q[s \ {First(page, s)}])
           Few(m) == { s \in SUBSET U : Cardinality(s) <= m }
           Iter(g, D) == g = [s \in D |-> Val(g, s)]
           T == { m \in Nat : \E g : Iter(g, Few(m)) }
<1> HIDE DEF U
<1>1. ASSUME NEW s \in SUBSET U PROVE IsFiniteSet(s) /\ Cardinality(s) \in Nat /\ Cardinality(s) <= Cardinality(U)
  <2>1. IsFiniteSet(s) /\ Cardinality(s) <= Cardinality(U) BY FS_Subset DEF U
  <2>2. QED BY <2>1, FS_CardinalityType
<1>2. 0 \in T
  <2> DEFINE g == [s \in Few(0) |-> Start(page)]
  <2>1. ASSUME NEW s \in Few(0) PROVE s = {}
    <3>1. IsFiniteSet(s) /\ Cardinality(s) = 0 BY <1>1
    <3>2. QED BY <3>1, FS_EmptySet
  <2>2. \A s \in Few(0) : Val(g, s) = Start(page) BY <2>1
  <2>3. Iter(g, Few(0))
    <3> HIDE DEF Val, Few
    <3> QED BY <2>2
  <2> HIDE DEF g, Iter, Few
  <2>4. QED BY <2>3
<1>3. ASSUME NEW m \in Nat, m \in T PROVE m + 1 \in T
  <2>1. PICK h : Iter(h, Few(m))
    <3> HIDE DEF Iter, Few
    <3> QED BY <1>3
  <2> DEFINE g == [s \in Few(m + 1) |-> Val(h, s)]
  <2>2. ASSUME NEW s \in Few(m) PROVE g[s] = h[s]
    <3>1. s \in Few(m + 1) BY <1>1
    <3>2. h[s] = Val(h, s)
      <4> HIDE DEF Val, Few
      <4> QED BY <2>1
    <3> HIDE DEF Val, Few
    <3>3. QED BY <3>1, <3>2
  <2>3. ASSUME NEW s \in Few(m + 1) PROVE Val(h, s) = Val(g, s)
    <3>1. CASE s = {} BY <3>1
    <3>2. CASE s # {}
      <4> DEFINE x == First(page, s)
      <4>1. x \in s BY <3>2 DEF U
      <4> HIDE DEF x
      <4>2. IsFiniteSet(s) /\ Cardinality(s) \in Nat BY <1>1
      <4>3. Cardinality(s \ {x}) = Cardinality(s) - 1 BY <4>1, <4>2, OneLess
      <4>4. s \ {x} \in Few(m) BY <4>2, <4>3
      <4>5. h[s \ {x}] = g[s \ {x}] BY <2>2, <4>4
      <4> HIDE DEF g
      <4>6. QED BY <4>5 DEF x
    <3>3. QED BY <3>1, <3>2
  <2> HIDE DEF Val, Few
  <2>4. g = [s \in Few(m + 1) |-> Val(g, s)] BY <2>3
  <2> HIDE DEF g
  <2>5. Iter(g, Few(m + 1)) BY <2>4
  <2> HIDE DEF Iter
  <2>6. QED BY <2>5
<1> HIDE DEF T
<1>4. \A m \in Nat : m \in T BY <1>2, <1>3, Induction
<1>5. Cardinality(U) \in Nat BY FS_CardinalityType DEF U
<1>6. Few(Cardinality(U)) = SUBSET U BY <1>1, <1>5
<1>7. \E g : Iter(g, SUBSET U)
  <2>1. \E g : Iter(g, Few(Cardinality(U)))
    <3> HIDE DEF Iter, Few
    <3> QED BY <1>4, <1>5 DEF T
  <2>2. QED BY <1>6, <2>1
<1> DEFINE g == CHOOSE q : Iter(q, SUBSET U)
<1>8. Iter(g, SUBSET U)
  <2> HIDE DEF Iter
  <2> QED BY <1>7
<1>9. PageCompact(page) = Cut(g[U])
  BY DEF PageCompact, MapThenFoldSet, Cut, Start, First, U
<1> HIDE DEF g
<1>10. \A s \in SUBSET U : g[s] = Val(g, s)
  <2> HIDE DEF Val
  <2> QED BY <1>8
<1>11. g[{}] = Start(page) BY <1>10
<1>12. \A s \in SUBSET U : s # {} => g[s] = Shift(page, First(page, s), g[s \ {First(page, s)}])
  BY <1>10
<1>13. QED BY <1>9, <1>11, <1>12 DEF U

-----------------------------------------------------------------------------
(* Compaction keeps the objects.                                           *)

PageType ==
  [slots : Seq(Slots), free_ptr : Nat, free_fragmented : Nat,
   data : [0 .. BlockSize - 1 -> Values \cup {None}]]

\* The object of slot i is the same in p and q, wherever it is.
Carried(p, q, i) ==
  /\ q.slots[i].size = p.slots[i].size
  /\ \A k \in 0 .. p.slots[i].size - 1 :
       q.data[q.slots[i].offset + k] = p.data[p.slots[i].offset + k]

\* Bytes that are written into a page.
LEMMA MovedIs ==
  ASSUME NEW data \in [0 .. BlockSize - 1 -> Values \cup {None}], NEW dest \in Nat, NEW size \in Nat,
         NEW source \in [0 .. size - 1 -> Values \cup {None}]
  PROVE  /\ Moved(data, dest, source) \in [0 .. BlockSize - 1 -> Values \cup {None}]
         /\ \A k \in 0 .. size - 1 :
              dest + size <= BlockSize => Moved(data, dest, source)[dest + k] = source[k]
         /\ \A p \in 0 .. BlockSize - 1 :
              p < dest \/ p >= dest + size => Moved(data, dest, source)[p] = data[p]
<1> DEFINE m == Moved(data, dest, source)
<1>0. BlockSize \in Nat BY HeapAssumption
<1>1. m = [p \in 0 .. BlockSize - 1 |->
             IF p - dest \in 0 .. size - 1 THEN source[p - dest] ELSE data[p]]
  BY DEF Moved
<1> HIDE DEF m
<1>2. m \in [0 .. BlockSize - 1 -> Values \cup {None}] BY <1>1
<1>3. ASSUME NEW k \in 0 .. size - 1, dest + size <= BlockSize PROVE m[dest + k] = source[k]
  <2>1. dest + k \in 0 .. BlockSize - 1 /\ (dest + k) - dest = k BY <1>0, <1>3
  <2>2. QED BY <1>1, <2>1
<1>4. ASSUME NEW p \in 0 .. BlockSize - 1, p < dest \/ p >= dest + size PROVE m[p] = data[p]
  <2>1. ~(p - dest \in 0 .. size - 1) BY <1>4
  <2>2. QED BY <1>1, <2>1
<1>5. QED BY <1>2, <1>3, <1>4 DEF m

Contents(n) == [0 .. n - 1 -> Values \cup {None}]

\* The same, for sequences of bytes by their length.
LEMMA MovedBytes ==
  ASSUME NEW data, NEW dest \in Nat, NEW size \in Nat, NEW source,
         data \in Contents(BlockSize), source \in Contents(size)
  PROVE  /\ Moved(data, dest, source) \in Contents(BlockSize)
         /\ \A k \in 0 .. size - 1 :
              dest + size <= BlockSize => Moved(data, dest, source)[dest + k] = source[k]
         /\ \A p \in 0 .. BlockSize - 1 :
              p < dest \/ p >= dest + size => Moved(data, dest, source)[p] = data[p]
BY MovedIs DEF Contents

\* d is c after the object of slot x was shifted.
Shifted(page, x, c, d) ==
  /\ d \in PageType /\ d.free_ptr = c.free_ptr - page.slots[x].size
  /\ d.free_fragmented = c.free_fragmented
  /\ Len(d.slots) = Len(c.slots)
  /\ d.slots[x] = [offset |-> d.free_ptr, size |-> page.slots[x].size]
  /\ \A i \in DOMAIN c.slots : i # x => d.slots[i] = c.slots[i]
  /\ \A k \in 0 .. page.slots[x].size - 1 : d.data[d.free_ptr + k] = c.data[page.slots[x].offset + k]
  /\ \A p \in 0 .. BlockSize - 1 : p < d.free_ptr \/ p >= c.free_ptr => d.data[p] = c.data[p]

LEMMA ShiftIs ==
  ASSUME NEW page, NEW c \in PageType, NEW x \in DOMAIN c.slots, page.slots[x] \in Slots,
         page.slots[x].size = c.slots[x].size,
         page.slots[x].offset + page.slots[x].size <= BlockSize,
         page.slots[x].size <= c.free_ptr, c.free_ptr <= BlockSize,
         NEW d, d = Shift(page, x, c)
  PROVE  Shifted(page, x, c, d)
<1> DEFINE size == page.slots[x].size
           from == page.slots[x].offset
           dest == c.free_ptr - size
           source == [k \in 0 .. size - 1 |-> c.data[from + k]]
<1>0. BlockSize \in Nat BY HeapAssumption
<1>1. /\ c.slots \in Seq(Slots) /\ c.free_ptr \in Nat /\ c.free_fragmented \in Nat
      /\ c.data \in [0 .. BlockSize - 1 -> Values \cup {None}]
      /\ c = [slots |-> c.slots, free_ptr |-> c.free_ptr, free_fragmented |-> c.free_fragmented,
              data |-> c.data]
  BY DEF PageType
<1>2. size \in Nat /\ from \in Nat /\ dest \in Nat /\ dest + size = c.free_ptr /\ from + size <= BlockSize
  <2>1. size \in Nat /\ from \in Nat BY DEF Slots
  <2>2. size <= c.free_ptr /\ from + size <= BlockSize OBVIOUS
  <2> HIDE DEF size, from
  <2>3. QED BY <1>1, <2>1, <2>2
<1>3. d = [slots |-> [c.slots EXCEPT ![x].offset = dest], free_ptr |-> dest,
           free_fragmented |-> c.free_fragmented, data |-> Moved(c.data, dest, source)]
  <2>1. d = [c EXCEPT !.free_ptr = dest, !.slots[x].offset = dest, !.data = Moved(@, dest, source)]
    BY DEF Shift
  <2> DEFINE e == Moved(c.data, dest, source)
  <2>2. d = [c EXCEPT !.free_ptr = dest, !.slots[x].offset = dest, !.data = e] BY <2>1
  <2> HIDE DEF dest, source, e
  <2>3. QED BY <1>1, <2>2 DEF PageType, e
<1>4. source \in [0 .. size - 1 -> Values \cup {None}]
  <2>1. ASSUME NEW k \in 0 .. size - 1 PROVE c.data[from + k] \in Values \cup {None}
    <3>1. from + k \in 0 .. BlockSize - 1 BY <1>0, <1>2
    <3>2. QED BY <1>1, <3>1
  <2>2. QED BY <2>1
<1>5. \A k \in 0 .. size - 1 : source[k] = c.data[from + k] OBVIOUS
<1>6. size = page.slots[x].size /\ from = page.slots[x].offset /\ c.slots[x].size = size OBVIOUS
<1> DEFINE sl == [c.slots EXCEPT ![x].offset = dest]
<1>7. /\ sl \in Seq(Slots) /\ Len(sl) = Len(c.slots) /\ sl[x] = [offset |-> dest, size |-> size]
      /\ \A i \in DOMAIN c.slots : i # x => sl[i] = c.slots[i]
  <2>1. c.slots[x] \in Slots /\ c.slots[x] = [offset |-> c.slots[x].offset, size |-> size]
    <3>1. c.slots[x] \in Slots BY <1>1
    <3>2. QED BY <1>6, <3>1 DEF Slots
  <2> HIDE DEF dest, size
  <2>2. [c.slots[x] EXCEPT !.offset = dest] = [offset |-> dest, size |-> size] BY <2>1
  <2>3. [offset |-> dest, size |-> size] \in Slots BY <1>2 DEF Slots
  <2> DEFINE new == [offset |-> dest, size |-> size]
  <2>4. sl = [c.slots EXCEPT ![x] = new] BY <2>2
  <2>5. new \in Slots BY <2>3
  <2>6. x \in DOMAIN c.slots /\ c.slots \in Seq(Slots) BY <1>1
  <2> HIDE DEF new, sl
  <2>7. /\ sl \in Seq(Slots) /\ Len(sl) = Len(c.slots) /\ sl[x] = new
        /\ \A i \in DOMAIN c.slots : i # x => sl[i] = c.slots[i]
    BY ONLY <2>4, <2>5, <2>6
  <2>8. QED BY <2>7 DEF new
<1> HIDE DEF size, from, dest, source, sl
<1>8. /\ Moved(c.data, dest, source) \in [0 .. BlockSize - 1 -> Values \cup {None}]
      /\ \A k \in 0 .. size - 1 : Moved(c.data, dest, source)[dest + k] = source[k]
      /\ \A p \in 0 .. BlockSize - 1 :
           p < dest \/ p >= dest + size => Moved(c.data, dest, source)[p] = c.data[p]
  <2>1. /\ c.data \in [0 .. BlockSize - 1 -> Values \cup {None}] /\ dest \in Nat /\ size \in Nat
        /\ source \in [0 .. size - 1 -> Values \cup {None}]
    BY <1>1, <1>2, <1>4
  <2>2. dest + size <= BlockSize
    <3>1. c.free_ptr <= BlockSize OBVIOUS
    <3>2. QED BY <1>2, <3>1
  <2> DEFINE e == c.data
             g == Moved(e, dest, source)
  <2> HIDE DEF e
  <2>3. /\ g \in [0 .. BlockSize - 1 -> Values \cup {None}]
        /\ \A k \in 0 .. size - 1 : dest + size <= BlockSize => g[dest + k] = source[k]
        /\ \A p \in 0 .. BlockSize - 1 : p < dest \/ p >= dest + size => g[p] = e[p]
    BY ONLY <2>1, MovedIs DEF e
  <2>4. QED BY <2>2, <2>3 DEF e
<1>9. /\ d.slots = sl /\ d.free_ptr = dest /\ d.free_fragmented = c.free_fragmented
      /\ d.data = Moved(c.data, dest, source)
  BY <1>3 DEF sl
<1>10. d \in PageType BY <1>1, <1>2, <1>3, <1>7, <1>8 DEF PageType, sl
<1>11. \A k \in 0 .. size - 1 : d.data[dest + k] = c.data[from + k] BY <1>5, <1>8, <1>9
<1>12. \A p \in 0 .. BlockSize - 1 : p < dest \/ p >= c.free_ptr => d.data[p] = c.data[p]
  BY <1>2, <1>8, <1>9
<1>13. QED BY <1>6, <1>7, <1>9, <1>10, <1>11, <1>12 DEF Shifted, dest

\* The objects s of a page have been shifted to the end of c, and no others.
Good(page, s, c) ==
  /\ c \in PageType /\ c.free_fragmented = 0 /\ Len(c.slots) = Len(page.slots)
  /\ c.free_ptr + Cardinality(Taken(page.slots, s)) = BlockSize
  /\ \A i \in DOMAIN page.slots \ s : c.slots[i] = page.slots[i]
  /\ Laid(c.slots, s, c.free_ptr)
  /\ c.free_ptr .. BlockSize - 1 \subseteq Taken(c.slots, s)
  /\ \A i \in s : Carried(page, c, i)
  /\ \A p \in 0 .. c.free_ptr - 1 : c.data[p] = page.data[p]

\* Objects that are still to be shifted end where those that have been begin, at most.
LEMMA ShiftHasRoom ==
  ASSUME NEW page \in PageType, NEW lo \in Nat, Laid(page.slots, UsedSlots(page), lo),
         NEW t \in SUBSET UsedSlots(page), NEW x \in UsedSlots(page), x \notin t,
         \A i \in t : page.slots[x].offset <= page.slots[i].offset,
         NEW c, Good(page, t, c)
  PROVE  /\ page.slots[x] \in Slots /\ page.slots[x].size > 0
         /\ lo <= page.slots[x].offset
         /\ page.slots[x].offset + page.slots[x].size <= c.free_ptr
         /\ c.free_ptr \in Nat /\ c.free_ptr <= BlockSize
         /\ IsFiniteSet(Taken(page.slots, t))
<1> DEFINE s == page.slots
           a == s[x].offset
           z == s[x].size
<1>0. BlockSize \in Nat BY HeapAssumption
<1>1. Sits(s[x], lo) BY DEF Laid
<1>2. a \in Nat /\ z \in Nat /\ z > 0 /\ lo <= a /\ a + z <= BlockSize /\ s[x] \in Slots
  BY <1>1 DEF Sits, Slots
<1>3. ASSUME NEW i \in t PROVE Sits(s[i], a + z)
  <2>1. Sits(s[i], lo) /\ Apart(s[i], s[x]) BY DEF Laid
  <2>2. a <= s[i].offset OBVIOUS
  <2>3. s[i] \in Slots /\ s[i].size \in Nat /\ s[i].offset \in Nat /\ s[i].size > 0
        /\ s[i].offset + s[i].size <= BlockSize
    BY <2>1 DEF Sits, Slots
  <2>4. s[i].offset + s[i].size <= a \/ a + z <= s[i].offset BY <2>1 DEF Apart
  <2> HIDE DEF a, z, s
  <2>5. a + z <= s[i].offset BY <1>2, <2>2, <2>3, <2>4
  <2>6. QED BY <2>3, <2>5 DEF Sits
<1>4. Laid(s, t, a + z) BY <1>3 DEF Laid
<1>5. a + z \in Nat /\ BlockSize - (a + z) \in Nat /\ (a + z) + (BlockSize - (a + z)) = BlockSize
  BY <1>0, <1>2
<1> HIDE DEF a, z, s
<1>6. PICK b \in Nat : b = a + z BY <1>5
<1>7. PICK e \in Nat : b + e = BlockSize BY <1>5, <1>6
<1>8. /\ IsFiniteSet(Taken(s, t)) /\ Cardinality(Taken(s, t)) \in Nat
      /\ Cardinality(Taken(s, t)) <= e
  BY <1>4, <1>6, <1>7, TakenBound
<1>9. c.free_ptr + Cardinality(Taken(s, t)) = BlockSize /\ c.free_ptr \in Nat
  BY DEF Good, PageType, s
<1>10. a + z <= c.free_ptr /\ c.free_ptr <= BlockSize BY <1>0, <1>6, <1>7, <1>8, <1>9
<1>11. QED BY <1>2, <1>8, <1>9, <1>10 DEF a, z, s

\* The next object is shifted.
LEMMA ShiftStep ==
  ASSUME NEW page \in PageType, NEW lo \in Nat, Laid(page.slots, UsedSlots(page), lo),
         NEW t \in SUBSET UsedSlots(page), NEW x \in UsedSlots(page), x \notin t,
         \A i \in t : page.slots[x].offset <= page.slots[i].offset,
         NEW c, Good(page, t, c), NEW d, d = Shift(page, x, c)
  PROVE  Good(page, t \cup {x}, d) /\ lo <= d.free_ptr
<1> DEFINE s == page.slots
           a == s[x].offset
           z == s[x].size
           n == Len(s)
<1>0. BlockSize \in Nat BY HeapAssumption
<1>1. /\ s[x] \in Slots /\ z > 0 /\ lo <= a /\ a + z <= c.free_ptr /\ c.free_ptr \in Nat
      /\ c.free_ptr <= BlockSize /\ IsFiniteSet(Taken(s, t))
  BY ShiftHasRoom
<1>2. a \in Nat /\ z \in Nat BY <1>1 DEF Slots
<1>3. s \in Seq(Slots) /\ n \in Nat /\ DOMAIN s = 1 .. n BY DEF PageType
<1>4. /\ c \in PageType /\ c.free_fragmented = 0 /\ Len(c.slots) = n /\ c.slots \in Seq(Slots)
      /\ DOMAIN c.slots = 1 .. n
      /\ \A i \in 1 .. n : i \notin t => c.slots[i] = s[i]
  <2>1. c \in PageType /\ c.free_fragmented = 0 /\ Len(c.slots) = n BY DEF Good
  <2>2. c.slots \in Seq(Slots) BY <2>1 DEF PageType
  <2>3. DOMAIN c.slots = 1 .. n BY <2>1, <2>2
  <2>4. \A i \in DOMAIN page.slots \ t : c.slots[i] = page.slots[i] BY DEF Good
  <2>5. QED BY <1>3, <2>1, <2>2, <2>3, <2>4
<1>5. x \in 1 .. n /\ t \subseteq 1 .. n BY <1>3 DEF UsedSlots
<1>6. c.slots[x] = s[x] BY <1>4, <1>5
<1>7. a + z <= BlockSize /\ z <= c.free_ptr /\ page.slots[x].size = z /\ page.slots[x].offset = a
  BY <1>0, <1>1, <1>2
<1>8. /\ d \in PageType /\ d.free_ptr = c.free_ptr - z
      /\ d.free_fragmented = c.free_fragmented
      /\ Len(d.slots) = Len(c.slots)
      /\ d.slots[x] = [offset |-> d.free_ptr, size |-> z]
      /\ \A i \in 1 .. n : i # x => d.slots[i] = c.slots[i]
      /\ \A k \in 0 .. z - 1 : d.data[d.free_ptr + k] = c.data[a + k]
      /\ \A p \in 0 .. BlockSize - 1 : p < d.free_ptr \/ p >= c.free_ptr => d.data[p] = c.data[p]
  <2>1. /\ x \in DOMAIN c.slots /\ page.slots[x] \in Slots /\ page.slots[x].size = c.slots[x].size
        /\ page.slots[x].offset + page.slots[x].size <= BlockSize
        /\ page.slots[x].size <= c.free_ptr /\ c.free_ptr <= BlockSize
    BY <1>1, <1>4, <1>5, <1>6, <1>7
  <2>2. Shifted(page, x, c, d) BY <1>4, <2>1, ShiftIs
  <2>3. QED BY <1>4, <2>2 DEF Shifted
<1> DEFINE f == d.free_ptr
<1> HIDE DEF s, a, z, n
<1>9. f \in Nat /\ f + z = c.free_ptr /\ a <= f /\ lo <= f /\ f + z <= BlockSize
  BY <1>0, <1>1, <1>2, <1>8
<1>10. \A i \in t : d.slots[i] = c.slots[i] /\ i # x BY <1>5, <1>8
<1> HIDE DEF f
<1>11. d.slots[x].offset = f /\ d.slots[x].size = z /\ d.slots[x] \in Slots
  BY <1>2, <1>8, <1>9 DEF Slots, f
<1>12. Laid(c.slots, t, c.free_ptr) /\ \A i \in t : Sits(c.slots[i], c.free_ptr) BY DEF Good, Laid
<1>13. Sits(d.slots[x], f) BY <1>1, <1>9, <1>11 DEF Sits
<1>14. ASSUME NEW i \in t PROVE Sits(d.slots[i], f) /\ Apart(d.slots[i], d.slots[x]) /\ Apart(d.slots[x], d.slots[i])
  <2>1. Sits(c.slots[i], c.free_ptr) /\ d.slots[i] = c.slots[i] BY <1>10, <1>12
  <2>2. /\ d.slots[i] \in Slots /\ d.slots[i].size > 0 /\ c.free_ptr <= d.slots[i].offset
        /\ d.slots[i].offset + d.slots[i].size <= BlockSize /\ d.slots[i].offset \in Nat
    BY <2>1 DEF Sits, Slots
  <2>3. f <= d.slots[i].offset /\ f + z <= d.slots[i].offset BY <1>1, <1>2, <1>9, <2>2
  <2>4. QED BY <1>11, <2>2, <2>3 DEF Sits, Apart
<1>15. Laid(d.slots, t \cup {x}, f)
  <2>1. ASSUME NEW i \in t \cup {x} PROVE Sits(d.slots[i], f) BY <1>13, <1>14
  <2>2. ASSUME NEW i \in t \cup {x}, NEW j \in t \cup {x}, i # j PROVE Apart(d.slots[i], d.slots[j])
    <3>1. CASE i \in t /\ j \in t
      <4>1. Apart(c.slots[i], c.slots[j]) BY <1>12, <2>2, <3>1 DEF Laid
      <4>2. QED BY <1>10, <3>1, <4>1
    <3>2. CASE i \in t /\ j = x BY <1>14, <3>2
    <3>3. CASE i = x /\ j \in t BY <1>14, <3>3
    <3>4. QED BY <2>2, <3>1, <3>2, <3>3
  <2>3. QED BY <2>1, <2>2 DEF Laid
<1>16. f .. BlockSize - 1 \subseteq Taken(d.slots, t \cup {x})
  <2> SUFFICES ASSUME NEW p \in f .. BlockSize - 1 PROVE p \in Taken(d.slots, t \cup {x}) OBVIOUS
  <2>1. CASE p < c.free_ptr
    <3>1. p \in f .. f + z - 1 BY <1>0, <1>2, <1>9, <2>1
    <3>2. p \in Bytes(d.slots[x]) BY <1>11, <3>1 DEF Bytes
    <3>3. QED BY <3>2 DEF Taken
  <2>2. CASE ~(p < c.free_ptr)
    <3>1. p \in c.free_ptr .. BlockSize - 1 BY <1>0, <1>1, <1>9, <2>2
    <3>2. p \in Taken(c.slots, t) BY <3>1 DEF Good
    <3>3. PICK i \in t : p \in Bytes(c.slots[i]) BY <3>2 DEF Taken
    <3>4. p \in Bytes(d.slots[i]) BY <1>10, <3>3
    <3>5. QED BY <3>4 DEF Taken
  <2>3. QED BY <2>1, <2>2
<1>17. f + Cardinality(Taken(s, t \cup {x})) = BlockSize
  <2>1. Laid(s, t \cup {x}, 0)
    <3>1. \A i \in t \cup {x} : i \in UsedSlots(page) OBVIOUS
    <3>2. ASSUME NEW i \in t \cup {x} PROVE Sits(s[i], 0)
      <4>1. Sits(s[i], lo) BY <3>1 DEF Laid, s
      <4>2. QED BY <4>1 DEF Sits, Slots
    <3>3. QED BY <3>1, <3>2 DEF Laid, s
  <2>2. /\ Cardinality(Taken(s, t)) \in Nat
        /\ Cardinality(Taken(s, t \cup {x})) = Cardinality(Taken(s, t)) + z
    BY <1>1, <2>1, TakenMore DEF z
  <2>3. c.free_ptr + Cardinality(Taken(s, t)) = BlockSize BY DEF Good, s
  <2>4. QED BY <1>2, <1>9, <2>2, <2>3
<1>18. ASSUME NEW p \in 0 .. f - 1 PROVE d.data[p] = page.data[p]
  <2>1. p \in 0 .. BlockSize - 1 /\ p < f /\ p \in 0 .. c.free_ptr - 1 BY <1>0, <1>1, <1>2, <1>9
  <2>2. d.data[p] = c.data[p] BY <1>8, <2>1 DEF f
  <2>3. QED BY <2>1, <2>2 DEF Good
<1>19. Carried(page, d, x)
  <2>1. ASSUME NEW k \in 0 .. z - 1 PROVE d.data[f + k] = page.data[a + k]
    <3>1. a + k \in 0 .. c.free_ptr - 1 BY <1>1, <1>2
    <3>2. d.data[f + k] = c.data[a + k] BY <1>8 DEF f
    <3>3. QED BY <3>1, <3>2 DEF Good
  <2>2. QED BY <1>11, <2>1 DEF Carried, s, a, z
<1>20. ASSUME NEW i \in t PROVE Carried(page, d, i)
  <2>1. Carried(page, c, i) /\ d.slots[i] = c.slots[i] BY <1>10 DEF Good
  <2>2. Sits(c.slots[i], c.free_ptr) BY <1>12
  <2> DEFINE o == c.slots[i].offset
             y == page.slots[i].size
  <2>3. c.slots[i].size = y /\ o \in Nat /\ y \in Nat /\ c.free_ptr <= o /\ o + y <= BlockSize
    BY <2>1, <2>2 DEF Carried, Sits, Slots
  <2>4. ASSUME NEW k \in 0 .. y - 1 PROVE d.data[o + k] = page.data[page.slots[i].offset + k]
    <3>1. o + k \in 0 .. BlockSize - 1 /\ o + k >= c.free_ptr
      <4> HIDE DEF o, y
      <4> QED BY <1>0, <1>1, <2>3
    <3>2. d.data[o + k] = c.data[o + k] BY <1>8, <3>1
    <3>3. c.data[o + k] = page.data[page.slots[i].offset + k] BY <2>1 DEF Carried
    <3>4. QED BY <3>2, <3>3
  <2>5. QED BY <2>1, <2>3, <2>4 DEF Carried
<1>21. ASSUME NEW i \in DOMAIN page.slots \ (t \cup {x}) PROVE d.slots[i] = page.slots[i]
  <2>1. i \in 1 .. n /\ i \notin t /\ i # x BY <1>3 DEF s
  <2>2. QED BY <1>4, <1>8, <2>1 DEF s
<1>22. d \in PageType /\ d.free_fragmented = 0 /\ Len(d.slots) = Len(page.slots)
  BY <1>4, <1>8 DEF n, s
<1>23. QED BY <1>9, <1>15, <1>16, <1>17, <1>18, <1>19, <1>20, <1>21, <1>22 DEF Good, f, s

SlotsEnd(page) == HeaderSize + Len(page.slots) * SlotSize

\* What holds inside every page: PagesWellFormed, but for the last slot.
PageOk(page) ==
  /\ page \in PageType
  /\ SlotsEnd(page) <= page.free_ptr /\ page.free_ptr <= BlockSize
  /\ Laid(page.slots, UsedSlots(page), page.free_ptr)
  /\ page.free_fragmented =
       Cardinality((page.free_ptr .. BlockSize - 1) \ Taken(page.slots, UsedSlots(page)))

\* The first of some objects.
LEMMA FirstIs ==
  ASSUME NEW page, NEW s, s # {}, \A i \in s : page.slots[i].offset \in Nat
  PROVE  First(page, s) \in s /\ \A j \in s : page.slots[First(page, s)].offset <= page.slots[j].offset
<1> DEFINE T == { page.slots[i].offset : i \in s }
<1>1. T \in SUBSET Nat /\ T # {} OBVIOUS
<1>2. PICK m \in T : \A k \in T : m <= k
  <2> HIDE DEF T
  <2> QED BY <1>1, LeastNumber
<1>3. PICK i \in s : page.slots[i].offset = m BY <1>2
<1>4. \A j \in s : page.slots[i].offset <= page.slots[j].offset BY <1>2, <1>3
<1>5. QED BY <1>3, <1>4 DEF First

LEMMA SlotsOfPage ==
  ASSUME NEW page \in PageType
  PROVE  /\ page.slots \in Seq(Slots) /\ Len(page.slots) \in Nat
         /\ DOMAIN page.slots = 1 .. Len(page.slots)
         /\ \A i \in 1 .. Len(page.slots) : page.slots[i] \in Slots
         /\ UsedSlots(page) \subseteq 1 .. Len(page.slots) /\ IsFiniteSet(UsedSlots(page))
<1>1. page.slots \in Seq(Slots) BY DEF PageType
<1>2. Len(page.slots) \in Nat /\ DOMAIN page.slots = 1 .. Len(page.slots) BY <1>1
<1>3. UsedSlots(page) \subseteq 1 .. Len(page.slots) BY <1>2 DEF UsedSlots
<1>4. IsFiniteSet(1 .. Len(page.slots))
  <2>1. 1 \in Int /\ Len(page.slots) \in Int BY <1>2
  <2>2. QED BY <2>1, FS_Interval
<1>5. IsFiniteSet(UsedSlots(page)) BY <1>3, <1>4, FS_Subset
<1>6. QED BY <1>1, <1>2, <1>3, <1>5

\* No object has been shifted yet.
LEMMA StartIsGood ==
  ASSUME NEW page \in PageType
  PROVE  Good(page, {}, Start(page)) /\ Start(page).free_ptr = BlockSize
<1> DEFINE c == Start(page)
<1>0. BlockSize \in Nat BY HeapAssumption
<1>1. /\ c.slots = page.slots /\ c.free_ptr = BlockSize /\ c.free_fragmented = 0
      /\ c.data = page.data /\ c \in PageType
  BY <1>0 DEF Start, PageType
<1> HIDE DEF c
<1>2. Taken(page.slots, {}) = {} BY DEF Taken
<1>3. Cardinality(Taken(page.slots, {})) = 0 BY <1>2, FS_EmptySet
<1>4. Laid(c.slots, {}, c.free_ptr) BY DEF Laid
<1>5. c.free_ptr .. BlockSize - 1 \subseteq Taken(c.slots, {}) BY <1>0, <1>1
<1>6. c.free_ptr + Cardinality(Taken(page.slots, {})) = BlockSize BY <1>0, <1>1, <1>3
<1>7. QED BY <1>1, <1>4, <1>5, <1>6 DEF Good, c

\* All of them have.
LEMMA AllShifted ==
  ASSUME NEW page, PageOk(page)
  PROVE  \E c : /\ Good(page, UsedSlots(page), c) /\ page.free_ptr <= c.free_ptr
                /\ PageCompact(page) = Cut(c)
<1> DEFINE U == UsedSlots(page)
           Upper(s) == \A i \in s, j \in U : page.slots[i].offset <= page.slots[j].offset => j \in s
<1>1. /\ page \in PageType /\ Laid(page.slots, U, page.free_ptr) /\ page.free_ptr \in Nat
      /\ page.free_ptr <= BlockSize
  BY DEF PageOk, PageType
<1>2. IsFiniteSet(U) BY <1>1, SlotsOfPage
<1>3. \A i \in U : page.slots[i] \in Slots /\ page.slots[i].offset \in Nat
        /\ page.slots[i].size \in Nat /\ page.slots[i].size > 0
  BY <1>1 DEF Laid, Sits, Slots
<1>4. ASSUME NEW s \in SUBSET U, s # {}
      PROVE  First(page, s) \in s /\ \A j \in s : page.slots[First(page, s)].offset <= page.slots[j].offset
  <2>1. \A i \in s : page.slots[i].offset \in Nat BY <1>3
  <2>2. QED BY <1>4, <2>1, FirstIs
<1> HIDE DEF U
<1>5. PICK g : /\ g[{}] = Start(page)
               /\ \A s \in SUBSET U :
                    s # {} => g[s] = Shift(page, First(page, s), g[s \ {First(page, s)}])
               /\ PageCompact(page) = Cut(g[U])
  <2>1. \A s \in SUBSET UsedSlots(page) : s # {} => First(page, s) \in s BY <1>4 DEF U
  <2>2. QED BY <1>2, <2>1, CompactSteps DEF U
<1> DEFINE Done(s) == Good(page, s, g[s]) /\ page.free_ptr <= g[s].free_ptr
           T == { m \in Nat : \A s \in SUBSET U : Cardinality(s) = m /\ Upper(s) => Done(s) }
<1>6. 0 \in T
  <2> SUFFICES ASSUME NEW s \in SUBSET U, Cardinality(s) = 0 PROVE Done(s) OBVIOUS
  <2>1. IsFiniteSet(s) BY <1>2, FS_Subset
  <2>2. s = {} BY <2>1, FS_EmptySet
  <2>3. QED BY <1>1, <1>5, <2>2, StartIsGood
<1>7. ASSUME NEW m \in Nat, m \in T PROVE m + 1 \in T
  <2> SUFFICES ASSUME NEW s \in SUBSET U, Cardinality(s) = m + 1, Upper(s) PROVE Done(s) OBVIOUS
  <2>1. IsFiniteSet(s) BY <1>2, FS_Subset
  <2>2. s # {} BY FS_EmptySet
  <2> DEFINE x == First(page, s)
             t == s \ {x}
  <2>3. x \in s /\ \A j \in s : page.slots[x].offset <= page.slots[j].offset BY <1>4, <2>2
  <2>4. g[s] = Shift(page, x, g[t]) BY <1>5, <2>2
  <2> HIDE DEF x
  <2>5. Cardinality(t) = m BY <2>1, <2>3, OneLess
  <2>6. Upper(t)
    <3> SUFFICES ASSUME NEW i \in t, NEW j \in U, page.slots[i].offset <= page.slots[j].offset
                 PROVE  j \in t
      OBVIOUS
    <3>1. j \in s OBVIOUS
    <3>2. j # x
      <4>1. SUFFICES ASSUME j = x PROVE FALSE OBVIOUS
      <4>2. i \in U /\ x \in U /\ i # x BY <2>3
      <4>3. Apart(page.slots[i], page.slots[x]) BY <1>1, <4>2 DEF Laid
      <4>4. page.slots[i].offset <= page.slots[x].offset /\ page.slots[x].offset <= page.slots[i].offset
        BY <2>3, <4>1
      <4>5. QED BY <1>3, <4>2, <4>3, <4>4 DEF Apart
    <3>3. QED BY <3>1, <3>2
  <2>7. Done(t) BY <1>7, <2>5, <2>6
  <2>8. t \in SUBSET U /\ x \in U /\ x \notin t /\ t \cup {x} = s
        /\ \A i \in t : page.slots[x].offset <= page.slots[i].offset
    BY <2>3
  <2> HIDE DEF t, Upper
  <2>9. Good(page, t \cup {x}, g[s]) /\ page.free_ptr <= g[s].free_ptr
    BY <1>1, <2>4, <2>7, <2>8, ShiftStep DEF U
  <2>10. QED BY <2>8, <2>9
<1> HIDE DEF T
<1>8. Cardinality(U) \in T BY <1>2, <1>6, <1>7, Induction, FS_CardinalityType
<1>9. Upper(U) OBVIOUS
<1>10. Done(U) BY <1>8, <1>9 DEF T
<1>11. QED BY <1>5, <1>10 DEF U

\* The bytes of a page: those in front, those in the middle, and of those behind the free
\* pointer the fragmented ones and the objects'.
LEMMA PageBytes ==
  ASSUME NEW page, PageOk(page)
  PROVE  /\ page \in PageType /\ page.free_ptr \in Nat /\ page.free_fragmented \in Nat
         /\ SlotsEnd(page) \in Nat \ {0} /\ BlockSize \in Nat
         /\ SlotsEnd(page) <= page.free_ptr /\ page.free_ptr <= BlockSize
         /\ IsFiniteSet(Taken(page.slots, UsedSlots(page)))
         /\ Cardinality(Taken(page.slots, UsedSlots(page))) \in Nat
         /\ (page.free_ptr + page.free_fragmented)
              + Cardinality(Taken(page.slots, UsedSlots(page))) = BlockSize
<1> DEFINE T == Taken(page.slots, UsedSlots(page))
<1>1. /\ page \in PageType /\ page.free_ptr \in Nat /\ page.free_fragmented \in Nat
      /\ BlockSize \in Nat /\ HeaderSize \in Nat \ {0} /\ SlotSize \in Nat \ {0}
  BY HeapAssumption DEF PageOk, PageType
<1>2. SlotsEnd(page) \in Nat \ {0}
  <2>1. Len(page.slots) \in Nat BY <1>1, SlotsOfPage
  <2>2. Len(page.slots) * SlotSize \in Nat BY <1>1, <2>1
  <2>3. QED BY <1>1, <2>2 DEF SlotsEnd
<1>3. /\ SlotsEnd(page) <= page.free_ptr /\ page.free_ptr <= BlockSize
      /\ Laid(page.slots, UsedSlots(page), page.free_ptr)
      /\ page.free_fragmented = Cardinality((page.free_ptr .. BlockSize - 1) \ T)
  BY DEF PageOk
<1>4. PICK e \in Nat : page.free_ptr + e = BlockSize
  <2>1. BlockSize - page.free_ptr \in Nat /\ page.free_ptr + (BlockSize - page.free_ptr) = BlockSize
    BY <1>1, <1>3
  <2>2. QED BY <2>1
<1>5. /\ IsFiniteSet(T) /\ Cardinality(T) \in Nat /\ Cardinality(T) <= e
      /\ Cardinality((page.free_ptr .. BlockSize - 1) \ T) = e - Cardinality(T)
  BY <1>1, <1>3, <1>4, TakenBound
<1> HIDE DEF T
<1>6. QED BY <1>1, <1>2, <1>3, <1>4, <1>5 DEF T

Compacted(page, q) ==
  /\ PageOk(q) /\ Len(q.slots) = Len(page.slots) /\ UsedSlots(q) = UsedSlots(page)
  /\ q.free_fragmented = 0 /\ q.free_ptr = page.free_ptr + page.free_fragmented
  /\ \A i \in UsedSlots(page) : Carried(page, q, i)

\* page_compact keeps every object and leaves no fragmented bytes.
LEMMA CompactIs ==
  ASSUME NEW page, PageOk(page)
  PROVE  Compacted(page, PageCompact(page))
<1> DEFINE U == UsedSlots(page)
           q == PageCompact(page)
<1>1. PICK c : Good(page, U, c) /\ page.free_ptr <= c.free_ptr /\ q = Cut(c) BY AllShifted
<1>2. /\ page \in PageType /\ page.free_ptr \in Nat /\ page.free_fragmented \in Nat
      /\ SlotsEnd(page) \in Nat \ {0} /\ BlockSize \in Nat
      /\ SlotsEnd(page) <= page.free_ptr /\ page.free_ptr <= BlockSize
      /\ Cardinality(Taken(page.slots, U)) \in Nat
      /\ (page.free_ptr + page.free_fragmented) + Cardinality(Taken(page.slots, U)) = BlockSize
  BY PageBytes
<1>3. c \in PageType /\ c.free_fragmented = 0 /\ Len(c.slots) = Len(page.slots) /\ c.free_ptr \in Nat
  BY <1>1 DEF Good, PageType
<1>4. c.free_ptr = page.free_ptr + page.free_fragmented /\ c.free_ptr <= BlockSize
  <2>1. c.free_ptr + Cardinality(Taken(page.slots, U)) = BlockSize BY <1>1 DEF Good
  <2> HIDE DEF U
  <2>2. QED BY <1>2, <1>3, <2>1
<1> DEFINE cut == [p \in 0 .. BlockSize - 1 |-> IF p < c.free_ptr THEN None ELSE c.data[p]]
<1>5. q = [slots |-> c.slots, free_ptr |-> c.free_ptr, free_fragmented |-> 0, data |-> cut]
  BY <1>1, <1>3 DEF Cut, PageType
<1>6. cut \in [0 .. BlockSize - 1 -> Values \cup {None}] BY <1>3 DEF PageType
<1>7. \A p \in 0 .. BlockSize - 1 : p >= c.free_ptr => cut[p] = c.data[p] BY <1>3
<1> HIDE DEF cut, q
<1>8. q \in PageType BY <1>3, <1>5, <1>6 DEF PageType
<1>9. q.slots = c.slots /\ q.free_ptr = c.free_ptr /\ q.free_fragmented = 0 /\ q.data = cut BY <1>5
<1>10. /\ Laid(c.slots, U, c.free_ptr) /\ c.free_ptr .. BlockSize - 1 \subseteq Taken(c.slots, U)
       /\ \A i \in U : Carried(page, c, i)
       /\ \A i \in DOMAIN page.slots \ U : c.slots[i] = page.slots[i]
  BY <1>1 DEF Good
<1>11. DOMAIN page.slots = 1 .. Len(page.slots) /\ U \subseteq 1 .. Len(page.slots) BY <1>2, SlotsOfPage
<1>12. DOMAIN c.slots = 1 .. Len(page.slots) BY <1>3, SlotsOfPage
<1>13. UsedSlots(q) = U
  <2>1. ASSUME NEW i \in U PROVE Valid(c.slots[i])
    <3>1. Sits(c.slots[i], c.free_ptr) BY <1>10 DEF Laid
    <3>2. c.free_ptr <= c.slots[i].offset /\ c.slots[i].offset \in Nat BY <3>1 DEF Sits, Slots
    <3>3. c.free_ptr > 0 BY <1>1, <1>2, <1>3
    <3>4. QED BY <1>3, <3>2, <3>3 DEF Valid
  <2>2. ASSUME NEW i \in 1 .. Len(page.slots), i \notin U PROVE ~Valid(c.slots[i])
    <3>1. c.slots[i] = page.slots[i] BY <1>10, <1>11, <2>2
    <3>2. QED BY <1>11, <2>2, <3>1 DEF UsedSlots
  <2> HIDE DEF U
  <2>3. QED BY <1>9, <1>11, <1>12, <2>1, <2>2 DEF UsedSlots
<1>14. Cardinality((c.free_ptr .. BlockSize - 1) \ Taken(c.slots, U)) = 0
  <2>1. (c.free_ptr .. BlockSize - 1) \ Taken(c.slots, U) = {} BY <1>10
  <2>2. QED BY <2>1, FS_EmptySet
<1>15. SlotsEnd(q) <= c.free_ptr
  <2>1. SlotsEnd(q) = SlotsEnd(page) BY <1>3, <1>9 DEF SlotsEnd
  <2>2. QED BY <1>1, <1>2, <1>3, <2>1
<1>16. PageOk(q) BY <1>4, <1>8, <1>9, <1>10, <1>13, <1>14, <1>15 DEF PageOk
<1>17. ASSUME NEW i \in U PROVE Carried(page, q, i)
  <2>1. Sits(c.slots[i], c.free_ptr) /\ Carried(page, c, i) BY <1>10 DEF Laid
  <2> DEFINE o == c.slots[i].offset
             y == page.slots[i].size
  <2>2. c.slots[i].size = y /\ o \in Nat /\ y \in Nat /\ c.free_ptr <= o /\ o + y <= BlockSize
    BY <2>1 DEF Carried, Sits, Slots
  <2>3. ASSUME NEW k \in 0 .. y - 1 PROVE q.data[o + k] = page.data[page.slots[i].offset + k]
    <3>1. o + k \in 0 .. BlockSize - 1 /\ o + k >= c.free_ptr
      <4> HIDE DEF o, y
      <4> QED BY <1>2, <1>3, <2>2
    <3>2. q.data[o + k] = c.data[o + k] BY <1>7, <1>9, <3>1
    <3>3. c.data[o + k] = page.data[page.slots[i].offset + k] BY <2>1 DEF Carried
    <3>4. QED BY <3>2, <3>3
  <2>4. QED BY <1>9, <2>2, <2>3 DEF Carried
<1>18. QED BY <1>3, <1>4, <1>9, <1>13, <1>16, <1>17 DEF Compacted, q

-----------------------------------------------------------------------------
(* An object is put into a page.                                           *)

\* FreeBytes of a page.
LEMMA FreeBytesIs ==
  ASSUME NEW page, PageOk(page)
  PROVE  /\ UnfragmentedFreeBytes(page) = page.free_ptr - SlotsEnd(page)
         /\ FreeBytes(page) = (page.free_ptr + page.free_fragmented) - SlotsEnd(page)
         /\ UnfragmentedFreeBytes(page) \in Nat /\ FreeBytes(page) \in Nat
<1>1. /\ page.free_ptr \in Nat /\ page.free_fragmented \in Nat /\ SlotsEnd(page) \in Nat
      /\ SlotsEnd(page) <= page.free_ptr
  BY PageBytes
<1>2. UnfragmentedFreeBytes(page) = page.free_ptr - SlotsEnd(page)
  BY DEF UnfragmentedFreeBytes, SlotsEnd
<1>3. FreeBytes(page) = (page.free_ptr - SlotsEnd(page)) + page.free_fragmented
  BY <1>2 DEF FreeBytes
<1>4. QED BY <1>1, <1>2, <1>3

\* The page before an object is put into it, compacted if need be.
Room(page, need) == IF need > UnfragmentedFreeBytes(page) THEN PageCompact(page) ELSE page

SameObjects(page, q) ==
  /\ PageOk(q) /\ Len(q.slots) = Len(page.slots) /\ UsedSlots(q) = UsedSlots(page)
  /\ FreeBytes(q) = FreeBytes(page)
  /\ \A i \in UsedSlots(page) : Carried(page, q, i)

LEMMA RoomIs ==
  ASSUME NEW page, PageOk(page), NEW need \in Nat, need <= FreeBytes(page)
  PROVE  /\ SameObjects(page, Room(page, need))
         /\ need <= UnfragmentedFreeBytes(Room(page, need))
<1> DEFINE q == Room(page, need)
<1>1. CASE need > UnfragmentedFreeBytes(page)
  <2>1. q = PageCompact(page) BY <1>1 DEF Room
  <2>2. Compacted(page, q) BY <2>1, CompactIs
  <2> HIDE DEF q
  <2>3. /\ PageOk(q) /\ Len(q.slots) = Len(page.slots) /\ UsedSlots(q) = UsedSlots(page)
        /\ q.free_fragmented = 0 /\ q.free_ptr = page.free_ptr + page.free_fragmented
        /\ \A i \in UsedSlots(page) : Carried(page, q, i)
    BY <2>2 DEF Compacted
  <2>4. SlotsEnd(q) = SlotsEnd(page) BY <2>3 DEF SlotsEnd
  <2>5. /\ page.free_ptr \in Nat /\ page.free_fragmented \in Nat /\ SlotsEnd(page) \in Nat
    BY PageBytes
  <2>6. /\ FreeBytes(page) = (page.free_ptr + page.free_fragmented) - SlotsEnd(page)
        /\ FreeBytes(page) \in Nat
    BY FreeBytesIs
  <2>7. /\ UnfragmentedFreeBytes(q) = q.free_ptr - SlotsEnd(q)
        /\ FreeBytes(q) = (q.free_ptr + q.free_fragmented) - SlotsEnd(q)
    BY <2>3, FreeBytesIs
  <2>8. UnfragmentedFreeBytes(q) = FreeBytes(page) /\ FreeBytes(q) = FreeBytes(page)
    BY <2>3, <2>4, <2>5, <2>6, <2>7
  <2>9. QED BY <2>3, <2>8 DEF SameObjects, q
<1>2. CASE ~(need > UnfragmentedFreeBytes(page))
  <2>1. q = page BY <1>2 DEF Room
  <2>2. UnfragmentedFreeBytes(page) \in Nat BY FreeBytesIs
  <2>3. \A i \in UsedSlots(page) : Carried(page, page, i) BY DEF Carried
  <2>4. QED BY <1>2, <2>1, <2>2, <2>3 DEF SameObjects
<1>3. QED BY <1>1, <1>2

\* q is the page with one more object.
Allocates(page, q, i, size, v) ==
  /\ PageOk(q) /\ UsedSlots(q) = UsedSlots(page) \cup {i}
  /\ i \in 1 .. Len(q.slots) /\ i \notin UsedSlots(page)
  /\ q.slots[i].size = size /\ q.slots[i].offset = q.free_ptr
  /\ \A k \in 0 .. size - 1 : q.data[q.slots[i].offset + k] = v
  /\ \A j \in UsedSlots(page) : Carried(page, q, j)

\* The object is put in front of the others; its slot is not used, and n slots fit.
Puts(r, q, i, n, size, v) ==
  /\ size + (HeaderSize + n * SlotSize) <= r.free_ptr
  /\ q = [slots |-> q.slots, free_ptr |-> r.free_ptr - size, free_fragmented |-> r.free_fragmented,
          data |-> Moved(r.data, r.free_ptr - size, Filled(size, v))]
  /\ q.slots \in Seq(Slots) /\ Len(q.slots) = n
  /\ q.slots[i] = [offset |-> r.free_ptr - size, size |-> size]
  /\ \A j \in 1 .. n : j # i => j \in 1 .. Len(r.slots) /\ q.slots[j] = r.slots[j]

LEMMA PutIs ==
  ASSUME NEW r, PageOk(r), NEW size \in Nat \ {0}, NEW v \in Values, NEW n \in Nat, Len(r.slots) <= n,
         NEW i \in 1 .. n, i \notin UsedSlots(r), NEW q, Puts(r, q, i, n, size, v)
  PROVE  /\ Allocates(r, q, i, size, v)
         /\ FreeBytes(q) = ((r.free_ptr + r.free_fragmented) - size) - (HeaderSize + n * SlotSize)
<1> DEFINE at == r.free_ptr - size
           U == UsedSlots(r)
           D == U \cup {i}
<1>1. /\ r \in PageType /\ r.free_ptr \in Nat /\ r.free_fragmented \in Nat
      /\ BlockSize \in Nat /\ r.free_ptr <= BlockSize
      /\ IsFiniteSet(Taken(r.slots, U)) /\ Cardinality(Taken(r.slots, U)) \in Nat
      /\ (r.free_ptr + r.free_fragmented) + Cardinality(Taken(r.slots, U)) = BlockSize
  BY PageBytes
<1>2. PICK w \in Nat \ {0} : w = HeaderSize + n * SlotSize
  <2>1. HeaderSize \in Nat \ {0} /\ SlotSize \in Nat \ {0} BY HeapAssumption
  <2>2. n * SlotSize \in Nat BY <2>1
  <2>3. QED BY <2>1, <2>2
<1>3. at \in Nat /\ at > 0 /\ at + size = r.free_ptr /\ w <= at
  <2>1. size + w <= r.free_ptr BY <1>2 DEF Puts
  <2>2. QED BY <1>1, <2>1
<1>4. /\ r.slots \in Seq(Slots) /\ DOMAIN r.slots = 1 .. Len(r.slots) /\ U \subseteq 1 .. Len(r.slots)
      /\ Len(r.slots) \in Nat
  BY <1>1, SlotsOfPage
<1>5. /\ q = [slots |-> q.slots, free_ptr |-> at, free_fragmented |-> r.free_fragmented,
               data |-> Moved(r.data, at, Filled(size, v))]
      /\ q.slots \in Seq(Slots) /\ Len(q.slots) = n
      /\ q.slots[i] = [offset |-> at, size |-> size]
      /\ \A j \in 1 .. n : j # i => j \in 1 .. Len(r.slots) /\ q.slots[j] = r.slots[j]
  BY DEF Puts
<1> HIDE DEF at
<1>6. r.data \in [0 .. BlockSize - 1 -> Values \cup {None}] BY <1>1 DEF PageType
<1>7. Filled(size, v) \in [0 .. size - 1 -> Values \cup {None}]
      /\ \A k \in 0 .. size - 1 : Filled(size, v)[k] = v
  BY DEF Filled
<1>8. q.data = Moved(r.data, at, Filled(size, v)) /\ q.free_ptr = at /\ q.free_fragmented = r.free_fragmented
  BY <1>5
<1>9. /\ q.data \in [0 .. BlockSize - 1 -> Values \cup {None}]
      /\ \A k \in 0 .. size - 1 : q.data[at + k] = Filled(size, v)[k]
      /\ \A p \in 0 .. BlockSize - 1 : p < at \/ p >= at + size => q.data[p] = r.data[p]
  <2> DEFINE m == Moved(r.data, at, Filled(size, v))
  <2>1. /\ m \in [0 .. BlockSize - 1 -> Values \cup {None}]
        /\ \A k \in 0 .. size - 1 : at + size <= BlockSize => m[at + k] = Filled(size, v)[k]
        /\ \A p \in 0 .. BlockSize - 1 : p < at \/ p >= at + size => m[p] = r.data[p]
    <3> DEFINE g == Filled(size, v)
    <3>1. g \in [0 .. size - 1 -> Values \cup {None}] BY <1>7
    <3>2. at \in Nat /\ size \in Nat BY <1>3
    <3> HIDE DEF g, m
    <3> DEFINE f == r.data
    <3>3. f \in [0 .. BlockSize - 1 -> Values \cup {None}] BY <1>6
    <3> HIDE DEF f
    <3>4. /\ Moved(f, at, g) \in [0 .. BlockSize - 1 -> Values \cup {None}]
          /\ \A k \in 0 .. size - 1 : at + size <= BlockSize => Moved(f, at, g)[at + k] = g[k]
          /\ \A p \in 0 .. BlockSize - 1 : p < at \/ p >= at + size => Moved(f, at, g)[p] = f[p]
      <4>1. f \in Contents(BlockSize) /\ g \in Contents(size) BY <3>1, <3>3 DEF Contents
      <4>2. /\ Moved(f, at, g) \in Contents(BlockSize)
            /\ \A k \in 0 .. size - 1 : at + size <= BlockSize => Moved(f, at, g)[at + k] = g[k]
            /\ \A p \in 0 .. BlockSize - 1 : p < at \/ p >= at + size => Moved(f, at, g)[p] = f[p]
        BY ONLY <3>2, <4>1, MovedBytes, Z3
      <4>3. QED BY <4>2 DEF Contents
    <3>5. QED BY <3>4 DEF m, g, f
  <2> HIDE DEF m
  <2>2. at + size <= BlockSize BY <1>1, <1>3
  <2>3. q.data = m BY <1>8 DEF m
  <2>4. QED BY <2>1, <2>2, <2>3
<1>10. q \in PageType BY <1>1, <1>3, <1>5, <1>8, <1>9 DEF PageType
<1>11. DOMAIN q.slots = 1 .. n BY <1>5
<1>12. q.slots[i].offset = at /\ q.slots[i].size = size /\ q.slots[i] \in Slots /\ Valid(q.slots[i])
  BY <1>3, <1>5 DEF Slots, Valid
<1>13. ASSUME NEW j \in U PROVE j \in 1 .. n /\ j # i /\ q.slots[j] = r.slots[j]
  <2>1. j \in 1 .. n /\ j # i BY <1>4
  <2>2. QED BY <1>5, <2>1
<1>14. UsedSlots(q) = D
  <2>1. ASSUME NEW j \in 1 .. n, j # i PROVE Valid(q.slots[j]) <=> j \in U
    <3>1. j \in 1 .. Len(r.slots) /\ q.slots[j] = r.slots[j] BY <1>5, <2>1
    <3>2. QED BY <1>4, <3>1 DEF UsedSlots
  <2>2. \A j \in U : j \in 1 .. n /\ j # i BY <1>13
  <2> HIDE DEF U
  <2>3. QED BY <1>11, <1>12, <2>1, <2>2 DEF UsedSlots
<1>15. Laid(r.slots, U, r.free_ptr) BY DEF PageOk
<1>16. ASSUME NEW j \in U
       PROVE  /\ Sits(q.slots[j], at) /\ Apart(q.slots[j], q.slots[i]) /\ Apart(q.slots[i], q.slots[j])
              /\ Carried(r, q, j)
  <2>1. Sits(r.slots[j], r.free_ptr) /\ q.slots[j] = r.slots[j] BY <1>13, <1>15 DEF Laid
  <2> DEFINE o == q.slots[j].offset
             y == q.slots[j].size
  <2>2. /\ q.slots[j] \in Slots /\ y > 0 /\ r.free_ptr <= o /\ o + y <= BlockSize /\ o \in Nat /\ y \in Nat
        /\ r.slots[j].size = y /\ r.slots[j].offset = o
    BY <2>1 DEF Sits, Slots
  <2> HIDE DEF o, y
  <2>3. at <= o /\ at + size <= o BY <1>3, <2>2
  <2>4. ASSUME NEW k \in 0 .. y - 1 PROVE q.data[o + k] = r.data[o + k]
    <3>1. o + k \in 0 .. BlockSize - 1 /\ o + k >= at + size BY <1>1, <1>3, <2>2, <2>3
    <3>2. QED BY <1>9, <3>1
  <2>5. Carried(r, q, j) BY <2>2, <2>4 DEF Carried, o, y
  <2>6. QED BY <1>12, <2>2, <2>3, <2>5 DEF Sits, Apart, o, y
<1>17. Laid(q.slots, D, at)
  <2>1. Sits(q.slots[i], at) BY <1>1, <1>3, <1>12 DEF Sits
  <2>2. ASSUME NEW j \in D PROVE Sits(q.slots[j], at) BY <1>16, <2>1
  <2>3. ASSUME NEW j \in D, NEW k \in D, j # k PROVE Apart(q.slots[j], q.slots[k])
    <3>1. CASE j \in U /\ k \in U
      <4>1. Apart(r.slots[j], r.slots[k]) BY <1>15, <2>3, <3>1 DEF Laid
      <4>2. QED BY <1>13, <3>1, <4>1
    <3>2. CASE j \in U /\ k = i BY <1>16, <3>2
    <3>3. CASE j = i /\ k \in U BY <1>16, <3>3
    <3>4. QED BY <2>3, <3>1, <3>2, <3>3
  <2>4. QED BY <2>2, <2>3 DEF Laid
<1>18. Cardinality((at .. BlockSize - 1) \ Taken(q.slots, D)) = r.free_fragmented
  <2>1. Taken(q.slots, U) = Taken(r.slots, U) BY <1>13 DEF Taken
  <2>2. Laid(q.slots, U \cup {i}, 0)
    <3>1. ASSUME NEW j \in D PROVE Sits(q.slots[j], 0)
      <4>1. Sits(q.slots[j], at) BY <1>17 DEF Laid
      <4>2. QED BY <4>1 DEF Sits, Slots
    <3>2. QED BY <1>17, <3>1 DEF Laid
  <2>3. Cardinality(Taken(q.slots, D)) = Cardinality(Taken(r.slots, U)) + size
    <3>1. IsFiniteSet(Taken(q.slots, U)) BY <1>1, <2>1
    <3>2. Cardinality(Taken(q.slots, U \cup {i})) = Cardinality(Taken(q.slots, U)) + q.slots[i].size
      BY <2>2, <3>1, TakenMore
    <3>3. QED BY <1>12, <2>1, <3>2
  <2>4. PICK e \in Nat : at + e = BlockSize
    <3>1. BlockSize - at \in Nat /\ at + (BlockSize - at) = BlockSize BY <1>1, <1>3
    <3>2. QED BY <3>1
  <2> HIDE DEF D, U
  <2>5. Cardinality((at .. BlockSize - 1) \ Taken(q.slots, D)) = e - Cardinality(Taken(q.slots, D))
    <3>1. at \in Nat /\ Laid(q.slots, D, at) BY <1>3, <1>17
    <3>2. QED BY ONLY <2>4, <3>1, TakenBound
  <2>6. QED BY <1>1, <1>3, <2>3, <2>4, <2>5, SMTT(40)
<1>19. SlotsEnd(q) = w BY <1>2, <1>5 DEF SlotsEnd
<1>20. PageOk(q)
  <2>1. at <= BlockSize BY <1>1, <1>3
  <2> HIDE DEF D
  <2>2. QED BY <1>3, <1>8, <1>10, <1>14, <1>17, <1>18, <1>19, <2>1 DEF PageOk
<1>21. FreeBytes(q) = (q.free_ptr + q.free_fragmented) - SlotsEnd(q) BY <1>20, FreeBytesIs
<1>22. \A k \in 0 .. size - 1 : q.data[q.slots[i].offset + k] = v BY <1>7, <1>9, <1>12
<1>23. Allocates(r, q, i, size, v) BY <1>5, <1>8, <1>12, <1>14, <1>16, <1>20, <1>22 DEF Allocates
<1>24. FreeBytes(q) = ((r.free_ptr + r.free_fragmented) - size) - w
  BY <1>1, <1>3, <1>8, <1>19, <1>21
<1>25. QED BY <1>2, <1>23, <1>24

LEMMA CarriedOn ==
  ASSUME NEW p, NEW q, NEW r, NEW i, Carried(p, q, i), Carried(q, r, i)
  PROVE  Carried(p, r, i)
BY DEF Carried

\* What an object needs: its bytes, and a slot if there is none to be used again.
Need(page, size) == IF FreeSlots(page) # {} THEN size ELSE size + SlotSize

\* A number is the slot of no object, or free.
LEMMA FreeSlotsAre ==
  ASSUME NEW page \in PageType
  PROVE  FreeSlots(page) = (1 .. Len(page.slots)) \ UsedSlots(page)
<1>1. DOMAIN page.slots = 1 .. Len(page.slots) BY SlotsOfPage
<1>2. QED BY <1>1 DEF FreeSlots, UsedSlots

\* The slots of the page once the object has slot i.
NewSlots(r, i, s) ==
  [(IF i \in 1 .. Len(r.slots) THEN r.slots ELSE Append(r.slots, EmptySlot)) EXCEPT ![i] = s]

LEMMA NewSlotsAre ==
  ASSUME NEW r \in PageType, NEW i \in 1 .. Len(r.slots) + 1, NEW s \in Slots
  PROVE  /\ NewSlots(r, i, s) \in Seq(Slots)
         /\ Len(NewSlots(r, i, s)) = IF i \in 1 .. Len(r.slots) THEN Len(r.slots) ELSE Len(r.slots) + 1
         /\ NewSlots(r, i, s)[i] = s
         /\ \A j \in 1 .. Len(NewSlots(r, i, s)) :
              j # i => j \in 1 .. Len(r.slots) /\ NewSlots(r, i, s)[j] = r.slots[j]
<1> DEFINE n == Len(r.slots)
<1>1. r.slots \in Seq(Slots) /\ n \in Nat /\ EmptySlot \in Slots
  BY SlotsOfPage DEF EmptySlot, Slots
<1>2. CASE i \in 1 .. n
  <2>1. NewSlots(r, i, s) = [r.slots EXCEPT ![i] = s] BY <1>2 DEF NewSlots
  <2>2. QED BY <1>1, <1>2, <2>1
<1>3. CASE i = n + 1
  <2> DEFINE b == Append(r.slots, EmptySlot)
  <2>1. b \in Seq(Slots) /\ Len(b) = n + 1 /\ \A j \in 1 .. n : b[j] = r.slots[j]
    BY <1>1, AppendProperties
  <2>2. NewSlots(r, i, s) = [b EXCEPT ![i] = s] BY <1>1, <1>3 DEF NewSlots
  <2> HIDE DEF b, n
  <2>3. i \in 1 .. n + 1 /\ ~(i \in 1 .. n) /\ \A j \in 1 .. n + 1 : j # i => j \in 1 .. n BY <1>1, <1>3
  <2>4. QED BY <1>1, <1>3, <2>1, <2>2, <2>3 DEF n
<1>4. i \in 1 .. n \/ i = n + 1 BY <1>1
<1>5. QED BY <1>2, <1>3, <1>4

\* page_allocate puts the object where it meets no other, and takes what it needs.
LEMMA PageAllocateIs ==
  ASSUME NEW page, PageOk(page), NEW size \in Nat \ {0}, NEW v \in Values,
         Need(page, size) <= FreeBytes(page), NEW a, a = PageAllocate(page, size, v)
  PROVE  /\ Allocates(page, a.page, a.slot, size, v)
         /\ FreeBytes(a.page) = FreeBytes(page) - Need(page, size)
         /\ Len(a.page.slots) = Len(page.slots) + (IF FreeSlots(page) # {} THEN 0 ELSE 1)
<1> DEFINE need == Need(page, size)
           r == Room(page, need)
           reuse == FreeSlots(page) # {}
           i == IF reuse THEN CHOOSE k \in FreeSlots(page) : \A j \in FreeSlots(page) : k <= j
                ELSE Len(page.slots) + 1
           at == r.free_ptr - size
           slots == IF reuse THEN r.slots ELSE Append(r.slots, EmptySlot)
           q == [r EXCEPT !.free_ptr = at, !.slots = [slots EXCEPT ![i] = [offset |-> at, size |-> size]],
                          !.data = Moved(@, at, Filled(size, v))]
<1>1. a = [slot |-> i, page |-> q] BY DEF PageAllocate, Room, Need
<1>2. a.slot = i /\ a.page = q BY <1>1
<1> HIDE DEF q
<1>3. HeaderSize \in Nat \ {0} /\ SlotSize \in Nat \ {0} BY HeapAssumption
<1>4. need \in Nat BY <1>3 DEF Need
<1> HIDE DEF need
<1>5. SameObjects(page, r) /\ need <= UnfragmentedFreeBytes(r) BY <1>4, RoomIs DEF need
<1> HIDE DEF r
<1>6. /\ PageOk(r) /\ Len(r.slots) = Len(page.slots) /\ UsedSlots(r) = UsedSlots(page)
      /\ FreeBytes(r) = FreeBytes(page)
      /\ \A j \in UsedSlots(page) : Carried(page, r, j)
  BY <1>5 DEF SameObjects
<1>7. /\ r \in PageType /\ r.free_ptr \in Nat /\ r.free_fragmented \in Nat /\ page \in PageType
      /\ SlotsEnd(r) \in Nat
  BY <1>6, PageBytes
<1> DEFINE n == Len(page.slots)
<1>8. n \in Nat /\ UsedSlots(page) \subseteq 1 .. n BY <1>7, SlotsOfPage
<1>9. FreeSlots(page) = (1 .. n) \ UsedSlots(page) BY <1>7, FreeSlotsAre
<1>10. i \in 1 .. n + 1 /\ i \notin UsedSlots(page) /\ (i \in 1 .. n <=> reuse)
  <2>1. CASE reuse
    <3>1. FreeSlots(page) \in SUBSET Nat BY <1>9
    <3>2. \E k \in FreeSlots(page) : \A j \in FreeSlots(page) : k <= j BY <2>1, <3>1, LeastNumber
    <3>3. i \in FreeSlots(page) BY <2>1, <3>2
    <3> HIDE DEF i
    <3>4. QED BY <1>8, <1>9, <2>1, <3>3
  <2>2. CASE ~reuse
    <3>1. i = n + 1 BY <2>2
    <3> HIDE DEF i
    <3>2. QED BY <1>8, <2>2, <3>1
  <2>3. QED BY <2>1, <2>2
<1> HIDE DEF i
<1> DEFINE m == n + (IF reuse THEN 0 ELSE 1)
<1>11. m \in Nat /\ n <= m /\ i \in 1 .. m /\ m = (IF i \in 1 .. n THEN n ELSE n + 1)
  <2>1. CASE reuse
    <3>1. m = n /\ i \in 1 .. n BY <1>8, <1>10, <2>1
    <3> HIDE DEF m, n
    <3>2. QED BY <1>8, <3>1
  <2>2. CASE ~reuse
    <3>1. m = n + 1 /\ ~(i \in 1 .. n) BY <1>10, <2>2
    <3> HIDE DEF m, n
    <3>2. QED BY <1>8, <1>10, <3>1
  <2>3. QED BY <2>1, <2>2
<1>12. need = size + (IF reuse THEN 0 ELSE SlotSize) BY <1>3 DEF Need, need
<1>13. PICK w \in Nat : w = HeaderSize + m * SlotSize /\ w = SlotsEnd(r) + (IF reuse THEN 0 ELSE SlotSize)
  <2>1. SlotsEnd(r) = HeaderSize + n * SlotSize BY <1>6 DEF SlotsEnd
  <2>2. CASE reuse
    <3>1. m = n BY <1>8, <2>2
    <3>2. QED BY <1>7, <2>1, <2>2, <3>1
  <2>3. CASE ~reuse
    <3>1. m = n + 1 BY <2>3
    <3>2. (n + 1) * SlotSize = n * SlotSize + SlotSize BY <1>3, <1>8
    <3>3. n * SlotSize \in Nat BY <1>3, <1>8
    <3>4. QED BY <1>3, <2>1, <2>3, <3>1, <3>2, <3>3
  <2>4. QED BY <2>2, <2>3
<1>14. UnfragmentedFreeBytes(r) = r.free_ptr - SlotsEnd(r)
       /\ FreeBytes(r) = (r.free_ptr + r.free_fragmented) - SlotsEnd(r)
  BY <1>6, FreeBytesIs
<1>15. size + w <= r.free_ptr
  <2>1. size + w = need + SlotsEnd(r)
    <3>1. CASE reuse BY <1>7, <1>12, <1>13, <3>1
    <3>2. CASE ~reuse BY <1>3, <1>7, <1>12, <1>13, <3>2
    <3>3. QED BY <3>1, <3>2
  <2>2. QED BY <1>4, <1>5, <1>7, <1>14, <2>1
<1>16. at \in Nat BY <1>7, <1>15
<1> DEFINE s == [offset |-> at, size |-> size]
           ns == NewSlots(r, i, s)
<1>17. s \in Slots BY <1>16 DEF Slots
<1>18. q = [slots |-> ns, free_ptr |-> at, free_fragmented |-> r.free_fragmented,
            data |-> Moved(r.data, at, Filled(size, v))]
  <2>1. ns = [slots EXCEPT ![i] = s] BY <1>6, <1>10 DEF NewSlots
  <2> HIDE DEF ns, slots
  <2>2. q = [r EXCEPT !.free_ptr = at, !.slots = ns, !.data = Moved(@, at, Filled(size, v))]
    BY <2>1 DEF q
  <2> DEFINE e == Moved(r.data, at, Filled(size, v))
  <2>3. q = [r EXCEPT !.free_ptr = at, !.slots = ns, !.data = e] BY <2>2
  <2> HIDE DEF e, at
  <2>4. QED BY <1>7, <2>3 DEF PageType, e
<1>19. /\ ns \in Seq(Slots) /\ Len(ns) = m /\ ns[i] = s
       /\ \A j \in 1 .. m : j # i => j \in 1 .. Len(r.slots) /\ ns[j] = r.slots[j]
  <2> HIDE DEF s, m
  <2>1. i \in 1 .. Len(r.slots) + 1 BY <1>6, <1>10
  <2>2. /\ ns \in Seq(Slots) /\ Len(ns) = (IF i \in 1 .. n THEN n ELSE n + 1) /\ ns[i] = s
        /\ \A j \in 1 .. Len(ns) : j # i => j \in 1 .. Len(r.slots) /\ ns[j] = r.slots[j]
    BY <1>6, <1>7, <1>17, <2>1, NewSlotsAre, SMTT(40)
  <2>3. Len(ns) = m BY <1>11, <2>2
  <2>4. QED BY <2>2, <2>3
<1> HIDE DEF ns
<1>20. q.slots = ns BY <1>18
<1>21. Puts(r, q, i, m, size, v) BY <1>13, <1>15, <1>18, <1>19, <1>20 DEF Puts
<1> HIDE DEF s, m, at
<1>22. /\ Allocates(r, q, i, size, v)
       /\ FreeBytes(q) = ((r.free_ptr + r.free_fragmented) - size) - (HeaderSize + m * SlotSize)
  BY <1>6, <1>10, <1>11, <1>21, PutIs
<1>23. Allocates(page, q, i, size, v)
  <2>1. ASSUME NEW j \in UsedSlots(page) PROVE Carried(page, q, j)
    <3>1. Carried(page, r, j) /\ Carried(r, q, j) BY <1>6, <1>22 DEF Allocates
    <3>2. QED BY <3>1, CarriedOn
  <2>2. QED BY <1>6, <1>22, <2>1 DEF Allocates
<1>24. FreeBytes(q) = FreeBytes(page) - need
  <2>1. FreeBytes(q) = ((r.free_ptr + r.free_fragmented) - size) - w BY <1>13, <1>22
  <2>2. size + w = need + SlotsEnd(r)
    <3>1. CASE reuse BY <1>7, <1>12, <1>13, <3>1
    <3>2. CASE ~reuse BY <1>3, <1>7, <1>12, <1>13, <3>2
    <3>3. QED BY <3>1, <3>2
  <2>3. QED BY <1>4, <1>6, <1>7, <1>14, <2>1, <2>2, SMTT(40)
<1>25. Len(q.slots) = m BY <1>19, <1>20
<1>26. QED BY <1>2, <1>23, <1>24, <1>25 DEF need, m, reuse

-----------------------------------------------------------------------------
(* An object is taken out of a page.                                       *)

\* There are m slots up to the last one that is used.
LEMMA ReclaimIs ==
  ASSUME NEW sl \in Seq(Slots)
  PROVE  \E m \in 0 .. Len(sl) : /\ ReclaimSlots(sl) = SubSeq(sl, 1, m)
                                 /\ \A j \in 1 .. Len(sl) : Valid(sl[j]) => j <= m
                                 /\ m # 0 => Valid(sl[m])
<1> DEFINE n == Len(sl)
           S == { i \in DOMAIN sl : \E j \in DOMAIN sl : j >= i /\ Valid(sl[j]) }
           N == { n - j : j \in { k \in 1 .. n : Valid(sl[k]) } }
<1>1. n \in Nat /\ DOMAIN sl = 1 .. n OBVIOUS
<1> HIDE DEF n
<1>2. CASE \A j \in 1 .. n : ~Valid(sl[j])
  <2>1. S = {} BY <1>1, <1>2
  <2>2. Cardinality(S) = 0 BY <2>1, FS_EmptySet
  <2>3. ReclaimSlots(sl) = SubSeq(sl, 1, 0) BY <2>2 DEF ReclaimSlots
  <2>4. QED BY <1>1, <1>2, <2>3 DEF n
<1>3. CASE \E j \in 1 .. n : Valid(sl[j])
  <2>1. N \in SUBSET Nat /\ N # {} BY <1>1, <1>3
  <2>2. PICK d \in N : \A k \in N : d <= k
    <3> HIDE DEF N
    <3> QED BY <2>1, LeastNumber
  <2>3. PICK m \in 1 .. n : Valid(sl[m]) /\ d = n - m BY <2>2
  <2>4. ASSUME NEW j \in 1 .. n, Valid(sl[j]) PROVE j <= m
    <3>1. n - j \in N BY <2>4
    <3>2. n - m <= n - j BY <2>2, <2>3, <3>1
    <3>3. QED BY <1>1, <3>2
  <2>5. S = 1 .. m
    <3>1. ASSUME NEW i \in S PROVE i \in 1 .. m
      <4>1. PICK j \in 1 .. n : j >= i /\ Valid(sl[j]) BY <1>1
      <4>2. j <= m /\ i \in 1 .. n BY <1>1, <2>4, <4>1
      <4>3. QED BY <1>1, <4>1, <4>2
    <3>2. ASSUME NEW i \in 1 .. m PROVE i \in S
      <4>1. i \in 1 .. n /\ m >= i BY <1>1
      <4>2. QED BY <1>1, <2>3, <4>1
    <3> HIDE DEF S
    <3>3. QED BY <3>1, <3>2
  <2>6. Cardinality(S) = m
    <3>1. PICK one \in Nat : one = 1 OBVIOUS
    <3>2. Cardinality(one .. one + m - 1) = m BY <1>1, Interval
    <3>3. one .. one + m - 1 = 1 .. m BY <1>1, <3>1
    <3>4. QED BY <2>5, <3>2, <3>3
  <2>7. ReclaimSlots(sl) = SubSeq(sl, 1, m) BY <2>6 DEF ReclaimSlots
  <2>8. m \in 0 .. n BY <1>1
  <2>9. QED BY <2>3, <2>4, <2>7, <2>8 DEF n
<1>4. QED BY <1>2, <1>3

\* A page as the heap keeps it: no free slot is at the end of the array.
Closed(page) == page.slots # << >> /\ Valid(Last(page.slots))

Frees(page, q, i) ==
  /\ PageOk(q) /\ UsedSlots(q) = UsedSlots(page) \ {i}
  /\ q.slots = << >> \/ Closed(q)
  /\ FreeBytes(q) + SlotsEnd(q) = (FreeBytes(page) + SlotsEnd(page)) + page.slots[i].size
  /\ \A j \in UsedSlots(page) \ {i} : Carried(page, q, j)

\* The slots of a page without the object of slot i.
LEMMA SlotsLeft ==
  ASSUME NEW page \in PageType, NEW i \in UsedSlots(page),
         NEW sl, sl = ReclaimSlots([page.slots EXCEPT ![i] = EmptySlot])
  PROVE  /\ sl \in Seq(Slots) /\ Len(sl) <= Len(page.slots)
         /\ { j \in 1 .. Len(sl) : Valid(sl[j]) } = UsedSlots(page) \ {i}
         /\ \A j \in UsedSlots(page) \ {i} : sl[j] = page.slots[j]
         /\ sl = << >> \/ Valid(Last(sl))
<1> DEFINE n == Len(page.slots)
           e == [page.slots EXCEPT ![i] = EmptySlot]
<1>1. /\ page.slots \in Seq(Slots) /\ n \in Nat /\ DOMAIN page.slots = 1 .. n
      /\ UsedSlots(page) \subseteq 1 .. n
  BY SlotsOfPage
<1>2. EmptySlot \in Slots /\ ~Valid(EmptySlot) BY DEF EmptySlot, Slots, Valid
<1>3. /\ e \in Seq(Slots) /\ Len(e) = n /\ e[i] = EmptySlot
      /\ \A j \in 1 .. n : j # i => e[j] = page.slots[j]
  BY <1>1, <1>2
<1> HIDE DEF e
<1>4. PICK m \in 0 .. n : /\ sl = SubSeq(e, 1, m)
                          /\ \A j \in 1 .. n : Valid(e[j]) => j <= m
                          /\ m # 0 => Valid(e[m])
  BY <1>3, ReclaimIs DEF e
<1> HIDE DEF n
<1>5. sl \in Seq(Slots) /\ Len(sl) = m /\ \A j \in 1 .. m : sl[j] = e[j]
  <2>1. m \in Nat /\ m <= n /\ \A j \in 1 .. m : j \in 1 .. n BY <1>1
  <2>2. sl = [j \in 1 .. m |-> e[j]]
    <3>1. SubSeq(e, 1, m) = [j \in 1 .. m |-> e[j]] BY <1>3, <2>1
    <3>2. QED BY <1>4, <3>1
  <2>3. \A j \in 1 .. m : e[j] \in Slots BY <1>3, <2>1
  <2>4. QED BY <2>1, <2>2, <2>3
<1>6. ASSUME NEW j \in UsedSlots(page) \ {i} PROVE j \in 1 .. m /\ sl[j] = page.slots[j] /\ Valid(sl[j])
  <2>1. j \in 1 .. n /\ e[j] = page.slots[j] /\ Valid(page.slots[j]) BY <1>1, <1>3 DEF UsedSlots
  <2>2. j <= m BY <1>4, <2>1
  <2>3. j \in 1 .. m BY <1>1, <2>1, <2>2
  <2>4. QED BY <1>5, <2>1, <2>3
<1>7. ASSUME NEW j \in 1 .. m, Valid(sl[j]) PROVE j \in UsedSlots(page) \ {i}
  <2>1. j \in 1 .. n /\ sl[j] = e[j] BY <1>1, <1>5
  <2>2. j # i BY <1>2, <1>3, <1>7, <2>1
  <2>3. QED BY <1>1, <1>3, <1>7, <2>1, <2>2 DEF UsedSlots
<1>8. ASSUME sl # << >> PROVE Valid(Last(sl))
  <2>1. m # 0 BY <1>5, <1>8
  <2>2. m \in 1 .. m BY <1>1, <2>1
  <2>3. QED BY <1>4, <1>5, <2>1, <2>2 DEF Last
<1>9. Len(sl) <= n BY <1>1, <1>5
<1>10. QED BY <1>5, <1>6, <1>7, <1>8, <1>9 DEF n

\* page_free leaves the other objects where they are.
LEMMA PageFreeIs ==
  ASSUME NEW page, PageOk(page), NEW i \in UsedSlots(page), NEW q, q = PageFree(page, i)
  PROVE  Frees(page, q, i)
<1> DEFINE s == page.slots[i]
           z == s.size
           U == UsedSlots(page)
           D == U \ {i}
           f == q.free_ptr
           sl == ReclaimSlots([page.slots EXCEPT ![i] = EmptySlot])
<1>1. /\ page \in PageType /\ page.free_ptr \in Nat /\ page.free_fragmented \in Nat
      /\ BlockSize \in Nat /\ page.free_ptr <= BlockSize
      /\ SlotsEnd(page) \in Nat /\ SlotsEnd(page) <= page.free_ptr
      /\ (page.free_ptr + page.free_fragmented) + Cardinality(Taken(page.slots, U)) = BlockSize
      /\ IsFiniteSet(Taken(page.slots, U)) /\ Cardinality(Taken(page.slots, U)) \in Nat
  BY PageBytes
<1>2. Laid(page.slots, U, page.free_ptr) /\ Sits(s, page.free_ptr) BY DEF PageOk, Laid
<1>3. /\ s \in Slots /\ z \in Nat /\ z > 0 /\ s.offset \in Nat /\ page.free_ptr <= s.offset
      /\ s.offset + z <= BlockSize
  BY <1>2 DEF Sits, Slots
<1>4. q = [slots |-> sl,
           free_ptr |-> page.free_ptr + (IF s.offset = page.free_ptr THEN z ELSE 0),
           free_fragmented |-> page.free_fragmented + (IF s.offset = page.free_ptr THEN 0 ELSE z),
           data |-> Moved(page.data, s.offset, Filled(z, None))]
  BY DEF PageFree
<1>5. /\ sl \in Seq(Slots) /\ Len(sl) <= Len(page.slots)
      /\ { j \in 1 .. Len(sl) : Valid(sl[j]) } = D
      /\ \A j \in D : sl[j] = page.slots[j]
      /\ sl = << >> \/ Valid(Last(sl))
  BY <1>1, SlotsLeft
<1> HIDE DEF sl
<1>6. /\ q.slots = sl /\ f \in Nat /\ q.free_fragmented \in Nat
      /\ q.data = Moved(page.data, s.offset, Filled(z, None))
      /\ f + q.free_fragmented = (page.free_ptr + page.free_fragmented) + z
      /\ page.free_ptr <= f /\ f <= BlockSize
      /\ s.offset = page.free_ptr => f = s.offset + z
      /\ s.offset # page.free_ptr => f = page.free_ptr
  <2>1. q.slots = sl /\ q.data = Moved(page.data, s.offset, Filled(z, None)) BY <1>4
  <2>2. CASE s.offset = page.free_ptr
    <3>1. f = page.free_ptr + z /\ q.free_fragmented = page.free_fragmented + 0 BY <1>4, <2>2
    <3> HIDE DEF s, z, f
    <3>2. QED BY <1>1, <1>3, <2>1, <2>2, <3>1
  <2>3. CASE s.offset # page.free_ptr
    <3>1. f = page.free_ptr + 0 /\ q.free_fragmented = page.free_fragmented + z BY <1>4, <2>3
    <3> HIDE DEF s, z, f
    <3>2. QED BY <1>1, <1>3, <2>1, <2>3, <3>1
  <2>4. QED BY <2>2, <2>3
<1>7. DOMAIN sl = 1 .. Len(sl) /\ Len(sl) \in Nat BY <1>5
<1>8. UsedSlots(q) = D BY <1>5, <1>6, <1>7 DEF UsedSlots
<1>9. page.data \in [0 .. BlockSize - 1 -> Values \cup {None}] BY <1>1 DEF PageType
<1>10. Filled(z, None) \in [0 .. z - 1 -> Values \cup {None}] BY DEF Filled
<1>11. /\ q.data \in [0 .. BlockSize - 1 -> Values \cup {None}]
       /\ \A p \in 0 .. BlockSize - 1 : p < s.offset \/ p >= s.offset + z => q.data[p] = page.data[p]
  <2> DEFINE m == Moved(page.data, s.offset, Filled(z, None))
             o == s.offset
  <2> HIDE DEF z, o
  <2>1. /\ m \in [0 .. BlockSize - 1 -> Values \cup {None}]
        /\ \A p \in 0 .. BlockSize - 1 : p < o \/ p >= o + z => m[p] = page.data[p]
    BY <1>3, <1>9, <1>10, MovedIs DEF o
  <2>2. q.data = m BY <1>6
  <2> HIDE DEF m
  <2>3. QED BY <2>1, <2>2 DEF o
<1>12. q \in PageType
  <2>1. q = [slots |-> q.slots, free_ptr |-> q.free_ptr, free_fragmented |-> q.free_fragmented,
             data |-> q.data]
    BY <1>4
  <2>2. QED BY <1>5, <1>6, <1>11, <2>1 DEF PageType
<1> HIDE DEF s, z, f, U
<1>13. ASSUME NEW j \in D
       PROVE  Sits(q.slots[j], f) /\ q.slots[j] = page.slots[j] /\ Carried(page, q, j)
  <2>1. q.slots[j] = page.slots[j] BY <1>5, <1>6
  <2>2. Sits(page.slots[j], page.free_ptr) /\ Apart(page.slots[j], s)
    <3>1. j \in U /\ i \in U /\ j # i BY DEF U
    <3>2. QED BY <1>2, <3>1 DEF Laid, s
  <2> DEFINE o == page.slots[j].offset
             y == page.slots[j].size
  <2>3. o \in Nat /\ y \in Nat /\ y > 0 /\ page.free_ptr <= o /\ o + y <= BlockSize
        /\ page.slots[j] \in Slots
    BY <2>2 DEF Sits, Slots
  <2>4. o + y <= s.offset \/ s.offset + z <= o BY <2>2 DEF Apart, z
  <2> HIDE DEF o, y
  <2>5. f <= o BY <1>1, <1>3, <1>6, <2>3, <2>4
  <2>6. ASSUME NEW k \in 0 .. y - 1 PROVE q.data[o + k] = page.data[o + k]
    <3>1. o + k \in 0 .. BlockSize - 1 /\ (o + k < s.offset \/ o + k >= s.offset + z)
      BY <1>1, <1>3, <2>3, <2>4
    <3>2. QED BY <1>11, <3>1
  <2>7. QED BY <2>1, <2>3, <2>5, <2>6 DEF Sits, Carried, o, y
<1>14. Laid(q.slots, D, f)
  <2>1. ASSUME NEW j \in D, NEW k \in D, j # k PROVE Apart(q.slots[j], q.slots[k])
    <3>1. j \in U /\ k \in U OBVIOUS
    <3>2. Apart(page.slots[j], page.slots[k]) BY <1>2, <2>1, <3>1 DEF Laid
    <3>3. QED BY <1>13, <3>2
  <2> HIDE DEF D
  <2>2. QED BY <1>13, <2>1 DEF Laid
<1>15. Cardinality((f .. BlockSize - 1) \ Taken(q.slots, D)) = q.free_fragmented
  <2>1. Taken(q.slots, D) = Taken(page.slots, D) BY <1>13 DEF Taken
  <2>2. D \cup {i} = U /\ i \notin D BY DEF U
  <2>3. PICK e \in Nat : f + e = BlockSize
    <3>1. BlockSize - f \in Nat /\ f + (BlockSize - f) = BlockSize BY <1>1, <1>6
    <3>2. QED BY <3>1
  <2> HIDE DEF D
  <2>4. /\ Cardinality((f .. BlockSize - 1) \ Taken(q.slots, D)) = e - Cardinality(Taken(q.slots, D))
        /\ IsFiniteSet(Taken(q.slots, D)) /\ Cardinality(Taken(q.slots, D)) \in Nat
    <3>1. f \in Nat BY <1>6
    <3>2. QED BY ONLY <1>14, <2>3, <3>1, TakenBound
  <2>5. Laid(page.slots, D \cup {i}, 0)
    <3>1. ASSUME NEW j \in U PROVE Sits(page.slots[j], 0)
      <4>1. Sits(page.slots[j], page.free_ptr) BY <1>2 DEF Laid
      <4>2. QED BY <4>1 DEF Sits, Slots
    <3>2. QED BY <1>2, <2>2, <3>1 DEF Laid
  <2>6. Cardinality(Taken(page.slots, U)) = Cardinality(Taken(page.slots, D)) + z
    <3>1. IsFiniteSet(Taken(page.slots, D)) BY <2>1, <2>4
    <3>2. Cardinality(Taken(page.slots, D \cup {i})) = Cardinality(Taken(page.slots, D)) + page.slots[i].size
      BY <2>2, <2>5, <3>1, TakenMore
    <3>3. QED BY <2>2, <3>2 DEF z, s
  <2>7. QED BY <1>1, <1>3, <1>6, <2>1, <2>3, <2>4, <2>6
<1>16. SlotsEnd(q) <= f /\ SlotsEnd(q) \in Nat
  <2>1. HeaderSize \in Nat /\ SlotSize \in Nat BY HeapAssumption
  <2>2. PICK l \in Nat, n \in Nat : l = Len(sl) /\ n = Len(page.slots) /\ l <= n
    <3>1. Len(page.slots) \in Nat BY <1>1, SlotsOfPage
    <3>2. QED BY <1>5, <1>7, <3>1
  <2>3. l * SlotSize <= n * SlotSize /\ l * SlotSize \in Nat /\ n * SlotSize \in Nat BY <2>1, <2>2
  <2>4. SlotsEnd(q) = HeaderSize + l * SlotSize /\ SlotsEnd(page) = HeaderSize + n * SlotSize
    BY <1>6, <2>2 DEF SlotsEnd
  <2>5. SlotsEnd(q) <= SlotsEnd(page) /\ SlotsEnd(q) \in Nat BY <2>1, <2>3, <2>4
  <2>6. QED BY <1>1, <1>6, <2>5
<1>17. PageOk(q)
  <2> HIDE DEF D
  <2> QED BY <1>6, <1>8, <1>12, <1>14, <1>15, <1>16 DEF PageOk, f
<1>18. FreeBytes(q) + SlotsEnd(q) = (FreeBytes(page) + SlotsEnd(page)) + z
  <2>1. FreeBytes(q) = (f + q.free_fragmented) - SlotsEnd(q) BY <1>17, FreeBytesIs DEF f
  <2>2. FreeBytes(page) = (page.free_ptr + page.free_fragmented) - SlotsEnd(page) BY FreeBytesIs
  <2>3. QED BY <1>1, <1>3, <1>6, <1>16, <2>1, <2>2
<1>19. q.slots = << >> \/ Closed(q) BY <1>5, <1>6 DEF Closed
<1>20. QED BY <1>8, <1>13, <1>17, <1>18, <1>19 DEF Frees, z, s, U

-----------------------------------------------------------------------------
(* Pages as the free map sees them.                                        *)

\* The last slot is used.
LEMMA ClosedIs ==
  ASSUME NEW page \in PageType
  PROVE  Closed(page) <=> Len(page.slots) \in UsedSlots(page)
<1>1. /\ page.slots \in Seq(Slots) /\ Len(page.slots) \in Nat
      /\ DOMAIN page.slots = 1 .. Len(page.slots) /\ UsedSlots(page) \subseteq 1 .. Len(page.slots)
  BY SlotsOfPage
<1>2. page.slots = << >> <=> Len(page.slots) = 0 BY <1>1
<1>3. Last(page.slots) = page.slots[Len(page.slots)] BY DEF Last
<1>4. Len(page.slots) \in 1 .. Len(page.slots) <=> Len(page.slots) # 0 BY <1>1
<1>5. QED BY <1>1, <1>2, <1>3, <1>4 DEF Closed, UsedSlots

\* EffectiveFreeBytes is what can be allocated.
LEMMA EffectiveIs ==
  ASSUME NEW page, PageOk(page)
  PROVE  /\ EffectiveFreeBytes(page) \in Nat
         /\ EffectiveFreeBytes(page) <= FreeBytes(page)
         /\ \A size \in Nat \ {0} : EffectiveFreeBytes(page) >= size =>
              /\ Need(page, size) <= FreeBytes(page)
              /\ FreeBytes(page) - Need(page, size) = EffectiveFreeBytes(page) - size
<1>1. FreeBytes(page) \in Nat BY FreeBytesIs
<1>2. SlotSize \in Nat \ {0} BY HeapAssumption
<1>3. CASE FreeSlots(page) # {}
  <2>1. EffectiveFreeBytes(page) = FreeBytes(page) BY <1>3 DEF EffectiveFreeBytes
  <2>2. \A size : Need(page, size) = size BY <1>3 DEF Need
  <2>3. QED BY <1>1, <2>1, <2>2
<1>4. CASE FreeSlots(page) = {}
  <2>1. EffectiveFreeBytes(page) = IF FreeBytes(page) > SlotSize THEN FreeBytes(page) - SlotSize ELSE 0
    BY <1>4 DEF EffectiveFreeBytes
  <2>2. \A size : Need(page, size) = size + SlotSize BY <1>4 DEF Need
  <2>3. QED BY <1>1, <1>2, <2>1, <2>2
<1>5. QED BY <1>3, <1>4

\* An object has been put into a page: the page is closed, and has less to give.
LEMMA AfterAllocate ==
  ASSUME NEW page, PageOk(page), NEW size \in Nat \ {0}, NEW v \in Values,
         Need(page, size) <= FreeBytes(page), NEW a, a = PageAllocate(page, size, v),
         Closed(page) \/ page.slots = << >>
  PROVE  /\ Allocates(page, a.page, a.slot, size, v) /\ Closed(a.page)
         /\ EffectiveFreeBytes(page) >= size => EffectiveFreeBytes(a.page) < EffectiveFreeBytes(page)
<1> DEFINE q == a.page
           i == a.slot
           n == Len(page.slots)
<1>1. /\ Allocates(page, q, i, size, v)
      /\ FreeBytes(q) = FreeBytes(page) - Need(page, size)
      /\ Len(q.slots) = n + (IF FreeSlots(page) # {} THEN 0 ELSE 1)
  BY PageAllocateIs
<1> HIDE DEF q, i
<1>2. /\ PageOk(q) /\ UsedSlots(q) = UsedSlots(page) \cup {i}
      /\ i \in 1 .. Len(q.slots) /\ i \notin UsedSlots(page)
  BY <1>1 DEF Allocates
<1>3. page \in PageType /\ q \in PageType BY <1>2 DEF PageOk
<1>4. n \in Nat /\ FreeSlots(page) = (1 .. n) \ UsedSlots(page) /\ UsedSlots(page) \subseteq 1 .. n
  BY <1>3, FreeSlotsAre, SlotsOfPage
<1>5. Closed(q)
  <2>1. CASE FreeSlots(page) # {}
    <3>1. Len(q.slots) = n BY <1>1, <1>4, <2>1
    <3>2. n # 0 BY <1>4, <2>1
    <3>3. page.slots # << >>
      <4>1. Len(<< >>) = 0 OBVIOUS
      <4>2. QED BY <3>2, <4>1
    <3>4. n \in UsedSlots(page) BY <1>3, <3>3, ClosedIs
    <3>5. QED BY <1>2, <1>3, <3>1, <3>4, ClosedIs
  <2>2. CASE FreeSlots(page) = {}
    <3>1. Len(q.slots) = n + 1 BY <1>1, <2>2
    <3>2. i \notin 1 .. n BY <1>2, <1>4, <2>2
    <3>3. i = n + 1 BY <1>2, <1>4, <3>1, <3>2
    <3>4. QED BY <1>2, <1>3, <3>1, <3>3, ClosedIs
  <2>3. QED BY <2>1, <2>2
<1>6. ASSUME EffectiveFreeBytes(page) >= size PROVE EffectiveFreeBytes(q) < EffectiveFreeBytes(page)
  <2>1. FreeBytes(q) = EffectiveFreeBytes(page) - size BY <1>1, <1>6, EffectiveIs
  <2>2. EffectiveFreeBytes(q) \in Nat /\ EffectiveFreeBytes(q) <= FreeBytes(q) BY <1>2, EffectiveIs
  <2>3. EffectiveFreeBytes(page) \in Nat BY EffectiveIs
  <2>4. QED BY <2>1, <2>2, <2>3
<1>7. QED BY <1>1, <1>5, <1>6 DEF q, i

\* The object is taken out again: the page has what it had, if not in the same place.
LEMMA AfterRollback ==
  ASSUME NEW page, PageOk(page), Closed(page), NEW size \in Nat \ {0}, NEW v \in Values,
         EffectiveFreeBytes(page) >= size, NEW a, a = PageAllocate(page, size, v),
         NEW q, q = PageFree(a.page, a.slot)
  PROVE  /\ PageOk(q) /\ Closed(q) /\ UsedSlots(q) = UsedSlots(page)
         /\ EffectiveFreeBytes(q) = EffectiveFreeBytes(page)
         /\ \A j \in UsedSlots(page) : Carried(page, q, j)
<1> DEFINE b == a.page
           i == a.slot
           n == Len(page.slots)
<1>0. Need(page, size) <= FreeBytes(page) BY EffectiveIs
<1>1. /\ Allocates(page, b, i, size, v)
      /\ FreeBytes(b) = FreeBytes(page) - Need(page, size)
      /\ Len(b.slots) = n + (IF FreeSlots(page) # {} THEN 0 ELSE 1)
  BY <1>0, PageAllocateIs
<1> HIDE DEF b, i
<1>2. /\ PageOk(b) /\ UsedSlots(b) = UsedSlots(page) \cup {i} /\ i \notin UsedSlots(page)
      /\ b.slots[i].size = size
      /\ \A j \in UsedSlots(page) : Carried(page, b, j)
  BY <1>1 DEF Allocates
<1>3. Frees(b, q, i)
  <2>1. i \in UsedSlots(b) /\ q = PageFree(b, i) BY <1>2 DEF b, i
  <2>2. QED BY <1>2, <2>1, PageFreeIs
<1>4. /\ PageOk(q) /\ UsedSlots(q) = UsedSlots(page)
      /\ q.slots = << >> \/ Closed(q)
      /\ FreeBytes(q) + SlotsEnd(q) = (FreeBytes(b) + SlotsEnd(b)) + size
      /\ \A j \in UsedSlots(page) : Carried(b, q, j)
  BY <1>2, <1>3 DEF Frees
<1>5. page \in PageType /\ q \in PageType /\ b \in PageType BY <1>2, <1>4 DEF PageOk
<1>6. n \in UsedSlots(page) /\ n \in 1 .. n BY <1>5, ClosedIs, SlotsOfPage
<1>7. Closed(q)
  <2>1. q.slots # << >>
    <3>1. n \in 1 .. Len(q.slots) BY <1>4, <1>5, <1>6, SlotsOfPage
    <3>2. Len(<< >>) = 0 OBVIOUS
    <3>3. QED BY <3>1, <3>2
  <2>2. QED BY <1>4, <2>1
<1>8. Len(q.slots) = n
  <2>1. Len(q.slots) \in UsedSlots(page) BY <1>4, <1>5, <1>7, ClosedIs
  <2>2. Len(q.slots) \in 1 .. n /\ n \in 1 .. Len(q.slots) BY <1>4, <1>5, <1>6, <2>1, SlotsOfPage
  <2>3. Len(q.slots) \in Nat /\ n \in Nat BY <1>5, SlotsOfPage
  <2>4. QED BY <2>2, <2>3
<1>9. FreeSlots(q) = FreeSlots(page) BY <1>4, <1>5, <1>8, FreeSlotsAre
<1>10. FreeBytes(q) = FreeBytes(page)
  <2>1. HeaderSize \in Nat /\ SlotSize \in Nat /\ n \in Nat BY <1>5, SlotsOfPage, HeapAssumption
  <2>2. PICK w \in Nat : w = HeaderSize + n * SlotSize
    <3>1. n * SlotSize \in Nat BY <2>1
    <3>2. QED BY <2>1, <3>1
  <2>3. SlotsEnd(q) = w BY <1>8, <2>2 DEF SlotsEnd
  <2>4. FreeBytes(q) \in Nat /\ FreeBytes(page) \in Nat /\ FreeBytes(b) \in Nat
    BY <1>2, <1>4, FreeBytesIs
  <2>5. CASE FreeSlots(page) # {}
    <3>1. SlotsEnd(b) = w /\ Need(page, size) = size BY <1>1, <2>1, <2>2, <2>5 DEF SlotsEnd, Need
    <3>2. QED BY <1>1, <1>4, <2>3, <2>4, <3>1
  <2>6. CASE FreeSlots(page) = {}
    <3>1. Len(b.slots) = n + 1 /\ Need(page, size) = size + SlotSize BY <1>1, <2>6 DEF Need
    <3>2. (n + 1) * SlotSize = n * SlotSize + SlotSize BY <2>1
    <3>3. n * SlotSize \in Nat BY <2>1
    <3>4. SlotsEnd(b) = w + SlotSize BY <2>1, <2>2, <3>1, <3>2, <3>3 DEF SlotsEnd
    <3>5. QED BY <1>1, <1>4, <2>1, <2>3, <2>4, <3>1, <3>4
  <2>7. QED BY <2>5, <2>6
<1>11. EffectiveFreeBytes(q) = EffectiveFreeBytes(page) BY <1>9, <1>10 DEF EffectiveFreeBytes
<1>12. ASSUME NEW j \in UsedSlots(page) PROVE Carried(page, q, j)
  <2>1. Carried(page, b, j) /\ Carried(b, q, j) BY <1>2, <1>4
  <2>2. QED BY <2>1, CarriedOn
<1>13. QED BY <1>4, <1>7, <1>11, <1>12

\* A new page is empty and has room for any small object.
LEMMA EmptyPageOk ==
  /\ PageOk(EmptyPage) /\ EmptyPage.slots = << >> /\ UsedSlots(EmptyPage) = {}
  /\ \A size \in Nat : size <= MaxSmallObject => Need(EmptyPage, size) <= FreeBytes(EmptyPage)
<1> DEFINE e == EmptyPage
<1>1. BlockSize \in Nat \ {0} /\ HeaderSize \in Nat \ {0} /\ SlotSize \in Nat \ {0} BY HeapAssumption
<1>2. MaxSmallObject \in Nat /\ HeaderSize + SlotSize + MaxSmallObject <= BlockSize
  <2>1. MaxSmallObject \in Nat BY <1>1 DEF MaxSmallObject
  <2>2. QED BY <2>1, PageAssumption
<1>3. /\ e.slots = << >> /\ e.free_ptr = BlockSize /\ e.free_fragmented = 0
      /\ e \in PageType
  <2>1. << >> \in Seq(Slots) OBVIOUS
  <2>2. QED BY <1>1, <2>1 DEF EmptyPage, PageType
<1>4. Len(e.slots) = 0 BY <1>3
<1>5. UsedSlots(e) = {} /\ FreeSlots(e) = {}
  <2>1. DOMAIN e.slots = {} BY <1>3, <1>4, SlotsOfPage
  <2>2. QED BY <2>1 DEF UsedSlots, FreeSlots
<1> HIDE DEF e
<1>6. Laid(e.slots, {}, BlockSize) BY DEF Laid
<1>7. SlotsEnd(e) = HeaderSize
  <2>1. 0 * SlotSize = 0 BY <1>1
  <2>2. QED BY <1>1, <1>4, <2>1 DEF SlotsEnd
<1>8. Cardinality((BlockSize .. BlockSize - 1) \ Taken(e.slots, {})) = 0
  <2>1. (BlockSize .. BlockSize - 1) \ Taken(e.slots, {}) = {} BY <1>1
  <2>2. QED BY <2>1, FS_EmptySet
<1>9. PageOk(e) BY <1>1, <1>2, <1>3, <1>5, <1>6, <1>7, <1>8 DEF PageOk
<1>10. FreeBytes(e) = BlockSize - HeaderSize BY <1>1, <1>3, <1>7, <1>9, FreeBytesIs
<1>11. ASSUME NEW size \in Nat, size <= MaxSmallObject PROVE Need(e, size) <= FreeBytes(e)
  <2>1. Need(e, size) = size + SlotSize BY <1>5 DEF Need
  <2>2. QED BY <1>1, <1>2, <1>10, <1>11, <2>1
<1>12. QED BY <1>3, <1>5, <1>9, <1>11 DEF e

-----------------------------------------------------------------------------
(* The sum of the objects' sizes.                                          *)

SizeSum(f) == FoldSet(LAMBDA ref, n : f[ref].size + n, 0, DOMAIN f)

\* The sum is taken over one object after the other,
LEMMA SumSteps ==
  ASSUME NEW f, IsFiniteSet(DOMAIN f)
  PROVE  \E g : /\ g[{}] = 0
                /\ \A s \in SUBSET DOMAIN f :
                     s # {} => \E x \in s : g[s] = f[x].size + g[s \ {x}]
                /\ SizeSum(f) = g[DOMAIN f]
<1> DEFINE U == DOMAIN f
           Some(s) == CHOOSE x \in s : TRUE
           Val(q, s) == IF s = {} THEN 0 ELSE f[Some(s)].size + q[s \ {Some(s)}]
           Few(m) == { s \in SUBSET U : Cardinality(s) <= m }
           Iter(g, D) == g = [s \in D |-> Val(g, s)]
           T == { m \in Nat : \E g : Iter(g, Few(m)) }
<1>0. \A s \in SUBSET U : s # {} => Some(s) \in s OBVIOUS
<1> HIDE DEF U, Some
<1>1. ASSUME NEW s \in SUBSET U PROVE IsFiniteSet(s) /\ Cardinality(s) \in Nat /\ Cardinality(s) <= Cardinality(U)
  <2>1. IsFiniteSet(s) /\ Cardinality(s) <= Cardinality(U) BY FS_Subset DEF U
  <2>2. QED BY <2>1, FS_CardinalityType
<1>2. 0 \in T
  <2> DEFINE g == [s \in Few(0) |-> 0]
  <2>1. ASSUME NEW s \in Few(0) PROVE s = {}
    <3>1. IsFiniteSet(s) /\ Cardinality(s) = 0 BY <1>1
    <3>2. QED BY <3>1, FS_EmptySet
  <2>2. \A s \in Few(0) : Val(g, s) = 0 BY <2>1
  <2>3. Iter(g, Few(0))
    <3> HIDE DEF Val, Few
    <3> QED BY <2>2
  <2> HIDE DEF g, Iter, Few
  <2>4. QED BY <2>3
<1>3. ASSUME NEW m \in Nat, m \in T PROVE m + 1 \in T
  <2>1. PICK h : Iter(h, Few(m))
    <3> HIDE DEF Iter, Few
    <3> QED BY <1>3
  <2> DEFINE g == [s \in Few(m + 1) |-> Val(h, s)]
  <2>2. ASSUME NEW s \in Few(m) PROVE g[s] = h[s]
    <3>1. s \in Few(m + 1) BY <1>1
    <3>2. h[s] = Val(h, s)
      <4> HIDE DEF Val, Few
      <4> QED BY <2>1
    <3> HIDE DEF Val, Few
    <3>3. QED BY <3>1, <3>2
  <2>3. ASSUME NEW s \in Few(m + 1) PROVE Val(h, s) = Val(g, s)
    <3>1. CASE s = {} BY <3>1
    <3>2. CASE s # {}
      <4> DEFINE x == Some(s)
      <4>1. x \in s BY <1>0, <3>2
      <4> HIDE DEF x
      <4>2. IsFiniteSet(s) /\ Cardinality(s) \in Nat BY <1>1
      <4>3. Cardinality(s \ {x}) = Cardinality(s) - 1 BY <4>1, <4>2, OneLess
      <4>4. s \ {x} \in Few(m) BY <4>2, <4>3
      <4>5. h[s \ {x}] = g[s \ {x}] BY <2>2, <4>4
      <4> HIDE DEF g
      <4>6. QED BY <4>5 DEF x
    <3>3. QED BY <3>1, <3>2
  <2> HIDE DEF Val, Few
  <2>4. g = [s \in Few(m + 1) |-> Val(g, s)] BY <2>3
  <2> HIDE DEF g
  <2>5. Iter(g, Few(m + 1)) BY <2>4
  <2> HIDE DEF Iter
  <2>6. QED BY <2>5
<1> HIDE DEF T
<1>4. \A m \in Nat : m \in T BY <1>2, <1>3, Induction
<1>5. Cardinality(U) \in Nat BY FS_CardinalityType DEF U
<1>6. Few(Cardinality(U)) = SUBSET U BY <1>1, <1>5
<1>7. \E g : Iter(g, SUBSET U)
  <2>1. \E g : Iter(g, Few(Cardinality(U)))
    <3> HIDE DEF Iter, Few
    <3> QED BY <1>4, <1>5 DEF T
  <2>2. QED BY <1>6, <2>1
<1> DEFINE g == CHOOSE q : Iter(q, SUBSET U)
<1>8. Iter(g, SUBSET U)
  <2> HIDE DEF Iter
  <2> QED BY <1>7
<1>9. SizeSum(f) = g[U] BY DEF SizeSum, FoldSet, MapThenFoldSet, Some, U
<1> HIDE DEF g
<1>10. \A s \in SUBSET U : g[s] = Val(g, s)
  <2> HIDE DEF Val
  <2> QED BY <1>8
<1>11. g[{}] = 0 BY <1>10
<1>12. ASSUME NEW s \in SUBSET U, s # {} PROVE \E x \in s : g[s] = f[x].size + g[s \ {x}]
  <2>1. Some(s) \in s BY <1>0, <1>12
  <2>2. g[s] = f[Some(s)].size + g[s \ {Some(s)}] BY <1>10, <1>12
  <2>3. QED BY <2>1, <2>2
<1>13. QED BY <1>9, <1>11, <1>12 DEF U

\* which may be any,
Sums(f, g) ==
  /\ g[{}] = 0
  /\ \A s \in SUBSET DOMAIN f : g[s] \in Nat
  /\ \A s \in SUBSET DOMAIN f : \A x \in s : g[s] = f[x].size + g[s \ {x}]

LEMMA SumInAnyOrder ==
  ASSUME NEW f, IsFiniteSet(DOMAIN f), \A x \in DOMAIN f : f[x].size \in Nat
  PROVE  \E g : Sums(f, g) /\ SizeSum(f) = g[DOMAIN f]
<1> DEFINE U == DOMAIN f
<1>1. PICK g : /\ g[{}] = 0
               /\ \A s \in SUBSET U : s # {} => \E x \in s : g[s] = f[x].size + g[s \ {x}]
               /\ SizeSum(f) = g[U]
  BY SumSteps
<1> DEFINE Free(s) == g[s] \in Nat /\ \A x \in s : g[s] = f[x].size + g[s \ {x}]
           T == { m \in Nat : \A s \in SUBSET U : Cardinality(s) <= m => Free(s) }
<1>2. ASSUME NEW s \in SUBSET U PROVE IsFiniteSet(s) /\ Cardinality(s) \in Nat
  <2>1. IsFiniteSet(s) BY FS_Subset
  <2>2. QED BY <2>1, FS_CardinalityType
<1>3. \A x \in U : f[x].size \in Nat OBVIOUS
<1> HIDE DEF U
<1>4. 0 \in T
  <2> SUFFICES ASSUME NEW s \in SUBSET U, Cardinality(s) <= 0 PROVE Free(s) OBVIOUS
  <2>0. IsFiniteSet(s) /\ Cardinality(s) = 0 BY <1>2
  <2>1. s = {} BY <2>0, FS_EmptySet
  <2>2. QED BY <1>1, <2>1
<1>5. ASSUME NEW m \in Nat, m \in T PROVE m + 1 \in T
  <2>0. SUFFICES ASSUME NEW s \in SUBSET U, Cardinality(s) = m + 1 PROVE Free(s)
    <3>1. ASSUME NEW s \in SUBSET U, Cardinality(s) <= m + 1 PROVE Cardinality(s) <= m \/ Cardinality(s) = m + 1
      BY <1>2, <3>1
    <3> HIDE DEF Free
    <3>2. QED BY <1>5, <3>1
  <2>1. s # {} BY <2>0, FS_EmptySet
  <2>2. PICK y \in s : g[s] = f[y].size + g[s \ {y}] BY <1>1, <2>1
  <2>3. ASSUME NEW x \in s PROVE Cardinality(s \ {x}) <= m /\ s \ {x} \in SUBSET U
    <3>1. IsFiniteSet(s) BY <1>2
    <3>2. Cardinality(s \ {x}) = Cardinality(s) - 1 BY <3>1, OneLess
    <3>3. QED BY <2>0, <3>2
  <2>4. \A x \in s : Free(s \ {x})
    <3> HIDE DEF Free
    <3> QED BY <1>5, <2>3
  <2>5. g[s] \in Nat
    <3>1. g[s \ {y}] \in Nat BY <2>4
    <3>2. f[y].size \in Nat BY <1>3
    <3>3. QED BY <2>2, <3>1, <3>2
  <2>6. ASSUME NEW x \in s PROVE g[s] = f[x].size + g[s \ {x}]
    <3>1. CASE x = y BY <2>2, <3>1
    <3>2. CASE x # y
      <4> DEFINE r == (s \ {x}) \ {y}
      <4>1. x \in s \ {y} /\ y \in s \ {x} /\ (s \ {y}) \ {x} = r BY <3>2
      <4>2. g[s \ {y}] = f[x].size + g[(s \ {y}) \ {x}] BY <2>4, <4>1
      <4>3. g[s \ {x}] = f[y].size + g[r] BY <2>4, <4>1
      <4>4. g[s \ {y}] = f[x].size + g[r] BY <4>1, <4>2
      <4>5. x \in U /\ y \in U /\ r \in SUBSET U OBVIOUS
      <4>6. g[r] \in Nat
        <5>1. IsFiniteSet(s \ {x}) /\ Cardinality(s \ {x}) <= m /\ Cardinality(s \ {x}) \in Nat
          BY <1>2, <2>3
        <5>2. Cardinality(r) = Cardinality(s \ {x}) - 1 BY <4>1, <5>1, OneLess
        <5>3. Cardinality(r) <= m BY <5>1, <5>2
        <5> HIDE DEF r
        <5>4. Free(r)
          <6> HIDE DEF Free
          <6> QED BY <1>5, <4>5, <5>3
        <5>5. QED BY <5>4
      <4> HIDE DEF r
      <4>7. QED BY <1>3, <2>2, <4>3, <4>4, <4>5, <4>6
    <3>3. QED BY <3>1, <3>2
  <2>7. QED BY <2>5, <2>6
<1> HIDE DEF T
<1>6. \A m \in Nat : m \in T BY <1>4, <1>5, Induction
<1>7. ASSUME NEW s \in SUBSET U PROVE Free(s) BY <1>2, <1>6 DEF T
<1>8. QED BY <1>1, <1>7 DEF Sums, U

\* and depends on the sizes only.
LEMMA SumsAgree ==
  ASSUME NEW f, NEW h, NEW g, NEW k, Sums(f, g), Sums(h, k),
         NEW U, IsFiniteSet(U), U \subseteq DOMAIN f, U \subseteq DOMAIN h,
         \A x \in U : f[x].size = h[x].size
  PROVE  g[U] = k[U]
<1> DEFINE T == { m \in Nat : \A s \in SUBSET U : Cardinality(s) = m => g[s] = k[s] }
<1>1. 0 \in T
  <2> SUFFICES ASSUME NEW s \in SUBSET U, Cardinality(s) = 0 PROVE g[s] = k[s] OBVIOUS
  <2>1. IsFiniteSet(s) BY FS_Subset
  <2>2. s = {} BY <2>1, FS_EmptySet
  <2>3. QED BY <2>2 DEF Sums
<1>2. ASSUME NEW m \in Nat, m \in T PROVE m + 1 \in T
  <2>0. SUFFICES ASSUME NEW s \in SUBSET U, Cardinality(s) = m + 1 PROVE g[s] = k[s] OBVIOUS
  <2>1. IsFiniteSet(s) BY FS_Subset
  <2>2. PICK x \in s : TRUE BY <2>0, FS_EmptySet
  <2>3. Cardinality(s \ {x}) = m BY <2>0, <2>1, <2>2, OneLess
  <2>4. g[s \ {x}] = k[s \ {x}] BY <1>2, <2>3
  <2>5. s \in SUBSET DOMAIN f /\ s \in SUBSET DOMAIN h /\ f[x].size = h[x].size OBVIOUS
  <2>6. g[s] = f[x].size + g[s \ {x}] BY <2>5 DEF Sums
  <2>7. k[s] = h[x].size + k[s \ {x}] BY <2>5 DEF Sums
  <2>8. QED BY <2>4, <2>5, <2>6, <2>7
<1> HIDE DEF T
<1>3. \A m \in Nat : m \in T BY <1>1, <1>2, Induction
<1>4. Cardinality(U) \in T BY <1>3, FS_CardinalityType
<1>5. QED BY <1>4 DEF T

Sized(f) == IsFiniteSet(DOMAIN f) /\ \A x \in DOMAIN f : f[x].size \in Nat

LEMMA SumSame ==
  ASSUME NEW f, NEW h, Sized(f), DOMAIN h = DOMAIN f, \A x \in DOMAIN f : h[x].size = f[x].size
  PROVE  SizeSum(h) = SizeSum(f) /\ Sized(h) /\ SizeSum(f) \in Nat
<1>1. Sized(h) BY DEF Sized
<1>2. PICK g : Sums(f, g) /\ SizeSum(f) = g[DOMAIN f] BY SumInAnyOrder DEF Sized
<1>3. PICK k : Sums(h, k) /\ SizeSum(h) = k[DOMAIN h] BY <1>1, SumInAnyOrder DEF Sized
<1>4. IsFiniteSet(DOMAIN f) BY DEF Sized
<1>5. g[DOMAIN f] = k[DOMAIN f] BY <1>2, <1>3, <1>4, SumsAgree
<1>6. g[DOMAIN f] \in Nat BY <1>2 DEF Sums
<1>7. QED BY <1>1, <1>2, <1>3, <1>5, <1>6

\* An object more, or less.
LEMMA SumWithout ==
  ASSUME NEW f, Sized(f), NEW x \in DOMAIN f
  PROVE  /\ Sized(Without(f, x)) /\ SizeSum(Without(f, x)) \in Nat /\ f[x].size \in Nat
         /\ SizeSum(f) = f[x].size + SizeSum(Without(f, x))
<1> DEFINE h == Without(f, x)
<1>1. DOMAIN h = DOMAIN f \ {x} /\ \A y \in DOMAIN f \ {x} : h[y] = f[y] BY DEF Without
<1> HIDE DEF h
<1>2. IsFiniteSet(DOMAIN h) BY <1>1, OneLess DEF Sized
<1>3. Sized(h) BY <1>1, <1>2 DEF Sized
<1>4. PICK g : Sums(f, g) /\ SizeSum(f) = g[DOMAIN f] BY SumInAnyOrder DEF Sized
<1>5. PICK k : Sums(h, k) /\ SizeSum(h) = k[DOMAIN h] BY <1>3, SumInAnyOrder DEF Sized
<1>6. g[DOMAIN h] = k[DOMAIN h]
  <2>1. DOMAIN h \subseteq DOMAIN f /\ \A y \in DOMAIN h : f[y].size = h[y].size BY <1>1
  <2>2. QED BY <1>2, <1>4, <1>5, <2>1, SumsAgree
<1>7. g[DOMAIN f] = f[x].size + g[DOMAIN f \ {x}] BY <1>4 DEF Sums
<1>8. k[DOMAIN h] \in Nat /\ f[x].size \in Nat BY <1>5 DEF Sums, Sized
<1>9. QED BY <1>1, <1>3, <1>4, <1>5, <1>6, <1>7, <1>8 DEF h

LEMMA SumWith ==
  ASSUME NEW f, Sized(f), NEW x, x \notin DOMAIN f, NEW r, r.size \in Nat
  PROVE  /\ Sized(With(f, x, r)) /\ SizeSum(f) \in Nat
         /\ SizeSum(With(f, x, r)) = SizeSum(f) + r.size
         /\ Cardinality(DOMAIN With(f, x, r)) = Cardinality(DOMAIN f) + 1
         /\ Cardinality(DOMAIN f) \in Nat
<1> DEFINE h == With(f, x, r)
           w == Without(h, x)
<1>1. DOMAIN h = DOMAIN f \cup {x} /\ h[x] = r /\ \A y \in DOMAIN f : h[y] = f[y] BY DEF With
<1> HIDE DEF h
<1>2. DOMAIN w = DOMAIN f /\ \A y \in DOMAIN f : w[y] = f[y] BY <1>1 DEF Without
<1>3. IsFiniteSet(DOMAIN h) /\ Cardinality(DOMAIN h) = Cardinality(DOMAIN f) + 1
  BY <1>1, FS_AddElement DEF Sized
<1>4. Sized(h) BY <1>1, <1>3 DEF Sized
<1>5. SizeSum(h) = h[x].size + SizeSum(w) /\ SizeSum(w) \in Nat BY <1>1, <1>4, SumWithout
<1> HIDE DEF w
<1>6. SizeSum(w) = SizeSum(f) BY <1>2, SumSame
<1>7. Cardinality(DOMAIN f) \in Nat BY FS_CardinalityType DEF Sized
<1>8. QED BY <1>1, <1>3, <1>4, <1>5, <1>6, <1>7 DEF h

-----------------------------------------------------------------------------
(* The heap.  m is a page map, c the blocks' contents.                      *)

Entries == [large : BOOLEAN, block_count : Nat \ {0}]

Objects == [size : Nat \ {0}, value : Values]

Refs == [block : Blocks, slot : Nat]

Update(f, x, y) == [f EXCEPT ![x] = y]

Run(m, b) == b .. b + m[b].block_count - 1

Owned(m) == { b \in Blocks : m[b] # None }

Covered(m) == UNION { Run(m, b) : b \in Owned(m) }

PagesOf(m) == { b \in Blocks : m[b] # None /\ ~m[b].large }

\* Pages and large objects own blocks of their own.
Runs(m) ==
  /\ m \in [Blocks -> {None} \cup Entries]
  /\ \A b \in Owned(m) : Run(m, b) \subseteq Blocks
  /\ \A b, d \in Owned(m) : b # d => Run(m, b) \cap Run(m, d) = {}

Counted(m, n) == IsFiniteSet(Covered(m)) /\ n = Cardinality(Covered(m))

PagesOk(m, c) ==
  /\ c = [b \in Blocks |-> c[b]]
  /\ \A b \in PagesOf(m) : m[b].block_count = 1 /\ PageOk(c[b]) /\ Closed(c[b])

\* Slot i of the page leads to the object o.
Holds(page, i, o) ==
  /\ i \in UsedSlots(page) /\ page.slots[i].size = o.size
  /\ \A k \in 0 .. o.size - 1 : page.data[page.slots[i].offset + k] = o.value

\* The reference leads to the object o.
Stored(m, c, ref, o) ==
  /\ o \in Objects /\ ref \in Refs /\ m[ref.block] # None
  /\ \/ /\ ref.slot = 0 /\ m[ref.block].large /\ c[ref.block] = o
        /\ m[ref.block].block_count * BlockSize >= o.size + SizeField
     \/ /\ ref.slot # 0 /\ ~m[ref.block].large
        /\ Holds(c[ref.block], ref.slot, o)

AllStored(m, c, f) == \A ref \in DOMAIN f : Stored(m, c, ref, f[ref])

Entry(c, b) == <<EffectiveFreeBytes(c[b]), b>>

FreeMapOk(m, c, fm) ==
  /\ fm \subseteq { Entry(c, b) : b \in PagesOf(m) }
  /\ \A b \in PagesOf(m) : EffectiveFreeBytes(c[b]) > 0 => Entry(c, b) \in fm

Tallied(f, n, sum) == Sized(f) /\ n = Cardinality(DOMAIN f) /\ sum = SizeSum(f)

Inv ==
  /\ Runs(m_page_map) /\ Counted(m_page_map, blocks_count)
  /\ PagesOk(m_page_map, content) /\ AllStored(m_page_map, content, live)
  /\ FreeMapOk(m_page_map, content, m_free_map)
  /\ Tallied(live, objects_count, objects_size)

LEMMA CoveredIs ==
  ASSUME NEW m
  PROVE  \A z : z \in Covered(m) <=> \E x \in Owned(m) : z \in Run(m, x)
BY DEF Covered

\* A new page or large object in free blocks.
LEMMA MapAdd ==
  ASSUME NEW m, Runs(m), NEW n, Counted(m, n), NEW b \in Blocks, NEW e \in Entries,
         b .. b + e.block_count - 1 \subseteq Blocks \ Covered(m),
         NEW h, h = Update(m, b, e)
  PROVE  Runs(h) /\ Counted(h, n + e.block_count) /\ m[b] = None
<1>1. b \in Nat /\ e.block_count \in Nat /\ e.block_count > 0 BY HeapAssumption DEF Entries
<1>2. m \in [Blocks -> {None} \cup Entries] BY DEF Runs
<1>3. e # None /\ \A x \in Entries : x # None BY HeapAssumption DEF Entries
<1>4. m[b] = None
  <2>1. b \in b .. b + e.block_count - 1 BY <1>1
  <2>2. b \notin Covered(m) BY <2>1
  <2>3. SUFFICES ASSUME b \in Owned(m) PROVE FALSE BY DEF Owned
  <2>4. m[b].block_count \in Nat /\ m[b].block_count > 0 BY <1>2, <2>3 DEF Owned, Entries
  <2>5. b \in Run(m, b) BY <1>1, <2>4 DEF Run
  <2>6. QED BY <2>2, <2>3, <2>5 DEF Covered
<1>5. h[b] = e /\ \A x \in Blocks : x # b => h[x] = m[x] BY <1>2 DEF Update
<1>6. h \in [Blocks -> {None} \cup Entries] BY <1>2 DEF Update
<1>7. Run(h, b) = b .. b + e.block_count - 1 BY <1>5 DEF Run
<1>8. \A x \in Blocks : x # b => Run(h, x) = Run(m, x) BY <1>5 DEF Run
<1>9. Owned(h) = Owned(m) \cup {b} /\ b \notin Owned(m) BY <1>3, <1>4, <1>5 DEF Owned
<1>10. \A x \in Owned(m) : x \in Blocks /\ x # b /\ Run(h, x) = Run(m, x) BY <1>8, <1>9 DEF Owned
<1>11. Covered(h) = Covered(m) \cup Run(h, b)
  <2>1. \A z : z \in Covered(h) <=> \E x \in Owned(h) : z \in Run(h, x) BY CoveredIs
  <2>2. \A z : z \in Covered(m) <=> \E x \in Owned(m) : z \in Run(m, x) BY CoveredIs
  <2>3. \A z : z \in Covered(h) <=> z \in Covered(m) \/ z \in Run(h, b) BY <1>9, <1>10, <2>1, <2>2
  <2>4. QED BY <2>3
<1>12. \A x \in Owned(m) : Run(m, x) \subseteq Covered(m) BY DEF Covered
<1>13. Covered(m) \cap Run(h, b) = {} /\ Run(h, b) \subseteq Blocks BY <1>7
<1>14. Runs(h)
  <2>1. \A x \in Owned(h) : Run(h, x) \subseteq Blocks BY <1>9, <1>10, <1>13 DEF Runs
  <2>2. ASSUME NEW x \in Owned(h), NEW y \in Owned(h), x # y PROVE Run(h, x) \cap Run(h, y) = {}
    <3>1. CASE x = b BY <1>9, <1>10, <1>12, <1>13, <2>2, <3>1
    <3>2. CASE y = b BY <1>9, <1>10, <1>12, <1>13, <2>2, <3>2
    <3>3. CASE x # b /\ y # b BY <1>9, <1>10, <2>2, <3>3 DEF Runs
    <3>4. QED BY <3>1, <3>2, <3>3
  <2>3. QED BY <1>6, <2>1, <2>2 DEF Runs
<1>15. Counted(h, n + e.block_count)
  <2>1. IsFiniteSet(Run(h, b)) /\ Cardinality(Run(h, b)) = e.block_count BY <1>1, <1>7, Interval
  <2>2. IsFiniteSet(Covered(m)) /\ n = Cardinality(Covered(m)) BY DEF Counted
  <2>3. /\ IsFiniteSet(Covered(m) \cup Run(h, b))
        /\ Cardinality(Covered(m) \cup Run(h, b)) = Cardinality(Covered(m)) + Cardinality(Run(h, b))
    BY <1>13, <2>1, <2>2, TwoSets
  <2>4. QED BY <1>11, <2>1, <2>2, <2>3 DEF Counted
<1>16. QED BY <1>4, <1>14, <1>15

\* A page or a large object is given back.
LEMMA MapRemove ==
  ASSUME NEW m, Runs(m), NEW n, Counted(m, n), NEW b \in Owned(m),
         NEW h, h = Update(m, b, None)
  PROVE  Runs(h) /\ Counted(h, n - m[b].block_count)
<1>1. b \in Nat /\ b \in Blocks BY HeapAssumption DEF Owned
<1>2. m \in [Blocks -> {None} \cup Entries] BY DEF Runs
<1>3. m[b].block_count \in Nat BY <1>1, <1>2 DEF Owned, Entries
<1>5. h[b] = None /\ \A x \in Blocks : x # b => h[x] = m[x] BY <1>1, <1>2 DEF Update
<1>6. h \in [Blocks -> {None} \cup Entries] BY <1>2 DEF Update
<1>8. \A x \in Blocks : x # b => Run(h, x) = Run(m, x) BY <1>5 DEF Run
<1>9. Owned(h) = Owned(m) \ {b} BY <1>5 DEF Owned
<1>10. \A x \in Owned(h) : x \in Owned(m) /\ x # b /\ Run(h, x) = Run(m, x) BY <1>8, <1>9 DEF Owned
<1>11. Covered(m) = Covered(h) \cup Run(m, b)
  <2>1. \A x \in Owned(m) : x = b \/ x \in Owned(h) BY <1>9
  <2>2. \A z : z \in Covered(h) <=> \E x \in Owned(h) : z \in Run(h, x) BY CoveredIs
  <2>3. \A z : z \in Covered(m) <=> \E x \in Owned(m) : z \in Run(m, x) BY CoveredIs
  <2>4. \A z : z \in Covered(m) <=> z \in Covered(h) \/ z \in Run(m, b) BY <1>10, <2>1, <2>2, <2>3
  <2>5. QED BY <2>4
<1>12. Runs(h)
  <2>1. \A x \in Owned(h) : Run(h, x) \subseteq Blocks BY <1>10 DEF Runs
  <2>2. ASSUME NEW x \in Owned(h), NEW y \in Owned(h), x # y PROVE Run(h, x) \cap Run(h, y) = {}
    BY <1>10, <2>2 DEF Runs
  <2>3. QED BY <1>6, <2>1, <2>2 DEF Runs
<1>13. Covered(h) \cap Run(m, b) = {}
  <2>1. \A x \in Owned(h) : Run(h, x) \cap Run(m, b) = {} BY <1>10 DEF Runs
  <2>2. QED BY <2>1 DEF Covered
<1>14. Counted(h, n - m[b].block_count)
  <2>1. IsFiniteSet(Run(m, b)) /\ Cardinality(Run(m, b)) = m[b].block_count
    BY <1>1, <1>3, Interval DEF Run
  <2>2. IsFiniteSet(Covered(m)) /\ n = Cardinality(Covered(m)) BY DEF Counted
  <2>3. IsFiniteSet(Covered(h)) BY <1>11, <2>2, FS_Subset
  <2>4. Cardinality(Covered(m)) = Cardinality(Covered(h)) + Cardinality(Run(m, b))
        /\ Cardinality(Covered(h)) \in Nat
    BY <1>11, <1>13, <2>1, <2>3, TwoSets
  <2>5. QED BY <1>3, <2>1, <2>2, <2>3, <2>4 DEF Counted
<1>15. QED BY <1>12, <1>14

LEMMA PageReplaced ==
  ASSUME NEW m, NEW c, PagesOk(m, c), NEW b \in PagesOf(m), NEW q, PageOk(q), Closed(q),
         NEW d, d = Update(c, b, q)
  PROVE  PagesOk(m, d) /\ d[b] = q /\ \A x \in Blocks : x # b => d[x] = c[x]
<1>1. DOMAIN c = Blocks /\ b \in Blocks BY DEF PagesOk, PagesOf
<1>2. d[b] = q /\ \A x \in Blocks : x # b => d[x] = c[x] BY <1>1 DEF Update
<1>3. d = [x \in Blocks |-> d[x]] BY <1>1 DEF Update
<1>4. \A x \in PagesOf(m) : m[x].block_count = 1 /\ PageOk(c[x]) /\ Closed(c[x]) BY DEF PagesOk
<1>5. PagesOf(m) \subseteq Blocks BY DEF PagesOf
<1>6. \A x \in PagesOf(m) : m[x].block_count = 1 /\ PageOk(d[x]) /\ Closed(d[x])
  <2>1. SUFFICES ASSUME NEW x \in PagesOf(m)
                 PROVE  m[x].block_count = 1 /\ PageOk(d[x]) /\ Closed(d[x])
    OBVIOUS
  <2>2. CASE x = b BY <1>2, <1>4, <2>2
  <2>3. CASE x # b BY <1>2, <1>4, <1>5, <2>3
  <2>4. QED BY <2>2, <2>3
<1>7. QED BY <1>2, <1>3, <1>6 DEF PagesOk

LEMMA StoredKept ==
  ASSUME NEW m, NEW c, NEW h, NEW d, NEW ref, NEW o, Stored(m, c, ref, o),
         h[ref.block] = m[ref.block], d[ref.block] = c[ref.block]
  PROVE  Stored(h, d, ref, o)
BY DEF Stored

LEMMA HoldsCarried ==
  ASSUME NEW p, NEW q, NEW i, NEW o, Holds(p, i, o), Carried(p, q, i), i \in UsedSlots(q)
  PROVE  Holds(q, i, o)
BY DEF Holds, Carried

\* Objects stay what they are while others of their page come, go and move.
LEMMA StoredOnPage ==
  ASSUME NEW m, NEW c, NEW b \in PagesOf(m), NEW q, NEW d, NEW ref, NEW o, Stored(m, c, ref, o),
         d[b] = q, \A x \in Blocks : x # b => d[x] = c[x],
         ref.block = b => ref.slot \in UsedSlots(q) /\ Carried(c[b], q, ref.slot)
  PROVE  Stored(m, d, ref, o)
<1>1. ref.block \in Blocks BY DEF Stored, Refs
<1>2. CASE ref.block # b BY <1>1, <1>2, StoredKept
<1>3. CASE ref.block = b
  <2>1. ~m[ref.block].large BY <1>3 DEF PagesOf
  <2>2. Holds(c[b], ref.slot, o) /\ ref.slot # 0 /\ o \in Objects /\ ref \in Refs /\ m[ref.block] # None
    BY <1>3, <2>1 DEF Stored
  <2>3. Holds(q, ref.slot, o) BY <1>3, <2>2, HoldsCarried
  <2>4. QED BY <1>3, <2>1, <2>2, <2>3 DEF Stored
<1>4. QED BY <1>2, <1>3

LEMMA StoredAdd ==
  ASSUME NEW m, NEW c, NEW f, AllStored(m, c, f), NEW ref, NEW o, Stored(m, c, ref, o)
  PROVE  AllStored(m, c, With(f, ref, o))
BY DEF AllStored, With

\* A reference names a used slot of its page, or a large object.
LEMMA SlotOfRef ==
  ASSUME NEW m, NEW c, NEW f, AllStored(m, c, f), NEW ref \in DOMAIN f
  PROVE  /\ ref.block \in Owned(m) /\ ref = [block |-> ref.block, slot |-> ref.slot]
         /\ f[ref] \in Objects
         /\ ref.slot = 0 => m[ref.block].large
         /\ ref.slot # 0 => ref.block \in PagesOf(m)
         /\ ref.block \in PagesOf(m) => ref.slot \in UsedSlots(c[ref.block]) /\ ref.slot # 0
<1>1. Stored(m, c, ref, f[ref]) BY DEF AllStored
<1>2. QED BY <1>1 DEF Stored, Refs, Owned, PagesOf, Holds

LEMMA TallyAdd ==
  ASSUME NEW f, NEW n, NEW sum, Tallied(f, n, sum), NEW ref, ref \notin DOMAIN f, NEW o, o.size \in Nat
  PROVE  Tallied(With(f, ref, o), n + 1, sum + o.size)
<1>1. /\ Sized(With(f, ref, o)) /\ SizeSum(With(f, ref, o)) = SizeSum(f) + o.size
      /\ Cardinality(DOMAIN With(f, ref, o)) = Cardinality(DOMAIN f) + 1
  BY SumWith DEF Tallied
<1>2. QED BY <1>1 DEF Tallied

LEMMA TallyRemove ==
  ASSUME NEW f, NEW n, NEW sum, Tallied(f, n, sum), NEW ref \in DOMAIN f
  PROVE  Tallied(Without(f, ref), n - 1, sum - f[ref].size)
<1>1. /\ Sized(Without(f, ref)) /\ SizeSum(Without(f, ref)) \in Nat /\ f[ref].size \in Nat
      /\ SizeSum(f) = f[ref].size + SizeSum(Without(f, ref))
  BY SumWithout DEF Tallied
<1>2. DOMAIN Without(f, ref) = DOMAIN f \ {ref} BY DEF Without
<1>3. Cardinality(DOMAIN f \ {ref}) = Cardinality(DOMAIN f) - 1 BY OneLess DEF Tallied, Sized
<1>4. n - 1 = Cardinality(DOMAIN Without(f, ref)) BY <1>2, <1>3 DEF Tallied
<1>5. sum - f[ref].size = SizeSum(Without(f, ref)) BY <1>1 DEF Tallied
<1>6. QED BY <1>1, <1>4, <1>5 DEF Tallied

LEMMA TallySame ==
  ASSUME NEW f, NEW n, NEW sum, Tallied(f, n, sum), NEW h, DOMAIN h = DOMAIN f,
         \A x \in DOMAIN f : h[x].size = f[x].size
  PROVE  Tallied(h, n, sum)
<1>1. SizeSum(h) = SizeSum(f) /\ Sized(h) BY SumSame DEF Tallied
<1>2. QED BY <1>1 DEF Tallied

\* The page of an entry of the free map.
LEMMA EntryIs ==
  ASSUME NEW m, NEW c, NEW fm, FreeMapOk(m, c, fm), NEW e \in fm
  PROVE  e[2] \in PagesOf(m) /\ e = Entry(c, e[2]) /\ e[1] = EffectiveFreeBytes(c[e[2]])
<1>1. PICK b \in PagesOf(m) : e = Entry(c, b) BY DEF FreeMapOk
<1>2. e[2] = b /\ e[1] = EffectiveFreeBytes(c[b]) BY <1>1 DEF Entry
<1>3. QED BY <1>1, <1>2

\* What the other pages have in the free map stays there.
Others(m, c, d, b) == \A x \in PagesOf(m) : x # b => d[x] = c[x]

\* One page has changed, and its entry with it.
LEMMA FreeMapPage ==
  ASSUME NEW m, NEW c, NEW fm, FreeMapOk(m, c, fm), NEW b \in PagesOf(m), NEW d, Others(m, c, d, b),
         NEW g, \A x \in PagesOf(m) : x # b => (Entry(c, x) \in g <=> Entry(c, x) \in fm),
         g \subseteq fm \cup {Entry(d, b)},
         Entry(c, b) \notin g \/ Entry(c, b) = Entry(d, b),
         EffectiveFreeBytes(d[b]) > 0 => Entry(d, b) \in g
  PROVE  FreeMapOk(m, d, g)
<1>1. \A x \in PagesOf(m) : x # b => Entry(d, x) = Entry(c, x) BY DEF Others, Entry
<1>2. ASSUME NEW e \in g PROVE e \in { Entry(d, x) : x \in PagesOf(m) }
  <2>1. CASE e = Entry(d, b) BY <2>1
  <2>2. CASE e # Entry(d, b)
    <3>1. e \in fm BY <2>2
    <3>2. PICK x \in PagesOf(m) : e = Entry(c, x) BY <3>1 DEF FreeMapOk
    <3>3. x # b BY <2>2, <3>2
    <3>4. QED BY <1>1, <3>2, <3>3
  <2>3. QED BY <2>1, <2>2
<1>3. ASSUME NEW x \in PagesOf(m), EffectiveFreeBytes(d[x]) > 0 PROVE Entry(d, x) \in g
  <2>1. CASE x = b BY <1>3, <2>1
  <2>2. CASE x # b
    <3>1. EffectiveFreeBytes(c[x]) > 0 BY <1>3, <2>2 DEF Others
    <3>2. Entry(c, x) \in fm BY <3>1 DEF FreeMapOk
    <3>3. QED BY <1>1, <2>2, <3>2
  <2>3. QED BY <2>1, <2>2
<1>4. QED BY <1>2, <1>3 DEF FreeMapOk

LEMMA FreeMapNewPage ==
  ASSUME NEW m, NEW c, NEW fm, FreeMapOk(m, c, fm), NEW h, NEW d, NEW b,
         PagesOf(h) = PagesOf(m) \cup {b}, b \notin PagesOf(m), Others(m, c, d, b)
  PROVE  FreeMapOk(h, d, fm \cup FreeEntry(d[b], b))
<1> DEFINE g == fm \cup FreeEntry(d[b], b)
<1>1. \A x \in PagesOf(m) : Entry(d, x) = Entry(c, x) /\ d[x] = c[x] BY DEF Others, Entry
<1>2. g = fm \cup (IF EffectiveFreeBytes(d[b]) > 0 THEN {Entry(d, b)} ELSE {})
  BY DEF FreeEntry, Entry
<1> HIDE DEF g
<1>3. ASSUME NEW e \in g PROVE e \in { Entry(d, x) : x \in PagesOf(h) }
  <2>1. CASE e = Entry(d, b) BY <2>1
  <2>2. CASE e # Entry(d, b)
    <3>1. e \in fm BY <1>2, <2>2
    <3>2. PICK x \in PagesOf(m) : e = Entry(c, x) BY <3>1 DEF FreeMapOk
    <3>3. QED BY <1>1, <3>2
  <2>3. QED BY <2>1, <2>2
<1>4. ASSUME NEW x \in PagesOf(h), EffectiveFreeBytes(d[x]) > 0 PROVE Entry(d, x) \in g
  <2>1. CASE x = b BY <1>2, <1>4, <2>1
  <2>2. CASE x # b
    <3>1. EffectiveFreeBytes(c[x]) > 0 BY <1>1, <1>4, <2>2
    <3>2. Entry(c, x) \in fm BY <2>2, <3>1 DEF FreeMapOk
    <3>3. QED BY <1>1, <1>2, <2>2, <3>2
  <2>3. QED BY <2>1, <2>2
<1>5. QED BY <1>3, <1>4 DEF FreeMapOk, g

LEMMA FreeMapDrop ==
  ASSUME NEW m, NEW c, NEW fm, FreeMapOk(m, c, fm), NEW h, NEW d, NEW b,
         PagesOf(h) = PagesOf(m) \ {b}, Others(m, c, d, b)
  PROVE  FreeMapOk(h, d, fm \ {Entry(c, b)})
<1>1. \A x \in PagesOf(h) : x \in PagesOf(m) /\ x # b /\ Entry(d, x) = Entry(c, x) /\ d[x] = c[x]
  BY DEF Others, Entry
<1>2. ASSUME NEW e \in fm, e # Entry(c, b) PROVE e \in { Entry(d, x) : x \in PagesOf(h) }
  <2>1. PICK x \in PagesOf(m) : e = Entry(c, x) BY DEF FreeMapOk
  <2>2. x # b BY <1>2, <2>1
  <2>3. QED BY <1>1, <2>1, <2>2
<1>3. \A x : x # b => Entry(c, x) # Entry(c, b) BY DEF Entry
<1>4. QED BY <1>1, <1>2, <1>3 DEF FreeMapOk

LEMMA FreeMapKept ==
  ASSUME NEW m, NEW c, NEW fm, FreeMapOk(m, c, fm), NEW h, NEW d,
         PagesOf(h) = PagesOf(m), \A x \in PagesOf(m) : d[x] = c[x]
  PROVE  FreeMapOk(h, d, fm)
<1>1. \A x \in PagesOf(m) : Entry(d, x) = Entry(c, x) BY DEF Entry
<1>2. QED BY <1>1 DEF FreeMapOk

LEMMA Constants ==
  /\ \A size \in Sizes : size \in Nat \ {0}
  /\ \A b \in Blocks : b \in Nat
  /\ BlockSize \in Nat \ {0}
  /\ SizeField \in Nat \ {0}
  /\ U32 \in Nat \ {0}
BY HeapAssumption

\* An object that gets slot i of page b.
LEMMA AddedToPage ==
  ASSUME NEW m, NEW c, NEW f, NEW b \in PagesOf(m), PagesOk(m, c), AllStored(m, c, f),
         NEW size \in Nat \ {0}, NEW v \in Values, NEW q, NEW i, Closed(q),
         Allocates(c[b], q, i, size, v),
         NEW d, d = Update(c, b, q)
  PROVE  /\ PagesOk(m, d) /\ d[b] = q /\ (\A x \in Blocks : x # b => d[x] = c[x])
         /\ AllStored(m, d, With(f, SmallRef(b, i), [size |-> size, value |-> v]))
         /\ SmallRef(b, i) \notin DOMAIN f
<1> DEFINE ref == SmallRef(b, i)
           o == [size |-> size, value |-> v]
<1>1. PageOk(q) BY DEF Allocates
<1>2. PagesOk(m, d) /\ d[b] = q /\ \A x \in Blocks : x # b => d[x] = c[x] BY <1>1, PageReplaced
<1>3. q \in PageType BY <1>1, PageBytes
<1>4. i \in Nat \ {0} BY <1>3, SlotsOfPage DEF Allocates
<1>5. ref.block = b /\ ref.slot = i /\ ref \in Refs BY <1>4 DEF SmallRef, Refs, PagesOf
<1>6. ref \notin DOMAIN f
  <2>1. SUFFICES ASSUME ref \in DOMAIN f PROVE FALSE OBVIOUS
  <2>2. ref.slot \in UsedSlots(c[ref.block]) BY <1>5, <2>1, SlotOfRef
  <2>3. QED BY <1>5, <2>2 DEF Allocates
<1> HIDE DEF ref
<1>7. AllStored(m, d, f)
  <2>1. SUFFICES ASSUME NEW r \in DOMAIN f PROVE Stored(m, d, r, f[r]) BY DEF AllStored
  <2>2. Stored(m, c, r, f[r]) BY DEF AllStored
  <2>3. ASSUME r.block = b PROVE r.slot \in UsedSlots(q) /\ Carried(c[b], q, r.slot)
    <3>1. r.slot \in UsedSlots(c[b]) BY <2>3, SlotOfRef
    <3>2. QED BY <3>1 DEF Allocates
  <2>4. QED BY <1>2, <2>2, <2>3, StoredOnPage
<1>8. Stored(m, d, ref, o)
  <2>1. Holds(q, i, o) BY DEF Holds, Allocates
  <2>2. m[b] # None /\ ~m[b].large BY DEF PagesOf
  <2>3. QED BY <1>2, <1>4, <1>5, <2>1, <2>2 DEF Stored, Objects
<1>9. AllStored(m, d, With(f, ref, o)) BY <1>7, <1>8, StoredAdd
<1>10. QED BY <1>2, <1>6, <1>9 DEF ref

LEMMA AllocateOnPageStep ==
  ASSUME Inv, NEW size \in Sizes, NEW v \in Values, AllocateOnPage(size, v)
  PROVE  Inv'
<1>1. PICK e \in BestFit(size) :
         LET b == e[2]
             a == PageAllocate(content[b], size, v)
         IN  /\ content' = [content EXCEPT ![b] = a.page]
             /\ m_free_map' = (m_free_map \cup FreeEntry(a.page, b)) \ {e}
             /\ Allocated(SmallRef(b, a.slot), size, v)
  BY DEF AllocateOnPage
<1> DEFINE b == e[2]
           a == PageAllocate(content[b], size, v)
           m == m_page_map
           ref == SmallRef(b, a.slot)
           o == [size |-> size, value |-> v]
<1>2. m_page_map' = m /\ blocks_count' = blocks_count BY DEF AllocateOnPage
<1>3. /\ content' = Update(content, b, a.page)
      /\ m_free_map' = (m_free_map \cup FreeEntry(a.page, b)) \ {e}
      /\ objects_count' = objects_count + 1 /\ objects_size' = objects_size + size
      /\ live' = With(live, ref, o)
  BY <1>1 DEF Allocated, Update
<1>4. e \in m_free_map /\ e[1] >= size BY <1>1 DEF BestFit
<1>5. /\ Runs(m) /\ Counted(m, blocks_count) /\ PagesOk(m, content) /\ AllStored(m, content, live)
      /\ FreeMapOk(m, content, m_free_map) /\ Tallied(live, objects_count, objects_size)
  BY DEF Inv
<1>6. b \in PagesOf(m) /\ e = Entry(content, b) /\ e[1] = EffectiveFreeBytes(content[b])
  BY <1>4, <1>5, EntryIs
<1>7. PageOk(content[b]) /\ Closed(content[b]) BY <1>5, <1>6 DEF PagesOk
<1>8. size \in Nat \ {0} BY Constants
<1>9. EffectiveFreeBytes(content[b]) >= size BY <1>4, <1>6
<1> HIDE DEF b, m
<1>10. Need(content[b], size) <= FreeBytes(content[b]) BY <1>7, <1>8, <1>9, EffectiveIs
<1>11. /\ Allocates(content[b], a.page, a.slot, size, v) /\ Closed(a.page)
       /\ EffectiveFreeBytes(a.page) < EffectiveFreeBytes(content[b])
  BY <1>7, <1>8, <1>9, <1>10, AfterAllocate
<1> DEFINE q == a.page
           i == a.slot
<1> HIDE DEF a, q, i, o
<1>12. /\ PagesOk(m, content') /\ content'[b] = q
       /\ \A x \in Blocks : x # b => content'[x] = content[x]
       /\ AllStored(m, content', live') /\ ref \notin DOMAIN live
  <2>1. Allocates(content[b], q, i, size, v) /\ Closed(q) /\ content' = Update(content, b, q)
    BY <1>3, <1>11 DEF q, i
  <2>2. /\ PagesOk(m, content') /\ content'[b] = q
        /\ \A x \in Blocks : x # b => content'[x] = content[x]
        /\ AllStored(m, content', With(live, SmallRef(b, i), [size |-> size, value |-> v]))
        /\ SmallRef(b, i) \notin DOMAIN live
    <3>1. b \in PagesOf(m) /\ PagesOk(m, content) /\ AllStored(m, content, live) BY <1>5, <1>6
    <3>2. v \in Values OBVIOUS
    <3> DEFINE d == content'
    <3>3. d = Update(content, b, q) BY <2>1
    <3> HIDE DEF d
    <3>4. /\ PagesOk(m, d) /\ d[b] = q /\ (\A x \in Blocks : x # b => d[x] = content[x])
          /\ AllStored(m, d, With(live, SmallRef(b, i), [size |-> size, value |-> v]))
          /\ SmallRef(b, i) \notin DOMAIN live
      BY <1>8, <2>1, <3>1, <3>2, <3>3, AddedToPage, Z3
    <3>5. QED BY <3>4 DEF d
  <2>3. QED BY <1>3, <2>2 DEF i, o
<1>13. Tallied(live', objects_count', objects_size')
  <2>1. o.size = size BY DEF o
  <2>2. QED BY <1>3, <1>5, <1>8, <1>12, <2>1, TallyAdd
<1>14. FreeMapOk(m, content', m_free_map')
  <2> DEFINE d == content'
             g == m_free_map'
  <2>1. Entry(d, b) = <<EffectiveFreeBytes(q), b>> BY <1>12 DEF Entry
  <2>2. EffectiveFreeBytes(q) \in Nat /\ EffectiveFreeBytes(content[b]) \in Nat
    BY <1>7, <1>11, EffectiveIs DEF Allocates, q
  <2>3. EffectiveFreeBytes(q) # EffectiveFreeBytes(content[b]) BY <1>11, <2>2 DEF q
  <2>4. Entry(d, b) # e BY <1>6, <2>1, <2>3 DEF Entry
  <2>5. FreeEntry(a.page, b) = IF EffectiveFreeBytes(q) > 0 THEN {Entry(d, b)} ELSE {}
    BY <2>1 DEF FreeEntry, q
  <2>6. Others(m, content, d, b) BY <1>12 DEF Others, PagesOf
  <2>7. \A x : x # b => Entry(content, x) # Entry(d, b) /\ Entry(content, x) # e
    BY <1>6 DEF Entry
  <2>8. g \subseteq m_free_map \cup {Entry(d, b)} BY <1>3, <2>5
  <2>9. Entry(content, b) \notin g BY <1>3, <1>6
  <2>10. EffectiveFreeBytes(d[b]) > 0 => Entry(d, b) \in g BY <1>3, <1>12, <2>4, <2>5
  <2>11. \A x \in PagesOf(m) : x # b => (Entry(content, x) \in g <=> Entry(content, x) \in m_free_map)
    BY <1>3, <2>5, <2>7
  <2> HIDE DEF d, g
  <2>12. FreeMapOk(m, d, g) BY <1>5, <1>6, <2>6, <2>8, <2>9, <2>10, <2>11, FreeMapPage
  <2>13. QED BY <2>12 DEF d, g
<1>15. QED BY <1>2, <1>5, <1>12, <1>13, <1>14 DEF Inv, m

\* The allocation is rolled back: the objects are still there, a compaction may
\* have moved them.
LEMMA AllocateOnPageFailsStep ==
  ASSUME Inv, NEW size \in Sizes, AllocateOnPageFails(size)
  PROVE  Inv'
<1>1. PICK e \in BestFit(size), v \in Values :
         LET b == e[2]
             a == PageAllocate(content[b], size, v)
         IN  content' = [content EXCEPT ![b] = PageFree(a.page, a.slot)]
  BY DEF AllocateOnPageFails
<1> DEFINE b == e[2]
           a == PageAllocate(content[b], size, v)
           m == m_page_map
           q == PageFree(a.page, a.slot)
<1>2. /\ m_page_map' = m /\ blocks_count' = blocks_count /\ m_free_map' = m_free_map
      /\ objects_count' = objects_count /\ objects_size' = objects_size /\ live' = live
  BY DEF AllocateOnPageFails
<1>3. content' = Update(content, b, q) BY <1>1 DEF Update
<1>4. e \in m_free_map /\ e[1] >= size BY <1>1 DEF BestFit
<1>5. /\ Runs(m) /\ Counted(m, blocks_count) /\ PagesOk(m, content) /\ AllStored(m, content, live)
      /\ FreeMapOk(m, content, m_free_map) /\ Tallied(live, objects_count, objects_size)
  BY DEF Inv
<1>6. b \in PagesOf(m) /\ e = Entry(content, b) /\ e[1] = EffectiveFreeBytes(content[b])
  BY <1>4, <1>5, EntryIs
<1>7. PageOk(content[b]) /\ Closed(content[b]) BY <1>5, <1>6 DEF PagesOk
<1>8. size \in Nat \ {0} BY Constants
<1>9. EffectiveFreeBytes(content[b]) >= size BY <1>4, <1>6
<1> HIDE DEF b, m
<1>10. /\ PageOk(q) /\ Closed(q) /\ UsedSlots(q) = UsedSlots(content[b])
       /\ EffectiveFreeBytes(q) = EffectiveFreeBytes(content[b])
       /\ \A j \in UsedSlots(content[b]) : Carried(content[b], q, j)
  BY <1>7, <1>8, <1>9, AfterRollback
<1> HIDE DEF a, q
<1>11. /\ PagesOk(m, content') /\ content'[b] = q
       /\ \A x \in Blocks : x # b => content'[x] = content[x]
  BY <1>3, <1>5, <1>6, <1>10, PageReplaced
<1>12. AllStored(m, content', live)
  <2>1. SUFFICES ASSUME NEW r \in DOMAIN live PROVE Stored(m, content', r, live[r]) BY DEF AllStored
  <2>2. Stored(m, content, r, live[r]) BY <1>5 DEF AllStored
  <2>3. ASSUME r.block = b PROVE r.slot \in UsedSlots(q) /\ Carried(content[b], q, r.slot)
    <3>1. r.slot \in UsedSlots(content[b]) BY <1>5, <1>6, <2>3, SlotOfRef
    <3>2. QED BY <1>10, <3>1
  <2>4. QED BY <1>6, <1>11, <2>2, <2>3, StoredOnPage
<1>13. FreeMapOk(m, content', m_free_map)
  <2> DEFINE d == content'
  <2>1. Entry(d, b) = Entry(content, b) BY <1>10, <1>11 DEF Entry
  <2>2. Others(m, content, d, b) BY <1>11 DEF Others, PagesOf
  <2>3. EffectiveFreeBytes(d[b]) > 0 => Entry(d, b) \in m_free_map
    BY <1>5, <1>6, <1>10, <1>11, <2>1 DEF FreeMapOk
  <2>4. m_free_map \subseteq m_free_map \cup {Entry(d, b)} OBVIOUS
  <2> HIDE DEF d
  <2>5. FreeMapOk(m, d, m_free_map) BY <1>5, <1>6, <2>1, <2>2, <2>3, <2>4, FreeMapPage
  <2>6. QED BY <2>5 DEF d
<1>14. QED BY <1>2, <1>5, <1>11, <1>12, <1>13 DEF Inv, m

\* Blocks that the heap has not.
LEMMA UsedIs == Used = Covered(m_page_map)
BY DEF Used, Covered, Owned, Run

Absent(f, b) == \A ref \in DOMAIN f : ref.block # b

OnlyAt(b, m, c, h, d) == \A x \in Blocks : x # b => h[x] = m[x] /\ d[x] = c[x]

\* Objects stay what they are when other blocks change.
LEMMA StoredElsewhere ==
  ASSUME NEW m, NEW c, NEW f, AllStored(m, c, f), NEW h, NEW d, NEW b, Absent(f, b),
         OnlyAt(b, m, c, h, d)
  PROVE  AllStored(h, d, f)
<1>1. SUFFICES ASSUME NEW r \in DOMAIN f PROVE Stored(h, d, r, f[r]) BY DEF AllStored
<1>2. Stored(m, c, r, f[r]) BY DEF AllStored
<1>3. r.block \in Blocks /\ r.block # b BY SlotOfRef DEF Owned, Absent
<1>4. h[r.block] = m[r.block] /\ d[r.block] = c[r.block] BY <1>3 DEF OnlyAt
<1>5. QED BY <1>2, <1>4, StoredKept

LEMMA AllocateNewPageStep ==
  ASSUME Inv, NEW size \in Sizes, NEW v \in Values, AllocateNewPage(size, v)
  PROVE  Inv'
<1> DEFINE a == PageAllocate(EmptyPage, size, v)
           e == [large |-> FALSE, block_count |-> 1]
           m == m_page_map
           o == [size |-> size, value |-> v]
<1>1. PICK b \in FreeRuns(1) :
         /\ content' = [content EXCEPT ![b] = a.page]
         /\ m_page_map' = [m_page_map EXCEPT ![b] = e]
         /\ m_free_map' = m_free_map \cup FreeEntry(a.page, b)
         /\ Allocated(SmallRef(b, a.slot), size, v)
  BY DEF AllocateNewPage
<1> DEFINE ref == SmallRef(b, a.slot)
<1>2. blocks_count' = blocks_count + 1 /\ size <= MaxSmallObject BY DEF AllocateNewPage
<1>3. /\ content' = Update(content, b, a.page) /\ m_page_map' = Update(m, b, e)
      /\ m_free_map' = m_free_map \cup FreeEntry(a.page, b)
      /\ objects_count' = objects_count + 1 /\ objects_size' = objects_size + size
      /\ live' = With(live, ref, o)
  BY <1>1 DEF Allocated, Update
<1>5. /\ Runs(m) /\ Counted(m, blocks_count) /\ PagesOk(m, content) /\ AllStored(m, content, live)
      /\ FreeMapOk(m, content, m_free_map) /\ Tallied(live, objects_count, objects_size)
  BY DEF Inv
<1>6. b \in Blocks /\ e \in Entries /\ e.block_count = 1 /\ ~e.large /\ e # None
  <2>1. e \in [large : BOOLEAN, block_count : Nat] OBVIOUS
  <2>2. e # None BY <2>1, HeapAssumption
  <2>3. e \in Entries BY DEF Entries
  <2>4. e.block_count = 1 /\ ~e.large OBVIOUS
  <2>5. QED BY <2>2, <2>3, <2>4 DEF FreeRuns
<1>7. b .. b + e.block_count - 1 \subseteq Blocks \ Covered(m) BY UsedIs DEF FreeRuns
<1>8. size \in Nat \ {0} BY Constants
<1> HIDE DEF e, m, o
<1>9. Runs(m_page_map') /\ Counted(m_page_map', blocks_count') /\ m[b] = None
  BY <1>2, <1>3, <1>5, <1>6, <1>7, MapAdd
<1>10. Allocates(EmptyPage, a.page, a.slot, size, v) /\ Closed(a.page)
  <2>1. Need(EmptyPage, size) <= FreeBytes(EmptyPage) BY <1>2, <1>8, EmptyPageOk
  <2>2. PageOk(EmptyPage) /\ EmptyPage.slots = << >> BY EmptyPageOk
  <2> DEFINE p == EmptyPage
             z == a
  <2>3. z = PageAllocate(p, size, v) /\ PageOk(p) /\ (Closed(p) \/ p.slots = << >>)
        /\ Need(p, size) <= FreeBytes(p)
    BY <2>1, <2>2
  <2> HIDE DEF p, z
  <2>4. Allocates(p, z.page, z.slot, size, v) /\ Closed(z.page) BY <1>8, <2>3, AfterAllocate
  <2>5. QED BY <2>4 DEF p, z
<1> DEFINE q == a.page
           i == a.slot
           h == m_page_map'
           d == content'
<1>11. Allocates(EmptyPage, q, i, size, v) /\ Closed(q) BY <1>10
<1>12. /\ d = Update(content, b, q) /\ h = Update(m, b, e) /\ ref = SmallRef(b, i)
       /\ m_free_map' = m_free_map \cup FreeEntry(q, b) /\ live' = With(live, ref, o)
  BY <1>3
<1>13. Runs(h) BY <1>9
<1> HIDE DEF a, q, i, h, d
<1>14. /\ d[b] = q /\ h[b] = e /\ DOMAIN d = Blocks /\ d = [x \in Blocks |-> d[x]]
       /\ \A x \in Blocks : x # b => h[x] = m[x] /\ d[x] = content[x]
  BY <1>5, <1>6, <1>12 DEF Update, PagesOk, Runs
<1>15. PagesOf(h) = PagesOf(m) \cup {b} /\ b \notin PagesOf(m)
  BY <1>6, <1>9, <1>14 DEF PagesOf
<1>16. PageOk(q) BY <1>11 DEF Allocates
<1>17. PagesOk(h, d)
  <2>1. SUFFICES ASSUME NEW x \in PagesOf(h)
                 PROVE  h[x].block_count = 1 /\ PageOk(d[x]) /\ Closed(d[x])
    BY <1>14 DEF PagesOk
  <2>2. CASE x = b BY <1>6, <1>11, <1>14, <1>16, <2>2
  <2>3. CASE x # b
    <3>1. x \in PagesOf(m) /\ x \in Blocks BY <1>15, <2>3 DEF PagesOf
    <3>2. QED BY <1>5, <1>14, <2>3, <3>1 DEF PagesOk
  <2>4. QED BY <2>2, <2>3
<1>18. \A r \in DOMAIN live : r.block # b
  <2>1. SUFFICES ASSUME NEW r \in DOMAIN live PROVE r.block # b OBVIOUS
  <2>2. r.block \in Owned(m) BY <1>5, SlotOfRef
  <2>3. QED BY <1>9, <2>2 DEF Owned
<1>19. AllStored(h, d, live)
  <2>1. Absent(live, b) /\ OnlyAt(b, m, content, h, d) BY <1>14, <1>18 DEF Absent, OnlyAt
  <2>2. QED BY <1>5, <2>1, StoredElsewhere
<1>20. i \in Nat \ {0}
  <2>1. q \in PageType BY <1>16, PageBytes
  <2>2. QED BY <1>11, <2>1, SlotsOfPage DEF Allocates
<1>21. ref.block = b /\ ref.slot = i /\ ref \in Refs BY <1>6, <1>12, <1>20 DEF SmallRef, Refs
<1> HIDE DEF ref
<1>22. Stored(h, d, ref, o)
  <2>1. Holds(q, i, o) BY <1>11 DEF Holds, Allocates, o
  <2>2. o \in Objects BY <1>8 DEF o, Objects
  <2>3. QED BY <1>6, <1>14, <1>20, <1>21, <2>1, <2>2 DEF Stored
<1>23. AllStored(h, d, live') BY <1>12, <1>19, <1>22, StoredAdd
<1>24. ref \notin DOMAIN live BY <1>18, <1>21
<1>25. Tallied(live', objects_count', objects_size')
  <2>1. o.size = size BY DEF o
  <2>2. QED BY <1>3, <1>5, <1>8, <1>24, <2>1, TallyAdd
<1>26. FreeMapOk(h, d, m_free_map')
  <2>1. Others(m, content, d, b) BY <1>14 DEF Others, PagesOf
  <2>2. FreeMapOk(h, d, m_free_map \cup FreeEntry(d[b], b)) BY <1>5, <1>15, <2>1, FreeMapNewPage
  <2>3. QED BY <1>12, <1>14, <2>2
<1>27. QED BY <1>9, <1>17, <1>23, <1>25, <1>26 DEF Inv, h, d

\* Large objects have room for their size and their content.
LEMMA RequiredBlocksFit ==
  ASSUME NEW size \in Nat \ {0}, size + SizeField + BlockSize - 1 < U32
  PROVE  RequiredBlocks(size) \in Nat \ {0} /\ RequiredBlocks(size) * BlockSize >= size + SizeField
<1> DEFINE n == RequiredBlocks(size)
           a == size + SizeField
           c == a + BlockSize - 1
<1>1. BlockSize \in Nat /\ BlockSize > 0 /\ SizeField \in Nat /\ SizeField > 0 /\ U32 \in Nat
  BY Constants
<1>2. a \in Nat /\ c \in Nat /\ c = a + BlockSize - 1 /\ a > 0 /\ a < U32 /\ c < U32 BY <1>1
<1>3. n = (((a % U32) + BlockSize - 1) % U32) \div BlockSize BY DEF RequiredBlocks
<1> HIDE DEF n, a, c
<1>4. a % U32 = a BY <1>1, <1>2
<1>5. c % U32 = c BY <1>1, <1>2
<1>6. n = c \div BlockSize BY <1>2, <1>3, <1>4, <1>5
<1>7. n \in Int /\ n * BlockSize <= c /\ c < n * BlockSize + BlockSize BY <1>1, <1>2, <1>6
<1>8. PICK w \in Int : w = n * BlockSize BY <1>1, <1>7
<1>9. w >= a BY <1>1, <1>2, <1>7, <1>8
<1>10. n > 0
  <2>1. SUFFICES ASSUME n <= 0 PROVE FALSE BY <1>7
  <2>2. n * BlockSize <= 0 BY <1>1, <1>7, <2>1
  <2>3. QED BY <1>2, <1>8, <1>9, <2>2
<1>11. QED BY <1>7, <1>8, <1>9, <1>10 DEF n, a

LEMMA AllocateLargeStep ==
  ASSUME NoWrap, Inv, NEW size \in Sizes, NEW v \in Values, AllocateLarge(size, v)
  PROVE  Inv'
<1> DEFINE n == RequiredBlocks(size)
           e == [large |-> TRUE, block_count |-> n]
           m == m_page_map
           o == [size |-> size, value |-> v]
<1>1. PICK b \in FreeRuns(n) :
         /\ m_page_map' = [m_page_map EXCEPT ![b] = e]
         /\ content' = [content EXCEPT ![b] = o]
         /\ Allocated(LargeRef(b), size, v)
  BY DEF AllocateLarge
<1> DEFINE ref == LargeRef(b)
<1>2. blocks_count' = blocks_count + n /\ m_free_map' = m_free_map BY DEF AllocateLarge
<1>3. /\ content' = Update(content, b, o) /\ m_page_map' = Update(m, b, e)
      /\ objects_count' = objects_count + 1 /\ objects_size' = objects_size + size
      /\ live' = With(live, ref, o)
  BY <1>1 DEF Allocated, Update
<1>4. /\ Runs(m) /\ Counted(m, blocks_count) /\ PagesOk(m, content) /\ AllStored(m, content, live)
      /\ FreeMapOk(m, content, m_free_map) /\ Tallied(live, objects_count, objects_size)
  BY DEF Inv
<1>5. size \in Nat \ {0} /\ size + SizeField + BlockSize - 1 < U32 BY Constants DEF NoWrap
<1>6. n \in Nat \ {0} /\ n * BlockSize >= size + SizeField BY <1>5, RequiredBlocksFit
<1>7. b .. b + n - 1 \subseteq Blocks \ Covered(m) /\ b \in Blocks BY UsedIs DEF FreeRuns
<1> HIDE DEF n
<1>8. e \in Entries /\ e.block_count = n /\ e.large /\ e # None
  <2>1. e \in [large : BOOLEAN, block_count : Nat] BY <1>6
  <2>2. e # None BY <2>1, HeapAssumption
  <2>3. e \in Entries BY <1>6 DEF Entries
  <2>4. e.block_count = n /\ e.large OBVIOUS
  <2>5. QED BY <2>2, <2>3, <2>4
<1>9. o \in Objects /\ o.size = size BY <1>5 DEF Objects
<1>10. ref.block = b /\ ref.slot = 0 /\ ref \in Refs BY <1>7 DEF LargeRef, Refs
<1> HIDE DEF e, m, o, ref
<1>11. Runs(m_page_map') /\ Counted(m_page_map', blocks_count') /\ m[b] = None
  BY <1>2, <1>3, <1>4, <1>7, <1>8, MapAdd
<1> DEFINE h == m_page_map'
           d == content'
<1>12. d = Update(content, b, o) /\ h = Update(m, b, e) /\ live' = With(live, ref, o) BY <1>3
<1> HIDE DEF h, d
<1>13. /\ d[b] = o /\ h[b] = e /\ d = [x \in Blocks |-> d[x]]
       /\ \A x \in Blocks : x # b => h[x] = m[x] /\ d[x] = content[x]
  BY <1>4, <1>7, <1>12 DEF Update, PagesOk, Runs
<1>14. PagesOf(h) = PagesOf(m) /\ b \notin PagesOf(m)
  BY <1>7, <1>8, <1>11, <1>13 DEF PagesOf
<1>15. \A x \in PagesOf(m) : d[x] = content[x] /\ h[x] = m[x] BY <1>13, <1>14 DEF PagesOf
<1>16. PagesOk(h, d) BY <1>4, <1>13, <1>14, <1>15 DEF PagesOk
<1>17. \A r \in DOMAIN live : r.block # b
  <2>1. SUFFICES ASSUME NEW r \in DOMAIN live PROVE r.block # b OBVIOUS
  <2>2. r.block \in Owned(m) BY <1>4, SlotOfRef
  <2>3. QED BY <1>11, <2>2 DEF Owned
<1>18. AllStored(h, d, live)
  <2>1. Absent(live, b) /\ OnlyAt(b, m, content, h, d) BY <1>13, <1>17 DEF Absent, OnlyAt
  <2>2. QED BY <1>4, <2>1, StoredElsewhere
<1>19. Stored(h, d, ref, o) BY <1>6, <1>8, <1>9, <1>10, <1>13 DEF Stored
<1>20. AllStored(h, d, live') BY <1>12, <1>18, <1>19, StoredAdd
<1>21. Tallied(live', objects_count', objects_size')
  <2>1. ref \notin DOMAIN live BY <1>10, <1>17
  <2>2. QED BY <1>3, <1>4, <1>5, <1>9, <2>1, TallyAdd
<1>22. FreeMapOk(h, d, m_free_map) BY <1>4, <1>14, <1>15, FreeMapKept
<1>23. QED BY <1>2, <1>11, <1>16, <1>20, <1>21, <1>22 DEF Inv, h, d

LEMMA StoredLess ==
  ASSUME NEW m, NEW c, NEW f, AllStored(m, c, f), NEW ref
  PROVE  AllStored(m, c, Without(f, ref))
<1>1. SUFFICES ASSUME NEW r \in DOMAIN Without(f, ref) PROVE Stored(m, c, r, Without(f, ref)[r])
  BY DEF AllStored
<1>2. r \in DOMAIN f /\ Without(f, ref)[r] = f[r] BY DEF Without
<1>3. QED BY <1>2 DEF AllStored

\* What the heap says of an object's size is what was asked for.
LEMMA SizeIs ==
  ASSUME AllStored(m_page_map, content, live), NEW ref \in DOMAIN live
  PROVE  Size(ref) = live[ref].size
<1>1. Stored(m_page_map, content, ref, live[ref]) BY DEF AllStored
<1>2. CASE ref.slot = 0 BY <1>1, <1>2 DEF Stored, Size, IsLarge
<1>3. CASE ref.slot # 0 BY <1>1, <1>3 DEF Stored, Size, IsLarge, Holds
<1>4. QED BY <1>2, <1>3

LEMMA FreeLargeStep ==
  ASSUME Inv, NEW ref \in DOMAIN live, FreeLarge(ref)
  PROVE  Inv'
<1> DEFINE b == ref.block
           m == m_page_map
           f == Without(live, ref)
           h == m_page_map'
           d == content'
<1>1. /\ h = Update(m, b, None) /\ d = Update(content, b, None)
      /\ blocks_count' = blocks_count - m[b].block_count /\ m_free_map' = m_free_map
      /\ ref.slot = 0
  BY DEF FreeLarge, Update, IsLarge
<1>2. /\ objects_count' = objects_count - 1 /\ objects_size' = objects_size - Size(ref)
      /\ live' = f
  BY DEF FreeLarge, Freed
<1>3. /\ Runs(m) /\ Counted(m, blocks_count) /\ PagesOk(m, content) /\ AllStored(m, content, live)
      /\ FreeMapOk(m, content, m_free_map) /\ Tallied(live, objects_count, objects_size)
  BY DEF Inv
<1>4. Size(ref) = live[ref].size BY <1>3, SizeIs
<1>5. b \in Owned(m) /\ m[b].large /\ b \in Blocks BY <1>1, <1>3, SlotOfRef DEF Owned
<1>6. Tallied(live', objects_count', objects_size') BY <1>2, <1>3, <1>4, TallyRemove
<1>7. ASSUME NEW r \in DOMAIN f PROVE r.block # b
  <2>1. r \in DOMAIN live /\ r # ref BY <1>7 DEF Without
  <2>2. SUFFICES ASSUME r.block = b PROVE FALSE OBVIOUS
  <2>3. r.block \notin PagesOf(m) BY <1>5, <2>2 DEF PagesOf
  <2>4. r.slot = 0 /\ r = [block |-> b, slot |-> r.slot] BY <1>3, <2>1, <2>2, <2>3, SlotOfRef
  <2>5. ref = [block |-> b, slot |-> ref.slot] BY <1>3, SlotOfRef
  <2>6. QED BY <1>1, <2>1, <2>4, <2>5
<1> HIDE DEF m, f, h, d, b
<1>8. Runs(h) /\ Counted(h, blocks_count') BY <1>1, <1>3, <1>5, MapRemove
<1>9. /\ h[b] = None /\ d = [x \in Blocks |-> d[x]]
      /\ \A x \in Blocks : x # b => h[x] = m[x] /\ d[x] = content[x]
  BY <1>1, <1>3, <1>5 DEF Update, PagesOk, Runs
<1>10. PagesOf(h) = PagesOf(m) /\ b \notin PagesOf(m) BY <1>5, <1>9 DEF PagesOf
<1>11. \A x \in PagesOf(m) : d[x] = content[x] /\ h[x] = m[x] BY <1>9, <1>10 DEF PagesOf
<1>12. PagesOk(h, d) BY <1>3, <1>9, <1>10, <1>11 DEF PagesOk
<1>13. AllStored(m, content, f) BY <1>3, StoredLess DEF f
<1>14. AllStored(h, d, f)
  <2>1. Absent(f, b) /\ OnlyAt(b, m, content, h, d) BY <1>7, <1>9 DEF Absent, OnlyAt
  <2>2. QED BY <1>13, <2>1, StoredElsewhere
<1>15. FreeMapOk(h, d, m_free_map) BY <1>3, <1>10, <1>11, FreeMapKept
<1>16. QED BY <1>1, <1>2, <1>6, <1>8, <1>12, <1>14, <1>15 DEF Inv, h, d

LEMMA FreeSmallStep ==
  ASSUME Inv, NEW ref \in DOMAIN live, FreeSmall(ref)
  PROVE  Inv'
<1> DEFINE b == ref.block
           i == ref.slot
           m == m_page_map
           f == Without(live, ref)
           h == m_page_map'
           d == content'
           q == PageFree(content[b], i)
<1>1. /\ objects_count' = objects_count - 1 /\ objects_size' = objects_size - Size(ref)
      /\ live' = f /\ i # 0
  BY DEF FreeSmall, Freed, IsLarge
<1>2. EntryOf(b) = Entry(content, b) /\ Entry(content, b) \in m_free_map
  BY DEF FreeSmall, EntryOf, Entry
<1>3. /\ Runs(m) /\ Counted(m, blocks_count) /\ PagesOk(m, content) /\ AllStored(m, content, live)
      /\ FreeMapOk(m, content, m_free_map) /\ Tallied(live, objects_count, objects_size)
  BY DEF Inv
<1>4. Size(ref) = live[ref].size BY <1>3, SizeIs
<1>5. Tallied(live', objects_count', objects_size') BY <1>1, <1>3, <1>4, TallyRemove
<1>6. b \in PagesOf(m) /\ b \in Blocks /\ b \in Owned(m) /\ i \in UsedSlots(content[b])
  BY <1>1, <1>3, SlotOfRef DEF PagesOf
<1>7. PageOk(content[b]) /\ Closed(content[b]) /\ m[b].block_count = 1 BY <1>3, <1>6 DEF PagesOk
<1>8. ASSUME NEW r \in DOMAIN f, r.block = b PROVE r.slot \in UsedSlots(content[b]) \ {i}
  <2>1. r \in DOMAIN live /\ r # ref BY <1>8 DEF Without
  <2>2. r.slot \in UsedSlots(content[b]) BY <1>3, <1>6, <1>8, <2>1, SlotOfRef
  <2>3. r = [block |-> b, slot |-> r.slot] /\ ref = [block |-> b, slot |-> i]
    BY <1>3, <1>8, <2>1, SlotOfRef
  <2>4. QED BY <2>1, <2>2, <2>3
<1>9. AllStored(m, content, f) BY <1>3, StoredLess
<1>10. \/ /\ q.slots = << >> /\ h = Update(m, b, None) /\ d = Update(content, b, None)
          /\ m_free_map' = m_free_map \ {Entry(content, b)} /\ blocks_count' = blocks_count - 1
       \/ /\ q.slots # << >> /\ h = m /\ d = Update(content, b, q) /\ blocks_count' = blocks_count
          /\ m_free_map' = (m_free_map \ {Entry(content, b)}) \cup {<<EffectiveFreeBytes(q), b>>}
  BY <1>2 DEF FreeSmall, Update
<1> HIDE DEF b, i, m, f, h, d
<1>11. Frees(content[b], q, i) BY <1>6, <1>7, PageFreeIs
<1> HIDE DEF q
<1>12. CASE q.slots = << >>
  <2>1. /\ h = Update(m, b, None) /\ d = Update(content, b, None)
        /\ m_free_map' = m_free_map \ {Entry(content, b)} /\ blocks_count' = blocks_count - 1
    BY <1>10, <1>12
  <2>2. Runs(h) /\ Counted(h, blocks_count') BY <1>3, <1>6, <1>7, <2>1, MapRemove
  <2>3. /\ h[b] = None /\ d = [x \in Blocks |-> d[x]]
        /\ \A x \in Blocks : x # b => h[x] = m[x] /\ d[x] = content[x]
    BY <1>3, <1>6, <2>1 DEF Update, PagesOk, Runs
  <2>4. PagesOf(h) = PagesOf(m) \ {b} BY <2>3 DEF PagesOf
  <2>5. PagesOk(h, d)
    <3>1. \A x \in PagesOf(h) : x \in PagesOf(m) /\ h[x] = m[x] /\ d[x] = content[x]
      BY <2>3, <2>4 DEF PagesOf
    <3>2. QED BY <1>3, <2>3, <3>1 DEF PagesOk
  <2>6. UsedSlots(content[b]) \ {i} = {}
    <3>1. UsedSlots(q) = {} BY <1>12 DEF UsedSlots
    <3>2. QED BY <1>11, <3>1 DEF Frees
  <2>7. \A r \in DOMAIN f : r.block # b BY <1>8, <2>6
  <2>8. AllStored(h, d, f)
    <3>1. Absent(f, b) /\ OnlyAt(b, m, content, h, d) BY <2>3, <2>7 DEF Absent, OnlyAt
    <3>2. QED BY <1>9, <3>1, StoredElsewhere
  <2>9. Others(m, content, d, b) BY <2>3 DEF Others, PagesOf
  <2>10. FreeMapOk(h, d, m_free_map') BY <1>3, <2>1, <2>4, <2>9, FreeMapDrop
  <2>11. QED BY <1>1, <1>5, <2>2, <2>5, <2>8, <2>10 DEF Inv, h, d
<1>13. CASE q.slots # << >>
  <2>1. /\ h = m /\ d = Update(content, b, q) /\ blocks_count' = blocks_count
        /\ m_free_map' = (m_free_map \ {Entry(content, b)}) \cup {<<EffectiveFreeBytes(q), b>>}
    BY <1>10, <1>13
  <2>2. PageOk(q) /\ Closed(q) BY <1>11, <1>13 DEF Frees
  <2>3. PagesOk(m, d) /\ d[b] = q /\ \A x \in Blocks : x # b => d[x] = content[x]
    BY <1>3, <1>6, <2>1, <2>2, PageReplaced
  <2>4. AllStored(m, d, f)
    <3>1. SUFFICES ASSUME NEW r \in DOMAIN f PROVE Stored(m, d, r, f[r]) BY DEF AllStored
    <3>2. Stored(m, content, r, f[r]) BY <1>9 DEF AllStored
    <3>3. ASSUME r.block = b PROVE r.slot \in UsedSlots(q) /\ Carried(content[b], q, r.slot)
      <4>1. r.slot \in UsedSlots(content[b]) \ {i} BY <1>8, <3>3
      <4>2. QED BY <1>11, <4>1 DEF Frees
    <3>4. QED BY <1>6, <2>3, <3>2, <3>3, StoredOnPage
  <2>5. Entry(d, b) = <<EffectiveFreeBytes(q), b>> BY <2>3 DEF Entry
  <2>6. Others(m, content, d, b) BY <2>3 DEF Others, PagesOf
  <2> DEFINE g == m_free_map'
  <2>7. g = (m_free_map \ {Entry(content, b)}) \cup {Entry(d, b)} BY <2>1, <2>5
  <2>8. \A x : x # b => Entry(content, x) # Entry(d, b) /\ Entry(content, x) # Entry(content, b)
    BY DEF Entry
  <2> HIDE DEF g
  <2>9. g \subseteq m_free_map \cup {Entry(d, b)} /\ Entry(d, b) \in g
        /\ (Entry(content, b) \notin g \/ Entry(content, b) = Entry(d, b))
    BY <2>7
  <2>10. \A x \in PagesOf(m) : x # b => (Entry(content, x) \in g <=> Entry(content, x) \in m_free_map)
    BY <2>7, <2>8
  <2>11. FreeMapOk(m, d, g) BY <1>3, <1>6, <2>6, <2>9, <2>10, FreeMapPage
  <2>12. QED BY <1>1, <1>3, <1>5, <2>1, <2>3, <2>4, <2>11 DEF Inv, h, d, g
<1>14. QED BY <1>12, <1>13

\* Slot i of the page has a new value.
Filling(page, i, v) ==
  [page EXCEPT !.data = Moved(@, page.slots[i].offset, Filled(page.slots[i].size, v))]

LEMMA FillingIs ==
  ASSUME NEW page, PageOk(page), NEW i \in UsedSlots(page), NEW v \in Values,
         NEW q, q = Filling(page, i, v)
  PROVE  /\ PageOk(q) /\ UsedSlots(q) = UsedSlots(page) /\ q.slots = page.slots
         /\ Closed(page) => Closed(q)
         /\ EffectiveFreeBytes(q) = EffectiveFreeBytes(page)
         /\ \A k \in 0 .. page.slots[i].size - 1 : q.data[page.slots[i].offset + k] = v
         /\ \A j \in UsedSlots(page) : j # i => Carried(page, q, j)
<1> DEFINE s == page.slots[i]
           z == s.size
           o == s.offset
           x == Moved(page.data, o, Filled(z, v))
<1>1. page \in PageType /\ page.free_ptr \in Nat /\ BlockSize \in Nat BY PageBytes
<1>2. Laid(page.slots, UsedSlots(page), page.free_ptr) BY DEF PageOk
<1>3. Sits(s, page.free_ptr) BY <1>2 DEF Laid
<1>4. z \in Nat /\ z > 0 /\ o \in Nat /\ o + z <= BlockSize BY <1>3 DEF Sits, Slots
<1>5. page.data \in [0 .. BlockSize - 1 -> Values \cup {None}] BY <1>1 DEF PageType
<1>6. q = [slots |-> page.slots, free_ptr |-> page.free_ptr,
           free_fragmented |-> page.free_fragmented, data |-> x]
  BY <1>1 DEF PageType, Filling
<1> HIDE DEF z, o
<1>7. Filled(z, v) \in [0 .. z - 1 -> Values \cup {None}] /\ \A k \in 0 .. z - 1 : Filled(z, v)[k] = v
  BY DEF Filled
<1>8. /\ x \in [0 .. BlockSize - 1 -> Values \cup {None}]
      /\ \A k \in 0 .. z - 1 : x[o + k] = v
      /\ \A p \in 0 .. BlockSize - 1 : p < o \/ p >= o + z => x[p] = page.data[p]
  <2>1. /\ x \in [0 .. BlockSize - 1 -> Values \cup {None}]
        /\ \A k \in 0 .. z - 1 : o + z <= BlockSize => x[o + k] = Filled(z, v)[k]
        /\ \A p \in 0 .. BlockSize - 1 : p < o \/ p >= o + z => x[p] = page.data[p]
    BY <1>4, <1>5, <1>7, MovedIs
  <2> HIDE DEF x
  <2>2. QED BY <1>4, <1>7, <2>1
<1> HIDE DEF x
<1>9. /\ q.slots = page.slots /\ q.free_ptr = page.free_ptr
      /\ q.free_fragmented = page.free_fragmented /\ q.data = x
  BY <1>6
<1>10. q \in PageType BY <1>1, <1>6, <1>8 DEF PageType
<1>11. UsedSlots(q) = UsedSlots(page) /\ FreeSlots(q) = FreeSlots(page) /\ FreeBytes(q) = FreeBytes(page)
  BY <1>9 DEF UsedSlots, FreeSlots, FreeBytes, UnfragmentedFreeBytes
<1>12. EffectiveFreeBytes(q) = EffectiveFreeBytes(page) BY <1>11 DEF EffectiveFreeBytes
<1>13. SlotsEnd(q) = SlotsEnd(page) BY <1>9 DEF SlotsEnd
<1>14. PageOk(q) BY <1>9, <1>10, <1>11, <1>13 DEF PageOk
<1>15. Closed(page) => Closed(q) BY <1>9 DEF Closed
<1>16. ASSUME NEW j \in UsedSlots(page), j # i PROVE Carried(page, q, j)
  <2> DEFINE t == page.slots[j]
  <2>1. Apart(t, s) /\ Sits(t, page.free_ptr) BY <1>2, <1>16 DEF Laid
  <2>2. t.offset \in Nat /\ t.size \in Nat /\ t.offset + t.size <= BlockSize
    BY <2>1 DEF Sits, Slots
  <2>3. t.offset + t.size <= o \/ o + z <= t.offset BY <2>1 DEF Apart, o, z
  <2> DEFINE to == t.offset
             tz == t.size
  <2> HIDE DEF t, to, tz
  <2>4. ASSUME NEW k \in 0 .. tz - 1 PROVE x[to + k] = page.data[to + k]
    <3>1. /\ to + k \in 0 .. BlockSize - 1
          /\ to + k < o \/ to + k >= o + z
      BY <1>1, <1>4, <2>2, <2>3 DEF to, tz
    <3>2. QED BY <1>8, <3>1
  <2>5. QED BY <1>9, <2>4 DEF Carried, t, to, tz
<1>17. QED BY <1>8, <1>9, <1>11, <1>12, <1>14, <1>15, <1>16 DEF o, z

LEMMA StoreStep ==
  ASSUME Inv, NEW ref \in DOMAIN live, NEW v \in Values, Store(ref, v)
  PROVE  Inv'
<1> DEFINE b == ref.block
           i == ref.slot
           m == m_page_map
           d == content'
           o == live[ref]
           f == live'
<1>1. /\ m_page_map' = m /\ m_free_map' = m_free_map /\ blocks_count' = blocks_count
      /\ objects_count' = objects_count /\ objects_size' = objects_size
      /\ f = [live EXCEPT ![ref].value = v]
  BY DEF Store
<1>2. /\ Runs(m) /\ Counted(m, blocks_count) /\ PagesOk(m, content) /\ AllStored(m, content, live)
      /\ FreeMapOk(m, content, m_free_map) /\ Tallied(live, objects_count, objects_size)
  BY DEF Inv
<1>3. /\ b \in Owned(m) /\ b \in Blocks /\ ref = [block |-> b, slot |-> i] /\ o \in Objects
      /\ i = 0 => m[b].large /\ b \notin PagesOf(m)
      /\ i # 0 => b \in PagesOf(m) /\ i \in UsedSlots(content[b])
  BY <1>2, SlotOfRef DEF Owned, PagesOf
<1>4. Stored(m, content, ref, o) BY <1>2 DEF AllStored
<1> DEFINE n == [size |-> o.size, value |-> v]
<1>5. n \in Objects /\ n.size = o.size /\ n.value = v /\ [o EXCEPT !.value = v] = n
  BY <1>3 DEF Objects
<1>6. DOMAIN f = DOMAIN live /\ f[ref] = n /\ \A r \in DOMAIN live : r # ref => f[r] = live[r]
  BY <1>1, <1>5
<1>7. \A r \in DOMAIN live : f[r].size = live[r].size
  <2>1. SUFFICES ASSUME NEW r \in DOMAIN live PROVE f[r].size = live[r].size OBVIOUS
  <2>2. CASE r = ref BY <1>5, <1>6, <2>2
  <2>3. CASE r # ref BY <1>6, <2>3
  <2>4. QED BY <2>2, <2>3
<1> HIDE DEF f, o, n
<1>8. Tallied(f, objects_count, objects_size) BY <1>2, <1>6, <1>7, TallySame
<1>9. CASE i = 0
  <2>1. d = [content EXCEPT ![b].value = v] BY <1>9 DEF Store, IsLarge
  <2>2. content[b] = o /\ m[b].block_count * BlockSize >= o.size + SizeField /\ m[b] # None /\ ref \in Refs
    BY <1>4, <1>9 DEF Stored
  <2> HIDE DEF m, d
  <2>3. d = [x \in Blocks |-> d[x]] /\ d[b] = n /\ \A x \in Blocks : x # b => d[x] = content[x]
    BY <1>2, <1>3, <1>5, <2>1, <2>2 DEF PagesOk
  <2>4. \A x \in PagesOf(m) : d[x] = content[x] BY <1>3, <1>9, <2>3 DEF PagesOf
  <2>5. PagesOk(m, d) BY <1>2, <2>3, <2>4 DEF PagesOk
  <2>6. FreeMapOk(m, d, m_free_map) BY <1>2, <2>4, FreeMapKept
  <2>7. Stored(m, d, ref, n) BY <1>3, <1>5, <1>9, <2>2, <2>3 DEF Stored
  <2>8. ASSUME NEW r \in DOMAIN live, r # ref PROVE Stored(m, d, r, live[r])
    <3>1. Stored(m, content, r, live[r]) BY <1>2 DEF AllStored
    <3>2. r.block # b
      <4>1. SUFFICES ASSUME r.block = b PROVE FALSE OBVIOUS
      <4>2. r.slot = 0 /\ r = [block |-> b, slot |-> r.slot] BY <1>2, <1>3, <1>9, <4>1, SlotOfRef
      <4>3. QED BY <1>3, <1>9, <2>8, <4>2
    <3>3. r.block \in Blocks BY <3>1 DEF Stored, Refs
    <3>4. QED BY <2>3, <3>1, <3>2, <3>3, StoredKept
  <2>9. AllStored(m, d, f) BY <1>6, <2>7, <2>8 DEF AllStored
  <2>10. QED BY <1>1, <1>2, <1>8, <2>5, <2>6, <2>9 DEF Inv, m, d, f
<1>10. CASE i # 0
  <2> DEFINE p == content[b]
             q == Filling(p, i, v)
  <2>1. d = Update(content, b, q)
    <3>1. d = [content EXCEPT ![b].data = Moved(@, p.slots[i].offset, Filled(p.slots[i].size, v))]
      BY <1>10 DEF Store, IsLarge
    <3>2. QED BY <3>1 DEF Update, Filling
  <2>2. PageOk(p) /\ Closed(p) /\ i \in UsedSlots(p) /\ b \in PagesOf(m) BY <1>2, <1>3, <1>10 DEF PagesOk
  <2>3. Holds(p, i, o) /\ ref \in Refs BY <1>3, <1>4, <1>10 DEF Stored, PagesOf
  <2> HIDE DEF p, m, d
  <2>4. /\ PageOk(q) /\ UsedSlots(q) = UsedSlots(p) /\ q.slots = p.slots /\ Closed(q)
        /\ EffectiveFreeBytes(q) = EffectiveFreeBytes(p)
        /\ \A k \in 0 .. p.slots[i].size - 1 : q.data[p.slots[i].offset + k] = v
        /\ \A j \in UsedSlots(p) : j # i => Carried(p, q, j)
    BY <2>2, FillingIs
  <2> HIDE DEF q
  <2>5. PagesOk(m, d) /\ d[b] = q /\ \A x \in Blocks : x # b => d[x] = content[x]
    BY <1>2, <2>1, <2>2, <2>4, PageReplaced
  <2>6. Stored(m, d, ref, n)
    <3>1. Holds(q, i, n) BY <1>5, <2>3, <2>4 DEF Holds
    <3>2. m[b] # None /\ ~m[b].large BY <2>2 DEF PagesOf
    <3>3. QED BY <1>3, <1>5, <1>10, <2>3, <2>5, <3>1, <3>2 DEF Stored
  <2>7. ASSUME NEW r \in DOMAIN live, r # ref PROVE Stored(m, d, r, live[r])
    <3>1. Stored(m, content, r, live[r]) BY <1>2 DEF AllStored
    <3>2. ASSUME r.block = b PROVE r.slot \in UsedSlots(q) /\ Carried(content[b], q, r.slot)
      <4>1. r.slot \in UsedSlots(p) /\ r = [block |-> b, slot |-> r.slot]
        BY <1>2, <2>2, <3>2, SlotOfRef DEF p
      <4>2. r.slot # i BY <1>3, <2>7, <4>1
      <4>3. QED BY <2>4, <4>1, <4>2 DEF p
    <3>3. QED BY <2>2, <2>5, <3>1, <3>2, StoredOnPage
  <2>8. AllStored(m, d, f) BY <1>6, <2>6, <2>7 DEF AllStored
  <2>9. FreeMapOk(m, d, m_free_map)
    <3>1. Entry(d, b) = Entry(content, b) BY <2>4, <2>5 DEF Entry, p
    <3>2. Others(m, content, d, b) BY <2>5 DEF Others, PagesOf
    <3>3. EffectiveFreeBytes(d[b]) > 0 => Entry(d, b) \in m_free_map
      BY <1>2, <2>2, <2>4, <2>5, <3>1 DEF FreeMapOk, p
    <3>4. m_free_map \subseteq m_free_map \cup {Entry(d, b)} OBVIOUS
    <3>5. QED BY <1>2, <2>2, <3>1, <3>2, <3>3, <3>4, FreeMapPage
  <2>10. QED BY <1>1, <1>2, <1>8, <2>5, <2>8, <2>9 DEF Inv, m, d, f
<1>11. QED BY <1>9, <1>10

LEMMA InitInv == ASSUME Init PROVE Inv
<1> DEFINE m == m_page_map
<1>1. /\ m = [b \in Blocks |-> None] /\ m_free_map = {} /\ content = [b \in Blocks |-> None]
      /\ objects_count = 0 /\ objects_size = 0 /\ blocks_count = 0 /\ live = << >>
  BY DEF Init
<1>2. Owned(m) = {} /\ PagesOf(m) = {} BY <1>1 DEF Owned, PagesOf
<1>3. Covered(m) = {} BY <1>2 DEF Covered
<1>4. IsFiniteSet({}) /\ Cardinality({}) = 0 BY FS_EmptySet
<1>5. Runs(m) BY <1>1, <1>2 DEF Runs
<1>6. Counted(m, blocks_count) BY <1>1, <1>3, <1>4 DEF Counted
<1>7. PagesOk(m, content) BY <1>1, <1>2 DEF PagesOk
<1>8. DOMAIN live = {} BY <1>1
<1>9. AllStored(m, content, live) BY <1>8 DEF AllStored
<1>10. FreeMapOk(m, content, m_free_map) BY <1>1, <1>2 DEF FreeMapOk
<1>11. Sized(live) BY <1>4, <1>8 DEF Sized
<1>12. SizeSum(live) = 0
  <2>1. PICK g : g[{}] = 0 /\ SizeSum(live) = g[DOMAIN live] BY <1>4, <1>8, SumSteps
  <2>2. QED BY <1>8, <2>1
<1>13. Tallied(live, objects_count, objects_size) BY <1>1, <1>4, <1>8, <1>11, <1>12 DEF Tallied
<1>14. QED BY <1>5, <1>6, <1>7, <1>9, <1>10, <1>13 DEF Inv

LEMMA NextInv == ASSUME NoWrap, Inv, [Next]_vars PROVE Inv'
<1>1. CASE UNCHANGED vars BY <1>1 DEF vars, Inv
<1>2. ASSUME NEW size \in Sizes, NEW v \in Values, AllocateOnPage(size, v) PROVE Inv'
  BY <1>2, AllocateOnPageStep
<1>3. ASSUME NEW size \in Sizes, NEW v \in Values, AllocateNewPage(size, v) PROVE Inv'
  BY <1>3, AllocateNewPageStep
<1>4. ASSUME NEW size \in Sizes, NEW v \in Values, AllocateLarge(size, v) PROVE Inv'
  BY <1>4, AllocateLargeStep
<1>5. ASSUME NEW size \in Sizes, AllocateOnPageFails(size) PROVE Inv'
  BY <1>5, AllocateOnPageFailsStep
<1>6. ASSUME NEW ref \in DOMAIN live, FreeLarge(ref) PROVE Inv'
  BY <1>6, FreeLargeStep
<1>7. ASSUME NEW ref \in DOMAIN live, FreeSmall(ref) PROVE Inv'
  BY <1>7, FreeSmallStep
<1>8. ASSUME NEW ref \in DOMAIN live, FreeSmallAsserts(ref) PROVE Inv'
  BY <1>8 DEF FreeSmallAsserts, Inv
<1>9. ASSUME NEW ref \in DOMAIN live, NEW v \in Values, Store(ref, v) PROVE Inv'
  BY <1>9, StoreStep
<1>10. QED BY <1>1, <1>2, <1>3, <1>4, <1>5, <1>6, <1>7, <1>8, <1>9 DEF Next

LEMMA Invariance ==
  ASSUME NoWrap
  PROVE  Spec => []Inv
<1>1. Inv /\ [Next]_vars => Inv' BY NextInv
<1>2. QED BY <1>1, InitInv, PTL DEF Spec

-----------------------------------------------------------------------------
(* What the invariant says of the heap.                                     *)

LEMMA PagesAre == Pages = PagesOf(m_page_map)
BY DEF Pages, PagesOf

\* Every page of the heap keeps the layout that page_compact, page_allocate and
\* page_free rely on: slots and objects do not meet, objects do not overlap, and
\* the count of fragmented bytes is exact.  No object is so large that the number of
\* its blocks wraps around.
THEOREM HeapPagesWellFormed ==
  ASSUME NoWrap
  PROVE  Spec => []PagesWellFormed
<1>1. ASSUME Inv PROVE PagesWellFormed
  <2>1. SUFFICES ASSUME NEW b \in Pages
        PROVE  LET page == content[b]
                   used == UsedSlots(page)
                   bytes(i) == page.slots[i].offset .. page.slots[i].offset + page.slots[i].size - 1
               IN  /\ page.free_ptr >= HeaderSize + Len(page.slots) * SlotSize
                   /\ \A i \in used : bytes(i) \subseteq page.free_ptr .. BlockSize - 1
                   /\ \A i, j \in used : i # j => bytes(i) \cap bytes(j) = {}
                   /\ page.free_fragmented =
                        Cardinality((page.free_ptr .. BlockSize - 1) \ UNION { bytes(i) : i \in used })
                   /\ page.slots # << >> /\ Valid(Last(page.slots))
    BY DEF PagesWellFormed
  <2> DEFINE page == content[b]
             used == UsedSlots(page)
             bytes(i) == page.slots[i].offset .. page.slots[i].offset + page.slots[i].size - 1
  <2>2. PageOk(page) /\ Closed(page) BY <1>1, PagesAre DEF Inv, PagesOk
  <2> HIDE DEF page
  <2>3. page.free_ptr \in Nat /\ BlockSize \in Nat /\ SlotsEnd(page) \in Nat /\ SlotsEnd(page) <= page.free_ptr
    BY <2>2, PageBytes
  <2>4. page.free_ptr >= HeaderSize + Len(page.slots) * SlotSize BY <2>3 DEF SlotsEnd
  <2>5. Laid(page.slots, used, page.free_ptr) BY <2>2 DEF PageOk
  <2>6. \A i \in used : /\ page.slots[i].offset \in Nat /\ page.slots[i].size \in Nat
                        /\ page.free_ptr <= page.slots[i].offset
                        /\ page.slots[i].offset + page.slots[i].size <= BlockSize
    BY <2>5 DEF Laid, Sits, Slots
  <2>7. \A i, j \in used : i # j => Apart(page.slots[i], page.slots[j]) BY <2>5 DEF Laid
  <2>8. page.free_fragmented =
          Cardinality((page.free_ptr .. BlockSize - 1) \ UNION { bytes(i) : i \in used })
    BY <2>2 DEF PageOk, Taken, Bytes
  <2>9. page.slots # << >> /\ Valid(Last(page.slots)) BY <2>2 DEF Closed
  <2> HIDE DEF used
  <2>10. \A i \in used : bytes(i) \subseteq page.free_ptr .. BlockSize - 1 BY <2>3, <2>6
  <2>11. \A i, j \in used : i # j => bytes(i) \cap bytes(j) = {} BY <2>6, <2>7 DEF Apart
  <2>12. QED BY <2>4, <2>8, <2>9, <2>10, <2>11 DEF page, used
<1>2. QED BY <1>1, Invariance, PTL

\* Through every allocation, compaction, rollback and free, each reference leads to an
\* object of the size that was asked for and the value that was stored last, under the same condition.
THEOREM HeapObjectsIntact ==
  ASSUME NoWrap
  PROVE  Spec => []ObjectsIntact
<1>1. ASSUME Inv PROVE ObjectsIntact
  <2>1. SUFFICES ASSUME NEW ref \in DOMAIN live
                 PROVE  Size(ref) = live[ref].size /\ Load(ref) = {live[ref].value}
    BY DEF ObjectsIntact
  <2> DEFINE o == live[ref]
  <2>2. AllStored(m_page_map, content, live) BY <1>1 DEF Inv
  <2>3. Size(ref) = o.size BY <2>2, SizeIs
  <2>4. Stored(m_page_map, content, ref, o) BY <2>2 DEF AllStored
  <2>5. CASE ref.slot = 0
    <3>1. content[ref.block] = o BY <2>4, <2>5 DEF Stored
    <3>2. Load(ref) = {o.value} BY <2>5, <3>1 DEF Load, IsLarge
    <3>3. QED BY <2>3, <3>2
  <2>6. CASE ref.slot # 0
    <3> DEFINE p == content[ref.block]
               s == p.slots[ref.slot]
               a == s.offset
               z == s.size
    <3>1. Holds(p, ref.slot, o) /\ o \in Objects BY <2>4, <2>6 DEF Stored
    <3>2. z = o.size /\ (\A k \in 0 .. z - 1 : p.data[a + k] = o.value) /\ z \in Nat /\ z > 0
      <4>1. o.size \in Nat /\ o.size > 0 BY <3>1 DEF Objects
      <4>2. z = o.size /\ \A k \in 0 .. o.size - 1 : p.data[a + k] = o.value BY ONLY <3>1 DEF Holds
      <4>3. QED BY ONLY <4>1, <4>2
    <3>3. a \in Nat
      <4>1. ref.block \in PagesOf(m_page_map) /\ ref.slot \in UsedSlots(p)
        BY <2>2, <2>6, SlotOfRef
      <4>2. PageOk(p) BY <1>1, <4>1 DEF Inv, PagesOk
      <4>3. Sits(s, p.free_ptr) BY <4>1, <4>2 DEF PageOk, Laid
      <4>4. QED BY <4>3 DEF Sits, Slots
    <3>4. Load(ref) = { p.data[x] : x \in a .. a + z - 1 } BY <2>6 DEF Load, IsLarge
    <3> HIDE DEF p, s, a, z, o
    <3>5. \A x \in a .. a + z - 1 : p.data[x] = o.value
      <4>1. SUFFICES ASSUME NEW x \in a .. a + z - 1 PROVE p.data[x] = o.value OBVIOUS
      <4>2. x - a \in 0 .. z - 1 /\ a + (x - a) = x BY <3>2, <3>3
      <4>3. QED BY <3>2, <4>2
    <3>6. a \in a .. a + z - 1 BY <3>2, <3>3
    <3>7. Load(ref) = {o.value} BY <3>4, <3>5, <3>6
    <3>8. QED BY <2>3, <3>7 DEF o
  <2>7. QED BY <2>5, <2>6
<1>2. QED BY <1>1, Invariance, PTL

\* The anchor's counters agree with the objects and blocks that the heap has, and a
\* large object's blocks hold its size and its content, under the same condition (without it, see
\* LargeObjectsFit).
THEOREM HeapCountersMatch ==
  ASSUME NoWrap
  PROVE  Spec => []CountersMatch
<1>1. ASSUME Inv PROVE CountersMatch
  <2>1. /\ Counted(m_page_map, blocks_count) /\ AllStored(m_page_map, content, live)
        /\ Tallied(live, objects_count, objects_size)
    BY <1>1 DEF Inv
  <2>2. objects_count = Cardinality(DOMAIN live) BY <2>1 DEF Tallied
  <2>3. objects_size = FoldSet(LAMBDA ref, n : live[ref].size + n, 0, DOMAIN live)
    BY <2>1 DEF Tallied, SizeSum
  <2>4. blocks_count = Cardinality(Used) BY <2>1, UsedIs DEF Counted
  <2>5. ASSUME NEW ref \in DOMAIN live, IsLarge(ref)
        PROVE  m_page_map[ref.block].block_count * BlockSize >= live[ref].size + SizeField
    <3>1. Stored(m_page_map, content, ref, live[ref]) BY <2>1 DEF AllStored
    <3>2. QED BY <2>5, <3>1 DEF Stored, IsLarge
  <2>6. LargeObjectsFit BY <2>5 DEF LargeObjectsFit
  <2>7. QED BY <2>2, <2>3, <2>4, <2>6 DEF CountersMatch
<1>2. QED BY <1>1, Invariance, PTL

\* The free map lists exactly the pages that have bytes left, each with what
\* page_allocate will find there, also after a failed insertion was rolled back, under
\* the same condition.
THEOREM HeapFreeMapExact ==
  ASSUME NoWrap
  PROVE  Spec => []FreeMapExact
<1>1. ASSUME Inv PROVE FreeMapExact
  <2>1. FreeMapOk(m_page_map, content, m_free_map) BY <1>1 DEF Inv
  <2>2. \A b : EntryOf(b) = Entry(content, b) BY DEF EntryOf, Entry
  <2>3. QED BY <2>1, <2>2, PagesAre DEF FreeMapExact, FreeMapOk
<1>2. QED BY <1>1, Invariance, PTL
=============================================================================
