------------------------- MODULE EngineBaseProofs -------------------------
(***************************************************************************)
(* The cache of engine_base keeps its structure under every call, for      *)
(* every number of blocks, cache size and pool size.  The engines' own     *)
(* proofs use these lemmas, one per half-action of EngineBase.             *)
(***************************************************************************)
EXTENDS EngineBase, FiniteSetTheorems, SequenceTheorems, TLAPS

BaseInv == BaseTypeOK /\ CacheStructure /\ PinnedWhileReferenced

-----------------------------------------------------------------------------
(* The LRU list: removing one entry, cutting off the tail, adding a front. *)

\* block_cache::remove takes exactly the given block out of the list.
LEMMA RemoveAtProps ==
  ASSUME NEW S, NEW s \in Seq(S), IsInjective(s), NEW p \in 1 .. Len(s)
  PROVE  /\ RemoveAt(s, p) \in Seq(S)
         /\ IsInjective(RemoveAt(s, p))
         /\ ToSet(RemoveAt(s, p)) = ToSet(s) \ {s[p]}
<1> DEFINE r == RemoveAt(s, p)
<1>1. /\ r \in Seq(S)
      /\ Len(r) = Len(s) - 1
      /\ \A j \in 1 .. Len(r) : r[j] = IF j < p THEN s[j] ELSE s[j + 1]
  <2> DEFINE a == SubSeq(s, 1, p - 1)
             z == SubSeq(s, p + 1, Len(s))
  <2>1. /\ a \in Seq(S)
        /\ Len(a) = p - 1
        /\ \A j \in 1 .. p - 1 : a[j] = s[j]
    OBVIOUS
  <2>2. /\ z \in Seq(S)
        /\ Len(z) = Len(s) - p
        /\ \A j \in 1 .. Len(s) - p : z[j] = s[p + j]
    BY SubSeqProperties
  <2>3. r = a \o z BY DEF RemoveAt
  <2> HIDE DEF a, z, r
  <2>4. /\ a \o z \in Seq(S)
        /\ Len(a \o z) = Len(a) + Len(z)
        /\ \A i \in 1 .. Len(a) + Len(z) :
             (a \o z)[i] = IF i <= Len(a) THEN a[i] ELSE z[i - Len(a)]
    BY <2>1, <2>2, ConcatProperties
  <2>5. Len(r) = Len(s) - 1 BY <2>1, <2>2, <2>3, <2>4
  <2>6. ASSUME NEW j \in 1 .. Len(r)
        PROVE  r[j] = IF j < p THEN s[j] ELSE s[j + 1]
    <3>0. j \in 1 .. Len(a) + Len(z) BY <2>1, <2>2, <2>5
    <3>1. CASE j < p BY <3>0, <3>1, <2>1, <2>3, <2>4
    <3>2. CASE ~(j < p)
      <4>1. j - (p - 1) \in 1 .. Len(s) - p /\ p + (j - (p - 1)) = j + 1
        BY <3>2, <2>5
      <4>2. r[j] = z[j - (p - 1)] BY <3>0, <3>2, <2>1, <2>3, <2>4
      <4>3. z[j - (p - 1)] = s[p + (j - (p - 1))] BY <4>1, <2>2
      <4>4. QED BY <3>2, <4>1, <4>2, <4>3, <2>5
    <3>3. QED BY <3>1, <3>2
  <2>7. QED BY <2>3, <2>4, <2>5, <2>6
<1>2. DOMAIN r = 1 .. Len(r) /\ DOMAIN s = 1 .. Len(s)
  BY <1>1
<1> HIDE DEF r
<1> DEFINE old(j) == IF j < p THEN j ELSE j + 1
<1>a. \A j \in 1 .. Len(r) : old(j) \in 1 .. Len(s) /\ old(j) # p /\ r[j] = s[old(j)]
  BY <1>1
<1>b. \A j, k \in 1 .. Len(r) : old(j) = old(k) => j = k
  BY <1>1
<1> HIDE DEF old
<1>3. IsInjective(r)
  BY <1>a, <1>b, <1>2 DEF IsInjective
<1>4. ToSet(r) \subseteq ToSet(s) \ {s[p]}
  BY <1>a, <1>2 DEF ToSet, IsInjective
<1>5. ASSUME NEW x \in ToSet(s) \ {s[p]} PROVE x \in ToSet(r)
  <2>1. PICK k \in 1 .. Len(s) : x = s[k] BY <1>2, <1>5 DEF ToSet
  <2>2. CASE k < p
    BY <2>1, <2>2, <1>1, <1>2 DEF ToSet
  <2>3. CASE k > p
    <3>1. k - 1 \in 1 .. Len(r) /\ r[k - 1] = s[k] BY <2>1, <2>3, <1>1
    <3>2. QED BY <3>1, <2>1, <1>2 DEF ToSet
  <2>4. QED BY <2>1, <2>2, <2>3, <1>5
<1>6. QED BY <1>1, <1>3, <1>4, <1>5 DEF r

\* Evicting from the back keeps the front of the list as it is.
LEMMA CutProps ==
  ASSUME NEW S, NEW s \in Seq(S), IsInjective(s), NEW n \in 0 .. Len(s)
  PROVE  /\ SubSeq(s, 1, Len(s) - n) \in Seq(S)
         /\ IsInjective(SubSeq(s, 1, Len(s) - n))
         /\ ToSet(SubSeq(s, 1, Len(s) - n))
              = ToSet(s) \ { s[p] : p \in Len(s) - n + 1 .. Len(s) }
<1> DEFINE r == SubSeq(s, 1, Len(s) - n)
<1>1. /\ r \in Seq(S)
      /\ Len(r) = Len(s) - n
      /\ \A j \in 1 .. Len(r) : r[j] = s[j]
  OBVIOUS
<1>2. DOMAIN r = 1 .. Len(r) /\ DOMAIN s = 1 .. Len(s)
  BY <1>1
<1> HIDE DEF r
<1>3. IsInjective(r)
  BY <1>1, <1>2 DEF IsInjective
<1>4. ASSUME NEW x \in ToSet(r)
      PROVE  x \in ToSet(s) \ { s[p] : p \in Len(s) - n + 1 .. Len(s) }
  <2>1. PICK k \in 1 .. Len(r) : x = r[k] BY <1>2 DEF ToSet
  <2>2. k \in 1 .. Len(s) /\ x = s[k] BY <2>1, <1>1
  <2>3. ASSUME NEW p \in Len(s) - n + 1 .. Len(s) PROVE x # s[p]
    <3>1. p \in 1 .. Len(s) /\ p # k BY <2>1, <1>1
    <3>2. QED BY <3>1, <2>2, <1>2 DEF IsInjective
  <2>4. QED BY <2>2, <2>3, <1>2 DEF ToSet
<1>5. ASSUME NEW x \in ToSet(s) \ { s[p] : p \in Len(s) - n + 1 .. Len(s) }
      PROVE  x \in ToSet(r)
  <2>1. PICK k \in 1 .. Len(s) : x = s[k] BY <1>2 DEF ToSet
  <2>2. k \in 1 .. Len(r) BY <2>1, <1>1
  <2>3. QED BY <2>1, <2>2, <1>1, <1>2 DEF ToSet
<1>6. QED BY <1>1, <1>3, <1>4, <1>5 DEF r

\* block_cache::add puts a new block in front.
LEMMA ConsProps ==
  ASSUME NEW S, NEW s \in Seq(S), IsInjective(s), NEW e \in S, e \notin ToSet(s)
  PROVE  /\ <<e>> \o s \in Seq(S)
         /\ IsInjective(<<e>> \o s)
         /\ ToSet(<<e>> \o s) = ToSet(s) \cup {e}
<1> DEFINE r == <<e>> \o s
<1>1. /\ r \in Seq(S)
      /\ Len(r) = Len(s) + 1
      /\ r[1] = e
      /\ \A j \in 2 .. Len(r) : r[j] = s[j - 1]
  OBVIOUS
<1>2. DOMAIN r = 1 .. Len(r) /\ DOMAIN s = 1 .. Len(s)
  BY <1>1
<1>3. \A j \in 2 .. Len(r) : j - 1 \in 1 .. Len(s)
  BY <1>1
<1>4. IsInjective(r)
  BY <1>1, <1>2, <1>3 DEF IsInjective, ToSet
<1>5. ToSet(r) \subseteq ToSet(s) \cup {e}
  BY <1>1, <1>2, <1>3 DEF ToSet
<1>6. ASSUME NEW x \in ToSet(s) PROVE x \in ToSet(r)
  <2>1. PICK k \in 1 .. Len(s) : x = s[k] BY <1>2 DEF ToSet
  <2>2. k + 1 \in 1 .. Len(r) /\ r[k + 1] = x BY <2>1, <1>1
  <2>3. QED BY <2>2, <1>2 DEF ToSet
<1>7. e \in ToSet(r) BY <1>1, <1>2 DEF ToSet
<1>8. QED BY <1>1, <1>4, <1>5, <1>6, <1>7

-----------------------------------------------------------------------------
(* Counting: how many blocks a miss evicts.                                *)

\* The number of blocks in memory is a number.
LEMMA BlocksFinite ==
  ASSUME NEW S \in SUBSET Blocks
  PROVE  IsFiniteSet(S) /\ Cardinality(S) \in 0 .. NumBlocks
<1>1. NumBlocks - 1 \in Int /\ 0 \in Int BY BaseAssumption
<1>2. IsFiniteSet(Blocks) /\ Cardinality(Blocks) = NumBlocks
  BY <1>1, FS_Interval, BaseAssumption DEF Blocks
<1>3. IsFiniteSet(S) /\ Cardinality(S) <= Cardinality(Blocks)
  BY <1>2, FS_Subset
<1>4. Cardinality(S) \in Nat BY <1>3, FS_CardinalityType
<1>5. QED BY <1>2, <1>3, <1>4, BaseAssumption

\* The eviction loop never takes more blocks than the list holds.
LEMMA EvictCountRange ==
  ASSUME BaseTypeOK
  PROVE  EvictCount \in 0 .. Len(m_cache)
<1>1. Cardinality(m_blocks) \in Int BY BlocksFinite DEF BaseTypeOK
<1>2. Len(m_cache) \in Nat BY DEF BaseTypeOK
<1>3. QED BY <1>1, <1>2, BaseAssumption DEF EvictCount, AtLeastZero

\* Freeing instances leaves a pool that is a number.
LEMMA PoolAfterFreeType ==
  ASSUME NEW pool \in Nat, NEW inUse \in Int, NEW n \in Int
  PROVE  PoolAfterFree(pool, inUse, n) \in Nat
BY BaseAssumption DEF PoolAfterFree, AtLeastZero, MaxPooledBlocks

-----------------------------------------------------------------------------
(* The list operations in terms of the state.                              *)

\* Taking an unpinned block of m_blocks out of the LRU list.
LEMMA UncachedProps ==
  ASSUME BaseTypeOK, CacheStructure, NEW i \in m_blocks \ m_pinned
  PROVE  /\ Uncached(i) \in Seq(Blocks)
         /\ IsInjective(Uncached(i))
         /\ ToSet(Uncached(i)) = ToSet(m_cache) \ {i}
<1> DEFINE p == CHOOSE q \in DOMAIN m_cache : m_cache[q] = i
<1>1. m_cache \in Seq(Blocks) /\ IsInjective(m_cache) BY DEF BaseTypeOK, CacheStructure
<1>2. DOMAIN m_cache = 1 .. Len(m_cache) BY <1>1
<1>3. i \in ToSet(m_cache) BY DEF CacheStructure
<1>4. \E q \in DOMAIN m_cache : m_cache[q] = i BY <1>3 DEF ToSet
<1>5. p \in 1 .. Len(m_cache) /\ m_cache[p] = i BY <1>4, <1>2
<1>6. Uncached(i) = RemoveAt(m_cache, p) BY DEF Uncached
<1> HIDE DEF p
<1>7. QED BY <1>1, <1>5, <1>6, RemoveAtProps

\* Evicting n blocks from the back of the LRU list.
LEMMA EvictProps ==
  ASSUME BaseTypeOK, CacheStructure, NEW n \in 0 .. Len(m_cache)
  PROVE  /\ SubSeq(m_cache, 1, Len(m_cache) - n) \in Seq(Blocks)
         /\ IsInjective(SubSeq(m_cache, 1, Len(m_cache) - n))
         /\ ToSet(SubSeq(m_cache, 1, Len(m_cache) - n)) = ToSet(m_cache) \ Victims(n)
         /\ Victims(n) \subseteq m_blocks \ m_pinned
<1>1. m_cache \in Seq(Blocks) /\ IsInjective(m_cache) BY DEF BaseTypeOK, CacheStructure
<1>2. /\ SubSeq(m_cache, 1, Len(m_cache) - n) \in Seq(Blocks)
      /\ IsInjective(SubSeq(m_cache, 1, Len(m_cache) - n))
      /\ ToSet(SubSeq(m_cache, 1, Len(m_cache) - n)) = ToSet(m_cache) \ Victims(n)
  BY <1>1, CutProps DEF Victims
<1>3. ASSUME NEW x \in Victims(n) PROVE x \in ToSet(m_cache)
  <2>1. PICK p \in Len(m_cache) - n + 1 .. Len(m_cache) : x = m_cache[p]
    BY DEF Victims
  <2>2. p \in 1 .. Len(m_cache) /\ DOMAIN m_cache = 1 .. Len(m_cache) BY <1>1
  <2>3. QED BY <2>1, <2>2 DEF ToSet
<1>4. QED BY <1>2, <1>3 DEF CacheStructure

\* The block whose write-back fails is a dirty block that was not evicted yet.
LEMMA FailedVictim ==
  ASSUME BaseInv, NEW i \in Blocks, NEW n \in Nat, MissEvictFails(i, n)
  PROVE  /\ n \in 0 .. Len(m_cache)
         /\ m_cache[Len(m_cache) - n] \in m_dirty \ Victims(n)
         /\ Victims(n) \subseteq m_blocks \ m_pinned
<1> DEFINE j == m_cache[Len(m_cache) - n]
<1>1. n \in 0 .. Len(m_cache) /\ Len(m_cache) \in Nat /\ n < Len(m_cache)
  BY EvictCountRange DEF MissEvictFails, BaseInv, BaseTypeOK
<1>2. Victims(n) \subseteq m_blocks \ m_pinned BY <1>1, EvictProps DEF BaseInv
<1>3. IsInjective(m_cache) /\ DOMAIN m_cache = 1 .. Len(m_cache)
  BY DEF BaseInv, CacheStructure, BaseTypeOK
<1>4. ASSUME NEW p \in Len(m_cache) - n + 1 .. Len(m_cache) PROVE m_cache[p] # j
  <2>1. /\ p \in 1 .. Len(m_cache) /\ Len(m_cache) - n \in 1 .. Len(m_cache)
        /\ p # Len(m_cache) - n
    BY <1>1
  <2>2. QED BY <1>3, <2>1 DEF IsInjective
<1>5. j \notin Victims(n) BY <1>4 DEF Victims
<1>6. QED BY <1>1, <1>2, <1>5 DEF MissEvictFails

-----------------------------------------------------------------------------
(* Every half-action preserves BaseInv.                                    *)

\* A copied handle changes a positive count only.
LEMMA CopyHandleInv ==
  ASSUME BaseInv, NEW i \in Blocks, CopyHandle(i)
  PROVE  BaseInv'
BY BaseAssumption DEF BaseInv, BaseTypeOK, CacheStructure, PinnedWhileReferenced, CopyHandle

\* read() of a cached block moves it from the list to the pinned blocks.
LEMMA ReadHitInv ==
  ASSUME BaseInv, NEW i \in Blocks, ReadHit(i)
  PROVE  BaseInv'
<1>1. /\ Uncached(i) \in Seq(Blocks)
      /\ IsInjective(Uncached(i))
      /\ ToSet(Uncached(i)) = ToSet(m_cache) \ {i}
  BY UncachedProps DEF BaseInv, ReadHit
<1>2. BaseTypeOK' BY <1>1, BaseAssumption DEF BaseInv, BaseTypeOK, ReadHit
<1>3. CacheStructure' BY <1>1 DEF BaseInv, CacheStructure, ReadHit
<1>4. PinnedWhileReferenced'
  BY BaseAssumption DEF BaseInv, BaseTypeOK, PinnedWhileReferenced, ReadHit
<1>5. QED BY <1>2, <1>3, <1>4 DEF BaseInv

\* Load leaves well-typed contents and a well-typed pool.
LEMMA LoadType ==
  ASSUME BaseInv, NEW i \in Blocks, NEW v \in Values, Load(i, v)
  PROVE  /\ m_blocks' \in SUBSET Blocks
         /\ m_data' \in [Blocks -> Values]
         /\ m_pool' \in Nat
<1> DEFINE n == EvictCount
<1>1. n \in Int BY EvictCountRange DEF BaseInv, BaseTypeOK
<1>2. Cardinality(m_blocks) \in Int BY BlocksFinite DEF BaseInv, BaseTypeOK
<1>3. m_pool \in Nat BY DEF BaseInv, BaseTypeOK
<1> HIDE DEF n
<1>4. PoolAfterFree(m_pool, Cardinality(m_blocks), n) \in Nat
  BY <1>1, <1>2, <1>3, PoolAfterFreeType
<1>5. m_pool' = AtLeastZero(PoolAfterFree(m_pool, Cardinality(m_blocks), n) - 1)
  BY DEF Load, n
<1>6. m_pool' \in Nat BY <1>4, <1>5 DEF AtLeastZero
<1>7. m_blocks' = (m_blocks \ Victims(n)) \cup {i} BY DEF Load, n
<1>8. m_data' = [b \in Blocks |-> IF b = i THEN v
                                  ELSE IF b \in Victims(n) THEN Zero ELSE m_data[b]]
  BY DEF Load, n
<1>9. QED BY <1>6, <1>7, <1>8, BaseAssumption DEF BaseInv, BaseTypeOK

\* read() of a block that is not in memory.
LEMMA ReadMissInv ==
  ASSUME BaseInv, NEW i \in Blocks, NEW v \in Values, ReadMiss(i, v)
  PROVE  BaseInv'
<1> DEFINE n == EvictCount
           rest == SubSeq(m_cache, 1, Len(m_cache) - n)
<1>1. n \in 0 .. Len(m_cache) BY EvictCountRange DEF BaseInv
<1>2. /\ m_blocks' = (m_blocks \ Victims(n)) \cup {i}
      /\ m_dirty' = m_dirty \ Victims(n)
      /\ m_cache' = rest
      /\ m_pinned' = m_pinned \cup {i}
      /\ m_refs' = [m_refs EXCEPT ![i] = 1]
      /\ i \notin m_blocks
  BY DEF ReadMiss, Load
<1>3. m_blocks' \in SUBSET Blocks /\ m_data' \in [Blocks -> Values] /\ m_pool' \in Nat
  BY LoadType DEF ReadMiss
<1> HIDE DEF n
<1>4. /\ rest \in Seq(Blocks)
      /\ IsInjective(rest)
      /\ ToSet(rest) = ToSet(m_cache) \ Victims(n)
      /\ Victims(n) \subseteq m_blocks \ m_pinned
  BY <1>1, EvictProps DEF BaseInv
<1> HIDE DEF rest
<1>a. m_refs' \in [Blocks -> 0 .. MaxRefs]
  BY <1>2, BaseAssumption DEF BaseInv, BaseTypeOK
<1>b. m_pinned' \in SUBSET Blocks /\ m_dirty' \in SUBSET Blocks
  BY <1>2 DEF BaseInv, BaseTypeOK
<1>5. BaseTypeOK' BY <1>2, <1>3, <1>4, <1>a, <1>b DEF BaseTypeOK
<1>6. CacheStructure' BY <1>2, <1>4 DEF BaseInv, CacheStructure
<1>7. PinnedWhileReferenced'
  BY <1>2, BaseAssumption DEF BaseInv, BaseTypeOK, PinnedWhileReferenced
<1>8. QED BY <1>5, <1>6, <1>7 DEF BaseInv

\* Evictions on their own, as a failed miss leaves them behind.
LEMMA EvictOnlyInv ==
  ASSUME BaseInv, NEW n \in 0 .. Len(m_cache), EvictOnly(n), m_pool' \in Nat,
         UNCHANGED <<m_pinned, m_refs>>
  PROVE  BaseInv'
<1> DEFINE rest == SubSeq(m_cache, 1, Len(m_cache) - n)
<1>1. /\ rest \in Seq(Blocks)
      /\ IsInjective(rest)
      /\ ToSet(rest) = ToSet(m_cache) \ Victims(n)
      /\ Victims(n) \subseteq m_blocks \ m_pinned
  BY EvictProps DEF BaseInv
<1>2. m_cache' = rest BY DEF EvictOnly
<1> HIDE DEF rest
<1>3. BaseTypeOK' BY <1>1, <1>2, BaseAssumption DEF BaseInv, BaseTypeOK, EvictOnly
<1>4. CacheStructure' BY <1>1, <1>2 DEF BaseInv, CacheStructure, EvictOnly
<1>5. PinnedWhileReferenced' BY DEF BaseInv, PinnedWhileReferenced
<1>6. QED BY <1>3, <1>4, <1>5 DEF BaseInv

\* A miss that stops at a victim it cannot write.
LEMMA MissEvictFailsInv ==
  ASSUME BaseInv, NEW i \in Blocks, NEW n \in Nat, MissEvictFails(i, n)
  PROVE  BaseInv'
<1>1. n \in 0 .. Len(m_cache) BY EvictCountRange DEF BaseInv, BaseTypeOK, MissEvictFails
<1>2. Cardinality(m_blocks) \in Int BY BlocksFinite DEF BaseInv, BaseTypeOK
<1>a. n \in Int /\ m_pool \in Nat BY DEF BaseInv, BaseTypeOK
<1>3. PoolAfterFree(m_pool, Cardinality(m_blocks), n) \in Nat
  BY <1>2, <1>a, PoolAfterFreeType
<1>4. m_pool' \in Nat BY <1>3 DEF MissEvictFails
<1>5. QED BY <1>1, <1>4, EvictOnlyInv DEF MissEvictFails

\* A miss whose do_read throws.
LEMMA MissReadFailsInv ==
  ASSUME BaseInv, NEW i \in Blocks, MissReadFails(i)
  PROVE  BaseInv'
<1> DEFINE n == EvictCount
           free == PoolAfterFree(m_pool, Cardinality(m_blocks), n)
<1>1. n \in 0 .. Len(m_cache) /\ n \in Int BY EvictCountRange DEF BaseInv, BaseTypeOK
<1>2. Cardinality(m_blocks) \in Int BY BlocksFinite DEF BaseInv, BaseTypeOK
<1>3. /\ m_pool' = PoolAfterFree(AtLeastZero(free - 1), Cardinality(m_blocks) - n + 1, 1)
      /\ EvictOnly(n)
      /\ UNCHANGED <<m_pinned, m_refs>>
  BY DEF MissReadFails
<1> HIDE DEF n
<1>4. free \in Nat BY <1>1, <1>2, PoolAfterFreeType DEF BaseInv, BaseTypeOK
<1> HIDE DEF free
<1>5. AtLeastZero(free - 1) \in Nat BY <1>4 DEF AtLeastZero
<1>6. Cardinality(m_blocks) - n + 1 \in Int /\ 1 \in Int BY <1>1, <1>2
<1>7. PoolAfterFree(AtLeastZero(free - 1), Cardinality(m_blocks) - n + 1, 1) \in Nat
  BY <1>5, <1>6, PoolAfterFreeType
<1>8. QED BY <1>1, <1>3, <1>7, EvictOnlyInv

\* overwrite() of a block that is already referenced.
LEMMA OverwriteHandleInv ==
  ASSUME BaseInv, NEW i \in Blocks, NEW v \in Values, OverwriteHandle(i, v)
  PROVE  BaseInv'
<1>a. m_refs' \in [Blocks -> 0 .. MaxRefs]
  BY BaseAssumption DEF BaseInv, BaseTypeOK, OverwriteHandle
<1>b. m_dirty' \in SUBSET Blocks BY DEF BaseInv, BaseTypeOK, OverwriteHandle
<1>1. BaseTypeOK' BY <1>a, <1>b DEF BaseInv, BaseTypeOK, OverwriteHandle
<1>2. i \in m_blocks
  BY DEF BaseInv, CacheStructure, PinnedWhileReferenced, OverwriteHandle
<1>3. CacheStructure' BY <1>2 DEF BaseInv, CacheStructure, OverwriteHandle
<1>4. PinnedWhileReferenced'
  <2>1. m_pinned' = m_pinned /\ m_pinned = { b \in Blocks : m_refs[b] > 0 }
    BY DEF BaseInv, PinnedWhileReferenced, OverwriteHandle
  <2>2. ASSUME NEW b \in Blocks PROVE m_refs'[b] > 0 <=> m_refs[b] > 0
    BY BaseAssumption DEF BaseInv, BaseTypeOK, OverwriteHandle
  <2>3. QED BY <2>1, <2>2 DEF PinnedWhileReferenced
<1>5. QED BY <1>1, <1>3, <1>4 DEF BaseInv

\* overwrite() of a cached block.
LEMMA OverwriteHitInv ==
  ASSUME BaseInv, NEW i \in Blocks, NEW v \in Values, OverwriteHit(i, v)
  PROVE  BaseInv'
<1>1. /\ Uncached(i) \in Seq(Blocks)
      /\ IsInjective(Uncached(i))
      /\ ToSet(Uncached(i)) = ToSet(m_cache) \ {i}
  BY UncachedProps DEF BaseInv, OverwriteHit
<1>2. /\ <<i>> \o Uncached(i) \in Seq(Blocks)
      /\ IsInjective(<<i>> \o Uncached(i))
      /\ ToSet(<<i>> \o Uncached(i)) = ToSet(Uncached(i)) \cup {i}
  BY <1>1, ConsProps
<1>3. CASE ReadOnly
  <2>1. m_cache' = <<i>> \o Uncached(i) /\ UNCHANGED <<m_pinned, m_dirty, m_refs>>
        /\ i \in m_blocks \ m_pinned
    BY <1>3 DEF OverwriteHit
  <2>2. BaseTypeOK' BY <1>2, <2>1 DEF BaseInv, BaseTypeOK, OverwriteHit
  <2>3. CacheStructure' BY <1>1, <1>2, <2>1 DEF BaseInv, CacheStructure, OverwriteHit
  <2>4. PinnedWhileReferenced' BY <2>1 DEF BaseInv, PinnedWhileReferenced
  <2>5. QED BY <2>2, <2>3, <2>4 DEF BaseInv
<1>4. CASE ~ReadOnly
  <2>1. BaseTypeOK' BY <1>1, <1>4, BaseAssumption DEF BaseInv, BaseTypeOK, OverwriteHit
  <2>2. CacheStructure' BY <1>1, <1>4 DEF BaseInv, CacheStructure, OverwriteHit
  <2>3. PinnedWhileReferenced'
    BY <1>4, BaseAssumption DEF BaseInv, BaseTypeOK, PinnedWhileReferenced, OverwriteHit
  <2>4. QED BY <2>1, <2>2, <2>3 DEF BaseInv
<1>5. QED BY <1>3, <1>4

\* overwrite() of a block that is not in memory.
LEMMA OverwriteMissInv ==
  ASSUME BaseInv, NEW i \in Blocks, NEW v \in Values, OverwriteMiss(i, v)
  PROVE  BaseInv'
<1> DEFINE n == EvictCount
           rest == SubSeq(m_cache, 1, Len(m_cache) - n)
<1>1. n \in 0 .. Len(m_cache) BY EvictCountRange DEF BaseInv
<1>2. /\ m_blocks' = (m_blocks \ Victims(n)) \cup {i}
      /\ i \notin m_blocks
      /\ IF ReadOnly
         THEN /\ m_cache' = <<i>> \o rest
              /\ m_dirty' = m_dirty \ Victims(n)
              /\ UNCHANGED <<m_pinned, m_refs>>
         ELSE /\ m_cache' = rest
              /\ m_dirty' = (m_dirty \ Victims(n)) \cup {i}
              /\ m_pinned' = m_pinned \cup {i}
              /\ m_refs' = [m_refs EXCEPT ![i] = 1]
  BY DEF OverwriteMiss, Load
<1>3. m_blocks' \in SUBSET Blocks /\ m_data' \in [Blocks -> Values] /\ m_pool' \in Nat
  BY LoadType DEF OverwriteMiss
<1> HIDE DEF n
<1>4. /\ rest \in Seq(Blocks)
      /\ IsInjective(rest)
      /\ ToSet(rest) = ToSet(m_cache) \ Victims(n)
      /\ Victims(n) \subseteq m_blocks \ m_pinned
  BY <1>1, EvictProps DEF BaseInv
<1> HIDE DEF rest
<1>5. i \notin ToSet(rest) BY <1>2, <1>4 DEF BaseInv, CacheStructure
<1>6. /\ <<i>> \o rest \in Seq(Blocks)
      /\ IsInjective(<<i>> \o rest)
      /\ ToSet(<<i>> \o rest) = ToSet(rest) \cup {i}
  BY <1>4, <1>5, ConsProps
<1>7. CASE ReadOnly
  <2>1. /\ m_cache' = <<i>> \o rest
        /\ m_dirty' = m_dirty \ Victims(n)
        /\ UNCHANGED <<m_pinned, m_refs>>
    BY <1>2, <1>7
  <2>2. BaseTypeOK' BY <1>3, <1>6, <2>1 DEF BaseInv, BaseTypeOK
  <2>3. i \notin m_pinned BY <1>2 DEF BaseInv, CacheStructure
  <2>4. CacheStructure' BY <1>2, <1>4, <1>6, <2>1, <2>3 DEF BaseInv, CacheStructure
  <2>5. PinnedWhileReferenced' BY <2>1 DEF BaseInv, PinnedWhileReferenced
  <2>6. QED BY <2>2, <2>4, <2>5 DEF BaseInv
<1>8. CASE ~ReadOnly
  <2>1. /\ m_cache' = rest
        /\ m_dirty' = (m_dirty \ Victims(n)) \cup {i}
        /\ m_pinned' = m_pinned \cup {i}
        /\ m_refs' = [m_refs EXCEPT ![i] = 1]
    BY <1>2, <1>8
  <2>2. m_refs' \in [Blocks -> 0 .. MaxRefs]
    BY <2>1, BaseAssumption DEF BaseInv, BaseTypeOK
  <2>3. m_pinned' \in SUBSET Blocks /\ m_dirty' \in SUBSET Blocks
    BY <2>1 DEF BaseInv, BaseTypeOK
  <2>4. BaseTypeOK' BY <1>3, <1>4, <2>1, <2>2, <2>3 DEF BaseTypeOK
  <2>5. CacheStructure' BY <1>2, <1>4, <2>1 DEF BaseInv, CacheStructure
  <2>6. PinnedWhileReferenced'
    BY <2>1, BaseAssumption DEF BaseInv, BaseTypeOK, PinnedWhileReferenced
  <2>7. QED BY <2>4, <2>5, <2>6 DEF BaseInv
<1>9. QED BY <1>7, <1>8

\* The last handle to go puts the block in front of the list.
LEMMA ReleaseInv ==
  ASSUME BaseInv, NEW i \in Blocks, Release(i)
  PROVE  BaseInv'
<1>1. i \in m_pinned /\ i \in m_blocks
  BY DEF BaseInv, CacheStructure, PinnedWhileReferenced, Release
<1>2. m_cache \in Seq(Blocks) /\ IsInjective(m_cache) /\ i \notin ToSet(m_cache)
  BY <1>1 DEF BaseInv, BaseTypeOK, CacheStructure
<1>3. /\ <<i>> \o m_cache \in Seq(Blocks)
      /\ IsInjective(<<i>> \o m_cache)
      /\ ToSet(<<i>> \o m_cache) = ToSet(m_cache) \cup {i}
  BY <1>2, ConsProps
<1>4. m_refs' \in [Blocks -> 0 .. MaxRefs]
  BY BaseAssumption DEF BaseInv, BaseTypeOK, Release
<1>5. BaseTypeOK' BY <1>3, <1>4 DEF BaseInv, BaseTypeOK, Release
<1>6. CacheStructure' BY <1>1, <1>3 DEF BaseInv, CacheStructure, Release
<1>7. PinnedWhileReferenced'
  BY BaseAssumption DEF BaseInv, BaseTypeOK, PinnedWhileReferenced, Release
<1>8. QED BY <1>5, <1>6, <1>7 DEF BaseInv

\* A store through a handle dirties a block that is in memory.
LEMMA ModifyInv ==
  ASSUME BaseInv, NEW i \in Blocks, NEW v \in Values, Modify(i, v)
  PROVE  BaseInv'
<1>1. i \in m_blocks
  BY DEF BaseInv, CacheStructure, PinnedWhileReferenced, Modify
<1>2. BaseTypeOK' BY DEF BaseInv, BaseTypeOK, Modify
<1>3. CacheStructure' BY <1>1 DEF BaseInv, CacheStructure, Modify
<1>4. PinnedWhileReferenced' BY DEF BaseInv, PinnedWhileReferenced, Modify
<1>5. QED BY <1>2, <1>3, <1>4 DEF BaseInv

\* Flushing changes the dirty set only.
LEMMA MarkCleanInv ==
  ASSUME BaseInv, NEW S, MarkClean(S)
  PROVE  BaseInv'
BY DEF BaseInv, BaseTypeOK, CacheStructure, PinnedWhileReferenced, MarkClean

-----------------------------------------------------------------------------
(* The limit of the cache.                                                 *)

\* The victims of an eviction are as many blocks as it evicts.
LEMMA VictimCount ==
  ASSUME BaseTypeOK, CacheStructure, NEW n \in 0 .. Len(m_cache)
  PROVE  Cardinality(Victims(n)) = n
<1> DEFINE L == Len(m_cache)
           D == L - n + 1 .. L
           f == [p \in D |-> m_cache[p]]
<1>1. m_cache \in Seq(Blocks) /\ L \in Nat /\ DOMAIN m_cache = 1 .. L BY DEF BaseTypeOK
<1>2. D \subseteq 1 .. L BY <1>1
<1>3. \A p, q \in 1 .. L : m_cache[p] = m_cache[q] => p = q
  BY <1>1 DEF CacheStructure, IsInjective
<1>4. Victims(n) = { m_cache[p] : p \in D } BY DEF Victims
<1>5. L - n + 1 \in Int /\ L \in Int BY <1>1
<1>6. IsFiniteSet(D) /\ Cardinality(D) = n
  <2>1. /\ IsFiniteSet(L - n + 1 .. L)
        /\ Cardinality(L - n + 1 .. L) = IF L - n + 1 > L THEN 0 ELSE L - (L - n + 1) + 1
    BY <1>5, FS_Interval
  <2> HIDE DEF L
  <2>2. QED BY <1>1, <2>1
<1> HIDE DEF L, D
<1>7. f \in [D -> Victims(n)] BY <1>4
<1>8. \A p, q \in D : f[p] = f[q] => p = q BY <1>2, <1>3
<1>9. \A t \in Victims(n) : \E p \in D : f[p] = t BY <1>4
<1> HIDE DEF f
<1>10. f \in Bijection(D, Victims(n))
  BY <1>7, <1>8, <1>9 DEF Bijection, Injection, Surjection, IsInjective
<1>11. ExistsBijection(D, Victims(n)) BY <1>10 DEF ExistsBijection
<1>12. QED BY <1>6, <1>11, FS_Bijection

\* A miss evicts down to the limit, or all that is not pinned.
LEMMA LoadLimit ==
  ASSUME BaseInv, NEW i \in Blocks, NEW v, Load(i, v)
  PROVE  Cardinality(m_blocks') <= CacheBlocks + 1 \/ m_blocks' = m_pinned \cup {i}
<1> DEFINE n == EvictCount
           L == Len(m_cache)
           V == Victims(n)
           c == Cardinality(m_blocks)
<1>1. BaseTypeOK /\ CacheStructure BY DEF BaseInv
<1>2. n \in 0 .. L /\ L \in Nat BY <1>1, EvictCountRange DEF BaseTypeOK
<1>3. m_blocks' = (m_blocks \ V) \cup {i} BY DEF Load
<1>4. V \subseteq m_blocks \ m_pinned /\ Cardinality(V) = n BY <1>1, <1>2, EvictProps, VictimCount
<1>5. IsFiniteSet(m_blocks) /\ c \in Nat BY <1>1, BlocksFinite DEF BaseTypeOK
<1>6. CacheBlocks \in Nat BY BaseAssumption
<1>7. n = L \/ n >= c - CacheBlocks BY <1>2, <1>5, <1>6 DEF EvictCount, AtLeastZero
<1>8. CASE n >= c - CacheBlocks
  <2>1. m_blocks \cap V = V BY <1>4
  <2> HIDE DEF V, c, n
  <2>2. IsFiniteSet(m_blocks \ V) /\ Cardinality(m_blocks \ V) = c - n
    BY <1>4, <1>5, <2>1, FS_Difference DEF c
  <2> DEFINE W == m_blocks \ V
  <2> HIDE DEF W
  <2>3. IsFiniteSet(W) /\ Cardinality(W) = c - n BY <2>2 DEF W
  <2>4. Cardinality(W \cup {i}) = IF i \in W THEN Cardinality(W) ELSE Cardinality(W) + 1
    BY <2>3, FS_AddElement
  <2>5. Cardinality(W \cup {i}) <= CacheBlocks + 1 BY <1>2, <1>5, <1>6, <1>8, <2>3, <2>4
  <2>6. QED BY <1>3, <2>5 DEF W
<1>9. CASE n = L
  <2>1. V = ToSet(m_cache)
    <3>1. m_cache \in Seq(Blocks) BY <1>1 DEF BaseTypeOK
    <3>2. DOMAIN m_cache = 1 .. L /\ L - L + 1 = 1 BY <1>2, <3>1
    <3>3. QED BY <1>9, <3>2 DEF Victims, ToSet
  <2>2. V = m_blocks \ m_pinned /\ m_pinned \subseteq m_blocks BY <1>1, <2>1 DEF CacheStructure
  <2>3. QED BY <1>3, <2>2
<1>10. QED BY <1>7, <1>8, <1>9
=============================================================================
