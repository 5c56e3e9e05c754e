------------------------- MODULE FileEngineProofs -------------------------
(***************************************************************************)
(* file_engine never loses, revives or mixes up block contents, whatever   *)
(* the number of blocks, the size of the cache, the contents and the       *)
(* pattern of I/O errors.                                                  *)
(*                                                                         *)
(* ReadYourWrites is not inductive: evicting a clean block drops it from   *)
(* memory, which changes nothing only if the file holds the same content   *)
(* (CleanBlocksMatchFile), and it is the dirty blocks among the victims    *)
(* that are written, which are in memory only by CacheStructure.           *)
(***************************************************************************)
EXTENDS FileEngine, EngineBaseProofs

Inv == TypeOK /\ CacheStructure /\ PinnedWhileReferenced

Contents == ReadYourWrites /\ CleanBlocksMatchFile

-----------------------------------------------------------------------------

\* The file's size after a write is a size.
LEMMA SizeAfterType == ASSUME NEW S PROVE SizeAfter(S) \in 0 .. NumBlocks
BY BlocksFinite DEF SizeAfter

\* Writing blocks keeps the file well typed.
LEMMA DoWriteType ==
  ASSUME TypeOK, NEW S, DoWrite(S)
  PROVE  file' \in [Blocks -> Values] /\ fileSize' \in 0 .. NumBlocks
BY SizeAfterType DEF TypeOK, BaseTypeOK, DoWrite

\* So does a write that fails half way.
LEMMA DoWriteFailsType ==
  ASSUME TypeOK, NEW S, NEW j, DoWriteFails(S, j)
  PROVE  file' \in [Blocks -> Values] /\ fileSize' \in 0 .. NumBlocks
BY SizeAfterType DEF TypeOK, BaseTypeOK, DoWriteFails

\* A new engine has an empty cache.
LEMMA ResetInv ==
  ASSUME BaseInv, Reset, \A b \in Blocks : m_refs[b] = 0
  PROVE  BaseInv'
<1>1. m_pinned = {}
  BY DEF BaseInv, BaseTypeOK, PinnedWhileReferenced
<1>2. << >> \in Seq(Blocks) /\ IsInjective(<< >>) /\ ToSet(<< >>) = {}
  BY DEF IsInjective, ToSet
<1>3. BaseTypeOK' BY <1>2, BaseAssumption DEF BaseInv, BaseTypeOK, Reset
<1>4. CacheStructure' BY <1>1, <1>2 DEF CacheStructure, Reset
<1>5. PinnedWhileReferenced' BY DEF BaseInv, PinnedWhileReferenced, Reset
<1>6. QED BY <1>3, <1>4, <1>5 DEF BaseInv

\* Every step keeps the structure of the cache.
LEMMA InvStep ==
  ASSUME Inv, [Next]_vars
  PROVE  Inv'
<1> USE DEF Inv, BaseInv
<1>0. BaseInv BY DEF TypeOK
<1>a. ASSUME NEW i \in Blocks, NEW v \in Values, Stored(i, v) PROVE app' \in [Blocks -> Values]
  BY <1>a DEF Stored, TypeOK
<1>b. SUFFICES /\ BaseInv'
               /\ file' \in [Blocks -> Values]
               /\ fileSize' \in 0 .. NumBlocks
               /\ app' \in [Blocks -> Values]
  BY DEF TypeOK
<1>1. ASSUME NEW i \in Blocks, ReadReferenced(i) PROVE <1>b!1
  BY <1>0, <1>1, CopyHandleInv DEF ReadReferenced, TypeOK
<1>2. ASSUME NEW i \in Blocks, ReadCached(i) PROVE <1>b!1
  BY <1>0, <1>2, ReadHitInv DEF ReadCached, TypeOK
<1>3. ASSUME NEW i \in Blocks, ReadFromFile(i) PROVE <1>b!1
  <2>1. file[i] \in Values BY DEF TypeOK
  <2>2. QED BY <1>0, <1>3, <2>1, ReadMissInv, DoWriteType DEF ReadFromFile, TypeOK
<1>4. ASSUME NEW i \in Blocks, ReadFails(i) PROVE <1>b!1
  BY <1>0, <1>4, MissReadFailsInv, DoWriteType DEF ReadFails, TypeOK
<1>5. ASSUME NEW i \in Blocks, NEW n \in 0 .. NumBlocks, EvictionFails(i, n) PROVE <1>b!1
  <2>1. n \in Nat OBVIOUS
  <2>2. QED BY <1>0, <1>5, <2>1, MissEvictFailsInv, DoWriteFailsType DEF EvictionFails, TypeOK
<1>6. ASSUME NEW i \in Blocks, NEW v \in Values, OverwriteReferenced(i, v) PROVE <1>b!1
  BY <1>0, <1>6, <1>a, OverwriteHandleInv DEF OverwriteReferenced, fileVars, TypeOK
<1>7. ASSUME NEW i \in Blocks, NEW v \in Values, OverwriteCached(i, v) PROVE <1>b!1
  BY <1>0, <1>7, <1>a, OverwriteHitInv DEF OverwriteCached, fileVars, TypeOK
<1>8. ASSUME NEW i \in Blocks, NEW v \in Values, OverwriteNew(i, v) PROVE <1>b!1
  BY <1>0, <1>8, <1>a, OverwriteMissInv, DoWriteType DEF OverwriteNew, TypeOK
<1>9. ASSUME NEW i \in Blocks, NEW v \in Values, Store(i, v) PROVE <1>b!1
  BY <1>0, <1>9, <1>a, ModifyInv DEF Store, fileVars, TypeOK
<1>10. ASSUME NEW i \in Blocks, Drop(i) PROVE <1>b!1
  BY <1>0, <1>10, ReleaseInv DEF Drop, TypeOK
<1>11. ASSUME NEW i \in Blocks, FlushBlock(i) PROVE <1>b!1
  BY <1>0, <1>11, MarkCleanInv, DoWriteType DEF FlushBlock, TypeOK
<1>12. ASSUME NEW i \in Blocks, FlushBlockFails(i) PROVE <1>b!1
  <2>1. BaseInv' BY <1>0, <1>12 DEF FlushBlockFails, baseVars, BaseTypeOK,
                                    CacheStructure, PinnedWhileReferenced
  <2>2. QED BY <1>12, <2>1, DoWriteFailsType DEF FlushBlockFails, TypeOK
<1>13. ASSUME NEW i \in Blocks, FlushFails(i) PROVE <1>b!1
  BY <1>0, <1>13, MarkCleanInv, DoWriteFailsType DEF FlushFails, TypeOK
<1>14. ASSUME NEW i \in Blocks, CloseFails(i) PROVE <1>b!1
  BY <1>0, <1>14, ResetInv, DoWriteFailsType DEF CloseFails, TypeOK
<1>15. CASE FlushAll
  BY <1>0, <1>15, MarkCleanInv, DoWriteType DEF FlushAll, TypeOK
<1>16. ASSUME NEW n \in 1 .. NumBlocks, Grow(n) PROVE <1>b!1
  <2>1. BaseInv' BY <1>0, <1>16 DEF Grow, baseVars, BaseTypeOK,
                                    CacheStructure, PinnedWhileReferenced
  <2>2. fileSize' \in 0 .. NumBlocks BY <1>16, BaseAssumption DEF Grow, TypeOK
  <2>3. QED BY <1>16, <2>1, <2>2 DEF Grow, TypeOK
<1>17. CASE Close
  BY <1>0, <1>17, ResetInv, DoWriteType DEF Close, TypeOK
<1>18. CASE UNCHANGED vars
  BY <1>18 DEF vars, TypeOK, BaseTypeOK, CacheStructure, PinnedWhileReferenced
<1>19. QED
  BY <1>1, <1>2, <1>3, <1>4, <1>5, <1>6, <1>7, <1>8, <1>9, <1>10, <1>11, <1>12, <1>13,
     <1>14, <1>15, <1>16, <1>17, <1>18 DEF Next

-----------------------------------------------------------------------------
(* Contents, block by block.                                               *)

Agrees(b) ==
  /\ b \in m_blocks => m_data[b] = app[b]
  /\ b \notin m_blocks => file[b] = app[b]
  /\ b \in m_blocks \ m_dirty => m_data[b] = file[b]

\* ReadYourWrites and CleanBlocksMatchFile speak about one block at a time.
LEMMA ContentsPointwise ==
  ASSUME TypeOK
  PROVE  Contents <=> \A b \in Blocks : Agrees(b)
<1>1. ReadYourWrites <=> \A b \in Blocks : View[b] = app[b]
  BY DEF ReadYourWrites, View, TypeOK
<1>2. m_blocks \subseteq Blocks BY DEF TypeOK, BaseTypeOK
<1>3. QED BY <1>1, <1>2 DEF Contents, CleanBlocksMatchFile, Agrees, View

\* The same for the state after a step.
LEMMA ContentsPointwiseNext ==
  ASSUME TypeOK'
  PROVE  Contents' <=> \A b \in Blocks : Agrees(b)'
<1>1. ReadYourWrites' <=> \A b \in Blocks : View'[b] = app'[b]
  BY DEF ReadYourWrites, View, TypeOK
<1>2. m_blocks' \subseteq Blocks BY DEF TypeOK, BaseTypeOK
<1>3. QED BY <1>1, <1>2 DEF Contents, CleanBlocksMatchFile, Agrees, View

\* A read or an eviction: what leaves memory is on disk, what enters comes
\* from there, and nothing the application stored changes.
LEMMA ContentsStep ==
  ASSUME Inv, Inv', Contents, ~ReadOnly, [Next]_vars
  PROVE  Contents'
<1>0. /\ \A b \in Blocks : Agrees(b)
      /\ m_data \in [Blocks -> Values] /\ file \in [Blocks -> Values]
      /\ app \in [Blocks -> Values]
      /\ m_dirty \subseteq m_blocks
      /\ \A b \in Blocks : m_refs[b] > 0 => b \in m_blocks
  BY ContentsPointwise
  DEF Inv, TypeOK, BaseTypeOK, CacheStructure, PinnedWhileReferenced
<1>V. ASSUME NEW n \in 0 .. Len(m_cache) PROVE Victims(n) \subseteq m_blocks
  BY <1>V, EvictProps DEF Inv, TypeOK
<1>E. EvictCount \in 0 .. Len(m_cache) /\ Victims(EvictCount) \subseteq m_blocks
  BY <1>V, EvictCountRange DEF Inv, TypeOK
<1>b. SUFFICES ASSUME NEW b \in Blocks PROVE Agrees(b)'
  BY ContentsPointwiseNext DEF Inv
<1>c. Agrees(b) BY <1>0
<1>1. ASSUME NEW i \in Blocks, ReadReferenced(i) PROVE Agrees(b)'
  BY <1>c, <1>1 DEF ReadReferenced, CopyHandle, Agrees
<1>2. ASSUME NEW i \in Blocks, ReadCached(i) PROVE Agrees(b)'
  BY <1>c, <1>2 DEF ReadCached, ReadHit, Agrees
<1>3. ASSUME NEW i \in Blocks, ReadFromFile(i) PROVE Agrees(b)'
  BY <1>0, <1>E, <1>3 DEF ReadFromFile, ReadMiss, Load, DoWrite, Agrees
<1>4. ASSUME NEW i \in Blocks, ReadFails(i) PROVE Agrees(b)'
  BY <1>0, <1>E, <1>4 DEF ReadFails, MissReadFails, EvictOnly, DoWrite, Agrees
<1>5. ASSUME NEW i \in Blocks, NEW n \in 0 .. NumBlocks, EvictionFails(i, n)
      PROVE Agrees(b)'
  <2> DEFINE j == m_cache[Len(m_cache) - n]
  <2>1. n \in Nat /\ MissEvictFails(i, n) BY <1>5 DEF EvictionFails
  <2>2. n \in 0 .. Len(m_cache) /\ Victims(n) \subseteq m_blocks
    BY <2>1, FailedVictim DEF Inv, TypeOK, BaseInv
  <2>3. j \in m_dirty /\ j \notin Victims(n) BY <2>1, FailedVictim DEF Inv, TypeOK, BaseInv
  <2>5. /\ EvictOnly(n) /\ DoWriteFails(Victims(n) \cap m_dirty, j) /\ UNCHANGED app
    BY <1>5 DEF EvictionFails, MissEvictFails
  <2> HIDE DEF j
  <2>6. QED BY <1>0, <2>2, <2>3, <2>5 DEF EvictOnly, DoWriteFails, Agrees
<1>6. ASSUME NEW i \in Blocks, NEW v \in Values, OverwriteReferenced(i, v) PROVE Agrees(b)'
  BY <1>0, <1>c, <1>6 DEF OverwriteReferenced, OverwriteHandle, Stored, fileVars, Agrees
<1>7. ASSUME NEW i \in Blocks, NEW v \in Values, OverwriteCached(i, v) PROVE Agrees(b)'
  BY <1>0, <1>c, <1>7 DEF OverwriteCached, OverwriteHit, Stored, fileVars, Agrees
<1>8. ASSUME NEW i \in Blocks, NEW v \in Values, OverwriteNew(i, v) PROVE Agrees(b)'
  BY <1>0, <1>E, <1>8 DEF OverwriteNew, OverwriteMiss, Load, DoWrite, Stored, Agrees
<1>9. ASSUME NEW i \in Blocks, NEW v \in Values, Store(i, v) PROVE Agrees(b)'
  BY <1>0, <1>c, <1>9 DEF Store, Modify, Stored, fileVars, Agrees
<1>10. ASSUME NEW i \in Blocks, Drop(i) PROVE Agrees(b)'
  BY <1>c, <1>10 DEF Drop, Release, Agrees
<1>11. ASSUME NEW i \in Blocks, FlushBlock(i) PROVE Agrees(b)'
  BY <1>0, <1>c, <1>11 DEF FlushBlock, MarkClean, DoWrite, Agrees
<1>12. ASSUME NEW i \in Blocks, FlushBlockFails(i) PROVE Agrees(b)'
  BY <1>0, <1>c, <1>12 DEF FlushBlockFails, DoWriteFails, baseVars, Agrees
<1>13. ASSUME NEW i \in Blocks, FlushFails(i) PROVE Agrees(b)'
  <2>1. i \notin { c \in m_dirty : c < i } BY DEF Blocks
  <2>2. QED BY <1>0, <1>c, <1>13, <2>1 DEF FlushFails, MarkClean, DoWriteFails, Agrees
<1>14. ASSUME NEW i \in Blocks, CloseFails(i) PROVE Agrees(b)'
  BY <1>14 DEF CloseFails, Reset, Agrees
<1>15. CASE FlushAll
  BY <1>0, <1>c, <1>15 DEF FlushAll, MarkClean, DoWrite, Agrees
<1>16. ASSUME NEW n \in 1 .. NumBlocks, Grow(n) PROVE Agrees(b)'
  BY <1>c, <1>16 DEF Grow, baseVars, Agrees
<1>17. CASE Close
  BY <1>0, <1>c, <1>17 DEF Close, Reset, DoWrite, Agrees
<1>18. CASE UNCHANGED vars
  BY <1>c, <1>18 DEF vars, Agrees
<1>19. QED
  BY <1>1, <1>2, <1>3, <1>4, <1>5, <1>6, <1>7, <1>8, <1>9, <1>10, <1>11, <1>12, <1>13,
     <1>14, <1>15, <1>16, <1>17, <1>18 DEF Next

-----------------------------------------------------------------------------
(* The theorems.                                                           *)

\* An engine that was just opened has an empty, well-formed cache.
LEMMA InvInit == Init => Inv
<1> SUFFICES ASSUME Init PROVE Inv
  OBVIOUS
<1>1. << >> \in Seq(Blocks) /\ IsInjective(<< >>) /\ ToSet(<< >>) = {}
  BY DEF IsInjective, ToSet
<1>2. TypeOK BY <1>1, BaseAssumption DEF Init, BaseInit, TypeOK, BaseTypeOK
<1>3. CacheStructure BY <1>1 DEF Init, BaseInit, CacheStructure
<1>4. PinnedWhileReferenced BY DEF Init, BaseInit, PinnedWhileReferenced
<1>5. QED BY <1>2, <1>3, <1>4 DEF Inv

\* Type correctness of the block cache and of the file behind it, for every
\* cache size and number of blocks.
THEOREM TypeCorrect == Spec => []TypeOK
<1>1. Inv /\ [Next]_vars => Inv' BY InvStep
<1>2. Inv => TypeOK BY DEF Inv
<1>3. QED BY InvInit, <1>1, <1>2, PTL DEF Spec

\* engine_base never has a block in the LRU list twice, never has a pinned
\* block in it, and pins exactly the blocks that have a live handle: no
\* block is evicted under a handle, whatever fails on the way.
THEOREM CacheWellFormed == Spec => [](CacheStructure /\ PinnedWhileReferenced)
<1>1. Inv /\ [Next]_vars => Inv' BY InvStep
<1>2. Inv => CacheStructure /\ PinnedWhileReferenced BY DEF Inv
<1>3. QED BY InvInit, <1>1, <1>2, PTL DEF Spec

\* On a writable file the engine returns what was last stored in a block,
\* through every eviction, flush and I/O error.
THEOREM ReadsReturnWrites == ASSUME ~ReadOnly PROVE Spec => []ReadYourWrites
<1>1. Init => Inv /\ Contents
  BY InvInit DEF Init, BaseInit, Contents, ReadYourWrites, View, CleanBlocksMatchFile
<1>2. Inv /\ Contents /\ [Next]_vars => Inv' /\ Contents'
  BY InvStep, ContentsStep
<1>3. Inv /\ Contents => ReadYourWrites BY DEF Contents
<1>4. QED BY <1>1, <1>2, <1>3, PTL DEF Spec

\* Dropping a clean block from memory never loses anything.
THEOREM CleanMatchesFile == ASSUME ~ReadOnly PROVE Spec => []CleanBlocksMatchFile
<1>1. Init => Inv /\ Contents
  BY InvInit DEF Init, BaseInit, Contents, ReadYourWrites, View, CleanBlocksMatchFile
<1>2. Inv /\ Contents /\ [Next]_vars => Inv' /\ Contents'
  BY InvStep, ContentsStep
<1>3. Inv /\ Contents => CleanBlocksMatchFile BY DEF Contents
<1>4. QED BY <1>1, <1>2, <1>3, PTL DEF Spec

\* Only a miss brings a block into memory, and it keeps to the limit.
LEMMA MissStep ==
  ASSUME Inv, [Next]_vars, ~ReadOnly
  PROVE  \/ m_blocks' \subseteq m_blocks
         \/ Cardinality(m_blocks') <= CacheBlocks + 1
         \/ m_pinned' = m_blocks'
<1>0. BaseInv BY DEF Inv, TypeOK, BaseInv
<1>1. ASSUME NEW i \in Blocks, NEW v, Load(i, v), m_pinned' = m_pinned \cup {i}
      PROVE  Cardinality(m_blocks') <= CacheBlocks + 1 \/ m_pinned' = m_blocks'
  BY <1>0, <1>1, LoadLimit
<1>2. ASSUME NEW i \in Blocks, ReadFromFile(i)
      PROVE  Cardinality(m_blocks') <= CacheBlocks + 1 \/ m_pinned' = m_blocks'
  BY <1>1, <1>2 DEF ReadFromFile, ReadMiss
<1>3. ASSUME NEW i \in Blocks, NEW v \in Values, OverwriteNew(i, v)
      PROVE  Cardinality(m_blocks') <= CacheBlocks + 1 \/ m_pinned' = m_blocks'
  BY <1>1, <1>3 DEF OverwriteNew, OverwriteMiss
<1>4. ASSUME NEW i \in Blocks,
             \/ ReadReferenced(i) \/ ReadCached(i) \/ ReadFails(i)
             \/ \E n \in 0 .. NumBlocks : EvictionFails(i, n)
             \/ Drop(i) \/ FlushBlock(i) \/ FlushBlockFails(i) \/ FlushFails(i) \/ CloseFails(i)
      PROVE  m_blocks' \subseteq m_blocks
  BY <1>4 DEF ReadReferenced, CopyHandle, ReadCached, ReadHit, ReadFails, MissReadFails, EvictionFails,
              MissEvictFails, EvictOnly, Drop, Release, FlushBlock, FlushBlockFails, FlushFails,
              MarkClean, CloseFails, Reset, baseVars
<1>5. ASSUME NEW i \in Blocks, NEW v \in Values,
             OverwriteReferenced(i, v) \/ OverwriteCached(i, v) \/ Store(i, v)
      PROVE  m_blocks' \subseteq m_blocks
  BY <1>5 DEF OverwriteReferenced, OverwriteHandle, OverwriteCached, OverwriteHit, Store, Modify
<1>6. CASE FlushAll \/ Close \/ \E n \in 1 .. NumBlocks : Grow(n)
  BY <1>6 DEF FlushAll, MarkClean, Close, Reset, Grow, baseVars
<1>7. CASE UNCHANGED vars BY <1>7 DEF vars
<1>8. QED BY <1>2, <1>3, <1>4, <1>5, <1>6, <1>7 DEF Next

\* What the eviction loop in pin() keeps of the documented maximum, for every size of
\* the cache: a miss leaves one block more in memory and never two, unless every block
\* in memory has a handle.
THEOREM MissExceedsByOneAtMost ==
  ASSUME ~ReadOnly
  PROVE  Spec => [][ m_blocks' \subseteq m_blocks
                     \/ Cardinality(m_blocks') <= CacheBlocks + 1
                     \/ m_pinned' = m_blocks' ]_vars
<1>1. Inv /\ [Next]_vars => Inv' BY InvStep
<1>2. Inv /\ [Next]_vars => [ m_blocks' \subseteq m_blocks
                              \/ Cardinality(m_blocks') <= CacheBlocks + 1
                              \/ m_pinned' = m_blocks' ]_vars
  BY MissStep
<1>3. QED BY InvInit, <1>1, <1>2, PTL DEF Spec
=============================================================================
