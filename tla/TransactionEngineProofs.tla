---------------------- MODULE TransactionEngineProofs ----------------------
(***************************************************************************)
(* transaction_engine for every number of blocks, cache size and number of *)
(* I/O errors: its cache keeps its structure, the pin counter is exact,    *)
(* the write-ahead rule holds and the database size never runs away from   *)
(* the journal's.                                                          *)
(***************************************************************************)
EXTENDS TransactionEngine, EngineBaseProofs

-----------------------------------------------------------------------------
(* The inductive invariant.                                                *)

LogContents == Values \cup {None}

LogStates == [blocks : [Blocks -> LogContents], size : Sizes \cup {None}]

LogTypeOK ==
  /\ jBlocks \in [Blocks -> LogContents]
  /\ jSize \in Sizes \cup {None}
  /\ jWritten \in [Blocks -> LogContents \cup {Torn}]
  /\ jActive \in BOOLEAN
  /\ jDisk \in SUBSET LogStates

DbTypeOK ==
  /\ dbFile \in [Blocks -> Values]
  /\ dbFileSize \in Sizes
  /\ dbUnsynced \in SUBSET Blocks
  /\ dbSizes \in SUBSET Sizes

EngineTypeOK ==
  /\ m_dbfile_size \in Sizes
  /\ m_size \in Sizes
  /\ m_transaction_started \in BOOLEAN
  /\ pc \in {"idle", "commit", "copy", "copied", "synced", "shrunk", "closed"}
  /\ doomed \in {"no", "write", "commit"}
  /\ errors \in Nat

TypeOK == BaseTypeOK /\ LogTypeOK /\ DbTypeOK /\ EngineTypeOK

\* Outside a transaction the journal holds no uncommitted block, and a torn
\* version belongs to a block that is still dirty: a later flush replaces it,
\* a rollback drops it.
WrittenInv ==
  /\ ~jActive => jWritten = J!NoBlocks
  /\ \A b \in Blocks : jWritten[b] = Torn => b \in m_dirty

CacheInv == TypeOK /\ BaseInv /\ PinCounterExact /\ WrittenInv

\* What a journal state on disk may look like next to the database file.
LogCovers(s) ==
  /\ s.size = None => s.blocks = J!NoBlocks /\ dbUnsynced = {} /\ dbSizes = {dbFileSize}
  /\ s.size # None => \A b \in Blocks : /\ b >= s.size => s.blocks[b] = None
                                        /\ b \in dbUnsynced => s.blocks[b] # None

\* The steps of a checkpoint.
CheckpointSteps ==
  /\ pc \in {"copy", "copied", "synced"} => jSize # None /\ jDisk = {J!Current}
  /\ pc \in {"synced", "shrunk", "closed"} => dbUnsynced = {} /\ dbSizes = {dbFileSize}
  /\ pc \in {"shrunk", "closed"} => J!Current = J!Empty
  /\ pc \in {"copy", "copied", "synced", "shrunk", "closed"} => ~m_transaction_started
  /\ pc = "commit" => m_transaction_started

LogInv ==
  /\ J!Current \in jDisk
  /\ \A s \in jDisk : LogCovers(s)
  /\ jSize # None => jSize <= m_size
  /\ ~m_transaction_started => ~jActive
  /\ CheckpointSteps

\* The size of the committed database.
DbSize == IF jSize # None THEN jSize ELSE dbFileSize

SizeInv ==
  /\ dbFileSize \in dbSizes
  /\ \A s \in jDisk, n \in dbSizes : s.size # None => n <= s.size
  /\ pc \notin {"synced", "shrunk", "closed"} => m_dbfile_size \in dbSizes
  /\ DbSize <= m_size
  /\ ~m_transaction_started => m_size = DbSize
  /\ pc \in {"copied", "synced"} => dbFileSize = jSize

-----------------------------------------------------------------------------
(* Discarding.                                                             *)

\* Taking blocks out of the LRU list keeps the others, each of them once.
LEMMA WithoutProps ==
  ASSUME NEW S, NEW s \in Seq(S), IsInjective(s), NEW T
  PROVE  /\ Without(s, T) \in Seq(S)
         /\ IsInjective(Without(s, T))
         /\ ToSet(Without(s, T)) = ToSet(s) \ T
<1> DEFINE kept == { p \in DOMAIN s : s[p] \notin T }
           below(p) == { q \in kept : q <= p }
           n == Cardinality(kept)
           rank == [p \in kept |-> Cardinality(below(p))]
           pos(k) == CHOOSE p \in kept : Cardinality(below(p)) = k
           r == Without(s, T)
<1>1. DOMAIN s = 1 .. Len(s) /\ Len(s) \in Nat OBVIOUS
<1>2. IsFiniteSet(kept) /\ kept \subseteq Nat
  <2>1. IsFiniteSet(1 .. Len(s)) BY <1>1, FS_Interval
  <2>2. kept \subseteq 1 .. Len(s) BY <1>1
  <2>3. QED BY <2>1, <2>2, FS_Subset
<1>3. n \in Nat BY <1>2, FS_CardinalityType
<1>4. ASSUME NEW p \in kept
      PROVE  /\ IsFiniteSet(below(p))
             /\ Cardinality(below(p)) \in 1 .. n
  <2>1. below(p) \in SUBSET kept OBVIOUS
  <2>2. IsFiniteSet(below(p)) /\ Cardinality(below(p)) <= n BY <1>2, <2>1, FS_Subset
  <2>3. p \in below(p) BY <1>2
  <2>4. Cardinality(below(p)) \in Nat BY <2>2, FS_CardinalityType
  <2>5. below(p) # {} BY <2>3
  <2>6. Cardinality(below(p)) # 0 BY <2>2, <2>5, FS_EmptySet
  <2>7. QED BY <2>2, <2>4, <2>6, <1>3
<1>5. ASSUME NEW p \in kept, NEW q \in kept, p < q
      PROVE  Cardinality(below(p)) # Cardinality(below(q))
  <2>1. below(p) \in SUBSET below(q) BY <1>2, <1>5
  <2>2. q \in below(q) /\ q \notin below(p) BY <1>2, <1>5
  <2>3. below(p) # below(q) BY <2>2
  <2>4. QED BY <2>1, <2>3, <1>4, FS_Subset
<1>6. rank \in Injection(kept, 1 .. n)
  <2>1. rank \in [kept -> 1 .. n] BY <1>4
  <2> HIDE DEF below
  <2>2. ASSUME NEW p \in kept, NEW q \in kept, rank[p] = rank[q] PROVE p = q
    <3>1. Cardinality(below(p)) = Cardinality(below(q)) BY <2>2
    <3>2. p \in Nat /\ q \in Nat BY <1>2
    <3>3. ~(p < q) /\ ~(q < p) BY <3>1, <1>5
    <3>4. QED BY <3>2, <3>3
  <2> HIDE DEF kept, rank
  <2>3. QED BY <2>1, <2>2 DEF Injection, IsInjective
<1>7. IsFiniteSet(1 .. n) /\ Cardinality(1 .. n) = n BY <1>3, FS_Interval
<1>8. rank \in Surjection(kept, 1 .. n)
  <2> HIDE DEF rank, kept
  <2>1. n = Cardinality(kept) OBVIOUS
  <2> HIDE DEF n
  <2>2. QED BY <1>6, <1>7, <2>1, FS_Injection
<1>9. \A k \in 1 .. n : pos(k) \in kept /\ Cardinality(below(pos(k))) = k
  <2> HIDE DEF below
  <2>1. ASSUME NEW k \in 1 .. n PROVE \E p \in kept : Cardinality(below(p)) = k
    BY <1>8 DEF Surjection
  <2>2. QED BY <2>1
<1>10. \A p \in kept : \E k \in 1 .. n : pos(k) = p
  <2> SUFFICES ASSUME NEW p \in kept PROVE \E k \in 1 .. n : pos(k) = p
    OBVIOUS
  <2> DEFINE k == Cardinality(below(p))
  <2>1. k \in 1 .. n BY <1>4
  <2>2. pos(k) \in kept /\ Cardinality(below(pos(k))) = k BY <1>9, <2>1
  <2>3. pos(k) \in Nat /\ p \in Nat BY <1>2, <2>2
  <2>4. k = Cardinality(below(p)) OBVIOUS
  <2> HIDE DEF k, below, kept, pos
  <2>5. ~(pos(k) < p) /\ ~(p < pos(k)) BY <1>5, <2>2, <2>4
  <2>6. QED BY <2>1, <2>3, <2>5
<1>11. r = [k \in 1 .. n |-> s[pos(k)]] BY DEF Without
<1>12. \A k \in 1 .. n : pos(k) \in 1 .. Len(s) /\ s[pos(k)] \in S \ T
  <2>1. \A p \in kept : p \in 1 .. Len(s) /\ s[p] \in S \ T BY <1>1
  <2> HIDE DEF kept, below, n, pos
  <2>2. QED BY <2>1, <1>9
<1>13. \A k, l \in 1 .. n : pos(k) = pos(l) => k = l BY <1>9
<1> HIDE DEF n, pos, r
<1>14. r \in Seq(S) /\ DOMAIN r = 1 .. n /\ \A k \in 1 .. n : r[k] = s[pos(k)]
  <2>1. r \in [1 .. n -> S] BY <1>11, <1>12
  <2>2. r \in Seq(S) BY <2>1, <1>3, IsASeq
  <2>3. QED BY <2>1, <2>2, <1>11
<1>15. IsInjective(r)
  <2> SUFFICES ASSUME NEW k \in 1 .. n, NEW l \in 1 .. n, r[k] = r[l] PROVE k = l
    BY <1>14 DEF IsInjective
  <2>1. s[pos(k)] = s[pos(l)] BY <1>14
  <2>2. pos(k) = pos(l) BY <2>1, <1>12, <1>1 DEF IsInjective
  <2>3. QED BY <2>2, <1>13
<1>16. ToSet(r) \subseteq ToSet(s) \ T BY <1>1, <1>12, <1>14 DEF ToSet
<1>17. ASSUME NEW x \in ToSet(s) \ T PROVE x \in ToSet(r)
  <2>1. PICK p \in kept : s[p] = x BY <1>17 DEF ToSet
  <2>2. PICK k \in 1 .. n : pos(k) = p BY <1>10, <2>1
  <2>3. QED BY <2>1, <2>2, <1>14 DEF ToSet
<1>18. QED BY <1>14, <1>15, <1>16, <1>17 DEF r

\* rollback() with no block pinned.
LEMMA DiscardInv ==
  ASSUME BaseInv, NEW S \in SUBSET m_blocks, Discard(S), m_pinned = {}
  PROVE  BaseInv'
<1>1. /\ Without(m_cache, S) \in Seq(Blocks)
      /\ IsInjective(Without(m_cache, S))
      /\ ToSet(Without(m_cache, S)) = ToSet(m_cache) \ S
  BY WithoutProps DEF BaseInv, BaseTypeOK, CacheStructure
<1>2. Cardinality(m_blocks) \in Int /\ Cardinality(S) \in Int /\ m_pool \in Nat
  <2>1. m_blocks \in SUBSET Blocks /\ S \in SUBSET Blocks BY DEF BaseInv, BaseTypeOK
  <2>2. QED BY <2>1, BlocksFinite DEF BaseInv, BaseTypeOK
<1>3. PoolAfterFree(m_pool, Cardinality(m_blocks), Cardinality(S)) \in Nat
  BY <1>2, PoolAfterFreeType
<1>4. BaseTypeOK' BY <1>1, <1>3, BaseAssumption DEF BaseInv, BaseTypeOK, Discard
<1>5. CacheStructure' BY <1>1 DEF BaseInv, CacheStructure, Discard
<1>6. PinnedWhileReferenced' BY DEF BaseInv, PinnedWhileReferenced, Discard
<1>7. QED BY <1>4, <1>5, <1>6 DEF BaseInv

-----------------------------------------------------------------------------
(* Cache, types and pin counter.                                           *)

\* A block that is not in memory is read as some content: only a block that is
\* dirty, hence in memory, can be torn in the journal.
LEMMA DoReadType ==
  ASSUME CacheInv, NEW i \in Blocks, i \notin m_blocks
  PROVE  DoRead(i) \in Values
<1>1. jWritten[i] # Torn BY DEF CacheInv, WrittenInv, BaseInv, CacheStructure
<1>2. QED BY <1>1, BaseAssumption
          DEF CacheInv, TypeOK, LogTypeOK, DbTypeOK, LogContents, DoRead

\* The counter is zero only if nothing is pinned.
LEMMA NothingPinned ==
  ASSUME CacheInv, m_pinned_blocks = 0
  PROVE  m_pinned = {}
<1>1. IsFiniteSet(m_pinned) BY BlocksFinite DEF CacheInv, TypeOK, BaseTypeOK
<1>2. QED BY <1>1, FS_EmptySet DEF CacheInv, PinCounterExact

\* A calls that pins one block counts one pin.
LEMMA PinsOne ==
  ASSUME CacheInv, NEW i \in Blocks, i \notin m_pinned,
         m_pinned' = m_pinned \cup {i}, CountPins(1)
  PROVE  PinCounterExact'
<1>1. IsFiniteSet(m_pinned) BY BlocksFinite DEF CacheInv, TypeOK, BaseTypeOK
<1>2. Cardinality(m_pinned \cup {i}) = Cardinality(m_pinned) + 1 BY <1>1, FS_AddElement
<1>3. QED BY <1>2 DEF CacheInv, PinCounterExact, CountPins

\* The last handle of a block takes it back.
LEMMA UnpinsOne ==
  ASSUME CacheInv, NEW i \in Blocks, i \in m_pinned,
         m_pinned' = m_pinned \ {i}, CountPins(0 - 1)
  PROVE  PinCounterExact'
<1>1. IsFiniteSet(m_pinned) BY BlocksFinite DEF CacheInv, TypeOK, BaseTypeOK
<1>2. Cardinality(m_pinned) \in Nat BY <1>1, FS_CardinalityType
<1>3. Cardinality(m_pinned \ {i}) = Cardinality(m_pinned) - 1 BY <1>1, FS_RemoveElement
<1>4. QED BY <1>2, <1>3 DEF CacheInv, PinCounterExact, CountPins

\* A step that pins nothing.
LEMMA PinsNone ==
  ASSUME CacheInv, m_pinned' = m_pinned, m_pinned_blocks' = m_pinned_blocks
  PROVE  PinCounterExact'
BY DEF CacheInv, PinCounterExact

\* A process that was just started.
LEMMA RestartBase ==
  ASSUME m_blocks' = {}, m_data' = [b \in Blocks |-> Zero], m_pinned' = {}, m_dirty' = {},
         m_cache' = << >>, m_pool' = 0, m_refs' = [b \in Blocks |-> 0]
  PROVE  BaseInv'
<1>1. << >> \in Seq(Blocks) /\ IsInjective(<< >>) /\ ToSet(<< >>) = {}
  BY DEF IsInjective, ToSet
<1>2. BaseTypeOK' BY <1>1, BaseAssumption DEF BaseTypeOK
<1>3. CacheStructure' BY <1>1 DEF CacheStructure
<1>4. PinnedWhileReferenced' BY DEF PinnedWhileReferenced
<1>5. QED BY <1>2, <1>3, <1>4 DEF BaseInv

\* Every step keeps the structure of the cache and the pin counter.
LEMMA BaseStep ==
  ASSUME CacheInv, [Next]_vars
  PROVE  BaseInv' /\ PinCounterExact'
<1>b. BaseInv /\ m_refs \in [Blocks -> 0 .. MaxRefs] /\ ReadOnly \in BOOLEAN
  BY BaseAssumption DEF CacheInv, TypeOK, BaseTypeOK
<1>p. m_pinned = { b \in Blocks : m_refs[b] > 0 }
  BY <1>b DEF BaseInv, PinnedWhileReferenced
<1>z. CountPins(0) => m_pinned_blocks' = m_pinned_blocks
  <2>1. IsFiniteSet(m_pinned) BY BlocksFinite DEF CacheInv, TypeOK, BaseTypeOK
  <2>2. m_pinned_blocks \in Nat BY <2>1, FS_CardinalityType DEF CacheInv, PinCounterExact
  <2>3. QED BY <2>2 DEF CountPins
<1>s. SUFFICES BaseInv' /\ PinCounterExact' OBVIOUS
<1>1. ASSUME NEW i \in Blocks, ReadReferenced(i) PROVE <1>s!1
  BY <1>b, <1>1, CopyHandleInv, PinsNone DEF ReadReferenced, CopyHandle, engineVars
<1>2. ASSUME NEW i \in Blocks, ReadCached(i) PROVE <1>s!1
  BY <1>b, <1>2, ReadHitInv, PinsOne DEF ReadCached, ReadHit
<1>3. ASSUME NEW i \in Blocks, ReadFromDisk(i) PROVE <1>s!1
  <2>1. i \notin m_blocks /\ i \notin m_pinned /\ m_pinned' = m_pinned \cup {i}
    BY <1>b, <1>3 DEF ReadFromDisk, ReadMiss, BaseInv, CacheStructure
  <2>2. DoRead(i) \in Values BY <2>1, DoReadType
  <2>3. BaseInv' BY <1>b, <1>3, <2>2, ReadMissInv DEF ReadFromDisk
  <2>4. QED BY <1>3, <2>1, <2>3, PinsOne DEF ReadFromDisk
<1>4. ASSUME NEW i \in Blocks, ReadFails(i) PROVE <1>s!1
  BY <1>b, <1>4, MissReadFailsInv, PinsNone DEF ReadFails, MissReadFails, engineVars
<1>5. ASSUME NEW i \in Blocks, NEW n \in 0 .. NumBlocks, EvictionFails(i, n) PROVE <1>s!1
  <2>1. n \in Nat OBVIOUS
  <2>2. QED BY <1>b, <1>5, <2>1, MissEvictFailsInv, PinsNone
            DEF EvictionFails, MissEvictFails, engineVars
<1>6. ASSUME NEW i \in Blocks, NEW v \in Values, OverwriteReferenced(i, v) PROVE <1>s!1
  BY <1>b, <1>6, OverwriteHandleInv, PinsNone
  DEF OverwriteReferenced, OverwriteHandle, engineVars
<1>7. ASSUME NEW i \in Blocks, NEW v \in Values, OverwriteCached(i, v) PROVE <1>s!1
  <2>1. BaseInv' BY <1>b, <1>7, OverwriteHitInv DEF OverwriteCached
  <2>2. CASE ReadOnly
    BY <1>7, <1>z, <2>1, <2>2, PinsNone DEF OverwriteCached, OverwriteHit
  <2>3. CASE ~ReadOnly
    BY <1>7, <2>1, <2>3, PinsOne DEF OverwriteCached, OverwriteHit
  <2>4. QED BY <2>2, <2>3
<1>8. ASSUME NEW i \in Blocks, NEW v \in Values, OverwriteNew(i, v) PROVE <1>s!1
  <2>1. BaseInv' BY <1>b, <1>8, OverwriteMissInv DEF OverwriteNew
  <2>2. i \notin m_pinned BY <1>b, <1>8 DEF OverwriteNew, OverwriteMiss, BaseInv, CacheStructure
  <2>3. CASE ReadOnly
    BY <1>8, <1>z, <2>1, <2>3, PinsNone DEF OverwriteNew, OverwriteMiss
  <2>4. CASE ~ReadOnly
    BY <1>8, <2>1, <2>2, <2>4, PinsOne DEF OverwriteNew, OverwriteMiss
  <2>5. QED BY <2>3, <2>4
<1>9. ASSUME NEW i \in Blocks, NEW v \in Values, Store(i, v) PROVE <1>s!1
  BY <1>b, <1>9, ModifyInv, PinsNone DEF Store, Modify, engineVars
<1>10. ASSUME NEW i \in Blocks, Drop(i) PROVE <1>s!1
  <2>1. BaseInv' BY <1>b, <1>10, ReleaseInv DEF Drop
  <2>2. CASE m_refs[i] = 1
    <3>1. i \in m_pinned BY <1>p, <2>2
    <3>2. m_pinned' = m_pinned \ {i} /\ CountPins(0 - 1) BY <1>10, <2>2 DEF Drop, Release
    <3>3. QED BY <2>1, <3>1, <3>2, UnpinsOne
  <2>3. CASE m_refs[i] # 1
    <3>1. m_pinned' = m_pinned /\ CountPins(0) BY <1>10, <2>3 DEF Drop, Release
    <3>2. QED BY <1>z, <2>1, <3>1, PinsNone
  <2>4. QED BY <2>2, <2>3
<1>11. ASSUME NEW i \in Blocks, FlushBlock(i) PROVE <1>s!1
  BY <1>b, <1>11, MarkCleanInv, PinsNone DEF FlushBlock, MarkClean, engineVars
<1>12. ASSUME NEW i \in Blocks, FlushFails(i) PROVE <1>s!1
  BY <1>b, <1>12, MarkCleanInv, PinsNone DEF FlushFails, MarkClean, engineVars
<1>13. CASE FlushAll
  BY <1>b, <1>13, MarkCleanInv, PinsNone DEF FlushAll, MarkClean, engineVars
<1>14. CASE CommitLog
  BY <1>b, <1>14, MarkCleanInv, PinsNone DEF CommitLog, MarkClean, engineVars
<1>15. CASE Rollback
  <2>1. m_pinned = {} BY <1>15, NothingPinned DEF Rollback
  <2>2. PICK S \in SUBSET m_blocks : Discard(S) BY <1>15 DEF Rollback
  <2>3. BaseInv' BY <1>b, <2>1, <2>2, DiscardInv
  <2>4. QED BY <1>15, <2>2, <2>3, PinsNone DEF Rollback, Discard
<1>16. CASE Restart
  <2>1. BaseInv' BY <1>16, RestartBase DEF Restart
  <2>2. m_pinned' = {} /\ m_pinned_blocks' = 0 BY <1>16 DEF Restart
  <2>3. QED BY <2>1, <2>2, FS_EmptySet DEF PinCounterExact
<1>17. ASSUME UNCHANGED baseVars, m_pinned_blocks' = m_pinned_blocks PROVE <1>s!1
  BY <1>b, <1>17, PinsNone
  DEF BaseInv, BaseTypeOK, CacheStructure, PinnedWhileReferenced, baseVars
<1>18. ASSUME NEW n \in 1 .. NumBlocks, Grow(n) PROVE <1>s!1
  BY <1>17, <1>18 DEF Grow
<1>19. CASE Begin \/ CommitReadOnly \/ CommitSync \/ CommitFails
  BY <1>17, <1>19 DEF Begin, CommitReadOnly, CommitSync, CommitFails, engineVars
<1>20. ASSUME NEW j \in Blocks, NEW v \in Values, CheckpointCopyFails(j, v) PROVE <1>s!1
  BY <1>17, <1>20 DEF CheckpointCopyFails, engineVars
<1>21. CASE \/ CheckpointSync \/ CheckpointCopy \/ CheckpointDbSync \/ CheckpointDbSyncFails
            \/ CheckpointShrink \/ CheckpointDone \/ CheckpointShrinkFails
  BY <1>17, <1>21 DEF CheckpointSync, CheckpointCopy, CheckpointDbSync, CheckpointDbSyncFails,
     CheckpointShrink, CheckpointDone, CheckpointShrinkFails, engineVars
<1>22. CASE UNCHANGED vars
  BY <1>17, <1>22 DEF vars, baseVars
<1>23. QED
  BY <1>1, <1>2, <1>3, <1>4, <1>5, <1>6, <1>7, <1>8, <1>9, <1>10, <1>11, <1>12, <1>13, <1>14,
     <1>15, <1>16, <1>18, <1>19, <1>20, <1>21, <1>22 DEF Next

\* Blocks leave the dirty set when their content is in the journal.
LEMMA WriteAllInv ==
  ASSUME CacheInv, NEW S, J!WriteAll(S, m_data), m_dirty \ S \subseteq m_dirty'
  PROVE  LogTypeOK' /\ WrittenInv'
<1>1. m_data \in [Blocks -> Values] /\ LogTypeOK /\ WrittenInv
  BY DEF CacheInv, TypeOK, BaseTypeOK
<1>2. LogTypeOK' BY <1>1 DEF LogTypeOK, LogContents, J!WriteAll
<1>3. ASSUME ~jActive' PROVE jWritten' = J!NoBlocks
  <2>1. ~jActive /\ S = {} BY <1>1, <1>3 DEF J!WriteAll, LogTypeOK
  <2>2. QED BY <1>1, <2>1 DEF J!WriteAll, WrittenInv, J!NoBlocks
<1>4. ASSUME NEW b \in Blocks, jWritten'[b] = Torn PROVE b \in m_dirty'
  BY <1>1, <1>4, TransactionAssumption DEF J!WriteAll, WrittenInv
<1>5. QED BY <1>2, <1>3, <1>4 DEF WrittenInv

\* The block whose write fails stays dirty.
LEMMA WriteAllFailsInv ==
  ASSUME CacheInv, NEW S, NEW j \in m_dirty', J!WriteAllFails(S, j, m_data),
         m_dirty \ S \subseteq m_dirty'
  PROVE  LogTypeOK' /\ WrittenInv'
<1>1. m_data \in [Blocks -> Values] /\ LogTypeOK /\ WrittenInv
  BY DEF CacheInv, TypeOK, BaseTypeOK
<1>2. PICK old \in {jWritten[j]} \cup (IF jWritten[j] = None THEN {} ELSE {Torn}) :
        jWritten' = [b \in Blocks |-> IF b = j THEN old
                                      ELSE IF b \in S THEN m_data[b] ELSE jWritten[b]]
  BY DEF J!WriteAllFails
<1>3. LogTypeOK' BY <1>1, <1>2 DEF LogTypeOK, LogContents, J!WriteAllFails
<1>4. ASSUME NEW b \in Blocks, jWritten'[b] = Torn PROVE b \in m_dirty'
  BY <1>1, <1>2, <1>4, TransactionAssumption DEF WrittenInv
<1>5. QED BY <1>3, <1>4 DEF WrittenInv, J!WriteAllFails

\* A commit or a restart adopts a state that is on disk.
LEMMA MergedType ==
  ASSUME LogTypeOK, NEW w \in [Blocks -> LogContents], NEW n \in Sizes
  PROVE  J!Merged(w, n) \in LogStates
BY DEF LogTypeOK, LogStates, LogContents, J!Merged

\* Types and the uncommitted part of the journal.
LEMMA TypeStep ==
  ASSUME CacheInv, CheckpointSteps, [Next]_vars
  PROVE  LogTypeOK' /\ WrittenInv' /\ DbTypeOK' /\ EngineTypeOK'
<1>t. /\ LogTypeOK /\ DbTypeOK /\ EngineTypeOK /\ WrittenInv /\ BaseInv
      /\ m_data \in [Blocks -> Values] /\ m_dirty \subseteq Blocks
  BY DEF CacheInv, TypeOK, BaseTypeOK
<1>l. ASSUME UNCHANGED jVars, m_dirty \subseteq m_dirty' PROVE LogTypeOK' /\ WrittenInv'
  BY <1>t, <1>l DEF LogTypeOK, WrittenInv, jVars
<1>d. ASSUME UNCHANGED dbVars PROVE DbTypeOK'
  BY <1>t, <1>d DEF DbTypeOK, dbVars
<1>e. ASSUME UNCHANGED engineVars, pc' \in {pc, "idle", "commit", "copy", "copied", "synced",
                                            "shrunk", "closed"},
             doomed' \in {doomed, "no", "write", "commit"}, errors' \in {errors, errors + 1}
      PROVE  EngineTypeOK'
  BY <1>t, <1>e DEF EngineTypeOK, engineVars
<1>c. ASSUME NEW n, CountPins(n), pc' = pc, doomed' = doomed, errors' = errors
      PROVE  EngineTypeOK'
  BY <1>t, <1>c DEF EngineTypeOK, CountPins
<1>s. SUFFICES LogTypeOK' /\ WrittenInv' /\ DbTypeOK' /\ EngineTypeOK' OBVIOUS
<1>1. ASSUME NEW i \in Blocks, ReadReferenced(i) PROVE <1>s!1
  BY <1>l, <1>d, <1>e, <1>1 DEF ReadReferenced, CopyHandle, Quiet
<1>2. ASSUME NEW i \in Blocks, ReadCached(i) PROVE <1>s!1
  BY <1>l, <1>d, <1>c, <1>2 DEF ReadCached, ReadHit, Quiet
<1>3. ASSUME NEW i \in Blocks, ReadFromDisk(i) PROVE <1>s!1
  <2>1. /\ DoWrite(Victims(EvictCount) \cap m_dirty)
        /\ m_dirty' = m_dirty \ Victims(EvictCount)
    BY <1>3 DEF ReadFromDisk, ReadMiss
  <2>2. LogTypeOK' /\ WrittenInv' BY <2>1, WriteAllInv DEF DoWrite
  <2>3. QED BY <1>d, <1>c, <1>3, <2>2 DEF ReadFromDisk, Quiet
<1>4. ASSUME NEW i \in Blocks, ReadFails(i) PROVE <1>s!1
  <2>1. /\ DoWrite(Victims(EvictCount) \cap m_dirty)
        /\ m_dirty' = m_dirty \ Victims(EvictCount)
    BY <1>4 DEF ReadFails, MissReadFails, EvictOnly
  <2>2. LogTypeOK' /\ WrittenInv' BY <2>1, WriteAllInv DEF DoWrite
  <2>3. QED BY <1>d, <1>e, <1>4, <2>2 DEF ReadFails, IOError
<1>5. ASSUME NEW i \in Blocks, NEW n \in 0 .. NumBlocks, EvictionFails(i, n) PROVE <1>s!1
  <2> DEFINE j == m_cache[Len(m_cache) - n]
  <2>1. n \in Nat /\ MissEvictFails(i, n) BY <1>5 DEF EvictionFails
  <2>2. j \in m_dirty \ Victims(n) BY <1>t, <2>1, FailedVictim
  <2>3. /\ DoWriteFails(Victims(n) \cap m_dirty, j)
        /\ m_dirty' = m_dirty \ Victims(n)
    BY <1>5 DEF EvictionFails, MissEvictFails, EvictOnly
  <2> HIDE DEF j
  <2>4. LogTypeOK' /\ WrittenInv' BY <2>2, <2>3, WriteAllFailsInv DEF DoWriteFails
  <2>5. QED BY <1>d, <1>e, <1>5, <2>3, <2>4 DEF EvictionFails, DoWriteFails, IOError
<1>6. ASSUME NEW i \in Blocks, NEW v \in Values, OverwriteReferenced(i, v) PROVE <1>s!1
  <2>1. m_dirty \subseteq m_dirty' BY <1>6 DEF OverwriteReferenced, OverwriteHandle
  <2>2. QED BY <1>l, <1>d, <1>e, <1>6, <2>1 DEF OverwriteReferenced, Quiet
<1>7. ASSUME NEW i \in Blocks, NEW v \in Values, OverwriteCached(i, v) PROVE <1>s!1
  <2>1. m_dirty \subseteq m_dirty' BY <1>7 DEF OverwriteCached, OverwriteHit
  <2>2. QED BY <1>l, <1>d, <1>c, <1>7, <2>1 DEF OverwriteCached, Quiet
<1>8. ASSUME NEW i \in Blocks, NEW v \in Values, OverwriteNew(i, v) PROVE <1>s!1
  <2>1. /\ DoWrite(Victims(EvictCount) \cap m_dirty)
        /\ m_dirty \ Victims(EvictCount) \subseteq m_dirty'
    BY <1>8 DEF OverwriteNew, OverwriteMiss
  <2>2. LogTypeOK' /\ WrittenInv' BY <2>1, WriteAllInv DEF DoWrite
  <2>3. QED BY <1>d, <1>c, <1>8, <2>2 DEF OverwriteNew, Quiet
<1>9. ASSUME NEW i \in Blocks, NEW v \in Values, Store(i, v) PROVE <1>s!1
  BY <1>l, <1>d, <1>e, <1>9 DEF Store, Modify, Quiet
<1>10. ASSUME NEW i \in Blocks, Drop(i) PROVE <1>s!1
  BY <1>l, <1>d, <1>c, <1>10 DEF Drop, Release, Quiet
<1>11. ASSUME NEW i \in Blocks, FlushBlock(i) PROVE <1>s!1
  <2>1. LogTypeOK' /\ WrittenInv'
    BY <1>11, WriteAllInv DEF FlushBlock, MarkClean, DoWrite
  <2>2. QED BY <1>d, <1>e, <1>11, <2>1 DEF FlushBlock, Quiet
<1>12. ASSUME NEW i \in Blocks, FlushFails(i) PROVE <1>s!1
  <2> DEFINE S == { b \in m_dirty : b < i }
  <2>1. i \notin S /\ i \in m_dirty /\ m_dirty' = m_dirty \ S /\ DoWriteFails(S, i)
    BY <1>12 DEF FlushFails, MarkClean, Blocks
  <2> HIDE DEF S
  <2>2. LogTypeOK' /\ WrittenInv' BY <2>1, WriteAllFailsInv DEF DoWriteFails
  <2>3. QED BY <1>d, <1>e, <1>12, <2>1, <2>2 DEF FlushFails, DoWriteFails, IOError
<1>13. CASE FlushAll
  <2>1. LogTypeOK' /\ WrittenInv'
    BY <1>13, WriteAllInv DEF FlushAll, MarkClean, DoWrite
  <2>2. QED BY <1>d, <1>e, <1>13, <2>1 DEF FlushAll, Quiet
<1>14. CASE CommitLog
  <2> DEFINE w == [b \in Blocks |-> IF b \in m_dirty THEN m_data[b] ELSE jWritten[b]]
  <2>1. /\ \A b \in Blocks : w[b] # Torn
        /\ jActive' = TRUE /\ jWritten' = w
        /\ jDisk' = jDisk \cup {J!Merged(w, m_size)}
        /\ UNCHANGED <<jBlocks, jSize>>
    BY <1>14 DEF CommitLog, J!WriteAllAndCommit
  <2>2. w \in [Blocks -> LogContents] BY <1>t, <2>1 DEF LogTypeOK, LogContents
  <2> HIDE DEF w
  <2>3. J!Merged(w, m_size) \in LogStates BY <1>t, <2>2, MergedType DEF EngineTypeOK
  <2>4. LogTypeOK' BY <1>t, <2>1, <2>2, <2>3 DEF LogTypeOK
  <2>5. WrittenInv' BY <2>1 DEF WrittenInv
  <2>6. QED BY <1>d, <1>e, <1>14, <2>4, <2>5 DEF CommitLog
<1>15. ASSUME J!EndTransaction PROVE jWritten' \in [Blocks -> LogContents] /\ WrittenInv' /\ ~jActive'
  BY <1>15, TransactionAssumption DEF J!EndTransaction, J!NoBlocks, WrittenInv, LogContents
<1>16. ASSUME NEW s \in jDisk, J!Adopt(s), jDisk' \in SUBSET jDisk, J!EndTransaction
       PROVE LogTypeOK'
  BY <1>t, <1>15, <1>16 DEF LogTypeOK, LogStates, J!Adopt, J!EndTransaction, LogContents
<1>17. CASE CommitSync
  <2>1. LogTypeOK' /\ WrittenInv' BY <1>15, <1>16, <1>17 DEF CommitSync, J!CommitDone
  <2>2. QED BY <1>t, <1>d, <1>17, <2>1 DEF CommitSync, EngineTypeOK
<1>18. CASE Rollback
  <2>1. LogTypeOK' /\ WrittenInv'
    <3>1. CASE jActive
      BY <1>t, <1>15, <1>18, <3>1
      DEF Rollback, J!Abort, J!EndTransaction, LogTypeOK, LogContents
    <3>2. CASE ~jActive
      BY <1>t, <1>18, <3>2, TransactionAssumption
      DEF Rollback, jVars, LogTypeOK, WrittenInv, J!NoBlocks
    <3>3. QED BY <3>1, <3>2
  <2>2. m_size' \in Sizes
    BY <1>t, <1>18 DEF Rollback, CommittedSize, LogTypeOK, EngineTypeOK
  <2>3. QED BY <1>t, <1>d, <1>18, <2>1, <2>2 DEF Rollback, EngineTypeOK
<1>19. CASE Restart
  <2>1. LogTypeOK' /\ WrittenInv' BY <1>15, <1>16, <1>19 DEF Restart, J!Restore
  <2>2. DbTypeOK'
    <3>1. PICK f \in [dbUnsynced -> Values] :
            dbFile' = [b \in Blocks |-> IF b >= dbFileSize' THEN Zero
                                        ELSE IF b \in dbUnsynced THEN f[b] ELSE dbFile[b]]
      BY <1>19 DEF Restart
    <3>2. dbFile' \in [Blocks -> Values] BY <1>t, <3>1, BaseAssumption DEF DbTypeOK
    <3>3. QED BY <1>t, <1>19, <3>2 DEF Restart, DbTypeOK
  <2>3. EngineTypeOK' BY <1>t, <1>19, <2>1, <2>2 DEF Restart, EngineTypeOK, LogTypeOK, DbTypeOK
  <2>4. QED BY <2>1, <2>2, <2>3
<1>20. ASSUME NEW n \in 1 .. NumBlocks, Grow(n) PROVE <1>s!1
  <2>1. m_size' \in Sizes
    BY <1>t, <1>20, BaseAssumption DEF Grow, EngineTypeOK, Sizes
  <2>2. QED BY <1>t, <1>l, <1>d, <1>20, <2>1 DEF Grow, EngineTypeOK, Quiet, baseVars
<1>21. CASE Begin \/ CommitReadOnly
  <2>1. EngineTypeOK' BY <1>t, <1>21 DEF Begin, CommitReadOnly, EngineTypeOK, Quiet
  <2>2. QED BY <1>l, <1>d, <1>21, <2>1 DEF Begin, CommitReadOnly, baseVars
<1>22. CASE CommitFails \/ CheckpointDbSyncFails \/ CheckpointShrinkFails
  BY <1>l, <1>d, <1>e, <1>22
  DEF CommitFails, CheckpointDbSyncFails, CheckpointShrinkFails, Step, IOError, baseVars
<1>23. CASE CheckpointSync
  <2>1. LogTypeOK' /\ WrittenInv'
    BY <1>t, <1>23
    DEF CheckpointSync, J!Sync, J!Current, LogTypeOK, LogStates, WrittenInv, baseVars
  <2>2. QED BY <1>d, <1>e, <1>23, <2>1 DEF CheckpointSync, Step
<1>24. CASE CheckpointCopy \/ \E j \in Blocks, v \in Values : CheckpointCopyFails(j, v)
  <2>0. jSize \in Sizes
    BY <1>t, <1>24 DEF CheckpointCopy, CheckpointCopyFails, Step, CheckpointSteps, LogTypeOK
  <2>1. DbTypeOK'
    BY <1>t, <1>24, <2>0, BaseAssumption
    DEF CheckpointCopy, CopyBlocks, CheckpointCopyFails, DbTypeOK, LogTypeOK, LogContents
  <2>2. QED BY <1>l, <1>e, <1>24, <2>1
            DEF CheckpointCopy, CheckpointCopyFails, Step, IOError, baseVars
<1>25. CASE CheckpointDbSync
  <2>1. DbTypeOK' BY <1>t, <1>25 DEF CheckpointDbSync, DbTypeOK
  <2>2. QED BY <1>l, <1>e, <1>25, <2>1 DEF CheckpointDbSync, Step, baseVars
<1>26. CASE CheckpointShrink
  <2>1. LogTypeOK' /\ WrittenInv'
    BY <1>t, <1>26
    DEF CheckpointShrink, J!Shrink, J!Adopt, J!Empty, J!NoBlocks, LogTypeOK, LogStates,
        LogContents, WrittenInv, baseVars
  <2>2. QED BY <1>d, <1>e, <1>26, <2>1 DEF CheckpointShrink, Step
<1>27. CASE CheckpointDone
  <2>1. LogTypeOK' /\ WrittenInv'
    BY <1>t, <1>27
    DEF CheckpointDone, J!Forget, J!Empty, J!NoBlocks, LogTypeOK, LogStates,
        LogContents, WrittenInv, baseVars
  <2>2. EngineTypeOK' BY <1>t, <1>27 DEF CheckpointDone, Step, EngineTypeOK
  <2>3. QED BY <1>d, <1>27, <2>1, <2>2 DEF CheckpointDone
<1>28. CASE UNCHANGED vars
  BY <1>l, <1>d, <1>e, <1>28 DEF vars, jVars, dbVars, engineVars
<1>29. QED
  BY <1>1, <1>2, <1>3, <1>4, <1>5, <1>6, <1>7, <1>8, <1>9, <1>10, <1>11, <1>12, <1>13, <1>14,
     <1>17, <1>18, <1>19, <1>20, <1>21, <1>22, <1>23, <1>24, <1>25, <1>26, <1>27, <1>28 DEF Next

\* The structure of the cache, the types and the pin counter together.
LEMMA CacheInvStep ==
  ASSUME CacheInv, CheckpointSteps, [Next]_vars
  PROVE  CacheInv'
BY BaseStep, TypeStep DEF CacheInv, TypeOK, BaseInv

-----------------------------------------------------------------------------
(* The journal on disk and the database file.                              *)

\* The state that a commit appends still has every block of the database file
\* that is not synced: the transaction cannot have shrunk the database.
LEMMA MergedCovers ==
  ASSUME CacheInv, LogInv, NEW w \in [Blocks -> LogContents]
  PROVE  LogCovers(J!Merged(w, m_size))
<1>1. m_size \in Sizes /\ m_size # None /\ \A b \in Blocks : b \in Nat
  BY TransactionAssumption, BaseAssumption DEF CacheInv, TypeOK, EngineTypeOK, Sizes, Blocks
<1>2. LogCovers(J!Current) BY DEF LogInv
<1>3. ASSUME NEW b \in dbUnsynced PROVE jBlocks[b] # None /\ b < m_size
  <2>1. b \in Blocks BY DEF CacheInv, TypeOK, DbTypeOK
  <2>2. jSize # None BY <1>2 DEF LogCovers, J!Current
  <2>3. jBlocks[b] # None /\ ~(b >= jSize) BY <1>2, <2>1, <2>2 DEF LogCovers, J!Current
  <2>4. jSize \in Nat /\ m_size \in Nat /\ jSize <= m_size
    BY <2>2, BaseAssumption DEF CacheInv, TypeOK, LogTypeOK, EngineTypeOK, Sizes, LogInv
  <2>5. QED BY <1>1, <2>1, <2>3, <2>4
<1>4. QED BY <1>1, <1>3, BaseAssumption DEF LogCovers, J!Merged, Sizes

\* Every step keeps the journal able to redo what is not synced.
LEMMA LogStep ==
  ASSUME CacheInv, LogInv, [Next]_vars
  PROVE  LogInv'
<1>t. /\ LogTypeOK /\ DbTypeOK /\ EngineTypeOK
      /\ J!Current \in jDisk /\ (\A s \in jDisk : LogCovers(s))
      /\ (jSize # None => jSize <= m_size) /\ (~m_transaction_started => ~jActive)
      /\ CheckpointSteps
      /\ m_size \in Nat /\ (jSize # None => jSize \in Nat)
  BY BaseAssumption DEF CacheInv, TypeOK, LogInv, LogTypeOK, EngineTypeOK, Sizes
<1>s. SUFFICES LogInv' OBVIOUS
<1>q. ASSUME UNCHANGED <<jBlocks, jSize, jDisk>>, UNCHANGED dbVars, pc' = pc,
             m_transaction_started' = m_transaction_started,
             m_size' \in Nat, m_size <= m_size',
             m_transaction_started \/ jActive' = jActive
      PROVE  LogInv'
  BY <1>t, <1>q DEF LogInv, LogCovers, CheckpointSteps, J!Current, dbVars
<1>1. ASSUME NEW i \in Blocks, ReadReferenced(i) PROVE <1>s!1
  BY <1>t, <1>q, <1>1 DEF ReadReferenced, Quiet, jVars, engineVars
<1>2. ASSUME NEW i \in Blocks, ReadCached(i) PROVE <1>s!1
  BY <1>t, <1>q, <1>2 DEF ReadCached, CountPins, Quiet, jVars
<1>3. ASSUME NEW i \in Blocks, ReadFromDisk(i) PROVE <1>s!1
  BY <1>t, <1>q, <1>3 DEF ReadFromDisk, DoWrite, J!WriteAll, CountPins, Quiet, MayPin, Running
<1>4. ASSUME NEW i \in Blocks, ReadFails(i) PROVE <1>s!1
  BY <1>t, <1>q, <1>4 DEF ReadFails, DoWrite, J!WriteAll, engineVars, MayPin, Running
<1>5. ASSUME NEW i \in Blocks, NEW n \in 0 .. NumBlocks, EvictionFails(i, n) PROVE <1>s!1
  BY <1>t, <1>q, <1>5
  DEF EvictionFails, DoWriteFails, J!WriteAllFails, engineVars, MayPin, Running
<1>6. ASSUME NEW i \in Blocks, NEW v \in Values, OverwriteReferenced(i, v) PROVE <1>s!1
  BY <1>t, <1>q, <1>6 DEF OverwriteReferenced, Quiet, jVars, engineVars
<1>7. ASSUME NEW i \in Blocks, NEW v \in Values, OverwriteCached(i, v) PROVE <1>s!1
  BY <1>t, <1>q, <1>7 DEF OverwriteCached, CountPins, Quiet, jVars
<1>8. ASSUME NEW i \in Blocks, NEW v \in Values, OverwriteNew(i, v) PROVE <1>s!1
  BY <1>t, <1>q, <1>8 DEF OverwriteNew, DoWrite, J!WriteAll, CountPins, Quiet, MayPin, Running
<1>9. ASSUME NEW i \in Blocks, NEW v \in Values, Store(i, v) PROVE <1>s!1
  BY <1>t, <1>q, <1>9 DEF Store, Quiet, jVars, engineVars
<1>10. ASSUME NEW i \in Blocks, Drop(i) PROVE <1>s!1
  BY <1>t, <1>q, <1>10 DEF Drop, CountPins, Quiet, jVars
<1>11. ASSUME NEW i \in Blocks, FlushBlock(i) PROVE <1>s!1
  BY <1>t, <1>q, <1>11 DEF FlushBlock, DoWrite, J!WriteAll, Quiet, engineVars, Running
<1>12. ASSUME NEW i \in Blocks, FlushFails(i) PROVE <1>s!1
  BY <1>t, <1>q, <1>12 DEF FlushFails, DoWriteFails, J!WriteAllFails, engineVars, Running
<1>13. CASE FlushAll
  BY <1>t, <1>q, <1>13 DEF FlushAll, DoWrite, J!WriteAll, Quiet, engineVars, Running
<1>14. ASSUME NEW n \in 1 .. NumBlocks, Grow(n) PROVE <1>s!1
  BY <1>t, <1>q, <1>14 DEF Grow, Quiet, jVars
<1>15. CASE CommitLog
  <2> DEFINE w == [b \in Blocks |-> IF b \in m_dirty THEN m_data[b] ELSE jWritten[b]]
  <2>1. /\ \A b \in Blocks : w[b] # Torn
        /\ jDisk' = jDisk \cup {J!Merged(w, m_size)}
        /\ UNCHANGED <<jBlocks, jSize>> /\ UNCHANGED dbVars /\ UNCHANGED engineVars
        /\ m_transaction_started /\ pc' = "commit"
    BY <1>15 DEF CommitLog, J!WriteAllAndCommit, Running
  <2>2. w \in [Blocks -> LogContents]
    BY <1>t, <2>1 DEF LogTypeOK, LogContents, CacheInv, TypeOK, BaseTypeOK
  <2> HIDE DEF w
  <2>3. LogCovers(J!Merged(w, m_size)) BY <2>2, MergedCovers
  <2>4. \A s \in jDisk' : LogCovers(s)'
    BY <1>t, <2>1, <2>3 DEF LogCovers, dbVars
  <2>5. QED BY <1>t, <2>1, <2>4 DEF LogInv, CheckpointSteps, J!Current, engineVars
<1>16. ASSUME NEW s \in jDisk, J!Adopt(s), jDisk' = {s} PROVE J!Current' = s
  BY <1>t, <1>16 DEF J!Adopt, J!Current, LogTypeOK, LogStates
<1>17. CASE CommitSync
  <2>1. PICK s \in jDisk : /\ s = J!After(m_size) /\ J!Adopt(s) /\ jDisk' = {s}
                           /\ jActive' = FALSE
    BY <1>17 DEF CommitSync, J!CommitDone, J!EndTransaction
  <2>2. J!Current' = s BY <1>16, <2>1
  <2>3. jSize' = m_size BY <2>1 DEF J!Adopt, J!After, J!Merged
  <2>4. \A r \in jDisk' : LogCovers(r)' BY <1>t, <1>17, <2>1 DEF LogCovers, CommitSync, dbVars
  <2>5. QED BY <1>t, <1>17, <2>1, <2>2, <2>3, <2>4 DEF LogInv, CheckpointSteps, CommitSync
<1>18. CASE Rollback
  <2>1. UNCHANGED <<jBlocks, jSize, jDisk>> /\ ~jActive'
    BY <1>t, <1>18 DEF Rollback, J!Abort, J!EndTransaction, jVars, LogTypeOK
  <2>2. jSize # None => m_size' = jSize BY <1>18 DEF Rollback, CommittedSize
  <2>3. QED BY <1>t, <1>18, <2>1, <2>2
            DEF Rollback, LogInv, LogCovers, CheckpointSteps, J!Current, dbVars
<1>19. CASE Restart
  <2>1. PICK s \in jDisk : J!Adopt(s) /\ jDisk' = {s} BY <1>19 DEF Restart, J!Restore
  <2>2. J!Current' = s BY <1>16, <2>1
  <2>3. /\ dbUnsynced' = {} /\ dbSizes' = {dbFileSize'} /\ pc' = "idle"
        /\ ~m_transaction_started' /\ jActive' = FALSE
        /\ m_size' = IF jSize' # None THEN jSize' ELSE dbFileSize'
    BY <1>19 DEF Restart, J!Restore, J!EndTransaction
  <2>4. LogCovers(s)' BY <1>t, <2>1, <2>3 DEF LogCovers
  <2>5. jSize' # None => jSize' \in Nat
    BY <1>t, <2>1, BaseAssumption DEF J!Adopt, LogTypeOK, LogStates, Sizes
  <2>6. QED BY <2>1, <2>2, <2>3, <2>4, <2>5 DEF LogInv, CheckpointSteps
<1>20. CASE Begin \/ CommitReadOnly
  BY <1>t, <1>20 DEF Begin, CommitReadOnly, Quiet, Running, jVars, dbVars, LogInv, LogCovers,
     CheckpointSteps, J!Current
<1>21. CASE CommitFails
  BY <1>t, <1>21 DEF CommitFails, jVars, dbVars, engineVars, LogInv, LogCovers,
     CheckpointSteps, J!Current
<1>22. CASE CheckpointSync
  <2>1. /\ pc' = "copy" /\ ~m_transaction_started /\ jSize # None /\ jDisk' = {J!Current}
        /\ UNCHANGED <<jBlocks, jSize, jActive>> /\ UNCHANGED dbVars /\ UNCHANGED engineVars
    BY <1>22 DEF CheckpointSync, Step, J!Sync
  <2>2. J!Current' = J!Current BY <2>1 DEF J!Current
  <2>3. \A s \in jDisk' : LogCovers(s)' BY <1>t, <2>1 DEF LogCovers, dbVars
  <2>4. QED BY <1>t, <2>1, <2>2, <2>3 DEF LogInv, CheckpointSteps, engineVars
<1>23. CASE CheckpointCopy \/ \E j \in Blocks, v \in Values : CheckpointCopyFails(j, v)
  <2>1. /\ pc = "copy" /\ pc' \in {"copied", "idle"}
        /\ UNCHANGED jVars /\ UNCHANGED engineVars
        /\ \A b \in dbUnsynced' : b \in dbUnsynced \/ jBlocks[b] # None
    BY <1>23 DEF CheckpointCopy, CheckpointCopyFails, CopyBlocks, Step
  <2>2. jSize # None /\ jDisk = {J!Current} /\ ~m_transaction_started
    BY <1>t, <2>1 DEF CheckpointSteps
  <2>3. J!Current' = J!Current /\ jDisk' = jDisk /\ jSize' = jSize
    BY <2>1 DEF J!Current, jVars
  <2>4. LogCovers(J!Current)'
    BY <1>t, <2>1, <2>2, <2>3 DEF LogCovers, J!Current
  <2>5. QED BY <1>t, <2>1, <2>2, <2>3, <2>4 DEF LogInv, CheckpointSteps, engineVars, jVars
<1>24. CASE CheckpointDbSync
  <2>1. /\ pc = "copied" /\ pc' = "synced" /\ UNCHANGED jVars /\ UNCHANGED engineVars
        /\ dbUnsynced' = {} /\ dbSizes' = {dbFileSize'}
    BY <1>24 DEF CheckpointDbSync, Step
  <2>2. \A s \in jDisk' : LogCovers(s)' BY <1>t, <2>1 DEF LogCovers, jVars
  <2>3. QED BY <1>t, <2>1, <2>2 DEF LogInv, CheckpointSteps, J!Current, engineVars, jVars
<1>25. CASE CheckpointDbSyncFails \/ CheckpointShrinkFails
  BY <1>t, <1>25 DEF CheckpointDbSyncFails, CheckpointShrinkFails, Step, jVars, dbVars,
     engineVars, LogInv, LogCovers, CheckpointSteps, J!Current
<1>26. ASSUME UNCHANGED dbVars, dbUnsynced = {}, dbSizes = {dbFileSize} PROVE LogCovers(J!Empty)'
  BY <1>26 DEF LogCovers, J!Empty, J!NoBlocks, dbVars
<1>27. CASE CheckpointShrink
  <2>1. /\ pc = "synced" /\ pc' = "shrunk" /\ ~jActive' /\ jDisk' = jDisk \cup {J!Empty}
        /\ jBlocks' = J!Empty.blocks /\ jSize' = J!Empty.size
        /\ UNCHANGED dbVars /\ UNCHANGED engineVars
    BY <1>27 DEF CheckpointShrink, Step, J!Shrink, J!Adopt
  <2>2. J!Current' = J!Empty /\ jSize' = None BY <2>1 DEF J!Current, J!Empty
  <2>3. dbUnsynced = {} /\ dbSizes = {dbFileSize} /\ ~m_transaction_started
    BY <1>t, <2>1 DEF CheckpointSteps
  <2>4. \A s \in jDisk' : LogCovers(s)'
    <3>1. \A s \in jDisk : LogCovers(s)' BY <1>t, <2>1 DEF LogCovers, dbVars
    <3>2. LogCovers(J!Empty)' BY <1>26, <2>1, <2>3
    <3>3. J!Empty' = J!Empty BY DEF J!Empty, J!NoBlocks
    <3>4. QED BY <2>1, <3>1, <3>2, <3>3
  <2>5. QED BY <1>t, <2>1, <2>2, <2>3, <2>4
            DEF LogInv, CheckpointSteps, J!Empty, J!NoBlocks, engineVars, dbVars
<1>28. CASE CheckpointDone
  <2>1. /\ pc = "shrunk" /\ pc' = "idle" /\ J!Current = J!Empty /\ jDisk' = {J!Empty}
        /\ UNCHANGED <<jBlocks, jSize, jActive>> /\ UNCHANGED dbVars
        /\ UNCHANGED <<m_size, m_transaction_started>>
    BY <1>28 DEF CheckpointDone, Step, J!Forget
  <2>2. J!Current' = J!Empty BY <2>1 DEF J!Current
  <2>3. dbUnsynced = {} /\ dbSizes = {dbFileSize} /\ ~m_transaction_started
    BY <1>t, <2>1 DEF CheckpointSteps
  <2>4. LogCovers(J!Empty)' BY <1>26, <2>1, <2>3
  <2>5. QED BY <1>t, <2>1, <2>2, <2>3, <2>4
            DEF LogInv, CheckpointSteps, J!Empty, J!NoBlocks
<1>29. CASE UNCHANGED vars
  BY <1>t, <1>q, <1>29 DEF vars, dbVars
<1>30. QED
  BY <1>1, <1>2, <1>3, <1>4, <1>5, <1>6, <1>7, <1>8, <1>9, <1>10, <1>11, <1>12, <1>13, <1>14,
     <1>15, <1>17, <1>18, <1>19, <1>20, <1>21, <1>22, <1>23, <1>24, <1>25, <1>27, <1>28, <1>29
  DEF Next

-----------------------------------------------------------------------------
(* The size of the database.                                               *)

\* Without transactions that only grow the database, the engine, the journal
\* and the database file agree about its size.
LEMMA SizeStep ==
  ASSUME CacheInv, LogInv, SizeInv, ~GrowOnlyCommits, [Next]_vars
  PROVE  SizeInv'
<1>t. /\ LogTypeOK /\ DbTypeOK /\ EngineTypeOK /\ CheckpointSteps
      /\ J!Current \in jDisk
      /\ m_size \in Nat /\ (jSize # None => jSize \in Nat)
      /\ dbFileSize \in Nat /\ m_dbfile_size \in Nat
      /\ dbSizes \subseteq Nat
      /\ \A s \in jDisk : s.size # None => s.size \in Nat
  BY BaseAssumption
  DEF CacheInv, TypeOK, LogInv, LogTypeOK, DbTypeOK, EngineTypeOK, LogStates, Sizes
<1>n. jSize = None => dbSizes = {dbFileSize}
  BY <1>t DEF LogInv, LogCovers, J!Current
<1>m. \A n \in dbSizes : n <= m_size
  <2>1. CASE jSize = None BY <1>t, <1>n, <2>1 DEF SizeInv, DbSize
  <2>2. CASE jSize # None
    <3>1. \A n \in dbSizes : n <= jSize BY <1>t, <2>2 DEF SizeInv, J!Current
    <3>2. QED BY <1>t, <2>2, <3>1 DEF SizeInv, DbSize
  <2>3. QED BY <2>1, <2>2
<1>c. pc = "idle" => CommittedSize = DbSize
  BY <1>n DEF SizeInv, CommittedSize, DbSize
<1>s. SUFFICES SizeInv' OBVIOUS
<1>q. ASSUME UNCHANGED <<jBlocks, jSize, jDisk>>, UNCHANGED dbVars, pc' = pc,
             m_transaction_started' = m_transaction_started,
             m_dbfile_size' = m_dbfile_size,
             m_size' \in Nat, m_size <= m_size',
             m_transaction_started \/ m_size' = m_size
      PROVE  SizeInv'
  BY <1>t, <1>q DEF SizeInv, DbSize, dbVars
<1>1. ASSUME NEW i \in Blocks, ReadReferenced(i) PROVE <1>s!1
  BY <1>t, <1>q, <1>1 DEF ReadReferenced, Quiet, jVars, engineVars
<1>2. ASSUME NEW i \in Blocks, ReadCached(i) PROVE <1>s!1
  BY <1>t, <1>q, <1>2 DEF ReadCached, CountPins, Quiet, jVars
<1>3. ASSUME NEW i \in Blocks, ReadFromDisk(i) PROVE <1>s!1
  BY <1>t, <1>q, <1>3 DEF ReadFromDisk, DoWrite, J!WriteAll, CountPins, Quiet
<1>4. ASSUME NEW i \in Blocks, ReadFails(i) PROVE <1>s!1
  BY <1>t, <1>q, <1>4 DEF ReadFails, DoWrite, J!WriteAll, engineVars
<1>5. ASSUME NEW i \in Blocks, NEW n \in 0 .. NumBlocks, EvictionFails(i, n) PROVE <1>s!1
  BY <1>t, <1>q, <1>5 DEF EvictionFails, DoWriteFails, J!WriteAllFails, engineVars
<1>6. ASSUME NEW i \in Blocks, NEW v \in Values, OverwriteReferenced(i, v) PROVE <1>s!1
  BY <1>t, <1>q, <1>6 DEF OverwriteReferenced, Quiet, jVars, engineVars
<1>7. ASSUME NEW i \in Blocks, NEW v \in Values, OverwriteCached(i, v) PROVE <1>s!1
  BY <1>t, <1>q, <1>7 DEF OverwriteCached, CountPins, Quiet, jVars
<1>8. ASSUME NEW i \in Blocks, NEW v \in Values, OverwriteNew(i, v) PROVE <1>s!1
  BY <1>t, <1>q, <1>8 DEF OverwriteNew, DoWrite, J!WriteAll, CountPins, Quiet
<1>9. ASSUME NEW i \in Blocks, NEW v \in Values, Store(i, v) PROVE <1>s!1
  BY <1>t, <1>q, <1>9 DEF Store, Quiet, jVars, engineVars
<1>10. ASSUME NEW i \in Blocks, Drop(i) PROVE <1>s!1
  BY <1>t, <1>q, <1>10 DEF Drop, CountPins, Quiet, jVars
<1>11. ASSUME NEW i \in Blocks, FlushBlock(i) PROVE <1>s!1
  BY <1>t, <1>q, <1>11 DEF FlushBlock, DoWrite, J!WriteAll, Quiet, engineVars
<1>12. ASSUME NEW i \in Blocks, FlushFails(i) PROVE <1>s!1
  BY <1>t, <1>q, <1>12 DEF FlushFails, DoWriteFails, J!WriteAllFails, engineVars
<1>13. CASE FlushAll
  BY <1>t, <1>q, <1>13 DEF FlushAll, DoWrite, J!WriteAll, Quiet, engineVars
<1>14. ASSUME NEW n \in 1 .. NumBlocks, Grow(n) PROVE <1>s!1
  BY <1>t, <1>q, <1>14 DEF Grow, Quiet, jVars, Running
<1>15. CASE CommitLog
  <2>1. PICK w : jDisk' = jDisk \cup {J!Merged(w, m_size)}
    BY <1>15 DEF CommitLog, J!WriteAllAndCommit
  <2>2. /\ UNCHANGED <<jBlocks, jSize>> /\ UNCHANGED dbVars /\ UNCHANGED engineVars
        /\ m_transaction_started /\ pc = "idle" /\ pc' = "commit"
    BY <1>15 DEF CommitLog, J!WriteAllAndCommit, Running
  <2>3. J!Merged(w, m_size).size = m_size BY DEF J!Merged
  <2>4. \A s \in jDisk', n \in dbSizes : s.size # None => n <= s.size
    BY <1>m, <2>1, <2>3 DEF SizeInv
  <2>5. QED BY <2>2, <2>4 DEF SizeInv, DbSize, dbVars, engineVars
<1>16. CASE CommitSync
  <2>1. /\ jDisk' = {J!After(m_size)} /\ J!After(m_size) \in jDisk
        /\ jSize' = m_size /\ UNCHANGED dbVars
        /\ pc = "commit" /\ pc' = "idle" /\ UNCHANGED <<m_size, m_dbfile_size>>
    BY <1>16 DEF CommitSync, J!CommitDone, J!Adopt, J!After, J!Merged
  <2>2. m_size # None BY <1>t, TransactionAssumption DEF EngineTypeOK, Sizes
  <2>3. QED BY <1>t, <2>1, <2>2 DEF SizeInv, DbSize, dbVars
<1>17. CASE Rollback
  <2>1. UNCHANGED <<jBlocks, jSize, jDisk>>
    BY <1>17 DEF Rollback, J!Abort, jVars
  <2>2. m_size' = DbSize /\ pc = "idle" /\ pc' = "idle" /\ UNCHANGED dbVars
        /\ m_dbfile_size' = m_dbfile_size
    BY <1>c, <1>17 DEF Rollback
  <2>3. QED BY <1>t, <2>1, <2>2 DEF SizeInv, DbSize, dbVars
<1>18. CASE Restart
  <2>1. PICK s \in jDisk : J!Adopt(s) /\ jDisk' = {s} BY <1>18 DEF Restart, J!Restore
  <2>2. /\ dbFileSize' \in dbSizes /\ dbSizes' = {dbFileSize'} /\ pc' = "idle"
        /\ m_dbfile_size' = dbFileSize'
        /\ m_size' = IF jSize' # None THEN jSize' ELSE dbFileSize'
    BY <1>18 DEF Restart
  <2>3. jSize' # None => jSize' \in Nat BY <1>t, <2>1 DEF J!Adopt
  <2>4. \A r \in jDisk', n \in dbSizes' : r.size # None => n <= r.size
    BY <2>1, <2>2 DEF SizeInv
  <2>5. m_size' = DbSize' /\ DbSize' \in Nat BY <1>t, <2>2, <2>3 DEF DbSize
  <2>6. QED BY <2>2, <2>4, <2>5 DEF SizeInv
<1>19. CASE CommitReadOnly
  <2>1. m_size = DbSize /\ pc = "idle" BY <1>c, <1>19 DEF CommitReadOnly, Running
  <2>2. QED BY <1>t, <1>19, <2>1 DEF CommitReadOnly, SizeInv, DbSize, jVars, dbVars
<1>20. CASE Begin
  BY <1>t, <1>20 DEF Begin, Quiet, SizeInv, DbSize, jVars, dbVars
<1>21. CASE CommitFails
  BY <1>t, <1>21 DEF CommitFails, SizeInv, DbSize, jVars, dbVars, engineVars, CheckpointSteps
<1>22. CASE CheckpointSync
  <2>1. /\ pc = "idle" /\ pc' = "copy" /\ jDisk' = {J!Current} /\ jSize' = jSize
        /\ UNCHANGED dbVars /\ UNCHANGED engineVars
    BY <1>22 DEF CheckpointSync, Step, J!Sync
  <2>2. QED BY <1>t, <2>1 DEF SizeInv, DbSize, dbVars, engineVars
<1>23. CASE CheckpointCopy \/ \E j \in Blocks, v \in Values : CheckpointCopyFails(j, v)
  <2>1. /\ pc = "copy" /\ pc' \in {"copied", "idle"}
        /\ UNCHANGED jVars /\ UNCHANGED engineVars
        /\ dbFileSize' = jSize /\ dbSizes' = dbSizes \cup {jSize}
    BY <1>23 DEF CheckpointCopy, CheckpointCopyFails, CopyBlocks, Step
  <2>2. jSize # None /\ jDisk = {J!Current} /\ ~m_transaction_started
    BY <1>t, <2>1 DEF CheckpointSteps
  <2>3. J!Current.size = jSize BY DEF J!Current
  <2>4. QED BY <1>t, <2>1, <2>2, <2>3 DEF SizeInv, DbSize, engineVars, jVars
<1>24. CASE CheckpointDbSync
  <2>1. /\ pc = "copied" /\ pc' = "synced" /\ UNCHANGED jVars /\ UNCHANGED engineVars
        /\ dbFileSize' = dbFileSize /\ dbSizes' = {dbFileSize}
    BY <1>24 DEF CheckpointDbSync, Step
  <2>2. QED BY <1>t, <2>1 DEF SizeInv, DbSize, engineVars, jVars
<1>25. CASE CheckpointDbSyncFails \/ CheckpointShrinkFails
  BY <1>t, <1>25 DEF CheckpointDbSyncFails, CheckpointShrinkFails, Step, jVars, dbVars,
     engineVars, SizeInv, DbSize
<1>26. CASE CheckpointShrink
  <2>1. /\ pc = "synced" /\ pc' = "shrunk" /\ jDisk' = jDisk \cup {J!Empty}
        /\ jSize' = J!Empty.size /\ J!Empty.size = None
        /\ UNCHANGED dbVars /\ UNCHANGED engineVars
    BY <1>26 DEF CheckpointShrink, Step, J!Shrink, J!Adopt, J!Empty
  <2>2. jSize # None /\ dbFileSize = jSize BY <1>t, <2>1 DEF CheckpointSteps, SizeInv
  <2>3. QED BY <1>t, <2>1, <2>2 DEF SizeInv, DbSize, dbVars, engineVars
<1>27. CASE CheckpointDone
  <2>1. /\ pc = "shrunk" /\ pc' = "idle" /\ J!Current = J!Empty /\ jDisk' = {J!Empty}
        /\ jSize' = jSize /\ UNCHANGED dbVars /\ m_dbfile_size' = m_size
        /\ UNCHANGED <<m_size, m_transaction_started>>
    BY <1>27 DEF CheckpointDone, Step, J!Forget
  <2>2. jSize = None /\ J!Empty.size = None BY <2>1 DEF J!Current, J!Empty
  <2>3. ~m_transaction_started BY <1>t, <2>1 DEF CheckpointSteps
  <2>4. m_size = dbFileSize BY <2>2, <2>3 DEF SizeInv, DbSize
  <2>5. QED BY <2>1, <2>2, <2>4 DEF SizeInv, DbSize, dbVars
<1>28. CASE UNCHANGED vars
  BY <1>t, <1>q, <1>28 DEF vars, dbVars
<1>29. QED
  BY <1>1, <1>2, <1>3, <1>4, <1>5, <1>6, <1>7, <1>8, <1>9, <1>10, <1>11, <1>12, <1>13, <1>14,
     <1>15, <1>16, <1>17, <1>18, <1>19, <1>20, <1>21, <1>22, <1>23, <1>24, <1>25, <1>26, <1>27,
     <1>28
  DEF Next

-----------------------------------------------------------------------------
(* The theorems.                                                           *)

\* An engine that opened a database with an empty journal.
LEMMA InvInit == Init => CacheInv /\ LogInv /\ SizeInv
<1> SUFFICES ASSUME Init PROVE CacheInv /\ LogInv /\ SizeInv
  OBVIOUS
<1>1. << >> \in Seq(Blocks) /\ IsInjective(<< >>) /\ ToSet(<< >>) = {}
  BY DEF IsInjective, ToSet
<1>2. BaseTypeOK BY <1>1, BaseAssumption DEF Init, BaseInit, BaseTypeOK
<1>3. CacheStructure /\ PinnedWhileReferenced
  BY <1>1 DEF Init, BaseInit, CacheStructure, PinnedWhileReferenced
<1>4. LogTypeOK /\ WrittenInv
  <2>1. J!NoBlocks \in [Blocks -> LogContents] /\ \A b \in Blocks : J!NoBlocks[b] # Torn
    BY TransactionAssumption DEF J!NoBlocks, LogContents
  <2>2. /\ jBlocks = J!NoBlocks /\ jSize = None /\ jWritten = J!NoBlocks /\ jActive = FALSE
        /\ jDisk = {J!Empty}
    BY DEF Init, J!Init
  <2>3. J!Empty \in LogStates BY <2>1 DEF J!Empty, LogStates
  <2>4. QED BY <2>1, <2>2, <2>3 DEF LogTypeOK, WrittenInv
<1>5. DbTypeOK /\ EngineTypeOK BY DEF Init, DbTypeOK, EngineTypeOK
<1>6. PinCounterExact BY FS_EmptySet DEF Init, BaseInit, PinCounterExact
<1>7. CacheInv BY <1>2, <1>3, <1>4, <1>5, <1>6 DEF CacheInv, TypeOK, BaseInv
<1>8. LogInv
  BY DEF Init, J!Init, J!Current, J!Empty, J!NoBlocks, LogInv, LogCovers, CheckpointSteps
<1>9. SizeInv
  <2>1. jSize = None /\ jDisk = {J!Empty} /\ J!Empty.size = None
    BY DEF Init, J!Init, J!Empty
  <2>2. m_size \in Nat BY BaseAssumption DEF Init, Sizes
  <2>3. QED BY <2>1, <2>2 DEF Init, SizeInv, DbSize
<1>10. QED BY <1>7, <1>8, <1>9

\* The part of the invariant that holds for every user of the engine.
LEMMA AlwaysInv == Spec => [](CacheInv /\ LogInv)
<1>1. CacheInv /\ LogInv /\ [Next]_vars => (CacheInv /\ LogInv)'
  BY CacheInvStep, LogStep DEF LogInv
<1>2. QED BY InvInit, <1>1, PTL DEF Spec

\* transaction_engine keeps the LRU list, the dirty set and the pinned blocks
\* of engine_base consistent through transactions, rollbacks, failed I/O and
\* crashes.
THEOREM TransactionCacheWellFormed == Spec => [](CacheStructure /\ PinnedWhileReferenced)
<1>1. CacheInv => CacheStructure /\ PinnedWhileReferenced BY DEF CacheInv, BaseInv
<1>2. QED BY AlwaysInv, <1>1, PTL

\* The counter that commit() and rollback() test is the number of pinned
\* blocks, on every path through pin() and unpin().
THEOREM PinCounterCorrect == Spec => []PinCounterExact
<1>1. CacheInv => PinCounterExact BY DEF CacheInv
<1>2. QED BY AlwaysInv, <1>1, PTL

\* Write-ahead: whatever a power loss damages in the database file during or
\* after a checkpoint can be redone from every journal it may leave.
THEOREM WriteAhead == Spec => []UnsyncedBlocksAreLogged
<1>1. CacheInv /\ LogInv => UnsyncedBlocksAreLogged
  BY DEF CacheInv, TypeOK, DbTypeOK, LogInv, LogCovers, UnsyncedBlocksAreLogged
<1>2. QED BY AlwaysInv, <1>1, PTL

\* If no transaction only grows the database, the journal's size and m_size
\* agree between transactions, as checkpoint() asserts.
THEOREM SizesAgree == ASSUME ~GrowOnlyCommits PROVE Spec => []SizeConsistentWithJournal
<1>1. CacheInv /\ LogInv /\ SizeInv /\ [Next]_vars => (CacheInv /\ LogInv /\ SizeInv)'
  BY CacheInvStep, LogStep, SizeStep DEF LogInv
<1>2. SizeInv => SizeConsistentWithJournal
  BY DEF SizeInv, DbSize, SizeConsistentWithJournal
<1>3. QED BY InvInit, <1>1, <1>2, PTL DEF Spec

-----------------------------------------------------------------------------
(***************************************************************************)
(* transaction_engine implements TransactionalStore, on a writable file    *)
(* and as long as no transaction only grows the database.                  *)
(*                                                                         *)
(* The refinement mapping looks at memory, the journal and the database    *)
(* file at once.  Stored and View reduce it to one expression per block;   *)
(* DataInv says why the two agree with what the engine reads.              *)
(***************************************************************************)
-----------------------------------------------------------------------------
(* Contents, one block at a time.                                          *)

\* A block as the journal and the database file have it, as the running
\* transaction has left it there, and as this transaction sees it.
Stored(b) == IF jBlocks[b] # None THEN jBlocks[b] ELSE dbFile[b]

Latest(b) == IF jWritten[b] # None THEN jWritten[b] ELSE Stored(b)

View(b) == IF b \in m_dirty THEN m_data[b] ELSE Latest(b)

\* The database file is zero past every size it may come back with, except
\* where a block was just written.
FileInv ==
  /\ \A b \in Blocks : b >= dbFileSize => dbFile[b] = Zero
  /\ \A b \in Blocks, n \in dbSizes : b >= n /\ b \notin dbUnsynced => dbFile[b] = Zero

\* Once copied, the database file has everything the journal has.
CopiedInv ==
  /\ pc \in {"copied", "synced"} =>
       \A b \in Blocks : jBlocks[b] # None => dbFile[b] = jBlocks[b]
  /\ pc \in {"shrunk", "closed"} =>
       \A s \in jDisk : /\ s.size \in {None, dbFileSize}
                        /\ \A b \in Blocks : s.blocks[b] # None => dbFile[b] = s.blocks[b]

\* A clean block in memory is the newest version in the files, and nothing is
\* written past the end of the database.
MemoryOK(b) ==
  /\ b \in m_blocks \ m_dirty => m_data[b] = Latest(b)
  /\ b \in m_dirty \cup m_pinned => b < m_size
  /\ jWritten[b] # None => b < m_size

MemoryInv == \A b \in Blocks : MemoryOK(b)

EmptyHanded ==
  /\ ~m_transaction_started => m_dirty = {}
  /\ pc = "commit" => m_dirty = {} /\ jActive

DataInv == FileInv /\ CopiedInv /\ MemoryInv /\ EmptyHanded

Inv == CacheInv /\ LogInv /\ SizeInv /\ DataInv

-----------------------------------------------------------------------------
(* What the invariant says about a state.                                  *)

\* The types that the proofs below keep needing.
LEMMA Types ==
  ASSUME Inv
  PROVE  /\ jBlocks \in [Blocks -> LogContents]
         /\ jWritten \in [Blocks -> LogContents \cup {Torn}]
         /\ dbFile \in [Blocks -> Values]
         /\ m_data \in [Blocks -> Values]
         /\ m_blocks \subseteq Blocks /\ m_pinned \subseteq m_blocks /\ m_dirty \subseteq m_blocks
         /\ m_pinned = { b \in Blocks : m_refs[b] > 0 }
         /\ m_size \in Nat /\ dbFileSize \in Nat /\ m_dbfile_size \in Nat
         /\ dbSizes \subseteq Nat /\ dbFileSize \in dbSizes
         /\ jSize # None => jSize \in Nat
         /\ DbSize \in Nat
         /\ \A b \in Blocks : b \in Nat
         /\ None \notin Values /\ Torn \notin Values /\ Zero \in Values
         /\ jActive \in BOOLEAN /\ m_transaction_started \in BOOLEAN
BY BaseAssumption, TransactionAssumption
DEF Inv, CacheInv, TypeOK, BaseTypeOK, LogTypeOK, DbTypeOK, EngineTypeOK, BaseInv,
    CacheStructure, PinnedWhileReferenced, Sizes, Blocks, DbSize, SizeInv

\* Nothing is stored past the end of the committed database.
LEMMA StoredPastEnd ==
  ASSUME Inv, NEW b \in Blocks, b >= DbSize
  PROVE  Stored(b) = Zero /\ jBlocks[b] = None
<1>0. LogCovers(J!Current) BY DEF Inv, LogInv
<1>1. CASE jSize = None
  <2>1. jBlocks[b] = None BY <1>0, <1>1 DEF LogCovers, J!Current, J!NoBlocks
  <2>2. dbFile[b] = Zero BY <1>1 DEF Inv, DataInv, FileInv, DbSize
  <2>3. QED BY <2>1, <2>2 DEF Stored
<1>2. CASE jSize # None
  <2>1. jBlocks[b] = None BY <1>0, <1>2 DEF LogCovers, J!Current, DbSize
  <2>2. dbFileSize <= jSize
    <3>1. J!Current \in jDisk /\ J!Current.size = jSize BY DEF Inv, LogInv, J!Current
    <3>2. QED BY <1>2, <3>1 DEF Inv, SizeInv
  <2>3. b >= dbFileSize BY <1>2, <2>2, Types DEF DbSize
  <2>4. dbFile[b] = Zero BY <2>3 DEF Inv, DataInv, FileInv
  <2>5. QED BY <2>1, <2>4 DEF Stored
<1>3. QED BY <1>1, <1>2

\* do_read returns the newest version, although it knows the size of the
\* database file only from the last checkpoint that was completed.
LEMMA DoReadIsLatest ==
  ASSUME Inv, pc \in {"idle", "commit"}, NEW b \in Blocks
  PROVE  DoRead(b) = Latest(b)
<1>1. (jActive /\ jWritten[b] # None) <=> jWritten[b] # None
  BY DEF Inv, CacheInv, WrittenInv, J!NoBlocks
<1>2. ASSUME jBlocks[b] = None, ~(b < m_dbfile_size) PROVE dbFile[b] = Zero
  <2>1. m_dbfile_size \in dbSizes /\ b >= m_dbfile_size BY <1>2, Types DEF Inv, SizeInv
  <2>2. b \notin dbUnsynced
    <3>1. LogCovers(J!Current) BY DEF Inv, LogInv
    <3>2. QED BY <1>2, <3>1 DEF LogCovers, J!Current
  <2>3. QED BY <2>1, <2>2 DEF Inv, DataInv, FileInv
<1>3. QED BY <1>1, <1>2 DEF DoRead, Latest, Stored

\* The committed state of the refinement mapping.
LEMMA CommittedState ==
  ASSUME Inv
  PROVE  Database(J!Current) = [size |-> DbSize, data |-> [b \in Blocks |-> Stored(b)]]
BY StoredPastEnd, Types DEF Database, J!Current, DbSize, Stored

\* What the running transaction sees.
LEMMA WorkingState ==
  ASSUME Inv, pc \in {"idle", "commit"}
  PROVE  Visible = [size |-> m_size, data |-> [b \in Blocks |-> View(b)]]
<1>1. ASSUME NEW b \in Blocks, b >= m_size PROVE View(b) = Zero
  <2>1. MemoryOK(b) BY DEF Inv, DataInv, MemoryInv
  <2>2. b \notin m_dirty /\ jWritten[b] = None BY <1>1, <2>1, Types DEF MemoryOK
  <2>3. b >= DbSize BY <1>1, Types DEF Inv, SizeInv
  <2>4. QED BY <2>2, <2>3, StoredPastEnd DEF View, Latest
<1>2. ASSUME NEW b \in m_blocks PROVE m_data[b] = View(b)
  <2>1. MemoryOK(b) BY Types DEF Inv, DataInv, MemoryInv
  <2>2. QED BY <2>1 DEF MemoryOK, View
<1>3. ASSUME NEW b \in Blocks, b \notin m_blocks PROVE DoRead(b) = View(b)
  BY <1>3, DoReadIsLatest, Types DEF View
<1>4. QED BY <1>1, <1>2, <1>3 DEF Visible

\* The same two for the state after a step.
LEMMA CommittedStateNext ==
  Inv' => Database(J!Current)' = [size |-> DbSize', data |-> [b \in Blocks |-> Stored(b)']]
<1>1. Inv => Database(J!Current) = [size |-> DbSize, data |-> [b \in Blocks |-> Stored(b)]]
  BY CommittedState
<1>2. (Inv => Database(J!Current) = [size |-> DbSize, data |-> [b \in Blocks |-> Stored(b)]])'
  BY <1>1, PTL
<1>3. QED BY <1>2

\* The same for what the running transaction sees.
LEMMA WorkingStateNext ==
  Inv' /\ pc' \in {"idle", "commit"}
    => Visible' = [size |-> m_size', data |-> [b \in Blocks |-> View(b)']]
<1>1. Inv /\ pc \in {"idle", "commit"}
        => Visible = [size |-> m_size, data |-> [b \in Blocks |-> View(b)]]
  BY WorkingState
<1>2. (Inv /\ pc \in {"idle", "commit"}
        => Visible = [size |-> m_size, data |-> [b \in Blocks |-> View(b)]])'
  BY <1>1, PTL
<1>3. QED BY <1>2

-----------------------------------------------------------------------------
(* Steps inside a transaction, one block at a time.                        *)

\* An eviction of clean and dirty blocks, the dirty ones into the journal,
\* changes nothing the transaction sees.
LEMMA EvictedBlock ==
  ASSUME Inv, NEW V \in SUBSET (m_blocks \ m_pinned), J!WriteAll(V \cap m_dirty, m_data),
         UNCHANGED <<dbFile, m_size>>,
         NEW b \in Blocks,
         b \in m_dirty' <=> b \in m_dirty \ V,
         b \in m_blocks' <=> b \in m_blocks \ V,
         b \in m_pinned' <=> b \in m_pinned,
         b \in m_blocks' => m_data'[b] = m_data[b]
  PROVE  MemoryOK(b)' /\ View(b)' = View(b)
<1>1. MemoryOK(b) BY DEF Inv, DataInv, MemoryInv
<1>2. QED BY <1>1, Types DEF MemoryOK, View, Latest, Stored, J!WriteAll

\* The victims of a cache miss.
LEMMA MissVictims ==
  ASSUME Inv
  PROVE  Victims(EvictCount) \in SUBSET (m_blocks \ m_pinned)
<1>1. BaseInv BY DEF Inv, CacheInv
<1>2. EvictCount \in 0 .. Len(m_cache) BY <1>1, EvictCountRange DEF BaseInv
<1>3. QED BY <1>1, <1>2, EvictProps DEF BaseInv

\* Steps of the running transaction that write nothing: what it sees stays.
ReadingStep ==
  \/ \E i \in Blocks : ReadReferenced(i) \/ ReadCached(i) \/ ReadFromDisk(i) \/ ReadFails(i)
  \/ \E i \in Blocks, n \in 0 .. NumBlocks : EvictionFails(i, n)
  \/ \E i \in Blocks : FlushBlock(i) \/ FlushFails(i)
  \/ FlushAll

\* Reads, evictions and flushes, failed ones too, keep memory and what it shows.
LEMMA ReadingMemory ==
  ASSUME Inv, ReadingStep, NEW b \in Blocks
  PROVE  MemoryOK(b)' /\ View(b)' = View(b)
<1>0. MemoryOK(b) BY DEF Inv, DataInv, MemoryInv
<1>s. SUFFICES MemoryOK(b)' /\ View(b)' = View(b) OBVIOUS
<1>1. ASSUME NEW i \in Blocks, ReadReferenced(i) PROVE <1>s!1
  BY <1>0, <1>1 DEF ReadReferenced, CopyHandle, jVars, dbVars, engineVars,
     MemoryOK, View, Latest, Stored
<1>2. ASSUME NEW i \in Blocks, ReadCached(i) PROVE <1>s!1
  BY <1>0, <1>2 DEF ReadCached, ReadHit, MayPin, CountPins, jVars, dbVars,
     MemoryOK, View, Latest, Stored
<1>3. ASSUME NEW i \in Blocks, ReadFromDisk(i) PROVE <1>s!1
  <2> DEFINE V == Victims(EvictCount)
  <2>1. V \in SUBSET (m_blocks \ m_pinned) BY MissVictims
  <2>2. /\ i \notin m_blocks /\ i < m_size /\ pc = "idle"
        /\ m_blocks' = (m_blocks \ V) \cup {i}
        /\ m_data' = [c \in Blocks |-> IF c = i THEN DoRead(i)
                                       ELSE IF c \in V THEN Zero ELSE m_data[c]]
        /\ m_dirty' = m_dirty \ V
        /\ m_pinned' = m_pinned \cup {i}
        /\ J!WriteAll(V \cap m_dirty, m_data)
        /\ UNCHANGED <<dbFile, m_size>>
    BY <1>3 DEF ReadFromDisk, ReadMiss, Load, DoWrite, MayPin, Running, CountPins, dbVars
  <2>3. DoRead(i) = Latest(i) BY <2>2, DoReadIsLatest
  <2> HIDE DEF V
  <2>4. CASE b = i
    <3>1. i \notin m_dirty /\ i \notin V BY <2>1, <2>2, Types
    <3>2. Latest(i)' = Latest(i)
      BY <2>2, <3>1 DEF Latest, Stored, J!WriteAll
    <3>3. jWritten'[i] = jWritten[i] BY <2>2, <3>1 DEF J!WriteAll
    <3>4. QED BY <1>0, <2>2, <2>3, <2>4, <3>1, <3>2, <3>3 DEF MemoryOK, View
  <2>5. CASE b # i BY <2>1, <2>2, <2>5, EvictedBlock
  <2>6. QED BY <2>4, <2>5
<1>4. ASSUME NEW i \in Blocks, ReadFails(i) PROVE <1>s!1
  <2> DEFINE V == Victims(EvictCount)
  <2>1. V \in SUBSET (m_blocks \ m_pinned) BY MissVictims
  <2>2. /\ m_blocks' = m_blocks \ V
        /\ m_data' = [c \in Blocks |-> IF c \in V THEN Zero ELSE m_data[c]]
        /\ m_dirty' = m_dirty \ V
        /\ m_pinned' = m_pinned
        /\ J!WriteAll(V \cap m_dirty, m_data)
        /\ UNCHANGED <<dbFile, m_size>>
    BY <1>4 DEF ReadFails, MissReadFails, EvictOnly, DoWrite, dbVars, engineVars
  <2> HIDE DEF V
  <2>3. QED BY <2>1, <2>2, EvictedBlock
<1>5. ASSUME NEW i \in Blocks, NEW n \in 0 .. NumBlocks, EvictionFails(i, n) PROVE <1>s!1
  <2> DEFINE V == Victims(n)
             j == m_cache[Len(m_cache) - n]
  <2>1. n \in Nat /\ MissEvictFails(i, n) /\ BaseInv BY <1>5 DEF EvictionFails, Inv, CacheInv
  <2>2. j \in m_dirty \ V /\ V \subseteq m_blocks \ m_pinned BY <2>1, FailedVictim
  <2>3. /\ m_blocks' = m_blocks \ V
        /\ m_data' = [c \in Blocks |-> IF c \in V THEN Zero ELSE m_data[c]]
        /\ m_dirty' = m_dirty \ V
        /\ m_pinned' = m_pinned
        /\ J!WriteAllFails(V \cap m_dirty, j, m_data)
        /\ UNCHANGED <<dbFile, m_size>>
    BY <1>5 DEF EvictionFails, MissEvictFails, EvictOnly, DoWriteFails, dbVars, engineVars
  <2> HIDE DEF V, j
  <2>4. PICK old : jWritten' = [c \in Blocks |-> IF c = j THEN old
                                ELSE IF c \in V \cap m_dirty THEN m_data[c] ELSE jWritten[c]]
    BY <2>3 DEF J!WriteAllFails
  <2>5. UNCHANGED <<jBlocks, jSize, jDisk>> BY <2>3 DEF J!WriteAllFails
  <2>6. CASE b = j
    BY <1>0, <2>2, <2>3, <2>6, Types DEF MemoryOK, View
  <2>7. CASE b # j
    BY <1>0, <2>2, <2>3, <2>4, <2>5, <2>7, Types DEF MemoryOK, View, Latest, Stored
  <2>8. QED BY <2>6, <2>7
<1>6. ASSUME NEW W \in SUBSET m_dirty, MarkClean(W), J!WriteAll(W, m_data),
             UNCHANGED dbVars, UNCHANGED engineVars
      PROVE  <1>s!1
  BY <1>0, <1>6, Types DEF MarkClean, J!WriteAll, dbVars, engineVars,
     MemoryOK, View, Latest, Stored
<1>7. ASSUME NEW i \in Blocks, FlushBlock(i) PROVE <1>s!1
  <2>1. {i} \in SUBSET m_dirty BY <1>7 DEF FlushBlock
  <2>2. QED BY <1>6, <1>7, <2>1 DEF FlushBlock, DoWrite
<1>8. CASE FlushAll BY <1>6, <1>8 DEF FlushAll, DoWrite
<1>9. ASSUME NEW i \in Blocks, FlushFails(i) PROVE <1>s!1
  <2> DEFINE W == { c \in m_dirty : c < i }
  <2>1. i \in m_dirty \ W /\ W \subseteq m_dirty BY <1>9, Types DEF FlushFails
  <2>2. /\ UNCHANGED <<m_blocks, m_data, m_pinned, dbFile, m_size>>
        /\ m_dirty' = m_dirty \ W
        /\ J!WriteAllFails(W, i, m_data)
    BY <1>9 DEF FlushFails, MarkClean, DoWriteFails, dbVars, engineVars
  <2> HIDE DEF W
  <2>3. PICK old : jWritten' = [c \in Blocks |-> IF c = i THEN old
                                ELSE IF c \in W THEN m_data[c] ELSE jWritten[c]]
    BY <2>2 DEF J!WriteAllFails
  <2>4. UNCHANGED <<jBlocks, jSize, jDisk>> BY <2>2 DEF J!WriteAllFails
  <2>5. CASE b = i BY <1>0, <2>1, <2>2, <2>5, Types DEF MemoryOK, View
  <2>6. CASE b # i
    BY <1>0, <2>1, <2>2, <2>3, <2>4, <2>6, Types DEF MemoryOK, View, Latest, Stored
  <2>7. QED BY <2>5, <2>6
<1>10. QED BY <1>1, <1>2, <1>3, <1>4, <1>5, <1>7, <1>8, <1>9 DEF ReadingStep

\* Steps that store v into block i.
WritingStep(i, v) ==
  OverwriteReferenced(i, v) \/ OverwriteCached(i, v) \/ OverwriteNew(i, v) \/ Store(i, v)

\* A store changes its block and no other, and stays inside the database.
LEMMA WritingMemory ==
  ASSUME Inv, ~ReadOnly, NEW i \in Blocks, NEW v \in Values, WritingStep(i, v), NEW b \in Blocks
  PROVE  /\ i < m_size
         /\ MemoryOK(b)'
         /\ View(b)' = IF b = i THEN v ELSE View(b)
<1>0. MemoryOK(b) /\ MemoryOK(i) BY DEF Inv, DataInv, MemoryInv
<1>s. SUFFICES /\ i < m_size
               /\ MemoryOK(b)'
               /\ View(b)' = IF b = i THEN v ELSE View(b)
  OBVIOUS
<1>1. CASE OverwriteReferenced(i, v) \/ Store(i, v)
  <2>1. /\ m_refs[i] > 0
        /\ m_data' = [m_data EXCEPT ![i] = v]
        /\ m_dirty' = m_dirty \cup {i}
        /\ UNCHANGED <<m_blocks, m_pinned, jBlocks, jWritten, dbFile, m_size>>
    BY <1>1 DEF OverwriteReferenced, OverwriteHandle, Store, Modify, jVars, dbVars, engineVars
  <2>2. i \in m_pinned BY <2>1, Types
  <2>3. i < m_size BY <1>0, <2>2 DEF MemoryOK
  <2>4. QED BY <1>0, <2>1, <2>2, <2>3, Types DEF MemoryOK, View, Latest, Stored
<1>2. CASE OverwriteCached(i, v)
  <2>1. /\ i < m_size
        /\ i \in m_blocks
        /\ m_data' = [m_data EXCEPT ![i] = v]
        /\ m_dirty' = m_dirty \cup {i}
        /\ m_pinned' = m_pinned \cup {i}
        /\ UNCHANGED <<m_blocks, jBlocks, jWritten, dbFile, m_size>>
    BY <1>2 DEF OverwriteCached, OverwriteHit, MayPin, CountPins, jVars, dbVars
  <2>2. QED BY <1>0, <2>1, Types DEF MemoryOK, View, Latest, Stored
<1>3. CASE OverwriteNew(i, v)
  <2> DEFINE V == Victims(EvictCount)
  <2>1. V \in SUBSET (m_blocks \ m_pinned) BY MissVictims
  <2>2. /\ i \notin m_blocks /\ i < m_size
        /\ m_blocks' = (m_blocks \ V) \cup {i}
        /\ m_data' = [c \in Blocks |-> IF c = i THEN v
                                       ELSE IF c \in V THEN Zero ELSE m_data[c]]
        /\ m_dirty' = (m_dirty \ V) \cup {i}
        /\ m_pinned' = m_pinned \cup {i}
        /\ J!WriteAll(V \cap m_dirty, m_data)
        /\ UNCHANGED <<dbFile, m_size>>
    BY <1>3 DEF OverwriteNew, OverwriteMiss, Load, DoWrite, MayPin, CountPins, dbVars
  <2> HIDE DEF V
  <2>3. CASE b = i
    <3>1. b \in m_dirty' /\ b < m_size' BY <2>2, <2>3
    <3>2. QED BY <2>2, <2>3, <3>1 DEF MemoryOK, View
  <2>4. CASE b # i BY <2>1, <2>2, <2>4, EvictedBlock
  <2>5. QED BY <2>2, <2>3, <2>4
<1>4. QED BY <1>1, <1>2, <1>3 DEF WritingStep
\* The rest of the state, which these steps leave alone.
LEMMA TransactionFrame ==
  ASSUME ReadingStep \/ \E i \in Blocks, v \in Values : WritingStep(i, v)
  PROVE  /\ pc = "idle" /\ m_transaction_started
         /\ UNCHANGED <<jBlocks, jSize, jDisk, pc, m_size, m_transaction_started>>
         /\ UNCHANGED <<dbFile, dbFileSize, dbUnsynced, dbSizes>>
<1>s. SUFFICES /\ pc = "idle" /\ m_transaction_started
               /\ UNCHANGED <<jBlocks, jSize, jDisk, pc, m_size, m_transaction_started>>
               /\ UNCHANGED <<dbFile, dbFileSize, dbUnsynced, dbSizes>>
  OBVIOUS
<1>1. ASSUME NEW i \in Blocks,
             ReadReferenced(i) \/ ReadCached(i) \/ ReadFromDisk(i) \/ ReadFails(i)
      PROVE  <1>s!1
  BY <1>1 DEF ReadReferenced, ReadCached, ReadFromDisk, ReadFails, MayPin, Running, CountPins,
     Quiet, DoWrite, J!WriteAll, jVars, dbVars, engineVars
<1>2. ASSUME NEW i \in Blocks, NEW n \in 0 .. NumBlocks, EvictionFails(i, n) PROVE <1>s!1
  BY <1>2 DEF EvictionFails, MayPin, Running, DoWriteFails, J!WriteAllFails, dbVars, engineVars
<1>3. ASSUME NEW i \in Blocks, FlushBlock(i) \/ FlushFails(i) PROVE <1>s!1
  BY <1>3 DEF FlushBlock, FlushFails, Running, Quiet, DoWrite, DoWriteFails,
     J!WriteAll, J!WriteAllFails, dbVars, engineVars
<1>4. CASE FlushAll
  BY <1>4 DEF FlushAll, Running, Quiet, DoWrite, J!WriteAll, dbVars, engineVars
<1>5. ASSUME NEW i \in Blocks, NEW v \in Values, WritingStep(i, v) PROVE <1>s!1
  BY <1>5 DEF WritingStep, OverwriteReferenced, OverwriteCached, OverwriteNew, Store, MayPin,
     Running, CountPins, Quiet, DoWrite, J!WriteAll, jVars, dbVars, engineVars
<1>6. QED BY <1>1, <1>2, <1>3, <1>4, <1>5 DEF ReadingStep

-----------------------------------------------------------------------------
(* The other steps.                                                        *)

\* A handle that goes away changes no content.
LEMMA DropMemory ==
  ASSUME Inv, NEW i \in Blocks, Drop(i), NEW b \in Blocks
  PROVE  MemoryOK(b)' /\ View(b)' = View(b)
<1>0. MemoryOK(b) BY DEF Inv, DataInv, MemoryInv
<1>1. /\ m_pinned' \subseteq m_pinned
      /\ UNCHANGED <<m_blocks, m_data, m_dirty, jBlocks, jWritten, dbFile, m_size>>
  BY DEF Drop, Release, CountPins, jVars, dbVars
<1>2. QED BY <1>0, <1>1 DEF MemoryOK, View, Latest, Stored

\* grow() only moves the end.
LEMMA GrowMemory ==
  ASSUME Inv, NEW n \in 1 .. NumBlocks, Grow(n), NEW b \in Blocks
  PROVE  MemoryOK(b)' /\ View(b)' = View(b)
<1>0. MemoryOK(b) BY DEF Inv, DataInv, MemoryInv
<1>1. /\ m_size' = m_size + n
      /\ UNCHANGED <<m_blocks, m_data, m_dirty, m_pinned, jBlocks, jWritten, dbFile>>
  BY DEF Grow, jVars, dbVars, baseVars
<1>2. QED BY <1>0, <1>1, Types DEF MemoryOK, View, Latest, Stored

\* The flush inside commit() moves every block of the transaction into the
\* journal.
LEMMA CommitLogMemory ==
  ASSUME Inv, CommitLog, NEW b \in Blocks
  PROVE  /\ MemoryOK(b)' /\ View(b)' = View(b)
         /\ jWritten'[b] = IF b \in m_dirty THEN m_data[b] ELSE jWritten[b]
<1>0. MemoryOK(b) BY DEF Inv, DataInv, MemoryInv
<1>1. /\ UNCHANGED <<m_blocks, m_data, m_pinned, jBlocks, dbFile, m_size>>
      /\ m_dirty' = {}
      /\ jWritten'[b] = IF b \in m_dirty THEN m_data[b] ELSE jWritten[b]
  BY DEF CommitLog, MarkClean, J!WriteAllAndCommit, dbVars, engineVars
<1>2. QED BY <1>0, <1>1, Types DEF MemoryOK, View, Latest, Stored

\* When commit() returns, what it wrote is the stored version.
LEMMA CommitSyncMemory ==
  ASSUME Inv, CommitSync, NEW b \in Blocks
  PROVE  MemoryOK(b)' /\ Stored(b)' = View(b)
<1>0. MemoryOK(b) BY DEF Inv, DataInv, MemoryInv
<1>1. /\ UNCHANGED <<m_blocks, m_data, m_pinned, m_dirty, dbFile, m_size>>
      /\ m_dirty = {}
      /\ jWritten'[b] = None
      /\ jBlocks'[b] = IF b >= m_size THEN None
                       ELSE IF jWritten[b] # None THEN jWritten[b] ELSE jBlocks[b]
  BY DEF CommitSync, J!CommitDone, J!Adopt, J!After, J!Merged, J!EndTransaction, J!NoBlocks,
     dbVars, baseVars, Inv, DataInv, EmptyHanded
<1>2. b >= m_size => jBlocks[b] = None
  BY StoredPastEnd, Types DEF Inv, SizeInv
<1>3. Latest(b)' = Latest(b) /\ Stored(b)' = Latest(b)
  BY <1>0, <1>1, <1>2, Types DEF MemoryOK, Latest, Stored
<1>4. QED BY <1>0, <1>1, <1>3 DEF MemoryOK, View

\* rollback() leaves in memory what is also in the files.
LEMMA RollbackMemory ==
  ASSUME Inv, Rollback, NEW b \in Blocks
  PROVE  MemoryOK(b)' /\ Stored(b)' = Stored(b) /\ m_dirty' = {}
<1>0. MemoryOK(b) BY DEF Inv, DataInv, MemoryInv
<1>1. m_pinned = {} BY NothingPinned DEF Inv, CacheInv, Rollback
<1> DEFINE S == m_blocks \cap (m_dirty \cup { c \in Blocks : jActive /\ jWritten[c] # None })
<1>2. /\ m_blocks' = m_blocks \ S /\ m_dirty' = m_dirty \ S /\ m_pinned' = m_pinned
      /\ m_data' = [c \in Blocks |-> IF c \in S THEN Zero ELSE m_data[c]]
      /\ UNCHANGED <<jBlocks, dbFile>>
  BY DEF Rollback, Discard, J!Abort, jVars, dbVars
<1>3. m_dirty' = {} BY <1>2, Types
<1>4. jWritten'[b] = None /\ (~jActive => jWritten[b] = None)
  BY DEF Inv, CacheInv, WrittenInv, Rollback, J!Abort, J!EndTransaction, J!NoBlocks, jVars
<1>5. b \in m_blocks' => m_data'[b] = Stored(b)
  BY <1>0, <1>2, <1>4, Types DEF MemoryOK, Latest
<1>6. QED BY <1>1, <1>2, <1>3, <1>4, <1>5 DEF MemoryOK, Latest, Stored

\* A checkpoint that copies, completely or not, stores nothing new.
LEMMA CopyMemory ==
  ASSUME Inv, CheckpointCopy \/ \E j \in Blocks, v \in Values : CheckpointCopyFails(j, v),
         NEW b \in Blocks
  PROVE  /\ MemoryOK(b)' /\ Stored(b)' = Stored(b)
         /\ b >= jSize => dbFile'[b] = Zero
         /\ b \in dbUnsynced' \/ dbFile'[b] \in {dbFile[b], Zero}
<1>0. MemoryOK(b) BY DEF Inv, DataInv, MemoryInv
<1>1. jSize # None
  BY DEF Inv, LogInv, CheckpointSteps, CheckpointCopy, CheckpointCopyFails, Step
<1>2. b >= jSize => Stored(b) = Zero /\ jBlocks[b] = None BY <1>1, StoredPastEnd DEF DbSize
<1>3. /\ UNCHANGED <<m_blocks, m_data, m_dirty, m_pinned, jBlocks, jWritten, m_size>>
      /\ b >= jSize => dbFile'[b] = Zero
      /\ b < jSize /\ jBlocks[b] = None => dbFile'[b] = dbFile[b]
      /\ b \in dbUnsynced' \/ dbFile'[b] \in {dbFile[b], Zero}
  BY <1>1, Types
  DEF CheckpointCopy, CheckpointCopyFails, CopyBlocks, jVars, engineVars, baseVars
<1>4. Stored(b)' = Stored(b) BY <1>1, <1>2, <1>3, Types DEF Stored
<1>5. QED BY <1>0, <1>3, <1>4 DEF MemoryOK, Latest

\* Truncating the journal stores nothing new either: the database file has it.
LEMMA ShrinkMemory ==
  ASSUME Inv, CheckpointShrink, NEW b \in Blocks
  PROVE  MemoryOK(b)' /\ Stored(b)' = Stored(b)
<1>0. MemoryOK(b) BY DEF Inv, DataInv, MemoryInv
<1>1. /\ UNCHANGED <<m_blocks, m_data, m_dirty, m_pinned, jWritten, dbFile, m_size>>
      /\ jBlocks'[b] = None
  BY DEF CheckpointShrink, J!Shrink, J!Adopt, J!Empty, J!NoBlocks, dbVars, engineVars, baseVars
<1>2. jBlocks[b] # None => dbFile[b] = jBlocks[b]
  BY DEF Inv, DataInv, CopiedInv, CheckpointShrink, Step
<1>3. QED BY <1>0, <1>1, <1>2 DEF MemoryOK, Latest, Stored

\* Every step keeps memory, the journal and the database file in agreement.
LEMMA DataStep ==
  ASSUME Inv, CacheInv', LogInv', SizeInv', ~ReadOnly, [Next]_vars
  PROVE  DataInv'
<1>i. /\ FileInv /\ CopiedInv /\ MemoryInv /\ EmptyHanded /\ CheckpointSteps
      /\ \A b \in Blocks : MemoryOK(b)
  BY DEF Inv, DataInv, LogInv, MemoryInv
<1>s. SUFFICES DataInv' OBVIOUS
<1>f. ASSUME UNCHANGED <<dbFile, dbFileSize, dbUnsynced, dbSizes>> PROVE FileInv'
  BY <1>i, <1>f DEF FileInv
<1>g. ASSUME UNCHANGED <<jBlocks, jDisk, dbFile, dbFileSize>>, pc' = pc \/ pc' \in {"idle", "commit", "copy"}
      PROVE CopiedInv'
  BY <1>i, <1>g DEF CopiedInv
<1>m. ASSUME UNCHANGED <<m_blocks, m_data, m_dirty, m_pinned, jBlocks, jWritten, dbFile, m_size>>
      PROVE  MemoryInv'
  BY <1>i, <1>m DEF MemoryInv, MemoryOK, Latest, Stored
<1>1. CASE ReadingStep \/ \E i \in Blocks, v \in Values : WritingStep(i, v)
  <2>1. MemoryInv' BY <1>1, ReadingMemory, WritingMemory DEF MemoryInv
  <2>2. FileInv' /\ CopiedInv' BY <1>1, <1>f, <1>g, TransactionFrame
  <2>3. EmptyHanded' BY <1>1, TransactionFrame DEF EmptyHanded
  <2>4. QED BY <2>1, <2>2, <2>3 DEF DataInv
<1>2. ASSUME NEW i \in Blocks, Drop(i) PROVE <1>s!1
  <2>1. MemoryInv' BY <1>2, DropMemory DEF MemoryInv
  <2>2. /\ UNCHANGED jVars /\ UNCHANGED dbVars
        /\ UNCHANGED <<m_dirty, pc, m_transaction_started>>
    BY <1>2 DEF Drop, Release, CountPins, Quiet
  <2>3. FileInv' /\ CopiedInv' BY <1>f, <1>g, <2>2 DEF jVars, dbVars
  <2>4. EmptyHanded' BY <1>i, <2>2 DEF EmptyHanded, jVars
  <2>5. QED BY <2>1, <2>3, <2>4 DEF DataInv
<1>3. ASSUME NEW n \in 1 .. NumBlocks, Grow(n) PROVE <1>s!1
  <2>1. MemoryInv' BY <1>3, GrowMemory DEF MemoryInv
  <2>2. /\ UNCHANGED jVars /\ UNCHANGED dbVars
        /\ UNCHANGED <<m_dirty, pc, m_transaction_started>>
    BY <1>3 DEF Grow, Quiet, baseVars
  <2>3. FileInv' /\ CopiedInv' BY <1>f, <1>g, <2>2 DEF jVars, dbVars
  <2>4. EmptyHanded' BY <1>i, <2>2 DEF EmptyHanded, jVars
  <2>5. QED BY <2>1, <2>3, <2>4 DEF DataInv
<1>4. CASE Begin \/ CommitReadOnly \/ CommitFails
  <2>1. /\ UNCHANGED jVars /\ UNCHANGED dbVars /\ UNCHANGED baseVars /\ m_size' = m_size
        /\ pc' = "idle"
        /\ m_transaction_started' \/ m_dirty = {}
    BY <1>4 DEF Begin, CommitReadOnly, CommitFails, Quiet, Running, engineVars, Inv, LogInv,
       CheckpointSteps
  <2>2. MemoryInv' /\ FileInv' /\ CopiedInv'
    BY <1>f, <1>g, <1>m, <2>1 DEF jVars, dbVars, baseVars
  <2>3. EmptyHanded' BY <2>1 DEF EmptyHanded, baseVars
  <2>4. QED BY <2>2, <2>3 DEF DataInv
<1>5. CASE CommitLog
  <2>1. MemoryInv' BY <1>5, CommitLogMemory DEF MemoryInv
  <2>2. /\ UNCHANGED dbVars /\ UNCHANGED engineVars /\ pc' = "commit"
        /\ m_dirty' = {} /\ jActive' /\ m_transaction_started
    BY <1>5 DEF CommitLog, MarkClean, J!WriteAllAndCommit, Running
  <2>3. FileInv' BY <1>f, <2>2 DEF dbVars
  <2>4. CopiedInv' /\ EmptyHanded' BY <2>2 DEF CopiedInv, EmptyHanded
  <2>5. QED BY <2>1, <2>3, <2>4 DEF DataInv
<1>6. CASE CommitSync
  <2>1. MemoryInv' BY <1>6, CommitSyncMemory DEF MemoryInv
  <2>2. UNCHANGED dbVars /\ pc' = "idle" /\ m_dirty' = {}
    BY <1>i, <1>6 DEF CommitSync, EmptyHanded, baseVars
  <2>3. FileInv' BY <1>f, <2>2 DEF dbVars
  <2>4. CopiedInv' /\ EmptyHanded' BY <2>2 DEF CopiedInv, EmptyHanded
  <2>5. QED BY <2>1, <2>3, <2>4 DEF DataInv
<1>7. CASE Rollback
  <2>1. MemoryInv' BY <1>7, RollbackMemory DEF MemoryInv
  <2>2. UNCHANGED dbVars /\ pc' = "idle" BY <1>7 DEF Rollback
  <2>3. m_dirty' = {}
    <3>1. 0 \in Blocks BY BaseAssumption DEF Blocks
    <3>2. QED BY <1>7, <3>1, RollbackMemory
  <2>4. FileInv' BY <1>f, <2>2 DEF dbVars
  <2>5. CopiedInv' /\ EmptyHanded' BY <2>2, <2>3 DEF CopiedInv, EmptyHanded
  <2>6. QED BY <2>1, <2>4, <2>5 DEF DataInv
<1>8. CASE CheckpointSync
  <2>1. /\ UNCHANGED dbVars /\ UNCHANGED baseVars /\ UNCHANGED engineVars
        /\ UNCHANGED <<jBlocks, jWritten>> /\ pc' = "copy" /\ ~m_transaction_started
    BY <1>8 DEF CheckpointSync, Step, J!Sync
  <2>2. MemoryInv' /\ FileInv' BY <1>f, <1>m, <2>1 DEF dbVars, baseVars, engineVars
  <2>3. CopiedInv' BY <2>1 DEF CopiedInv
  <2>4. EmptyHanded' BY <1>i, <2>1 DEF EmptyHanded, baseVars, engineVars
  <2>5. QED BY <2>2, <2>3, <2>4 DEF DataInv
<1>9. CASE CheckpointCopy \/ \E j \in Blocks, v \in Values : CheckpointCopyFails(j, v)
  <2>1. MemoryInv' BY <1>9, CopyMemory DEF MemoryInv
  <2>2. /\ dbFileSize' = jSize /\ dbSizes' = dbSizes \cup {jSize}
        /\ dbUnsynced \subseteq dbUnsynced'
        /\ UNCHANGED jVars /\ UNCHANGED engineVars /\ UNCHANGED baseVars
        /\ pc = "copy" /\ pc' \in {"copied", "idle"}
    BY <1>9 DEF CheckpointCopy, CheckpointCopyFails, CopyBlocks, Step
  <2>3. jSize # None /\ ~m_transaction_started BY <1>i, <2>2 DEF CheckpointSteps
  <2>4. \A b \in Blocks : /\ b >= jSize => dbFile'[b] = Zero
                          /\ b \in dbUnsynced' \/ dbFile'[b] \in {dbFile[b], Zero}
    BY <1>9, CopyMemory
  <2>5. FileInv' BY <1>i, <2>2, <2>4 DEF FileInv
  <2>6. CopiedInv'
    <3>1. CASE pc' = "idle" BY <3>1 DEF CopiedInv
    <3>2. CASE pc' = "copied"
      <4>1. CopyBlocks({ b \in Blocks : jBlocks[b] # None })
        BY <1>9, <3>2 DEF CheckpointCopy, CheckpointCopyFails, Step
      <4>2. ASSUME NEW b \in Blocks, jBlocks[b] # None PROVE ~(b >= jSize)
        BY <2>3, <4>2, StoredPastEnd DEF DbSize
      <4>3. \A b \in Blocks : jBlocks[b] # None => dbFile'[b] = jBlocks[b]
        BY <4>1, <4>2 DEF CopyBlocks
      <4>4. QED BY <2>2, <3>2, <4>3 DEF CopiedInv, jVars
    <3>3. QED BY <2>2, <3>1, <3>2
  <2>7. EmptyHanded' BY <1>i, <2>2, <2>3 DEF EmptyHanded, baseVars, engineVars
  <2>8. QED BY <2>1, <2>5, <2>6, <2>7 DEF DataInv
<1>10. CASE CheckpointDbSync
  <2>1. /\ UNCHANGED <<dbFile, dbFileSize>> /\ dbSizes' = {dbFileSize}
        /\ UNCHANGED jVars /\ UNCHANGED baseVars /\ UNCHANGED engineVars
        /\ pc = "copied" /\ pc' = "synced"
    BY <1>10 DEF CheckpointDbSync, Step
  <2>2. FileInv' BY <1>i, <2>1 DEF FileInv
  <2>3. CopiedInv' BY <1>i, <2>1 DEF CopiedInv, jVars
  <2>4. MemoryInv' BY <1>m, <2>1 DEF jVars, baseVars, engineVars
  <2>5. EmptyHanded' BY <1>i, <2>1 DEF EmptyHanded, baseVars, engineVars
  <2>6. QED BY <2>2, <2>3, <2>4, <2>5 DEF DataInv
<1>11. CASE CheckpointDbSyncFails \/ CheckpointShrinkFails
  <2>1. /\ UNCHANGED dbVars /\ UNCHANGED jVars /\ UNCHANGED baseVars /\ UNCHANGED engineVars
        /\ (pc = "copied" /\ pc' = "idle") \/ (pc = "shrunk" /\ pc' = "closed")
    BY <1>11 DEF CheckpointDbSyncFails, CheckpointShrinkFails, Step
  <2>2. FileInv' BY <1>f, <2>1 DEF dbVars
  <2>3. CopiedInv' BY <1>i, <2>1 DEF CopiedInv, jVars, dbVars
  <2>4. MemoryInv' BY <1>m, <2>1 DEF jVars, dbVars, baseVars, engineVars
  <2>5. EmptyHanded' BY <1>i, <2>1 DEF EmptyHanded, baseVars, engineVars
  <2>6. QED BY <2>2, <2>3, <2>4, <2>5 DEF DataInv
<1>12. CASE CheckpointShrink
  <2>1. MemoryInv' BY <1>12, ShrinkMemory DEF MemoryInv
  <2>2. /\ UNCHANGED dbVars /\ UNCHANGED baseVars /\ UNCHANGED engineVars
        /\ pc = "synced" /\ pc' = "shrunk" /\ jDisk' = {J!Current, J!Empty}
    BY <1>12 DEF CheckpointShrink, Step, J!Shrink
  <2>3. FileInv' BY <1>f, <2>2 DEF dbVars
  <2>4. dbFileSize = jSize /\ \A b \in Blocks : jBlocks[b] # None => dbFile[b] = jBlocks[b]
    BY <1>i, <2>2 DEF CopiedInv, Inv, SizeInv
  <2>5. CopiedInv'
    BY <2>2, <2>4 DEF CopiedInv, J!Current, J!Empty, J!NoBlocks, dbVars
  <2>6. EmptyHanded' BY <1>i, <2>2 DEF EmptyHanded, baseVars, engineVars
  <2>7. QED BY <2>1, <2>3, <2>5, <2>6 DEF DataInv
<1>13. CASE CheckpointDone
  <2>1. /\ UNCHANGED dbVars /\ UNCHANGED baseVars /\ UNCHANGED <<jBlocks, jWritten>>
        /\ UNCHANGED <<m_size, m_transaction_started>> /\ pc' = "idle"
    BY <1>13 DEF CheckpointDone, Step, J!Forget
  <2>2. FileInv' /\ MemoryInv' BY <1>f, <1>m, <2>1 DEF dbVars, baseVars
  <2>3. CopiedInv' BY <2>1 DEF CopiedInv
  <2>4. EmptyHanded' BY <1>i, <2>1 DEF EmptyHanded, baseVars
  <2>5. QED BY <2>2, <2>3, <2>4 DEF DataInv
<1>14. CASE Restart
  <2>1. /\ m_blocks' = {} /\ m_dirty' = {} /\ m_pinned' = {} /\ pc' = "idle"
        /\ dbSizes' = {dbFileSize'} /\ jWritten' = J!NoBlocks
        /\ \A b \in Blocks : b >= dbFileSize' => dbFile'[b] = Zero
    BY <1>14 DEF Restart, J!Restore, J!EndTransaction
  <2>2. MemoryInv' BY <2>1 DEF MemoryInv, MemoryOK, J!NoBlocks
  <2>3. FileInv' BY <2>1 DEF FileInv
  <2>4. CopiedInv' /\ EmptyHanded' BY <2>1 DEF CopiedInv, EmptyHanded
  <2>5. QED BY <2>2, <2>3, <2>4 DEF DataInv
<1>15. CASE UNCHANGED vars
  BY <1>i, <1>f, <1>g, <1>m, <1>15 DEF vars, DataInv, EmptyHanded
<1>16. QED
  BY <1>1, <1>2, <1>3, <1>4, <1>5, <1>6, <1>7, <1>8, <1>9, <1>10, <1>11, <1>12, <1>13, <1>14,
     <1>15
  DEF Next, ReadingStep, WritingStep

\* The whole invariant.
LEMMA InvStep ==
  ASSUME Inv, ~ReadOnly, ~GrowOnlyCommits, [Next]_vars
  PROVE  Inv'
<1>1. CacheInv' /\ LogInv' /\ SizeInv'
  BY CacheInvStep, LogStep, SizeStep DEF Inv, LogInv
<1>2. QED BY <1>1, DataStep DEF Inv

-----------------------------------------------------------------------------
(* The refinement.                                                         *)

Committed == Database(J!Current)
Working == IF m_transaction_started THEN Visible ELSE Database(J!Current)
MayRecover == { Database(s) : s \in jDisk }

\* Neither the journal on disk nor the database file changes.
LEMMA SameFiles ==
  ASSUME UNCHANGED <<jBlocks, jSize, jDisk, dbFile, dbFileSize>>
  PROVE  Committed' = Committed /\ MayRecover' = MayRecover
BY DEF Committed, MayRecover, Database, J!Current

\* What the transaction sees, before and after a step, from its blocks.
LEMMA SameView ==
  ASSUME Inv, Inv', pc \in {"idle", "commit"}, pc' \in {"idle", "commit"}, m_size' = m_size,
         \A b \in Blocks : View(b)' = View(b)
  PROVE  Visible' = Visible
<1>1. Visible = [size |-> m_size, data |-> [b \in Blocks |-> View(b)]] BY WorkingState
<1>2. Visible' = [size |-> m_size', data |-> [b \in Blocks |-> View(b)']] BY WorkingStateNext
<1>3. QED BY <1>1, <1>2

\* The committed state, from its blocks.
LEMMA SameStored ==
  ASSUME Inv, Inv', DbSize' = DbSize, \A b \in Blocks : Stored(b)' = Stored(b)
  PROVE  Committed' = Committed
<1>1. Committed = [size |-> DbSize, data |-> [b \in Blocks |-> Stored(b)]]
  BY CommittedState DEF Committed
<1>2. Committed' = [size |-> DbSize', data |-> [b \in Blocks |-> Stored(b)']]
  BY CommittedStateNext DEF Committed
<1>3. QED BY <1>1, <1>2

\* A transaction that wrote and grew nothing sees the committed state.
LEMMA CleanView ==
  ASSUME Inv, pc = "idle", m_dirty = {}, ~jActive, m_size = DbSize
  PROVE  Visible = Committed
<1>1. \A b \in Blocks : View(b) = Stored(b)
  BY DEF Inv, CacheInv, WrittenInv, View, Latest, J!NoBlocks
<1>2. Visible = [size |-> m_size, data |-> [b \in Blocks |-> View(b)]] BY WorkingState
<1>3. Committed = [size |-> DbSize, data |-> [b \in Blocks |-> Stored(b)]]
  BY CommittedState DEF Committed
<1>4. QED BY <1>1, <1>2, <1>3

\* The state a commit appends to the journal is what the transaction sees.
LEMMA LoggedState ==
  ASSUME Inv, pc \in {"idle", "commit"}, NEW w,
         \A b \in Blocks : w[b] = IF b \in m_dirty THEN m_data[b] ELSE jWritten[b]
  PROVE  Database(J!Merged(w, m_size)) = Visible
<1>1. Visible = [size |-> m_size, data |-> [b \in Blocks |-> View(b)]] BY WorkingState
<1>2. m_size # None
  BY TransactionAssumption DEF Inv, CacheInv, TypeOK, EngineTypeOK, Sizes
<1>3. ASSUME NEW b \in Blocks, b >= m_size PROVE View(b) = Zero
  <2>1. MemoryOK(b) BY DEF Inv, DataInv, MemoryInv
  <2>2. b \notin m_dirty /\ jWritten[b] = None BY <1>3, <2>1, Types DEF MemoryOK
  <2>3. b >= DbSize BY <1>3, Types DEF Inv, SizeInv
  <2>4. QED BY <2>2, <2>3, StoredPastEnd DEF View, Latest
<1>4. ASSUME NEW b \in Blocks, ~(b >= m_size)
      PROVE  View(b) = IF w[b] # None THEN w[b]
                       ELSE IF jBlocks[b] # None THEN jBlocks[b] ELSE dbFile[b]
  BY Types DEF View, Latest, Stored
<1> DEFINE M == J!Merged(w, m_size)
<1>5. /\ M.size = m_size
      /\ \A b \in Blocks : ~(b >= m_size) =>
           M.blocks[b] = IF w[b] # None THEN w[b] ELSE jBlocks[b]
  BY DEF J!Merged
<1> HIDE DEF M
<1>6. Database(M) = [size |-> m_size, data |-> [b \in Blocks |-> View(b)]]
  BY <1>2, <1>3, <1>4, <1>5 DEF Database
<1>7. QED BY <1>1, <1>6 DEF M

\* Whatever a power loss does to the database file, the journal state that is
\* restored makes up the same database as before.
LEMMA RestartedState ==
  ASSUME Inv, Restart, NEW s \in jDisk
  PROVE  Database(s)' = Database(s)
<1> DEFINE n == IF s.size # None THEN s.size ELSE dbFileSize
<1>1. LogCovers(s) BY DEF Inv, LogInv
<1>2. s.size = None => dbFileSize' = dbFileSize
  BY <1>1 DEF LogCovers, Restart
<1>3. ASSUME NEW b \in Blocks, s.blocks[b] = None PROVE dbFile'[b] = dbFile[b]
  <2>1. b \notin dbUnsynced BY <1>1, <1>3 DEF LogCovers
  <2>2. dbFileSize' \in dbSizes BY DEF Restart
  <2>3. b >= dbFileSize' => dbFile[b] = Zero BY <2>1, <2>2 DEF Inv, DataInv, FileInv
  <2>4. dbFile'[b] = IF b >= dbFileSize' THEN Zero ELSE dbFile[b] BY <2>1 DEF Restart
  <2>5. QED BY <2>3, <2>4
<1>4. QED BY <1>2, <1>3 DEF Database

\* Every step of the engine is a step of the store, or changes nothing of it.
LEMMA RefinementStep ==
  ASSUME Inv, Inv', ~ReadOnly, ~GrowOnlyCommits, [Next]_vars
  PROVE  [Promise!Next]_(Promise!storeVars)
<1>i. /\ CheckpointSteps /\ EmptyHanded /\ (~m_transaction_started => ~jActive)
      /\ (~m_transaction_started => m_size = DbSize)
      /\ J!Current \in jDisk
  BY DEF Inv, LogInv, DataInv, SizeInv
<1>v. /\ Promise!storeVars = <<Committed, Working, m_transaction_started, MayRecover>>
      /\ Promise!storeVars' = <<Committed', Working', m_transaction_started', MayRecover'>>
  BY DEF Promise!storeVars, Committed, Working, MayRecover
<1>s. SUFFICES Promise!Next \/ UNCHANGED Promise!storeVars OBVIOUS
<1>q. ASSUME Committed' = Committed, MayRecover' = MayRecover,
             m_transaction_started' = m_transaction_started,
             m_transaction_started => Visible' = Visible
      PROVE  UNCHANGED Promise!storeVars
  BY <1>v, <1>q DEF Working, Committed
<1>1. CASE ReadingStep
  <2>1. /\ pc = "idle" /\ m_transaction_started
        /\ UNCHANGED <<jBlocks, jSize, jDisk, pc, m_size, m_transaction_started>>
        /\ UNCHANGED <<dbFile, dbFileSize, dbUnsynced, dbSizes>>
    BY <1>1, TransactionFrame
  <2>2. Visible' = Visible BY <1>1, <2>1, ReadingMemory, SameView
  <2>3. QED BY <1>q, <2>1, <2>2, SameFiles
<1>2. ASSUME NEW i \in Blocks, NEW v \in Values, WritingStep(i, v) PROVE <1>s!1
  <2>1. /\ pc = "idle" /\ m_transaction_started
        /\ UNCHANGED <<jBlocks, jSize, jDisk, pc, m_size, m_transaction_started>>
        /\ UNCHANGED <<dbFile, dbFileSize, dbUnsynced, dbSizes>>
    BY <1>2, TransactionFrame
  <2>2. i < m_size /\ \A b \in Blocks : View(b)' = IF b = i THEN v ELSE View(b)
    BY <1>2, WritingMemory
  <2>3. Visible = [size |-> m_size, data |-> [b \in Blocks |-> View(b)]]
    BY <2>1, WorkingState
  <2>4. Visible' = [size |-> m_size', data |-> [b \in Blocks |-> View(b)']]
    BY <2>1, WorkingStateNext
  <2>5. Visible' = [Visible EXCEPT !.data[i] = v] /\ i < Visible.size
    BY <2>1, <2>2, <2>3, <2>4
  <2>6. Committed' = Committed /\ MayRecover' = MayRecover BY <2>1, SameFiles
  <2>7. Promise!Write(i, v)
    BY <2>1, <2>5, <2>6 DEF Promise!Write, Committed, MayRecover
  <2>8. QED BY <2>7 DEF Promise!Next
<1>3. ASSUME NEW i \in Blocks, Drop(i) PROVE <1>s!1
  <2>1. /\ UNCHANGED jVars /\ UNCHANGED dbVars
        /\ UNCHANGED <<pc, m_size, m_transaction_started>>
    BY <1>3 DEF Drop, CountPins, Quiet
  <2>2. m_transaction_started => pc \in {"idle", "commit"}
    BY <1>i DEF CheckpointSteps, Inv, CacheInv, TypeOK, EngineTypeOK
  <2>3. m_transaction_started => Visible' = Visible
    BY <1>3, <2>1, <2>2, DropMemory, SameView
  <2>4. QED BY <1>q, <2>1, <2>3, SameFiles DEF jVars, dbVars
<1>4. ASSUME NEW n \in 1 .. NumBlocks, Grow(n) PROVE <1>s!1
  <2>1. /\ pc = "idle" /\ m_transaction_started /\ pc' = pc
        /\ m_transaction_started' = m_transaction_started
        /\ UNCHANGED jVars /\ UNCHANGED dbVars
        /\ m_size' = m_size + n /\ m_size + n <= NumBlocks
    BY <1>4 DEF Grow, Running, Quiet
  <2>2. \A b \in Blocks : View(b)' = View(b) BY <1>4, GrowMemory
  <2>3. Visible = [size |-> m_size, data |-> [b \in Blocks |-> View(b)]]
    BY <2>1, WorkingState
  <2>4. Visible' = [size |-> m_size', data |-> [b \in Blocks |-> View(b)']]
    BY <2>1, WorkingStateNext
  <2>5. Visible' = [Visible EXCEPT !.size = @ + n] /\ Visible.size + n <= NumBlocks
    BY <2>1, <2>2, <2>3, <2>4
  <2>6. Committed' = Committed /\ MayRecover' = MayRecover
    BY <2>1, SameFiles DEF jVars, dbVars
  <2>7. Promise!Grow(n) BY <2>1, <2>5, <2>6 DEF Promise!Grow, Committed, MayRecover
  <2>8. QED BY <2>7 DEF Promise!Next
<1>5. CASE Begin
  <2>1. /\ pc = "idle" /\ pc' = "idle" /\ ~m_transaction_started /\ m_transaction_started'
        /\ UNCHANGED jVars /\ UNCHANGED dbVars /\ UNCHANGED baseVars
        /\ UNCHANGED <<m_size, m_dbfile_size>>
    BY <1>5 DEF Begin, Quiet
  <2>2. Visible = Committed BY <1>i, <2>1, CleanView DEF EmptyHanded
  <2>3. Visible' = Visible
    BY <2>1 DEF Visible, DoRead, jVars, dbVars, baseVars
  <2>4. Committed' = Committed /\ MayRecover' = MayRecover
    BY <2>1, SameFiles DEF jVars, dbVars
  <2>5. Promise!Begin BY <2>1, <2>2, <2>3, <2>4 DEF Promise!Begin, Committed, MayRecover
  <2>6. QED BY <2>5 DEF Promise!Next
<1>6. CASE CommitReadOnly
  <2>1. /\ pc = "idle" /\ m_transaction_started /\ ~m_transaction_started'
        /\ m_dirty = {} /\ ~jActive /\ m_size = CommittedSize
        /\ UNCHANGED jVars /\ UNCHANGED dbVars
    BY <1>6 DEF CommitReadOnly, Running
  <2>2. m_size = DbSize
    <3>1. jSize = None => m_dbfile_size = dbFileSize
      BY <1>i, <2>1 DEF Inv, LogInv, LogCovers, SizeInv, J!Current
    <3>2. QED BY <2>1, <3>1 DEF CommittedSize, DbSize
  <2>3. Visible = Committed BY <2>1, <2>2, CleanView
  <2>4. Committed' = Committed /\ MayRecover' = MayRecover
    BY <2>1, SameFiles DEF jVars, dbVars
  <2>5. Promise!Commit BY <2>1, <2>3, <2>4 DEF Promise!Commit, Committed, MayRecover
  <2>6. QED BY <2>5 DEF Promise!Next
<1>7. CASE CommitLog
  <2>1. /\ pc = "idle" /\ pc' = "commit" /\ m_transaction_started
        /\ UNCHANGED dbVars /\ UNCHANGED engineVars /\ UNCHANGED <<jBlocks, jSize>>
    BY <1>7 DEF CommitLog, Running, J!WriteAllAndCommit
  <2>2. jDisk' = jDisk \cup {J!Merged(jWritten', m_size)}
    BY <1>7 DEF CommitLog, J!WriteAllAndCommit
  <2>3. Database(J!Merged(jWritten', m_size)) = Visible
    BY <1>7, <2>1, CommitLogMemory, LoggedState
  <2>4. Visible' = Visible BY <1>7, <2>1, CommitLogMemory, SameView DEF engineVars
  <2>5. Committed' = Committed BY <2>1 DEF Committed, Database, J!Current, dbVars
  <2>6. \A s : Database(s)' = Database(s) BY <2>1 DEF Database, dbVars
  <2>7. MayRecover' = MayRecover \cup {Visible}
    BY <2>2, <2>3, <2>6 DEF MayRecover
  <2>8. Promise!CommitStarts
    BY <2>1, <2>4, <2>5, <2>7 DEF Promise!CommitStarts, Committed, MayRecover, engineVars
  <2>9. QED BY <2>8 DEF Promise!Next
<1>8. CASE CommitSync
  <2>1. /\ pc = "commit" /\ pc' = "idle" /\ m_transaction_started /\ ~m_transaction_started'
        /\ UNCHANGED dbVars /\ m_size' = m_size /\ m_dirty = {}
    BY <1>i, <1>8 DEF CommitSync, EmptyHanded, CheckpointSteps
  <2>2. /\ jDisk' = {J!Merged(jWritten, m_size)}
        /\ J!Current' = J!Merged(jWritten, m_size)
    BY <1>8 DEF CommitSync, J!CommitDone, J!After, J!Adopt, J!Current, J!Merged
  <2>3. Database(J!Merged(jWritten, m_size)) = Visible BY <2>1, LoggedState
  <2>4. \A s : Database(s)' = Database(s) BY <2>1 DEF Database, dbVars
  <2>5. MayRecover' = {Visible} BY <2>2, <2>3, <2>4 DEF MayRecover
  <2>6. Committed' = Visible
    <3>1. MayRecover' = {Committed'} BY <2>2 DEF MayRecover, Committed
    <3>2. QED BY <2>5, <3>1
  <2>7. Promise!Commit
    BY <2>1, <2>5, <2>6 DEF Promise!Commit, Committed, MayRecover
  <2>8. QED BY <2>7 DEF Promise!Next
<1>9. CASE CommitFails
  <2>1. /\ pc = "commit" /\ pc' = "idle"
        /\ UNCHANGED jVars /\ UNCHANGED dbVars /\ UNCHANGED engineVars /\ UNCHANGED baseVars
    BY <1>9 DEF CommitFails
  <2>2. Visible' = Visible
    BY <2>1 DEF Visible, DoRead, jVars, dbVars, baseVars, engineVars
  <2>3. QED BY <1>q, <2>1, <2>2, SameFiles DEF jVars, dbVars, engineVars
<1>10. CASE Rollback
  <2>1. /\ m_transaction_started /\ ~m_transaction_started' /\ UNCHANGED dbVars
        /\ UNCHANGED <<jBlocks, jSize, jDisk>>
    BY <1>10 DEF Rollback, J!Abort, jVars
  <2>2. Committed' = Committed /\ MayRecover' = MayRecover
    BY <2>1, SameFiles DEF dbVars
  <2>3. Working' = Committed BY <2>1, <2>2 DEF Working, Committed
  <2>4. m_transaction_started' = FALSE BY <1>10 DEF Rollback
  <2>5. Promise!Rollback
    BY <2>1, <2>2, <2>3, <2>4 DEF Promise!Rollback, Committed, MayRecover, Working
  <2>6. QED BY <2>5 DEF Promise!Next
<1>11. CASE CheckpointSync
  <2>1. /\ ~m_transaction_started /\ jDisk' = {J!Current} /\ UNCHANGED <<jBlocks, jSize>>
        /\ UNCHANGED dbVars /\ UNCHANGED engineVars
    BY <1>11 DEF CheckpointSync, J!Sync
  <2>2. Committed' = Committed BY <2>1 DEF Committed, Database, J!Current, dbVars
  <2>3. \A s : Database(s)' = Database(s) BY <2>1 DEF Database, dbVars
  <2>4. MayRecover' = {Committed} BY <2>1, <2>3 DEF MayRecover, Committed
  <2>5. Promise!Settle
    BY <2>1, <2>2, <2>4 DEF Promise!Settle, Committed, MayRecover, engineVars
  <2>6. QED BY <2>5 DEF Promise!Next
<1>12. CASE CheckpointCopy \/ \E j \in Blocks, v \in Values : CheckpointCopyFails(j, v)
  <2>1. /\ pc = "copy" /\ UNCHANGED jVars /\ UNCHANGED engineVars
    BY <1>12 DEF CheckpointCopy, CheckpointCopyFails, Step
  <2>2. jSize # None /\ jDisk = {J!Current} /\ ~m_transaction_started
    BY <1>i, <2>1 DEF CheckpointSteps
  <2>3. DbSize' = DbSize BY <2>1, <2>2 DEF DbSize, jVars
  <2>4. Committed' = Committed BY <1>12, <2>3, CopyMemory, SameStored
  <2>5. jDisk' = {J!Current'} BY <2>1, <2>2 DEF jVars, J!Current
  <2>6. MayRecover = {Committed} /\ MayRecover' = {Committed'}
    BY <2>2, <2>5 DEF MayRecover, Committed
  <2>7. QED BY <1>q, <2>1, <2>2, <2>4, <2>6 DEF engineVars
<1>13. CASE CheckpointDbSync \/ CheckpointDbSyncFails \/ CheckpointShrinkFails
  <2>1. /\ pc \in {"copied", "shrunk"} /\ UNCHANGED jVars /\ UNCHANGED engineVars
        /\ UNCHANGED <<dbFile, dbFileSize>>
    BY <1>13 DEF CheckpointDbSync, CheckpointDbSyncFails, CheckpointShrinkFails, Step, dbVars
  <2>2. ~m_transaction_started BY <1>i, <2>1 DEF CheckpointSteps
  <2>3. QED BY <1>q, <2>1, <2>2, SameFiles DEF jVars, engineVars
<1>14. CASE CheckpointShrink
  <2>1. /\ pc = "synced" /\ jDisk = {J!Current} /\ jDisk' = {J!Current, J!Empty}
        /\ J!Current' = J!Empty /\ jSize' = None
        /\ UNCHANGED dbVars /\ UNCHANGED engineVars
    BY <1>14 DEF CheckpointShrink, Step, J!Shrink, J!Adopt, J!Empty, J!Current
  <2>2. ~m_transaction_started /\ jSize # None /\ dbFileSize = jSize
    BY <1>i, <2>1 DEF CheckpointSteps, Inv, SizeInv
  <2>3. DbSize' = DbSize BY <2>1, <2>2 DEF DbSize, dbVars
  <2>4. Committed' = Committed BY <1>14, <2>3, ShrinkMemory, SameStored
  <2>5. \A s : Database(s)' = Database(s) BY <2>1 DEF Database, dbVars
  <2>6. MayRecover = {Committed} BY <2>1 DEF MayRecover, Committed
  <2>7. Database(J!Empty)' = Committed'
    <3>1. J!Empty' = J!Empty BY DEF J!Empty, J!NoBlocks
    <3>2. Committed' = Database(J!Empty) BY <2>1, <2>5 DEF Committed
    <3>3. QED BY <2>5, <3>1, <3>2
  <2>8. MayRecover' = {Database(J!Current), Database(J!Empty)}
    BY <2>1, <2>5 DEF MayRecover
  <2>9. MayRecover' = MayRecover
    <3>1. Database(J!Empty) = Committed' BY <2>1, <2>5 DEF Committed
    <3>2. QED BY <2>4, <2>6, <2>8, <3>1 DEF Committed
  <2>10. QED BY <1>q, <2>1, <2>2, <2>4, <2>9 DEF engineVars
<1>15. CASE CheckpointDone
  <2>1. /\ pc = "shrunk" /\ J!Current = J!Empty /\ jDisk' = {J!Current}
        /\ UNCHANGED <<jBlocks, jSize>> /\ UNCHANGED dbVars
        /\ m_transaction_started' = m_transaction_started
    BY <1>15 DEF CheckpointDone, Step, J!Forget
  <2>2. ~m_transaction_started BY <1>i, <2>1 DEF CheckpointSteps
  <2>3. Committed' = Committed BY <2>1 DEF Committed, Database, J!Current, dbVars
  <2>4. ASSUME NEW s \in jDisk PROVE Database(s) = Database(J!Empty)
    <3>1. /\ s.size \in {None, dbFileSize}
          /\ \A b \in Blocks : s.blocks[b] # None => dbFile[b] = s.blocks[b]
      BY <2>1 DEF Inv, DataInv, CopiedInv
    <3>2. QED BY <3>1 DEF Database, J!Empty, J!NoBlocks
  <2>5. MayRecover = {Committed}
    BY <1>i, <2>1, <2>4 DEF MayRecover, Committed
  <2>6. \A s : Database(s)' = Database(s) BY <2>1 DEF Database, dbVars
  <2>7. MayRecover' = {Committed} BY <2>1, <2>6 DEF MayRecover, Committed
  <2>8. QED BY <1>q, <2>1, <2>2, <2>3, <2>5, <2>7
<1>16. CASE Restart
  <2>1. PICK s \in jDisk : J!Adopt(s) /\ jDisk' = {s} BY <1>16 DEF Restart, J!Restore
  <2>2. ~m_transaction_started' BY <1>16 DEF Restart
  <2>3. J!Current' = s
    BY <2>1 DEF J!Adopt, J!Current, Inv, CacheInv, TypeOK, LogTypeOK, LogStates
  <2>4. Database(s)' = Database(s) BY <1>16, RestartedState
  <2>5. Committed' = Database(s) /\ MayRecover' = {Database(s)}
    BY <2>1, <2>3, <2>4 DEF Committed, MayRecover
  <2>6. Database(s) \in MayRecover BY DEF MayRecover
  <2>7. Promise!Restart
    BY <2>2, <2>5, <2>6 DEF Promise!Restart, Committed, MayRecover
  <2>8. QED BY <2>7 DEF Promise!Next
<1>17. CASE UNCHANGED vars
  <2>1. Visible' = Visible BY <1>17 DEF vars, Visible, DoRead
  <2>2. QED BY <1>q, <1>17, <2>1, SameFiles DEF vars
<1>18. QED
  BY <1>1, <1>2, <1>3, <1>4, <1>5, <1>6, <1>7, <1>8, <1>9, <1>10, <1>11, <1>12, <1>13, <1>14,
     <1>15, <1>16, <1>17
  DEF Next, ReadingStep, WritingStep

\* A database that was just opened.
LEMMA RefinementInit ==
  ASSUME Init
  PROVE  Inv /\ Promise!Init
<1>1. CacheInv /\ LogInv /\ SizeInv BY InvInit
<1>2. DataInv
  BY DEF Init, BaseInit, J!Init, J!NoBlocks, DataInv, FileInv, CopiedInv, MemoryInv, MemoryOK,
     EmptyHanded
<1>3. Inv BY <1>1, <1>2 DEF Inv
<1>4. Committed = [size |-> DbSize, data |-> [b \in Blocks |-> Stored(b)]]
  BY <1>3, CommittedState DEF Committed
<1>5. DbSize \in 0 .. NumBlocks BY DEF Init, J!Init, DbSize, Sizes
<1>6. \A b \in Blocks : Stored(b) \in Values
  BY <1>3, Types DEF Stored, LogContents
<1>7. Committed \in Promise!States BY <1>4, <1>5, <1>6 DEF Promise!States
<1>8. jDisk = {J!Current} /\ ~m_transaction_started
  BY DEF Init, J!Init, J!Current, J!Empty
<1>9. Promise!Init BY <1>7, <1>8 DEF Promise!Init, Committed
<1>10. QED BY <1>3, <1>9

\* transaction_engine is a transactional store: transactions are atomic and
\* isolated, commits that returned are durable, interrupted ones survive as a
\* whole or not at all, whatever fails and whenever the process dies.
THEOREM EngineIsTransactionalStore ==
  ASSUME ~ReadOnly, ~GrowOnlyCommits
  PROVE  Spec => ImplementsTransactionalStore
<1>1. Init => Inv /\ Promise!Init BY RefinementInit
<1>2. Inv /\ [Next]_vars => Inv' BY InvStep
<1>3. Inv /\ Inv' /\ [Next]_vars => [Promise!Next]_(Promise!storeVars) BY RefinementStep
<1>4. QED BY <1>1, <1>2, <1>3, PTL DEF Spec, ImplementsTransactionalStore, Promise!Spec
=============================================================================
