------------------------- MODULE TransactionEngine -------------------------
(***************************************************************************)
(* transaction_engine: the block cache of EngineBase over a database file  *)
(* and a journal.  The journal is the RedoLog that Journal implements.     *)
(* Commit and checkpoint are split at their I/O operations, so that the    *)
(* process can die between any two of them.                                *)
(*                                                                         *)
(* After a power loss a block of the database file that was written but    *)
(* not synced holds anything, and the file has one of the sizes it had     *)
(* since the last sync.                                                    *)
(***************************************************************************)
EXTENDS EngineBase

CONSTANTS
  None, Torn,          \* see RedoLog
  GrowOnlyCommits,     \* a transaction may grow the database, write nothing and commit
  MaxErrors            \* bound: I/O calls that fail

ASSUME TransactionAssumption ==
  /\ None \notin Values
  /\ None \notin 0 .. NumBlocks
  /\ Torn \notin Values
  /\ None # Torn
  /\ GrowOnlyCommits \in BOOLEAN
  /\ MaxErrors \in Nat

VARIABLES
  jBlocks, jSize, jWritten, jActive, jDisk,   \* the journal
  dbFile,                  \* contents of the database file, zero past its end
  dbFileSize,              \* its size in blocks
  dbUnsynced,              \* blocks written since the last sync
  dbSizes,                 \* sizes it may have after a power loss
  m_dbfile_size,
  m_size,
  m_transaction_started,
  m_pinned_blocks,
  pc,                      \* step of the running commit or checkpoint
  doomed,                  \* an I/O error hit this transaction: "no", "write" or "commit"
  errors

jVars == <<jBlocks, jSize, jWritten, jActive, jDisk>>
dbVars == <<dbFile, dbFileSize, dbUnsynced, dbSizes>>
engineVars == <<m_dbfile_size, m_size, m_transaction_started, m_pinned_blocks>>
vars == <<m_blocks, m_data, m_pinned, m_dirty, m_cache, m_pool, m_refs,
          jBlocks, jSize, jWritten, jActive, jDisk,
          dbFile, dbFileSize, dbUnsynced, dbSizes,
          m_dbfile_size, m_size, m_transaction_started, m_pinned_blocks,
          pc, doomed, errors>>

Sizes == 0 .. NumBlocks

J == INSTANCE RedoLog WITH jSync <- TRUE

Init ==
  /\ BaseInit
  /\ J!Init
  /\ dbFileSize \in Sizes
  /\ dbFile \in [Blocks -> Values]
  /\ \A b \in Blocks : b >= dbFileSize => dbFile[b] = Zero
  /\ dbUnsynced = {}
  /\ dbSizes = {dbFileSize}
  /\ m_dbfile_size = dbFileSize
  /\ m_size = dbFileSize
  /\ m_transaction_started = FALSE
  /\ m_pinned_blocks = 0
  /\ pc = "idle"
  /\ doomed = "no"
  /\ errors = 0

-----------------------------------------------------------------------------
(* do_read and do_write.                                                   *)

DoRead(i) ==
  IF jActive /\ jWritten[i] # None THEN jWritten[i]
  ELSE IF jBlocks[i] # None THEN jBlocks[i]
  ELSE IF i < m_dbfile_size THEN dbFile[i] ELSE Zero

DoWrite(S) == J!WriteAll(S, m_data)

IOError == errors < MaxErrors /\ errors' = errors + 1

\* The journal accepts the blocks of S, then fails on block j.
DoWriteFails(S, j) ==
  /\ IOError
  /\ J!WriteAllFails(S, j, m_data)
  /\ doomed' = "write"

-----------------------------------------------------------------------------
(* Blocks, inside a transaction.                                           *)

Running == pc = "idle" /\ m_transaction_started /\ doomed # "commit"

\* pin() of transaction_engine before it calls the one of engine_base.
MayPin(i) == Running /\ i < m_size

\* The engine's own pin counter follows engine_base's pinned flags.
CountPins(n) ==
  /\ m_pinned_blocks' = m_pinned_blocks + n
  /\ UNCHANGED <<m_dbfile_size, m_size, m_transaction_started>>

Quiet == UNCHANGED <<pc, doomed, errors>>

ReadReferenced(i) ==
  Running /\ CopyHandle(i) /\ Quiet /\ UNCHANGED jVars /\ UNCHANGED dbVars /\ UNCHANGED engineVars

ReadCached(i) ==
  MayPin(i) /\ ReadHit(i) /\ CountPins(1) /\ Quiet /\ UNCHANGED jVars /\ UNCHANGED dbVars

\* The read follows the evictions, but no block is both evicted and read.
ReadFromDisk(i) ==
  /\ MayPin(i)
  /\ ReadMiss(i, DoRead(i))
  /\ DoWrite(Victims(EvictCount) \cap m_dirty)
  /\ CountPins(1)
  /\ Quiet
  /\ UNCHANGED dbVars

\* Seeded fault: the pin counter is incremented before engine_base::pin throws.
ReadFailsCounted(i) ==
  /\ MayPin(i)
  /\ i < m_dbfile_size \/ jBlocks[i] # None \/ jWritten[i] # None
  /\ MissReadFails(i)
  /\ DoWrite(Victims(EvictCount) \cap m_dirty)
  /\ IOError
  /\ CountPins(1)
  /\ UNCHANGED <<pc, doomed>>
  /\ UNCHANGED dbVars

ReadFails(i) ==
  /\ MayPin(i)
  /\ i < m_dbfile_size \/ jBlocks[i] # None \/ jWritten[i] # None
  /\ MissReadFails(i)
  /\ DoWrite(Victims(EvictCount) \cap m_dirty)
  /\ IOError
  /\ UNCHANGED <<pc, doomed>>
  /\ UNCHANGED engineVars
  /\ UNCHANGED dbVars

EvictionFails(i, n) ==
  /\ MayPin(i)
  /\ MissEvictFails(i, n)
  /\ DoWriteFails(Victims(n) \cap m_dirty, m_cache[Len(m_cache) - n])
  /\ UNCHANGED pc
  /\ UNCHANGED engineVars
  /\ UNCHANGED dbVars

OverwriteReferenced(i, v) ==
  /\ Running
  /\ OverwriteHandle(i, v)
  /\ Quiet /\ UNCHANGED jVars /\ UNCHANGED dbVars /\ UNCHANGED engineVars

OverwriteCached(i, v) ==
  /\ MayPin(i)
  /\ OverwriteHit(i, v)
  /\ CountPins(IF ReadOnly THEN 0 ELSE 1)
  /\ Quiet /\ UNCHANGED jVars /\ UNCHANGED dbVars

OverwriteNew(i, v) ==
  /\ MayPin(i)
  /\ OverwriteMiss(i, v)
  /\ DoWrite(Victims(EvictCount) \cap m_dirty)
  /\ CountPins(IF ReadOnly THEN 0 ELSE 1)
  /\ Quiet /\ UNCHANGED dbVars

Store(i, v) ==
  /\ Running
  /\ Modify(i, v)
  /\ Quiet /\ UNCHANGED jVars /\ UNCHANGED dbVars /\ UNCHANGED engineVars

Drop(i) ==
  /\ Release(i)
  /\ CountPins(IF m_refs[i] = 1 THEN 0 - 1 ELSE 0)
  /\ Quiet /\ UNCHANGED jVars /\ UNCHANGED dbVars

FlushBlock(i) ==
  /\ Running
  /\ m_refs[i] > 0
  /\ i \in m_dirty
  /\ MarkClean({i})
  /\ DoWrite({i})
  /\ Quiet /\ UNCHANGED dbVars /\ UNCHANGED engineVars

FlushAll ==
  /\ Running
  /\ m_dirty # {}
  /\ MarkClean(m_dirty)
  /\ DoWrite(m_dirty)
  /\ Quiet /\ UNCHANGED dbVars /\ UNCHANGED engineVars

\* flush(), called by the user or by commit(), stops at block j.
FlushFails(j) ==
  /\ Running
  /\ j \in m_dirty
  /\ MarkClean({ b \in m_dirty : b < j })
  /\ DoWriteFails({ b \in m_dirty : b < j }, j)
  /\ UNCHANGED pc
  /\ UNCHANGED dbVars /\ UNCHANGED engineVars

Grow(n) ==
  /\ Running
  /\ m_size + n <= NumBlocks
  /\ m_size' = m_size + n
  /\ UNCHANGED <<m_dbfile_size, m_transaction_started, m_pinned_blocks>>
  /\ Quiet /\ UNCHANGED jVars /\ UNCHANGED dbVars /\ UNCHANGED baseVars

-----------------------------------------------------------------------------
(* begin, commit, rollback.                                                *)

CommittedSize == IF jSize # None THEN jSize ELSE m_dbfile_size

Begin ==
  /\ pc = "idle"
  /\ ~m_transaction_started
  /\ m_transaction_started' = TRUE
  /\ UNCHANGED <<m_dbfile_size, m_size, m_pinned_blocks>>
  /\ Quiet /\ UNCHANGED jVars /\ UNCHANGED dbVars /\ UNCHANGED baseVars

\* A transaction that never reached the journal just ends.
CommitReadOnly ==
  /\ Running
  /\ m_pinned_blocks = 0
  /\ m_dirty = {}
  /\ ~jActive
  /\ m_size = CommittedSize \/ GrowOnlyCommits
  /\ m_transaction_started' = FALSE
  /\ UNCHANGED <<m_dbfile_size, m_size, m_pinned_blocks>>
  /\ doomed' = "no"
  /\ UNCHANGED <<pc, errors>>
  /\ UNCHANGED jVars /\ UNCHANGED dbVars /\ UNCHANGED baseVars

\* commit() flushes the dirty blocks into the journal and appends the commit
\* record (if the flush fails: FlushFails) ...
CommitLog ==
  /\ Running
  /\ doomed = "no"
  /\ m_pinned_blocks = 0
  /\ MarkClean(m_dirty)
  /\ J!WriteAllAndCommit(m_dirty, m_data, m_size)
  /\ pc' = "commit"
  /\ UNCHANGED <<doomed, errors>>
  /\ UNCHANGED dbVars /\ UNCHANGED engineVars

\* ... and returns once the log is synced.
CommitSync ==
  /\ pc = "commit"
  /\ J!CommitDone(m_size)
  /\ m_transaction_started' = FALSE
  /\ pc' = "idle"
  /\ UNCHANGED <<m_dbfile_size, m_size, m_pinned_blocks, doomed, errors>>
  /\ UNCHANGED dbVars /\ UNCHANGED baseVars

CommitFails ==
  /\ pc = "commit"
  /\ IOError
  /\ pc' = "idle"
  /\ doomed' = "commit"
  /\ UNCHANGED jVars /\ UNCHANGED dbVars /\ UNCHANGED engineVars /\ UNCHANGED baseVars

\* Seeded fault: discarded blocks stay in the LRU list.
DiscardKeepsCached(S) ==
  /\ m_blocks' = m_blocks \ S
  /\ m_data' = [b \in Blocks |-> IF b \in S THEN Zero ELSE m_data[b]]
  /\ m_dirty' = m_dirty \ S
  /\ m_pool' = PoolAfterFree(m_pool, Cardinality(m_blocks), Cardinality(S))
  /\ UNCHANGED <<m_pinned, m_refs, m_cache>>

\* The list s without the members of S, in order.
Without(s, S) ==
  LET kept    == { p \in DOMAIN s : s[p] \notin S }
      Rank(p) == Cardinality({ q \in kept : q <= p })
  IN  [k \in 1 .. Cardinality(kept) |-> s[CHOOSE p \in kept : Rank(p) = k]]

\* discard_dirty() and discard() of every block in the journal's transaction.
Discard(S) ==
  /\ m_blocks' = m_blocks \ S
  /\ m_data' = [b \in Blocks |-> IF b \in S THEN Zero ELSE m_data[b]]
  /\ m_dirty' = m_dirty \ S
  /\ m_cache' = Without(m_cache, S)
  /\ m_pool' = PoolAfterFree(m_pool, Cardinality(m_blocks), Cardinality(S))
  /\ UNCHANGED <<m_pinned, m_refs>>

\* Seeded faults: the blocks that were already flushed into the journal stay in
\* the cache; the size stays as the transaction has grown it.
RollbackDirtyOnly ==
  /\ pc = "idle"
  /\ m_transaction_started
  /\ m_pinned_blocks = 0
  /\ Discard(m_dirty)
  /\ IF jActive THEN J!Abort ELSE UNCHANGED jVars
  /\ m_size' = CommittedSize
  /\ m_transaction_started' = FALSE
  /\ doomed' = "no"
  /\ UNCHANGED <<m_dbfile_size, m_pinned_blocks, pc, errors>>
  /\ UNCHANGED dbVars

RollbackKeepsSize ==
  /\ pc = "idle"
  /\ m_transaction_started
  /\ m_pinned_blocks = 0
  /\ Discard(m_blocks \cap (m_dirty \cup { b \in Blocks : jActive /\ jWritten[b] # None }))
  /\ IF jActive THEN J!Abort ELSE UNCHANGED jVars
  /\ m_transaction_started' = FALSE
  /\ doomed' = "no"
  /\ UNCHANGED <<m_dbfile_size, m_size, m_pinned_blocks, pc, errors>>
  /\ UNCHANGED dbVars

Rollback ==
  /\ pc = "idle"
  /\ m_transaction_started
  /\ m_pinned_blocks = 0
  /\ Discard(m_blocks \cap (m_dirty \cup { b \in Blocks : jActive /\ jWritten[b] # None }))
  /\ IF jActive THEN J!Abort ELSE UNCHANGED jVars
  /\ m_size' = CommittedSize
  /\ m_transaction_started' = FALSE
  /\ doomed' = "no"
  /\ UNCHANGED <<m_dbfile_size, m_pinned_blocks, pc, errors>>
  /\ UNCHANGED dbVars

-----------------------------------------------------------------------------
(* checkpoint                                                              *)

Step(from, to) == pc = from /\ pc' = to

\* The log is synced, so that everything committed can be redone.
CheckpointSync ==
  /\ Step("idle", "copy")
  /\ ~m_transaction_started
  /\ J!Sync
  /\ UNCHANGED <<doomed, errors>>
  /\ UNCHANGED dbVars /\ UNCHANGED engineVars /\ UNCHANGED baseVars

\* The database file gets its new size and the blocks of S.
CopyBlocks(S) ==
  /\ dbFileSize' = jSize
  /\ dbFile' = [b \in Blocks |-> IF b >= jSize THEN Zero
                                 ELSE IF b \in S THEN jBlocks[b] ELSE dbFile[b]]
  /\ dbUnsynced' = dbUnsynced \cup S
  /\ dbSizes' = dbSizes \cup {jSize}

CheckpointCopy ==
  /\ Step("copy", "copied")
  /\ CopyBlocks({ b \in Blocks : jBlocks[b] # None })
  /\ UNCHANGED <<doomed, errors>>
  /\ UNCHANGED jVars /\ UNCHANGED engineVars /\ UNCHANGED baseVars

\* Blocks are copied in order; block j fails and is left with any content.
CheckpointCopyFails(j, v) ==
  LET S == { b \in Blocks : b < j /\ jBlocks[b] # None }
  IN  /\ Step("copy", "idle")
      /\ IOError
      /\ jBlocks[j] # None
      /\ dbFileSize' = jSize
      /\ dbFile' = [b \in Blocks |-> IF b >= jSize THEN Zero
                                     ELSE IF b \in S THEN jBlocks[b]
                                     ELSE IF b = j THEN v ELSE dbFile[b]]
      /\ dbUnsynced' = dbUnsynced \cup S \cup {j}
      /\ dbSizes' = dbSizes \cup {jSize}
      /\ UNCHANGED doomed
      /\ UNCHANGED jVars /\ UNCHANGED engineVars /\ UNCHANGED baseVars

\* Seeded fault: the log is truncated without a sync of the database file.
CheckpointNoDbSync ==
  /\ Step("copied", "synced")
  /\ UNCHANGED <<doomed, errors>>
  /\ UNCHANGED dbVars
  /\ UNCHANGED jVars /\ UNCHANGED engineVars /\ UNCHANGED baseVars

CheckpointDbSync ==
  /\ Step("copied", "synced")
  /\ dbUnsynced' = {}
  /\ dbSizes' = {dbFileSize}
  /\ UNCHANGED <<dbFile, dbFileSize, doomed, errors>>
  /\ UNCHANGED jVars /\ UNCHANGED engineVars /\ UNCHANGED baseVars

CheckpointDbSyncFails ==
  /\ Step("copied", "idle")
  /\ IOError
  /\ UNCHANGED doomed
  /\ UNCHANGED jVars /\ UNCHANGED dbVars /\ UNCHANGED engineVars /\ UNCHANGED baseVars

CheckpointShrink ==
  /\ Step("synced", "shrunk")
  /\ J!Shrink
  /\ UNCHANGED <<doomed, errors>>
  /\ UNCHANGED dbVars /\ UNCHANGED engineVars /\ UNCHANGED baseVars

CheckpointDone ==
  /\ Step("shrunk", "idle")
  /\ J!Forget
  /\ m_dbfile_size' = m_size
  /\ UNCHANGED <<m_size, m_transaction_started, m_pinned_blocks, doomed, errors>>
  /\ UNCHANGED dbVars /\ UNCHANGED baseVars

\* The journal's index is stale now: the engine must be closed.
CheckpointShrinkFails ==
  /\ Step("shrunk", "closed")
  /\ IOError
  /\ UNCHANGED doomed
  /\ UNCHANGED jVars /\ UNCHANGED dbVars /\ UNCHANGED engineVars /\ UNCHANGED baseVars

-----------------------------------------------------------------------------

\* The process dies, at any point, and a new engine opens the two files.
Restart ==
  /\ J!Restore
  /\ dbFileSize' \in dbSizes
  /\ \E f \in [dbUnsynced -> Values] :
       dbFile' = [b \in Blocks |-> IF b >= dbFileSize' THEN Zero
                                   ELSE IF b \in dbUnsynced THEN f[b] ELSE dbFile[b]]
  /\ dbUnsynced' = {}
  /\ dbSizes' = {dbFileSize'}
  /\ m_dbfile_size' = dbFileSize'
  /\ m_size' = IF jSize' # None THEN jSize' ELSE dbFileSize'
  /\ m_transaction_started' = FALSE
  /\ m_pinned_blocks' = 0
  /\ m_blocks' = {}
  /\ m_data' = [b \in Blocks |-> Zero]
  /\ m_pinned' = {}
  /\ m_dirty' = {}
  /\ m_cache' = << >>
  /\ m_pool' = 0
  /\ m_refs' = [b \in Blocks |-> 0]
  /\ pc' = "idle"
  /\ doomed' = "no"
  /\ UNCHANGED errors

Next ==
  \/ \E i \in Blocks : ReadReferenced(i) \/ ReadCached(i) \/ ReadFromDisk(i) \/ ReadFails(i)
  \/ \E i \in Blocks, n \in 0 .. NumBlocks : EvictionFails(i, n)
  \/ \E i \in Blocks, v \in Values :
       OverwriteReferenced(i, v) \/ OverwriteCached(i, v) \/ OverwriteNew(i, v) \/ Store(i, v)
  \/ \E i \in Blocks : Drop(i) \/ FlushBlock(i) \/ FlushFails(i)
  \/ FlushAll
  \/ \E n \in 1 .. NumBlocks : Grow(n)
  \/ Begin \/ CommitReadOnly \/ CommitLog \/ CommitSync \/ CommitFails \/ Rollback
  \/ CheckpointSync \/ CheckpointCopy
  \/ \E j \in Blocks, v \in Values : CheckpointCopyFails(j, v)
  \/ CheckpointDbSync \/ CheckpointDbSyncFails
  \/ CheckpointShrink \/ CheckpointDone \/ CheckpointShrinkFails
  \/ Restart

Spec == Init /\ [][Next]_vars

-----------------------------------------------------------------------------
(* Properties                                                              *)

\* The database that journal state s and the database file make up.
Database(s) ==
  LET n == IF s.size # None THEN s.size ELSE dbFileSize
  IN  [size |-> n,
       data |-> [b \in Blocks |-> IF b >= n THEN Zero
                                  ELSE IF s.blocks[b] # None THEN s.blocks[b] ELSE dbFile[b]]]

\* What a transaction sees: memory, then the journal, then the database file.
Visible ==
  [size |-> m_size,
   data |-> [b \in Blocks |-> IF b >= m_size THEN Zero
                              ELSE IF b \in m_blocks THEN m_data[b] ELSE DoRead(b)]]

\* transaction_engine as a transactional store: transactions are atomic and
\* isolated, a commit that returned survives every crash, an interrupted one
\* survives completely or not at all, a rolled back one leaves no trace in the
\* cache, and blocks that grow() adds read as zero.
Promise == INSTANCE TransactionalStore WITH
  MaxSize    <- NumBlocks,
  committed  <- Database(J!Current),
  working    <- IF m_transaction_started THEN Visible ELSE Database(J!Current),
  inTx       <- m_transaction_started,
  mayRecover <- { Database(s) : s \in jDisk }

ImplementsTransactionalStore == Promise!Spec

\* pin() and unpin() count every pinned block once, on error paths too: commit
\* and rollback rely on the counter to know that no handle is alive.
PinCounterExact == m_pinned_blocks = Cardinality(m_pinned)

\* checkpoint(): PREQUEL_ASSERT(journal size == m_size, "Database size is
\* consistent with journal.").
SizeConsistentWithJournal ==
  pc = "idle" /\ ~m_transaction_started /\ jSize # None => jSize = m_size

\* Write-ahead rule: a block of the database file that may be damaged by a power
\* loss can be redone from every journal that power loss may leave.
UnsyncedBlocksAreLogged ==
  \A s \in jDisk : \A b \in dbUnsynced : s.size # None /\ (s.blocks[b] # None \/ b >= s.size)
=============================================================================
