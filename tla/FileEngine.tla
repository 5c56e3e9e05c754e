---------------------------- MODULE FileEngine ----------------------------
(***************************************************************************)
(* file_engine: the block cache of EngineBase over one file.  do_read and  *)
(* do_write go to the file directly, either may fail, and a failed write   *)
(* may have replaced part of the block on disk.                            *)
(***************************************************************************)
EXTENDS EngineBase

VARIABLES
  file,       \* block contents as the operating system returns them
  fileSize,   \* size of the file in blocks
  app         \* history: what the application last stored in each block

fileVars == <<file, fileSize>>

vars == <<m_blocks, m_data, m_pinned, m_dirty, m_cache, m_pool, m_refs,
          file, fileSize, app>>

TypeOK ==
  /\ BaseTypeOK
  /\ file \in [Blocks -> Values]
  /\ fileSize \in 0 .. NumBlocks
  /\ app \in [Blocks -> Values]

Init ==
  /\ BaseInit
  /\ fileSize \in 0 .. NumBlocks
  /\ file \in [Blocks -> Values]
  /\ \A b \in Blocks : b >= fileSize => file[b] = Zero
  /\ app = file

-----------------------------------------------------------------------------
(* do_write for all blocks of S.  A write past the end extends the file.   *)

SizeAfter(S) == Cardinality({ b \in Blocks : b < fileSize \/ \E c \in S : b <= c })

DoWrite(S) ==
  /\ file' = [b \in Blocks |-> IF b \in S THEN m_data[b] ELSE file[b]]
  /\ fileSize' = SizeAfter(S)

\* The blocks of S are written, then writing block j fails half way.
DoWriteFails(S, j) ==
  /\ \E v \in Values :
       file' = [b \in Blocks |-> IF b \in S THEN m_data[b]
                                 ELSE IF b = j THEN v ELSE file[b]]
  /\ fileSize' = SizeAfter(S)

-----------------------------------------------------------------------------
(* engine::read                                                            *)

ReadReferenced(i) == CopyHandle(i) /\ UNCHANGED <<file, fileSize, app>>

ReadCached(i) == ReadHit(i) /\ UNCHANGED <<file, fileSize, app>>

ReadFromFile(i) ==
  /\ ReadMiss(i, file[i])
  /\ DoWrite(Victims(EvictCount) \cap m_dirty)
  /\ i < fileSize'
  /\ UNCHANGED app

\* A read that fails: an I/O error, or a block past the end of the file.
ReadFails(i) ==
  /\ MissReadFails(i)
  /\ DoWrite(Victims(EvictCount) \cap m_dirty)
  /\ UNCHANGED app

\* A cache miss whose eviction cannot write a dirty block back.
EvictionFails(i, n) ==
  /\ MissEvictFails(i, n)
  /\ DoWriteFails(Victims(n) \cap m_dirty, m_cache[Len(m_cache) - n])
  /\ UNCHANGED app

(* engine::overwrite, engine::overwrite_zero and stores through a handle.  *)
(* app changes when the call succeeds.                                     *)

Stored(i, v) == app' = IF ReadOnly THEN app ELSE [app EXCEPT ![i] = v]

OverwriteReferenced(i, v) == OverwriteHandle(i, v) /\ Stored(i, v) /\ UNCHANGED fileVars

OverwriteCached(i, v) == OverwriteHit(i, v) /\ Stored(i, v) /\ UNCHANGED fileVars

OverwriteNew(i, v) ==
  /\ OverwriteMiss(i, v)
  /\ DoWrite(Victims(EvictCount) \cap m_dirty)
  /\ Stored(i, v)

Store(i, v) == Modify(i, v) /\ Stored(i, v) /\ UNCHANGED fileVars

Drop(i) == Release(i) /\ UNCHANGED <<file, fileSize, app>>

(* Flushing one block, flushing all of them in index order, growing.       *)

FlushBlock(i) ==
  /\ m_refs[i] > 0
  /\ i \in m_dirty
  /\ MarkClean({i})
  /\ DoWrite({i})
  /\ UNCHANGED app

FlushAll ==
  /\ m_dirty # {}
  /\ MarkClean(m_dirty)
  /\ DoWrite(m_dirty)
  /\ UNCHANGED app

\* Seeded fault: the dirty flag is cleared before the write.
FlushFailsClean(j) ==
  /\ j \in m_dirty
  /\ MarkClean({ b \in m_dirty : b <= j })
  /\ DoWriteFails({ b \in m_dirty : b < j }, j)
  /\ UNCHANGED app

\* flush() stops at the first block it cannot write.
FlushFails(j) ==
  /\ j \in m_dirty
  /\ MarkClean({ b \in m_dirty : b < j })
  /\ DoWriteFails({ b \in m_dirty : b < j }, j)
  /\ UNCHANGED app

FlushBlockFails(i) ==
  /\ m_refs[i] > 0
  /\ i \in m_dirty
  /\ DoWriteFails({}, i)
  /\ UNCHANGED app
  /\ UNCHANGED baseVars

Grow(n) ==
  /\ fileSize + n <= NumBlocks
  /\ fileSize' = fileSize + n
  /\ UNCHANGED <<file, app>>
  /\ UNCHANGED baseVars

\* The engine is destroyed (all handles are gone by then) and another one is
\* opened on the file.  The destructor flushes and swallows errors: only if
\* the flush fails may the file differ from what the application stored.
Reset ==
  /\ m_blocks' = {}
  /\ m_data' = [b \in Blocks |-> Zero]
  /\ m_dirty' = {}
  /\ m_cache' = << >>
  /\ m_pool' = 0
  /\ UNCHANGED <<m_pinned, m_refs>>

Close ==
  /\ m_blocks # {}
  /\ \A b \in Blocks : m_refs[b] = 0
  /\ Reset
  /\ DoWrite(m_dirty)
  /\ UNCHANGED app

CloseFails(j) ==
  /\ j \in m_dirty
  /\ \A b \in Blocks : m_refs[b] = 0
  /\ Reset
  /\ DoWriteFails({ b \in m_dirty : b < j }, j)
  /\ app' = file'

Next ==
  \/ \E i \in Blocks : ReadReferenced(i) \/ ReadCached(i) \/ ReadFromFile(i) \/ ReadFails(i)
  \/ \E i \in Blocks, n \in 0 .. NumBlocks : EvictionFails(i, n)
  \/ \E i \in Blocks, v \in Values :
       OverwriteReferenced(i, v) \/ OverwriteCached(i, v) \/ OverwriteNew(i, v) \/ Store(i, v)
  \/ \E i \in Blocks : Drop(i) \/ FlushBlock(i) \/ FlushBlockFails(i) \/ FlushFails(i) \/ CloseFails(i)
  \/ FlushAll
  \/ \E n \in 1 .. NumBlocks : Grow(n)
  \/ Close

Spec == Init /\ [][Next]_vars

-----------------------------------------------------------------------------
(* Properties                                                              *)

\* What engine::read(b) would hand out: memory first, the file otherwise.
View == [b \in Blocks |-> IF b \in m_blocks THEN m_data[b] ELSE file[b]]

\* A block read through the engine holds what the application last stored in
\* it: no eviction, flush, failed flush or re-read loses or revives a version.
ReadYourWrites == View = app

\* A block that is in memory and not dirty is identical to the file's block:
\* engine_base drops clean blocks from memory without writing them.
CleanBlocksMatchFile == \A b \in m_blocks \ m_dirty : m_data[b] = file[b]

\* m_max_blocks is the "Maximum number of used blocks (pinned + cached).  Can be
\* violated if there are too many pinned blocks." (engine_base.hpp:73): a block
\* that is brought into memory leaves them within the maximum, unless all blocks
\* that are in memory then are pinned.
MissRespectsLimit ==
  [][ m_blocks' \subseteq m_blocks
      \/ Cardinality(m_blocks') <= CacheBlocks
      \/ m_pinned' = m_blocks' ]_vars

=============================================================================
