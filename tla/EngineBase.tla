---------------------------- MODULE EngineBase ----------------------------
(***************************************************************************)
(* The part that file_engine and transaction_engine share: the block cache *)
(* of engine_base (block_map, block_cache, block_dirty_set, block_pool)    *)
(* together with the reference counted block handles that engine hands     *)
(* out.  The operators prime the variables of this module only; the        *)
(* modules that EXTEND it say where do_read and do_write go.               *)
(*                                                                         *)
(* A block's bytes are one value.  Every call runs to completion: the      *)
(* library is single threaded, so the steps that matter are the calls, the *)
(* I/O errors inside them and what a failed call leaves behind.            *)
(***************************************************************************)
EXTENDS Integers, SequencesExt

CONSTANTS
  NumBlocks,     \* bound: indices 0 .. NumBlocks-1 exist
  Values,        \* contents of one block
  Zero,          \* the content of a zeroed block
  CacheBlocks,   \* m_max_blocks
  PoolSlack,     \* m_max_pooled_blocks - m_max_blocks (8 in the code)
  ReadOnly,      \* the underlying file was opened in read-only mode
  MaxRefs        \* bound: handles held on one block

ASSUME BaseAssumption ==
  /\ NumBlocks \in Nat \ {0}
  /\ Zero \in Values
  /\ CacheBlocks \in Nat
  /\ PoolSlack \in Nat
  /\ ReadOnly \in BOOLEAN
  /\ MaxRefs \in Nat \ {0}

Blocks == 0 .. NumBlocks - 1

MaxPooledBlocks == CacheBlocks + PoolSlack

VARIABLES
  m_blocks,   \* block_map: indices that are in memory
  m_data,     \* bytes of the blocks in memory (Zero stands for "not in memory")
  m_pinned,   \* blocks whose m_pinned flag is set
  m_dirty,    \* block_dirty_set
  m_cache,    \* block_cache: the most recently used block is at the front
  m_pool,     \* block_pool: number of idle block instances
  m_refs      \* block_handle_manager: m_refcount of a block's handle, 0 if none

baseVars == <<m_blocks, m_data, m_pinned, m_dirty, m_cache, m_pool, m_refs>>

BaseTypeOK ==
  /\ m_blocks \in SUBSET Blocks
  /\ m_data \in [Blocks -> Values]
  /\ m_pinned \in SUBSET Blocks
  /\ m_dirty \in SUBSET Blocks
  /\ m_cache \in Seq(Blocks)
  /\ m_pool \in Nat
  /\ m_refs \in [Blocks -> 0 .. MaxRefs]

BaseInit ==
  /\ m_blocks = {}
  /\ m_data = [b \in Blocks |-> Zero]
  /\ m_pinned = {}
  /\ m_dirty = {}
  /\ m_cache = << >>
  /\ m_pool = 0
  /\ m_refs = [b \in Blocks |-> 0]

-----------------------------------------------------------------------------
(* Eviction and the pool of block instances.                               *)

AtLeastZero(n) == IF n > 0 THEN n ELSE 0

\* How many blocks the loop at the head of a cache miss evicts.
EvictCount ==
  LET surplus == AtLeastZero(Cardinality(m_blocks) - CacheBlocks)
  IN  IF surplus < Len(m_cache) THEN surplus ELSE Len(m_cache)

\* The n least recently used blocks: the tail of the list.
Victims(n) == { m_cache[p] : p \in Len(m_cache) - n + 1 .. Len(m_cache) }

\* free_block, n times: an instance is deleted while too many exist, pooled
\* otherwise.  inUse counts the instances about to be freed.
PoolAfterFree(pool, inUse, n) ==
  pool + AtLeastZero(n - AtLeastZero(inUse + pool - MaxPooledBlocks))

\* The list without block i.
Uncached(i) == RemoveAt(m_cache, CHOOSE p \in DOMAIN m_cache : m_cache[p] = i)

\* evict_block for the n least recently used blocks and nothing else.
EvictOnly(n) ==
  /\ m_blocks' = m_blocks \ Victims(n)
  /\ m_data' = [b \in Blocks |-> IF b \in Victims(n) THEN Zero ELSE m_data[b]]
  /\ m_dirty' = m_dirty \ Victims(n)
  /\ m_cache' = SubSeq(m_cache, 1, Len(m_cache) - n)

\* Evict, then bring block i into memory with content v.
Load(i, v) ==
  LET n == EvictCount
  IN  /\ m_blocks' = (m_blocks \ Victims(n)) \cup {i}
      /\ m_data' = [b \in Blocks |-> IF b = i THEN v
                                     ELSE IF b \in Victims(n) THEN Zero ELSE m_data[b]]
      /\ m_pool' = AtLeastZero(PoolAfterFree(m_pool, Cardinality(m_blocks), n) - 1)

-----------------------------------------------------------------------------
(* pin and unpin behind read, overwrite and the block handles.             *)

\* A block that is already referenced: one more reference, no I/O.
CopyHandle(i) ==
  /\ m_refs[i] \in 1 .. MaxRefs - 1
  /\ m_refs' = [m_refs EXCEPT ![i] = @ + 1]
  /\ UNCHANGED <<m_blocks, m_data, m_pinned, m_dirty, m_cache, m_pool>>

ReadHit(i) ==
  /\ m_refs[i] = 0
  /\ i \in m_blocks \ m_pinned
  /\ m_cache' = Uncached(i)
  /\ m_pinned' = m_pinned \cup {i}
  /\ m_refs' = [m_refs EXCEPT ![i] = 1]
  /\ UNCHANGED <<m_blocks, m_data, m_dirty, m_pool>>

ReadMiss(i, v) ==
  /\ m_refs[i] = 0
  /\ i \notin m_blocks
  /\ Load(i, v)
  /\ m_dirty' = m_dirty \ Victims(EvictCount)
  /\ m_cache' = SubSeq(m_cache, 1, Len(m_cache) - EvictCount)
  /\ m_pinned' = m_pinned \cup {i}
  /\ m_refs' = [m_refs EXCEPT ![i] = 1]

\* The write-back of the (n+1)-th victim fails: n blocks are gone, nothing is pinned.
MissEvictFails(i, n) ==
  /\ m_refs[i] = 0
  /\ i \notin m_blocks
  /\ n < EvictCount
  /\ m_cache[Len(m_cache) - n] \in m_dirty
  /\ EvictOnly(n)
  /\ m_pool' = PoolAfterFree(m_pool, Cardinality(m_blocks), n)
  /\ UNCHANGED <<m_pinned, m_refs>>

\* do_read throws: the evictions stay, the instance goes back to the pool.
MissReadFails(i) ==
  LET n == EvictCount
      free == PoolAfterFree(m_pool, Cardinality(m_blocks), n)
  IN  /\ m_refs[i] = 0
      /\ i \notin m_blocks
      /\ EvictOnly(n)
      /\ m_pool' = PoolAfterFree(AtLeastZero(free - 1), Cardinality(m_blocks) - n + 1, 1)
      /\ UNCHANGED <<m_pinned, m_refs>>

\* overwrite(), overwrite_zero(): the new content is applied first, then the
\* block is marked dirty.  On a read-only engine the marking throws, the
\* handle is not created and the block is unpinned again.
OverwriteHandle(i, v) ==
  /\ m_refs[i] > 0
  /\ m_data' = [m_data EXCEPT ![i] = v]
  /\ IF ReadOnly THEN UNCHANGED <<m_dirty, m_refs>>
     ELSE /\ m_refs[i] < MaxRefs
          /\ m_dirty' = m_dirty \cup {i}
          /\ m_refs' = [m_refs EXCEPT ![i] = @ + 1]
  /\ UNCHANGED <<m_blocks, m_pinned, m_cache, m_pool>>

OverwriteHit(i, v) ==
  /\ m_refs[i] = 0
  /\ i \in m_blocks \ m_pinned
  /\ m_data' = [m_data EXCEPT ![i] = v]
  /\ IF ReadOnly
     THEN /\ m_cache' = <<i>> \o Uncached(i)
          /\ UNCHANGED <<m_pinned, m_dirty, m_refs>>
     ELSE /\ m_cache' = Uncached(i)
          /\ m_pinned' = m_pinned \cup {i}
          /\ m_dirty' = m_dirty \cup {i}
          /\ m_refs' = [m_refs EXCEPT ![i] = 1]
  /\ UNCHANGED <<m_blocks, m_pool>>

OverwriteMiss(i, v) ==
  LET n == EvictCount
      rest == SubSeq(m_cache, 1, Len(m_cache) - n)
  IN  /\ m_refs[i] = 0
      /\ i \notin m_blocks
      /\ Load(i, v)
      /\ IF ReadOnly
         THEN /\ m_cache' = <<i>> \o rest
              /\ m_dirty' = m_dirty \ Victims(n)
              /\ UNCHANGED <<m_pinned, m_refs>>
         ELSE /\ m_cache' = rest
              /\ m_dirty' = (m_dirty \ Victims(n)) \cup {i}
              /\ m_pinned' = m_pinned \cup {i}
              /\ m_refs' = [m_refs EXCEPT ![i] = 1]

\* Seeded faults: a handle is released once more than it was acquired; the
\* block enters the cache with every handle that goes away.
ReleaseTwice(i) ==
  /\ m_refs' = [m_refs EXCEPT ![i] = @ - 1]
  /\ UNCHANGED <<m_blocks, m_data, m_pinned, m_cache, m_dirty, m_pool>>

ReleaseCachesAlways(i) ==
  /\ m_refs[i] > 0
  /\ m_refs' = [m_refs EXCEPT ![i] = @ - 1]
  /\ m_pinned' = IF m_refs[i] = 1 THEN m_pinned \ {i} ELSE m_pinned
  /\ m_cache' = <<i>> \o m_cache
  /\ UNCHANGED <<m_blocks, m_data, m_dirty, m_pool>>

\* A handle goes away; the last one unpins the block into the cache.
Release(i) ==
  /\ m_refs[i] > 0
  /\ m_refs' = [m_refs EXCEPT ![i] = @ - 1]
  /\ IF m_refs[i] = 1
     THEN /\ m_pinned' = m_pinned \ {i}
          /\ m_cache' = <<i>> \o m_cache
     ELSE UNCHANGED <<m_pinned, m_cache>>
  /\ UNCHANGED <<m_blocks, m_data, m_dirty, m_pool>>

\* Seeded fault: the store does not mark the block dirty.
ModifyStaysClean(i, v) ==
  /\ m_refs[i] > 0
  /\ ~ReadOnly
  /\ m_data' = [m_data EXCEPT ![i] = v]
  /\ UNCHANGED <<m_blocks, m_pinned, m_dirty, m_cache, m_pool, m_refs>>

\* writable_data() and a store through the pointer.
Modify(i, v) ==
  /\ m_refs[i] > 0
  /\ ~ReadOnly
  /\ m_data' = [m_data EXCEPT ![i] = v]
  /\ m_dirty' = m_dirty \cup {i}
  /\ UNCHANGED <<m_blocks, m_pinned, m_cache, m_pool, m_refs>>

\* flush_block for every block of S: they are written and no longer dirty.
MarkClean(S) ==
  /\ m_dirty' = m_dirty \ S
  /\ UNCHANGED <<m_blocks, m_data, m_pinned, m_cache, m_pool, m_refs>>

-----------------------------------------------------------------------------
(* The structure of the cache.                                             *)

\* Every block in memory is either pinned or in the LRU list, never both and
\* never twice; only blocks in memory are dirty (block.hpp, engine_base::pin).
CacheStructure ==
  /\ IsInjective(m_cache)
  /\ ToSet(m_cache) = m_blocks \ m_pinned
  /\ m_pinned \subseteq m_blocks
  /\ m_dirty \subseteq m_blocks

\* A block is pinned exactly while a handle to it is alive, so that do_pin
\* never finds a pinned block and do_unpin is called once per do_pin.
PinnedWhileReferenced == m_pinned = { b \in Blocks : m_refs[b] > 0 }
=============================================================================
