# Prequel in TLA+

Prequel (extpp) is a C++ library for storage systems on disk: engines that keep
blocks of a file in memory, a write ahead journal that makes changes atomic, and
data structures built on blocks. This directory holds TLA+ models of its core,
TLC runs over small instances, and TLAPS proofs for all instances. Paths below are
relative to the repository.

The library is single threaded. What makes it hard is not interleaving but, below,
*failure*: a call may stop at any I/O operation and leave its work half done, the
process may die between two operations, the disk may keep a part of a write; and
above, *shape*: containers split, merge and move their nodes under cursors and
references that must not notice, and an allocator keeps its books in the blocks it
manages. The models have one action per call (or per I/O step of a call that a crash
can cut), and one per way in which it can fail.

## Inventory

| component | state | operations | what makes it hard, and what makes it correct |
|---|---|---|---|
| engine, block handles (`src/engine.cpp`) | reference count per block | read, overwrite, copy, drop, writable_data | pinned exactly while referenced |
| engine_base (`src/engine/engine_base.ipp`) | block map, LRU list, dirty set, pool | pin, unpin, dirty, flush, evict, discard | eviction that fails; each block pinned or cached once; limits |
| file_engine | a file | do_read, do_write, grow, destructor | a block is read as it was stored last |
| journal (`src/engine/journal.ipp`) | log file, buffer, index of committed and uncommitted blocks | restore, begin, write, commit, abort, checkpoint | torn writes, errors in mid-record, data across the buffer's border; a redo log |
| transaction_engine | journal, database file, sizes, pin counter | begin, commit, rollback, checkpoint, grow, pin | crash anywhere; atomic, durable transactions |
| stack (`src/container/stack.cpp`) | list of nodes, two of them buffered | push, pop, top, clear, reset | node boundaries, failing reads; a stack |
| node_allocator, free_list | counters; list of free blocks inside free blocks | allocate, free; push, pop | no block lost or handed out twice |
| default_allocator | free extents by position and by size, metadata free list | allocate, reallocate, free, add_region | the trees need blocks from the lists they describe; no overlap, no leak, termination of the refill loop |
| array, extent | contiguous blocks | push_back, resize, reserve, shrink, reset | storage that moves, also onto itself; allocations that throw |
| btree, cursors | tree of nodes, linked leaves, live cursors | insert, erase, find, bounds, move, clear | splits, steals and merges under live cursors; an ordered set |
| btree loader | current leaf, proto nodes | insert, finish, discard | batches across leaves, no undersized node |
| hash_table | buckets in ranges, overflow nodes, step pointer, level | insert, insert_or_update, erase, find, clear | growth and shrinking bucket by bucket, failing growth; a map |
| list | linked nodes, cursors | push, pop, insert, erase, move, clear | split, steal and merge under cursors; a sequence |
| heap | pages with slots, page map, free map | allocate, free, load, store | compaction behind stable references, exact free space |
| id_generator | tree of intervals of free ids | allocate, free | nothing handed out twice |
| memory_engine, mmap_engine, vfs | memory, mapped chunks, file descriptors | pin, grow, read, write, truncate, sync | calls of the operating system |
| simple_file_format, serialization, addresses, math | headers; none | open, encode, copy | compile-time encoding, pure helpers |

Components interact by calls: containers ask an allocator for blocks and an engine
for handles; dropping the last handle calls back into the engine (`internal_release_handle`);
`engine_base` calls `do_read` and `do_write` of the engine derived from it;
`transaction_engine` sends every write to the journal and only `checkpoint` writes the
database file. The default_allocator's trees call back into it for their own blocks.
Cursors are linked to their container, which repairs them whenever it changes.

`PROJECT.json` lists the hazards at their lines; every property below is aimed at one.

## Modules

Engines:

- **EngineBase**: `m_blocks`, `m_pinned`, `m_dirty`, `m_cache`, `m_pool` and the
  handles' counters, with one operator per outcome of `pin`: hit, miss, a miss whose
  eviction fails, a miss whose read fails, and the overwriting variants. A block's
  bytes are one value. The operators prime these variables only.
- **FileEngine** (extends EngineBase): `file` and `fileSize`; `do_write` for a set of
  blocks, or for a prefix of them with the next one left in any state. `app` is a
  history variable: what the application stored last.
- **RedoLog**: what the journal promises without its file: committed blocks and size,
  the blocks of the running transaction, and the set of states a restart may find.
- **Journal**: the log in cells (one per record header, size, index and *half* of a
  block), the file, the buffer and the index. `logDisk` is the set of logs that a power
  loss may leave, each already cut by `restore`, which is the scan of
  `restore`/`restore_transaction`. `sync_on_commit` can be switched at any time. Refines
  RedoLog (`ImplementsRedoLog`). A transaction with an I/O error is rolled back unless
  `RetryAfterError`. `Assertions` is a debug build (`PREQUEL_DEBUG`): there the assertion in
  `abort` ends the program (`AbortAsserts`); without it `Abort` goes on as a release build
  does.
- **TransactionalStore**: the user's view: `committed`, `working`, `inTx`, `mayRecover`.
- **TransactionEngine** (extends EngineBase, instantiates RedoLog): the engine over the
  redo log and the database file. `pc` is the I/O step of a running commit or
  checkpoint; `dbUnsynced` are the blocks that a power loss may damage. Refines
  TransactionalStore (`ImplementsTransactionalStore`).

Allocators and the containers on them, composed by EXTENDS:

- **FreeList**, **NodeAllocator**, **Stack** (each extends the one before):
  `node` is what every block holds, and a block is a node of the free list at one time
  and a node of the stack at another; nothing else tells the two apart.
  `check_buffer_invariants` guards push, pop and top as in a debug build. Refines
  **AbstractStack**, a sequence.
- **DefaultAllocator**, **Array** (extends it): a call is a list of pending steps,
  `todo`; a loop of the code is a step that stays at the head of the list, and a step
  that needs space may throw, which drops the rest of the list. `alloc` has the anchor,
  the free extents and the trees' heights and node counts: an insertion or a removal may
  lead to any shape a btree may have after it, so that what the allocator must have in
  reserve does not depend on one particular tree. `content` is what owners have stored
  block by block, which `copy()` moves in the direction the code chooses.

Containers on an external allocator:

- **BTree**, **BTreeLoader** (extends it): nodes in blocks, anchor and cursors with
  their full path (`m_parents`, `m_leaf`, `m_index`). The operations are functions of the
  tree's state in the order of the code's assignments, cursor repair included.
- **HashTable**: chains as sequences of nodes; the ranges of primary buckets with the
  code's size rule. Each allocation may fail, in each round of the loops that grow and
  shrink; one that fails while values are put back loses the rest of them. `stored` (what a
  lookup should find) and `lost` (how many values are gone and still counted) are history
  variables.
- **List**: a value is named by its position, so that lists of one shape are one state;
  `seen` follows each cursor by position only. `clear` unlinks all cursors, for good as in
  the code; such a cursor can be moved, assigned, inserted at and erased at like any other
  until the list changes under it. From then on its node may be any block, and only calls
  that do not look at that node are followed (`Usable`).
- **Heap**: pages byte by byte (a unit is the size of a `u32`), the two trees as a
  function and a set; `live` is what the application holds. The block count of a large
  object is computed modulo `U32`, as the code does modulo 2^32.

Theorems (below): **EngineBaseProofs** (lemmas about EngineBase and sequences),
**FileEngineProofs** and **TransactionEngineProofs** (both extend it; the latter with the
refinement of TransactionalStore), **JournalProofs** (Journal, with the refinement of RedoLog),
**AllocatorProofs** (Array, and with it DefaultAllocator), **StackProofs** (Stack, and with it
NodeAllocator and FreeList), **HeapProofs** and **ListProofs**.

Operators commented as *seeded faults* are wrong versions of the definition that
follows: with it replaced by one of them the named property of PROJECT.json fails.

## Runs

| run | result | question |
|---|---|---|
| `file_engine` | holds | Is a block read as it was stored, whatever is evicted and whatever fails? |
| `journal` | holds | Does the journal file implement the redo log under torn writes, power loss and I/O errors, with and without sync on commit, in a debug build? |
| `transaction_engine` | holds | Are cache, journal and database file together a transactional store? |
| `stack` | holds | Are stack, node_allocator and free_list in the same blocks a stack that leaks nothing, also after failed calls? |
| `array` | holds | Do arrays on a default_allocator keep their values and blocks, does the allocator always have blocks for its trees, does every call end? |
| `btree` | holds | Is the tree an ordered set in every shape, and does each cursor stay with its element? |
| `hash_table` | holds | Is every value found while buckets split and merge, and is the load bounded, also after allocations that failed anywhere? Which values does a failed redistribution lose? |
| `list` | holds | Do splits, steals and merges keep links, order and linked cursors? |
| `heap` | holds | Do references survive compaction, and is the map of free space exact? |
| `transaction_engine_grow` | violated | Does commit record a transaction that only grew the database? No. |
| `btree_bulk_load` | violated | Does a batch that spans leaves arrive? No: its first values are stored again. |
| `list_clear` | violated | Is every existing cursor updated? Not one that saw a `clear`. |

Ten more configurations each show one further disagreement between the code and a statement of
the source (below); TLC finds the property violated in each, as in
`tlc -config JournalAbort.cfg Journal`.

| configuration | violates | question |
|---|---|---|
| `HeapFull` | `EveryPageInFreeMap` | Does every page have the free map entry that validate and free look for? Not a full one. |
| `FileEngineLimit` | `MissRespectsLimit` | Do pinned and cached blocks stay within `m_max_blocks` unless all are pinned? No, there is one more. |
| `JournalAbort` | `LogSizeInvariant` | In a release build, does the log file end where the log ends after an abort? Not after a failed flush. |
| `JournalUnordered` | `UnsyncedLogReverts` | Without sync on commit, does the database revert to an earlier version of itself? Not if the disk reorders writes. |
| `JournalRetry` | `IndexMatchesLog` | May a commit that failed be repeated? No: a scan stops at its second record. |
| `HashTableOverflow` | `SizeCountsValues` | Does the size count the values there are? Not after a redistribution that failed. |
| `HashTableReset` | `EmptyTableIsReset` | Is a table that gets empty back at its first bucket? Not with one value per bucket. |
| `HeapLarge` | `LargeObjectsFit` | Do the blocks of a large object have room for it? Not near the greatest size. |
| `StackBuffer` | `TwoNodesBuffered` | Are two nodes buffered whenever there are two? Not after a pop that failed to read. |
| `ListSingle` | `EndsHoldValues` | Do the end nodes of a list have a value to remove? Not in nodes of one value. |

Bounds.

- `FileEngine`: three blocks in a cache of one, so that a miss evicts, evicts a dirty
  block, and finds only pinned ones; two handles per block.
- `Journal`: two blocks of two cells each in a buffer of four, so that records and blocks
  straddle its end and an error can leave most of a record in the file; 14 cells hold two
  transactions; databases of two sizes; one error.
- `TransactionEngine`: two blocks, no cache beyond the pinned block, so that every second
  access evicts; one error at any point, any number of crashes.
- `Stack`: two chunks of three blocks, two entries per list node, two values per stack
  node: up to six nodes, full and empty list nodes, and the allocator growing twice.
- `Array`: ten blocks, two arrays of up to three values (four blocks), one growing linearly and one
  exponentially: the metadata reserve of six leaves just enough blocks that extents
  border each other, the end of the file and the arrays, and that space runs out in
  every step.
- `BTree`: seven values with leaves of two and at least four children per internal node
  (the least capacities the constructor accepts): height three, internal splits, steals
  and merges. One cursor of the application besides the one of the running call: the
  code repairs cursors independently of each other.
- `HashTable`: five keys of which two pairs collide fully, capacity two: overflow chains and
  level changes in both directions, three ranges of two sizes; up to two values lost
  (`MaxLost`), together or one after the other.
- `List`: seven values in nodes of four: up to four nodes, splits on both sides of the
  middle, steals and merges; two cursors in one node and in two, linked or not.
- `Heap`: two blocks of 22 units with objects of 3, 5, 18 and 22: several objects per page,
  exact fits, fragmentation and compaction, large objects of one block beside a page and
  of two blocks; `U32` is far from every size.
- The configurations that show violations have bounds like those of their module's passing
  run and change what opens the case: a cache of two (`FileEngineLimit`), `Assertions`,
  `TornWrites` or `RetryAfterError` (`Journal*`), one value per bucket or node
  (`HashTableReset`, `ListSingle`), a `U32` of 64 with a size field of four
  (`HeapLarge`, which stands for 2^32 and the header's four bytes). `ListClear` needs one
  cursor and three values only. The others (`HeapFull`, `HashTableOverflow`, `StackBuffer`)
  change nothing: the case happens in the passing run too.

Fairness. `Array`'s specification has weak fairness of `Step`, the continuation of a
call: a library call runs to its end on its caller's thread, and nothing else can keep
it from its next step. Calls themselves are not fair. `EveryCallReturns` needs it: the
refill loop of the metadata free list takes blocks from the trees it refills for
(`src/container/default_allocator.cpp:458` says it "is guaranteed to always terminate").
All other modelled calls end by themselves, and no other fairness is assumed.

Deadlock is checked in all runs but `heap`: there the assertion in `free_small_object`
ends the program (`FreeSmallAsserts`), see `HeapFull` below.

### What disagrees with the source's own statements

- `src/engine/transaction_engine.ipp:70`: a transaction that only grows the database
  commits nothing, and the assertion in the next checkpoint fails (run
  `transaction_engine_grow`).
- `src/container/btree/loader.ipp:49`: `insert` does not advance `values` between leaves
  (run `btree_bulk_load`).
- `src/container/heap.cpp:650`: a full page has no free map entry; `validate` throws and
  freeing an object of that page asserts (`HeapFull`).
- `src/engine/engine_base.ipp:47`: the cache evicts before it adds, and holds one block more
  than `engine_base.hpp:73` says (`FileEngineLimit`; what it does keep is the theorem
  `MissExceedsByOneAtMost`).
- `src/engine/journal.ipp:310`: a flush that fails after it has extended the file does not
  move `m_buffer_offset`, so `abort` does not truncate. The assertion in line 324 stops a
  debug build; a release build leaves the remains (`JournalAbort`), and then
  `ImplementsRedoLog` fails too: the remains complete a later commit that a power loss cuts
  short. TransactionEngine builds on RedoLog and so describes the debug build in this one
  respect. Without an I/O error the invariant holds (`OnlyErrorsLeaveRemains`).
- `src/engine/journal.hpp:87` promises integrity without sync on commit; that holds only
  if the disk keeps the order of writes (`JournalUnordered`).
- `src/engine/journal.ipp:276`: a failed commit that is repeated appends a second commit
  record; a later scan stops there and drops what follows (`JournalRetry`).
- `src/container/hash_table.cpp:1122,1196`: when values cannot be put back they are lost, as
  the comment in 1073 says of `grow`, and the size is not corrected: `validate` fails
  (`HashTableOverflow`). No other value is lost or misplaced: `TableValid` and
  `LookupsAgree` hold with the lost values counted apart.
- `src/container/hash_table.cpp:876`: with one value per bucket the last erasure can find
  two buckets (`HashTableReset`).
- `src/container/heap.cpp:558`: `object_size + 4` in 32 bits; an object within four bytes of
  2^32 gets one block (`HeapLarge`).
- `src/container/stack.cpp:250`: a `pop` that cannot read the previous node leaves a buffer
  that the assertion in line 376 refuses (`StackBuffer`; `BufferMaintained` says that no
  other call does).
- `src/container/list.cpp:327`: `clear` unlinks all cursors for good, and one that is moved to
  a new value afterwards is not updated (run `list_clear`). `LinkedCursorsStayPut` is about
  the cursors that the list knows; that the others do no harm to them is a part of it.
- `src/container/list.cpp:502`: the constructor accepts values of which only one fits into
  a block (line 171 refuses none at all). Then the least size of a node is 1 / 2 = 0, `erase_at`
  returns before it looks at the ends of the list, and an empty node stays behind, on which
  the next `pop_back` fails the assertion in line 482 (`ListSingle`).

Seen while modelling, without a run:

- `src/engine.cpp:200,218`: on a read-only engine `overwrite` changes the block in memory
  before it throws (`ReadOnly = TRUE` violates `CleanBlocksMatchFile`). No statement of the
  source says otherwise.
- `src/container/hash_table.cpp:532`: `insert_or_update` returns true for an overwritten
  value, where `hash_table.hpp:195` promises false. Return values are not modelled.

## Proofs

Eight modules of proofs hold for every value of the constants that the named assumptions
of the modules admit: any number of blocks, any cache and buffer size, any length of the
log, any number of I/O errors, and a crash at any point; any node capacity, any number of
values, objects and cursors, and every sequence of calls.

| theorem | states | further assumptions |
|---|---|---|
| FileEngineProofs: `TypeCorrect`, `CacheWellFormed` | `TypeOK`; `CacheStructure`, `PinnedWhileReferenced` | none |
| FileEngineProofs: `ReadsReturnWrites`, `CleanMatchesFile` | `ReadYourWrites`; `CleanBlocksMatchFile` | `~ReadOnly` |
| FileEngineProofs: `MissExceedsByOneAtMost` | a miss goes over the maximum by one block at most, unless all are pinned | `~ReadOnly` |
| TransactionEngineProofs: `TransactionCacheWellFormed`, `PinCounterCorrect`, `WriteAhead` | `CacheStructure`; `PinCounterExact`; `UnsyncedBlocksAreLogged` | none |
| TransactionEngineProofs: `SizesAgree` | `SizeConsistentWithJournal` | `~GrowOnlyCommits` |
| TransactionEngineProofs: `EngineIsTransactionalStore` | `ImplementsTransactionalStore` | `~ReadOnly`, `~GrowOnlyCommits` |
| JournalProofs: `JournalWellFormed` | its inductive invariant `Inv` | `Setting` |
| JournalProofs: `LogSizeExact`, `IndexRestorable`, `RevertsCorrectly` | `OnlyErrorsLeaveRemains`; `IndexMatchesLog`; `RevertsToWrittenBlocks` | `Setting` |
| JournalProofs: `JournalIsRedoLog` | `ImplementsRedoLog` | `Setting` |
| AllocatorProofs: `InvAlways` | its inductive invariant `Inv` | none |
| AllocatorProofs: `MetadataAlwaysSuffices`, `CountersAlwaysExact`, `BlocksAlwaysAccounted` | `MetadataSuffices`; `CountersExact`; `BlocksAccounted` | none |
| AllocatorProofs: `ArraysAlwaysKeepValues` | `ArraysKeepValues` | none |
| StackProofs: `StackRefines` | `ImplementsStack` | none |
| StackProofs: `StackLeaksNothing`, `StackBufferMaintained` | `NothingLeaked`; `BufferMaintained` | none |
| StackProofs: `StackListValid`, `StackEachBlockOnce` | `ListValid`; `EachBlockOnce` | none |
| HeapProofs: `HeapPagesWellFormed`, `HeapObjectsIntact`, `HeapCountersMatch`, `HeapFreeMapExact` | `PagesWellFormed`; `ObjectsIntact`; `CountersMatch`; `FreeMapExact` | `NoWrap` |
| ListProofs: `ListLinksValid`, `ListContentsInOrder`, `ListLinkedCursorsStayPut` | `LinksValid`; `ContentsInOrder`; `LinkedCursorsStayPut` | `NodeCapacity >= 2` |

The two refinements meet at RedoLog: `JournalIsRedoLog` shows that the journal's file,
buffer and index behave as RedoLog says, `EngineIsTransactionalStore` that an engine over
RedoLog is a transactional store. Each rests on the other's interface only; that the two
models run in one process (TransactionEngine's steps are several RedoLog steps in one)
is not a theorem.

The further assumptions are the conditions under which the code keeps the promise, and
each is needed: a run, a configuration or a remark above shows a violation without it.

- `~ReadOnly`: `overwrite` on a read-only engine changes memory before it throws, and leaves
  the block unpinned in the cache however many others are pinned.
- `~GrowOnlyCommits`: a transaction that only grows the database is lost by commit
  (run `transaction_engine_grow`).
- `Setting` is `TornWrites = "prefix"` (the disk keeps the order of the bytes of a write),
  `Assertions` (a debug build: the assertion in `abort` ends the program where the file
  already has cells that a release build would leave behind), and `~RetryAfterError` (after
  an I/O error the application rolls back). These are the constants of run `journal`.
- `NoWrap`: no object is so large that its size, the size field and what rounds them up to
  blocks overflow 32 bits (`HeapLarge`).
- `NodeCapacity >= 2`: two values fit into a node of the list; with one, erasing leaves an
  empty node behind (`ListSingle`).

Of the named assumptions of the modules only Heap's `PageAssumption` says more than what kind
of value a constant is: header, one slot and the largest small object fit into a page. The
code has it from refusing blocks of 128 bytes or less (`heap.cpp:134`), and without it an
allocation on a new page could fail.

### The block cache

`BaseInv` (types, CacheStructure, PinnedWhileReferenced) is preserved by each operator of
EngineBase on its own, one lemma per operator in `EngineBaseProofs`, and FileEngine and
TransactionEngine both build on these lemmas. The parts need each other: that `Uncached(i)`
finds `i` in the list needs CacheStructure for an unpinned block; that `Release` does not
put a block into the list twice needs PinnedWhileReferenced; that an evicted block is not
pinned needs both. In FileEngine `Contents` says on top of it that memory or file holds
what the application stored (`View = app`), that clean blocks equal the file, and that a
block past the end of the file is in memory or zero; neither of the first two is inductive
alone, because eviction drops a clean block (its content must be on file) and a failed
write damages the file (the block must be dirty).

`MissExceedsByOneAtMost` is about single steps: by `VictimCount` an eviction of n entries of an
injective list frees n blocks, so a miss comes down to the limit before it adds its
block, or has evicted the whole
list and by CacheStructure everything that is not pinned (`LoadLimit`).

### The transaction engine

The invariant has four layers, each preserved with the help of the ones before it.
`CacheInv` is the cache's, with the pin counter and `WrittenInv`: only a dirty block may be
torn in the journal. `LogInv` is about what a power loss may leave: the journal's present
state is among the states on disk, and every one of them covers the database file
(`LogCovers`: a block that is not synced is in that journal; without a journal everything
is synced). It needs `CheckpointSteps`, one condition per I/O step of a checkpoint, of
which the order *sync the log, copy, sync the file, shrink the log* is made. `SizeInv`
relates the five places that know a size. `DataInv` says where the newest content of a
block is (`MemoryInv`), that the file is zero behind every size it may come back with
(`FileInv`; otherwise a database that shrank and grew again would show old blocks), and
that the file has all of the journal once it is copied (`CopiedInv`).

The refinement mapping looks at memory, journal and database file at once. `Stored`,
`Latest` and `View` reduce it to one expression per block; each action then is a step of
TransactionalStore or leaves all four of its variables alone. The interesting cases are a
commit that fails after its record may have reached the disk (`CommitStarts`), the
checkpoint's shrink (the journal is dropped, the file takes its place) and the restart.

### The journal

What `restore` computes is a recursive function over the records of a log. The proofs
need it for logs they know only in part, and get it from one notion: `Ready(L, s)` says
that `restore` of *every* log that begins as `L` does (up to block contents, which the scan
never looks into) gets to the state `s`. Ready is passed on from record to record
(`ReadyBegin`, `ReadyWrite`, `ReadyCommit`), and from `Ready` follow both ends of the
argument: a log with its commit record is `Complete` (restore uses all of it), and a log
in which no further commit record follows is cut back to its last complete transaction
(`CutOff`, by induction over the scan), whatever else a torn write has left in it. The
induction itself (`NumberInduction`, `ScanInduction`) is stated with a set in place of a
predicate and rests on the library's well-founded relations.

`Inv` has seven parts: types; `LayoutInv` (where file, buffer and transaction begin and
end, and that only a failed write leaves cells behind the buffer's place); `IndexInv` (the
committed part of the file is complete, on disk, and the index is what restore makes of
it); `DiskInv` (every log a power loss may leave is complete); `PlacesInv` (the blocks of
the running transaction lie behind its begin, inside the log, apart from each other, and
with both halves equal if nothing failed); `RunningInv` (no commit record in the running
transaction, and ready for one); `CommittingInv` (once the record is flushed, the file is
complete with the merged index). None of the three invariants of run `journal` is inductive
alone: `OnlyErrorsLeaveRemains` after an abort needs to know where the transaction began,
`IndexMatchesLog` after a commit needs Ready for the whole transaction, and that a rewrite
in place damages neither a committed block nor another one of the transaction needs
PlacesInv. TLC checks `Inv` on the instance of run `journal`, but for `Ready`, which is about
all logs.

For the refinement, `CurrentImage` turns the mapping, which reads blocks through index,
file and buffer, into the image of one log. Then `MergedImage` says that the log of a
committed transaction shows RedoLog's `After(n)`, and every action is a step from one image
to another; a rewrite that fails is `Write`, `WriteFails` or nothing, depending on what it
left of the two halves.

### The allocator

The properties of run `array` are about the time between two calls, or about one counter;
the invariant has to say what holds between two *steps* of a call, when blocks are on their
way. It reads that off `todo`: `PlanOf` is the set of pending steps without those of
fix_freelist, `Does` says that a list of steps is well formed and does a given plan (no two
steps of one rank, in the order of their ranks), and the plan tells whose a block is.
`Consistent(P, a, r, A)`, for a plan, a state of the allocator, the block found last and the
anchors, has five parts: `Sound` and `Placed` (the extents are apart and inside the engine,
and the counters are the cardinalities of what they count), `PlanOK` (a search is for an
anchor that knows its old storage), `ClaimsOK` (what the allocator has got is the disjoint
union of free blocks, metadata, what `free` has still to put back, what was found and is not
yet in an anchor, and the storage of the arrays), `Apart` and `Anchored`. None of the three
properties is inductive alone: that the extent which `free` puts back can be merged needs
ClaimsOK, or it might overlap a free one; that a call which throws leaves everything as it
was needs to know that it throws before it hands out blocks; and that the reserve
suffices needs the counters. All of it is stated about constants and proved once per
*kind* of step (`PutKeeps`, `StorageFound`, `StorageMoved`, `StorageSettled`, `ThrowKeeps`,
`SearchBegins`, ...); the lemma of an action then only says which kind its steps are.

The metadata argument is local: `RequiredFree` is a bound on what one insertion into the two
trees can use up, for *every* shape that a btree may have (`ExtentInserted`), and erasing an
extent gives at least as many nodes back as the bound shrinks by (`ExtentErased`, `Shrunk`).
fix_freelist's rounds and the steps of free() follow from these two. `Pow2` is a
recursive function; that it is at least its argument is by induction (`Induction`: a set that
has 0 and with every number the next has all, from the library's well-founded relations).
TLC checks `Inv` on the instance of run `array`.

### The arrays

That no value is lost needs to be known, again, between two steps of a call. `ValuesInv`
says where the values of each array are: in the storage of its anchor as long as the array
keeps it, and at the block that was found as soon as nothing is left to be moved
(`AnchorValues`); and that what is going to be written, or kept, will have room (`WriteFits`,
`Within`). It is inductive together with `Inv` only: that `PutBack` clears no value needs the
blocks to be apart, and so does every copy. `copy_blocks` is a recursive function of the
number of blocks; `CopyForward` shows by induction that copying from the first block to the
last loses nothing when the destination lies before the source, however far they overlap, or
apart from it, and the two callers are shown to be one of these cases. `FirstInBlock` is why
zeroing a block whose first value is written destroys no older value, `CeilDivFits` and
`NewSizeFits` why shrinking and growing leave room for all values. TLC checks `ValuesInv` on
an instance with blocks of two values.

### The stack

The free list's nodes lie in blocks that are free, and the same blocks are nodes of the
stack later. What the links describe is therefore never read off them by walking; the
invariant says *there is* a chain. `Rises(f, b, c)` is: the sequence `c` names no block twice,
each of its blocks links to the one before it, and the anchor to the last. A walk along such
links finds exactly `c` and ends within `MaxBlocks` steps (by induction, on the recursive
functions of the model), so that contents, list entries and counters become functions of the
chain. `AllocatorInv` has one chain for the free list, which with the entries of its nodes
names each block of `Free` exactly once (`Tidy`, of which *every node but the first is full*
is a part); `StackOf(c)` has one for the
stack, all of its nodes allocated, the nodes below the second full (`Shape`), and one or two
of the topmost buffered. Every step leads from a chain to itself, to it with one node more or
less, or to the empty one (`Result`), and an update in a block of one chain does not disturb
the other because allocated and free blocks are apart. Neither `EachBlockOnce` nor `ListValid`
is inductive alone: that a block taken for a new node is not one of the stack's needs the
first, and that a freed one was not yet on the list needs the second. The refinement and the
two action properties are read off `Result`.

### The heap

`PageOk` is about one page: objects lie between the free pointer and the end, apart from each
other, and the bytes between them are counted as fragmented; `Closed`, that the last slot is in
use. Compaction is a fold over the objects of a page; it moves the one with the
greatest offset first, so the invariant of its induction is that what was moved lies packed at
the end of the page and what was not is untouched below it. That an object is never moved onto
one still to be moved follows from counting: the bytes that the remaining objects take fit
below. The same counting shows that an allocation on a page which the free map names succeeds,
after compaction if need be, and that the sizes may be summed in any order.

Above the pages, `Inv` says that pages and large objects own blocks of their own (`Runs`,
`Counted`), that pages are well formed (`PagesOk`), that each reference leads to its object's
bytes (`AllStored`), that the free map is exact (`FreeMapOk`) and that the anchor's sums are
(`Tallied`). `ObjectsIntact` needs `PageOk`, since an object is safe from its neighbours only
where it overlaps none; `PagesWellFormed` needs `FreeMapOk`, since an allocation trusts the
entry it finds; that an entry stays exact needs the counted bytes of the page.

### The list

A list is described by its *marks* `b`: how many values are before each node, and how many
there are in all. `Shape(b)` is the list with these marks, links, values and all; `Gaps(b)` says
that no node is empty or overfull and only the first and the last less than half full. The
operations of the list become operations on marks: `push`, `insert` and `erase` raise or lower
all marks behind a place (`OpeningIs`, `ClosingIs`), a split adds a mark (`SplittingIs`), an
emptied end drops one (`DropNode`), taking a value from a neighbour moves one by one
(`StealNode`), a merge removes one (`MergeNode`). Nodes get new numbers along the chain after
each call, as in the model (`RenumberedIs`), so that lists of one shape are one state.

A cursor is `At` place p, with p values before it, wherever its node and index are: on a value,
behind an erased one, or parked at an end of the list; or it is `Off` the list. `Fits` says that p
agrees with its history: the value it is on, or, once that is gone, the two neighbours between
which it has to stay. Repairing cursors in a split, a takeover or a merge then means keeping p,
and in an insertion or erasure moving p with the values (`InsertCursor`, `SplitCursor`,
`StealCursor`, `MergeCursor`, `EraseCursorAt`).

A cursor that `clear` has unlinked is `Free`: no repair reaches it, and the invariant says
nothing of where it is (`Lost`: any node and index, with any history). When a call goes through it,
`Usable` says that it is where its history says, and `InPlace` that a linked cursor with the same
node and index would then be right; its moves do what those of that cursor do (`SameMoves`,
`OffMoves`), an insertion or erasure at it is one at that place, and a linked cursor that is
assigned from it becomes right. So the theorems need no assumption about which cursors the
application goes on using.

The invariant is `\E b : Shows(b)`: the list is `Shape(b)`, `Gaps(b)` holds and every cursor is
right by `b`. None of the three properties is inductive alone. The order of the values needs
the links, along which they are read; that a merged node is not overfull, and that the
neighbour a value is taken from does not get too small, needs the sizes of both; that a moved
value takes its cursors along needs the links and the order. TLC checks the three properties on
the instance of run `list`; the invariant quantifies over marks and is checked by proof only.

### Only model-checked

BTree, BTreeLoader and HashTable are written with recursive operators, as the code descends
and retries; the prover does not accept these. Liveness (`EveryCallReturns`) is out of its
reach. Every other property of a passing run is a theorem.

## Not modelled

- `id_generator` (a tree of intervals, whose tree operations are BTree's), `memory_engine`
  (pinning changes no state), `mmap_engine` and most of `vfs` (virtual memory and file
  descriptors of the operating system), `simple_file_format` (one header block),
  serialization and handles (compile-time encoding), examples and tests.
- Everywhere: running out of memory; counters that overflow (`checked_add` throws).
- Engines: the journal's header; abort records, which `restore_transaction`
  (`journal.ipp:220`) would accept and no operation writes; a rollback whose `journal::abort` fails; a database file
  whose size is not a multiple of the block size.
- Stack and node_allocator: errors of `allocator::free` and of reads inside the free list.
- DefaultAllocator: I/O errors; which metadata block holds which tree node.
- BTree: allocations that fail in mid-operation, copies of cursors, the payload beside
  the key (`insert_or_update`, `set`), changes of the tree while a loader is open.
- HashTable: levels beyond what five keys reach; what the table does after the assertions of
  `hash_table.cpp:874`; the iteration over all values.
- List: failing allocations; the calls on an unlinked cursor that read its node after the list
  has changed under it (they may read any block). Heap: a failing insertion into the page map, or into the
  free map during `free` (`heap.cpp:722`, a FIXME of the source).

## Plan

1. *(done)* EngineBase, FileEngine, their invariants and proofs; Journal, RedoLog,
   TransactionEngine, TransactionalStore; Stack, FreeList.
2. *(done)* NodeAllocator under Stack, DefaultAllocator under Array with termination of its
   calls; BTree with cursors and loader, HashTable, List, Heap.
3. *(done)* Proofs of TransactionEngine and of its refinement of TransactionalStore, of
   Journal and of its refinement of RedoLog; of the accounting of DefaultAllocator under
   Array, and of the arrays' values.
4. *(done)* Proofs of Stack on NodeAllocator and FreeList with its refinement of
   AbstractStack, of Heap, and of List with its cursors.
5. Open: BTree and HashTable in a form without recursive operators, which can be proved about;
   IdGenerator over an abstract ordered set; failing allocations in BTree.
