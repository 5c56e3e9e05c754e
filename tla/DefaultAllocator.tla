-------------------------- MODULE DefaultAllocator --------------------------
(***************************************************************************)
(* default_allocator: extents of blocks of any size.  Free extents are       *)
(* indexed by position and by size in two trees, whose nodes come from a     *)
(* free list of metadata blocks that the allocator fills from its own free   *)
(* space.                                                                   *)
(*                                                                          *)
(* A call is a list of pending steps (todo); the loops of the code are steps *)
(* that stay at the head of the list.  Both trees hold the same extents, so  *)
(* one set stands for them; of a tree's shape only its height and its number *)
(* of nodes are kept, and an insertion or a removal may lead to any shape the *)
(* tree's promises allow (see BTree).  Which of the metadata blocks are nodes *)
(* and which are on the free list is left open.                             *)
(***************************************************************************)
EXTENDS Integers, FiniteSets, SequencesExt

CONSTANTS
  RegionSize,   \* blocks of the file that add_region() may hand over
  MinChunk,     \* m_min_chunk
  MaxBlocks     \* bound: the engine does not grow beyond this size

ASSUME AllocatorAssumption ==
  /\ RegionSize \in Nat /\ MinChunk \in Nat \ {0} /\ MaxBlocks \in Nat
  /\ RegionSize <= MaxBlocks

VARIABLES
  alloc,     \* the anchor, the engine's size and the metadata blocks
  content,   \* what the owner of a block has stored there
  todo,      \* pending steps of the current call
  result     \* the block that the current call returns, 0 between calls

allocatorVars == <<alloc, content, todo, result>>

RequiredTotalMetaBlocks == 6

\* round_towards_pow2
Pow2(n) ==
  LET power[k \in 0 .. n] == IF k = 0 THEN 1 ELSE 2 * power[k - 1]
  IN  IF n = 0 THEN 0
      ELSE CHOOSE p \in { power[k] : k \in 0 .. n } : n <= p /\ (p = 1 \/ p \div 2 < n)

\* chunk_size
ChunkSize(n) == Max({MinChunk, Pow2(n)})

Extent(b, n) == [block |-> b, size |-> n]
BlocksOf(e) == e.block .. e.block + e.size - 1
Touch(left, right) == left.block + left.size = right.block
BordersEnd(a, e) == e.block + e.size = a.engine

-----------------------------------------------------------------------------
(* Shapes of a tree with n entries: inner nodes have two children at least,  *)
(* leaves are not empty.                                                    *)

NoTree == [height |-> 0, nodes |-> 0]

Legal(s, n) ==
  IF n = 0 THEN s = NoTree
  ELSE s.height >= 1 /\ s.nodes >= 2 ^ s.height - 1 /\ s.nodes <= 2 * n - 1 /\ (s.height = 1 <=> s.nodes = 1)

\* At most one node of each level is split, and a split root gets a parent.
TreeInsert(s, n) ==
  { t \in { [height |-> s.height, nodes |-> s.nodes + j] : j \in 0 .. s.height - 1 }
          \cup { [height |-> s.height + 1, nodes |-> s.nodes + j] : j \in 1 .. s.height + 1 } :
    Legal(t, n + 1) }

\* At most one node of each level below the root is merged, and then the root may go.
TreeErase(s, n) ==
  { t \in { [height |-> s.height, nodes |-> s.nodes - j] : j \in 0 .. s.height - 1 }
          \cup { [height |-> s.height - 1, nodes |-> s.nodes - j] : j \in 1 .. s.height } :
    Legal(t, n - 1) }

-----------------------------------------------------------------------------
(* Functions on the allocator's state; those that change the trees return    *)
(* the set of possible states.                                               *)

\* required_free_meta_blocks
RequiredFree(a) == (a.pos.height + 1) + (a.size.height + 1)

\* needed_metadata_blocks
Needed(a) ==
  Max({0, RequiredTotalMetaBlocks - a.meta_total, RequiredFree(a) - a.meta_free})

WithTrees(a, pos, size, extents) ==
  [a EXCEPT !.extents = extents, !.pos = pos, !.size = size,
            !.meta_free = @ + (a.pos.nodes - pos.nodes) + (a.size.nodes - size.nodes)]

Without(a, e) ==
  LET n == Cardinality(a.extents)
  IN  { WithTrees(a, p, s, a.extents \ {e}) : p \in TreeErase(a.pos, n), s \in TreeErase(a.size, n) }

With(a, e) ==
  LET n == Cardinality(a.extents)
  IN  { WithTrees(a, p, s, a.extents \cup {e}) : p \in TreeInsert(a.pos, n), s \in TreeInsert(a.size, n) }

\* allocate_extent
AllocateExtent(a, e) == { [b EXCEPT !.data_free = @ - e.size] : b \in Without(a, e) }

\* A neighbour, if there is one, leaves the trees.
Erased(states, near) ==
  IF near = {} THEN states
  ELSE UNION { Without(b, CHOOSE f \in near : TRUE) : b \in states }

\* The blocks by which a neighbour, if there is one, extends the extent.
SizeOf(near) == IF near = {} THEN 0 ELSE (CHOOSE f \in near : TRUE).size

\* Seeded fault: the extent is not merged with its left neighbour.
FreeInternalRightOnly(a, e) ==
  LET right == { f \in a.extents : Touch(e, f) }
      entry == Extent(e.block, e.size + SizeOf(right))
  IN  { [b EXCEPT !.data_free = @ + e.size, !.short = @ \/ a.meta_free < RequiredFree(a)] :
        b \in UNION { With(c, entry) : c \in Erased({a}, right) } }

\* free_internal: the extent is merged with its neighbours and inserted.  short is
\* set where "Not enough free metadata blocks for insertion." is asserted.
FreeInternal(a, e) ==
  LET left == { f \in a.extents : Touch(f, e) }
      right == { f \in a.extents : Touch(e, f) }
      entry == Extent(e.block - SizeOf(left), SizeOf(left) + e.size + SizeOf(right))
  IN  { [b EXCEPT !.data_free = @ + e.size, !.short = @ \/ a.meta_free < RequiredFree(a)] :
        b \in UNION { With(c, entry) : c \in Erased(Erased({a}, right), left) } }

\* take_metadata: the first blocks of an extent go to the free list.
TakeMetadata(a, e, take) ==
  [a EXCEPT !.meta = @ \cup e.block .. e.block + take - 1,
            !.meta_free = @ + take, !.meta_total = @ + take]

\* take_metadata, then free_internal of what is left.
Put(a, e, needed) ==
  LET take == Min({needed, e.size})
      taken == TakeMetadata(a, e, take)
  IN  IF take = e.size THEN {taken} ELSE FreeInternal(taken, Extent(e.block + take, e.size - take))

\* allocate_from_engine: the extent and the state behind it.
FromEngine(a, n) ==
  [extent |-> Extent(a.engine, ChunkSize(n)),
   state |-> [a EXCEPT !.engine = @ + ChunkSize(n), !.data_total = @ + ChunkSize(n)]]

-----------------------------------------------------------------------------
(* Steps of a call.                                                          *)

Lazy == <<[op |-> "lazy"]>>
FixFreelist == <<[op |-> "drain"], [op |-> "fill"]>>

\* free()
Free(b, n) == IF n = 0 THEN << >> ELSE FixFreelist \o <<[op |-> "put", block |-> b, size |-> n]>>

\* do_allocate()
Allocate(n) == Lazy \o FixFreelist \o <<[op |-> "fit", size |-> n]>>

\* do_reallocate()
Reallocate(b, n, m) == Lazy \o <<[op |-> "reallocate", block |-> b, size |-> n, new_size |-> m]>>

At(op) == todo # << >> /\ Head(todo).op = op

Then(calls) == todo' = calls \o Tail(todo)

\* The call throws bad_alloc: growth is forbidden, or the engine cannot grow.
Throw == todo' = << >> /\ result' = 0 /\ UNCHANGED <<alloc, content>>

\* A step that needs blocks from the engine.
CanGrow(n) == alloc.engine + ChunkSize(n) <= MaxBlocks

LazyInitialize ==
  /\ At("lazy")
  /\ IF alloc.meta_total >= RequiredTotalMetaBlocks
     THEN Then(<< >>) /\ UNCHANGED <<alloc, content, result>>
     ELSE LET n == RequiredTotalMetaBlocks - alloc.meta_total
              grown == FromEngine(alloc, n)
          IN  \/ /\ CanGrow(n)
                 /\ alloc' = grown.state
                 /\ Then(Free(grown.extent.block, grown.extent.size))
                 /\ UNCHANGED <<content, result>>
              \/ Throw

\* The first loop of fix_freelist: surplus metadata blocks become data.  Any of them may
\* head the free list.
Drain ==
  /\ At("drain")
  /\ IF alloc.meta_free > RequiredFree(alloc) /\ alloc.meta_total > RequiredTotalMetaBlocks
     THEN \E b \in alloc.meta :
            /\ alloc' \in FreeInternal([alloc EXCEPT !.meta = @ \ {b}, !.meta_free = @ - 1,
                                                     !.meta_total = @ - 1], Extent(b, 1))
            /\ UNCHANGED <<content, todo, result>>
     ELSE Then(<< >>) /\ UNCHANGED <<alloc, content, result>>

FrontExtent == CHOOSE e \in alloc.extents : \A f \in alloc.extents : e.block <= f.block

\* Seeded fault: the loop goes on when there is no free extent left.
FillForever ==
  /\ At("fill")
  /\ IF alloc.meta_free < RequiredFree(alloc)
     THEN /\ IF alloc.extents = {} THEN UNCHANGED alloc
             ELSE alloc' \in UNION { Put(b, FrontExtent, Needed(alloc)) :
                                     b \in AllocateExtent(alloc, FrontExtent) }
          /\ UNCHANGED <<content, todo, result>>
     ELSE Then(<< >>) /\ UNCHANGED <<alloc, content, result>>

\* The second loop: metadata blocks are taken from the first free extent; how many
\* are needed is computed before the extent leaves the trees.
Fill ==
  /\ At("fill")
  /\ IF alloc.meta_free < RequiredFree(alloc) /\ alloc.extents # {}
     THEN /\ alloc' \in UNION { Put(b, FrontExtent, Needed(alloc)) :
                                b \in AllocateExtent(alloc, FrontExtent) }
          /\ UNCHANGED <<content, todo, result>>
     ELSE Then(<< >>) /\ UNCHANGED <<alloc, content, result>>

\* Seeded fault: an extent goes to the trees before the free list has got its share.
PutBackAtOnce ==
  /\ At("put")
  /\ LET e == Extent(Head(todo).block, Head(todo).size)
     IN  /\ alloc' \in FreeInternal(alloc, e)
         /\ content' = [b \in DOMAIN content |-> IF b \in BlocksOf(e) THEN {} ELSE content[b]]
  /\ Then(<< >>)
  /\ UNCHANGED result

\* The last part of free().  Whatever was in the blocks is gone.
PutBack ==
  /\ At("put")
  /\ LET e == Extent(Head(todo).block, Head(todo).size)
     IN  /\ alloc' \in Put(alloc, e, Needed(alloc))
         /\ content' = [b \in DOMAIN content |-> IF b \in BlocksOf(e) THEN {} ELSE content[b]]
  /\ Then(<< >>)
  /\ UNCHANGED result

\* The extent `from' leaves the trees and is used from its first block on.
Use(a, from) ==
  /\ alloc' \in AllocateExtent(a, from)
  /\ result' = from.block

\* allocate() behind fix_freelist.
Fit ==
  /\ At("fit")
  /\ LET n == Head(todo).size
         fits == { e \in alloc.extents : e.size >= n }
         best == CHOOSE e \in fits :
                   \A f \in fits : e.size < f.size \/ (e.size = f.size /\ e.block <= f.block)
         last == { e \in alloc.extents : BordersEnd(alloc, e) }
     IN  CASE fits # {} ->
                /\ Use(alloc, best)
                /\ Then(Free(best.block + n, best.size - n))
                /\ UNCHANGED content
           [] fits = {} /\ last # {} ->
                LET e == CHOOSE f \in last : TRUE
                    grown == FromEngine(alloc, n - e.size)
                IN  \/ /\ CanGrow(n - e.size)
                       /\ Use(grown.state, e)
                       /\ Then(Free(e.block + n, e.size + grown.extent.size - n))
                       /\ UNCHANGED content
                    \/ Throw
           [] OTHER ->
                LET grown == FromEngine(alloc, n)
                IN  \/ /\ CanGrow(n)
                       /\ alloc' = grown.state
                       /\ result' = grown.extent.block
                       /\ Then(Free(grown.extent.block + n, grown.extent.size - n))
                       /\ UNCHANGED content
                    \/ Throw

\* Seeded fault: blocks are copied from the last to the first.
CopyBlocksBackward(src, dest, n) ==
  LET copied[i \in 0 .. n] ==
        IF i = 0 THEN content
        ELSE [copied[i - 1] EXCEPT ![dest + n - i] = copied[i - 1][src + n - i]]
  IN  copied[n]

\* copy_blocks: block by block, from the first to the last (src is behind dest, or
\* the two do not meet).
CopyBlocks(src, dest, n) ==
  LET copied[i \in 0 .. n] ==
        IF i = 0 THEN content
        ELSE [copied[i - 1] EXCEPT ![dest + i - 1] = copied[i - 1][src + i - 1]]
  IN  copied[n]

\* reallocate() behind lazy_initialize, in the order of its attempts: left and right
\* hold the free extents before and behind e that it may use.
ReallocateBetween(left, e, right, m) ==
  LET need == m - e.size
      last == { f \in right : BordersEnd(alloc, f) }
      next == CHOOSE f \in right : TRUE
      prev == CHOOSE f \in left : TRUE
  IN  CASE m < e.size ->
             /\ Then(Free(e.block + m, e.size - m))
             /\ result' = e.block
             /\ UNCHANGED <<alloc, content>>
        [] m >= e.size /\ \E f \in right : f.size >= need ->
             /\ alloc' \in AllocateExtent(alloc, next)
             /\ Then(Free(next.block + need, next.size - need))
             /\ result' = e.block
             /\ UNCHANGED content
        [] m >= e.size /\ (\A f \in right : f.size < need) /\ left # {} ->
             /\ Use(alloc, prev)
             /\ content' = CopyBlocks(e.block, prev.block, e.size)
             /\ Then(Free(prev.block + m, prev.size + e.size - m))
        [] m >= e.size /\ (\A f \in right : f.size < need) /\ left = {} /\ last # {} ->
             LET n == need - next.size
                 grown == FromEngine(alloc, n)
             IN  \/ /\ CanGrow(n)
                    /\ alloc' \in AllocateExtent(grown.state, next)
                    /\ result' = e.block
                    /\ Then(Free(grown.extent.block + n, grown.extent.size - n))
                    /\ UNCHANGED content
                 \/ Throw
        [] m >= e.size /\ right = {} /\ left = {} /\ BordersEnd(alloc, e) ->
             LET grown == FromEngine(alloc, need)
             IN  \/ /\ CanGrow(need)
                    /\ alloc' = grown.state
                    /\ result' = e.block
                    /\ Then(Free(grown.extent.block + need, grown.extent.size - need))
                    /\ UNCHANGED content
                 \/ Throw
        [] OTHER ->
             /\ Then(Allocate(m) \o <<[op |-> "move", block |-> e.block, size |-> e.size]>>)
             /\ UNCHANGED <<alloc, content, result>>

ReallocateStep ==
  /\ At("reallocate")
  /\ LET e == Extent(Head(todo).block, Head(todo).size)
         m == Head(todo).new_size
     IN  ReallocateBetween({ f \in alloc.extents : Touch(f, e) /\ f.size >= m - e.size },
                           e, { f \in alloc.extents : Touch(e, f) }, m)

\* The end of reallocate(): the data goes to new storage, the old one is freed.
Move ==
  /\ At("move")
  /\ content' = CopyBlocks(Head(todo).block, result, Head(todo).size)
  /\ Then(Free(Head(todo).block, Head(todo).size))
  /\ UNCHANGED <<alloc, result>>

\* The end of add_region().
CountRegion ==
  /\ At("region")
  /\ alloc' = [alloc EXCEPT !.data_total = @ + RegionSize, !.region = TRUE]
  /\ Then(<< >>)
  /\ UNCHANGED <<content, result>>

AllocatorStep ==
  \/ LazyInitialize \/ Drain \/ Fill \/ PutBack \/ Fit
  \/ ReallocateStep \/ Move \/ CountRegion

AllocatorInit ==
  /\ alloc = [engine |-> RegionSize, extents |-> {}, pos |-> NoTree, size |-> NoTree, meta |-> {},
              meta_total |-> 0, meta_free |-> 0, data_total |-> 0, data_free |-> 0,
              region |-> FALSE, short |-> FALSE]
  /\ content = [b \in 0 .. MaxBlocks - 1 |-> {}]
  /\ todo = << >>
  /\ result = 0

\* add_region() for the blocks that the file had at first.
AddRegion ==
  /\ todo = << >> /\ ~alloc.region /\ RegionSize > 0
  /\ todo' = Free(0, RegionSize) \o <<[op |-> "region"]>>
  /\ UNCHANGED <<alloc, content, result>>

-----------------------------------------------------------------------------
(* Properties                                                               *)

Managed == (IF alloc.region THEN 0 ELSE RegionSize) .. alloc.engine - 1

FreeBlocks == UNION { BlocksOf(e) : e \in alloc.extents }

\* free_internal asserts "Not enough free metadata blocks for insertion." and
\* allocate_metadata_block "Must have enough metadata blocks preallocated.": however
\* the trees are shaped, the free list is never too short for what they need.
MetadataSuffices == ~alloc.short /\ alloc.meta_free >= 0

\* validate() and stats(): between two calls the counters in the anchor are right,
\* and free extents that touch have been merged.
CountersExact ==
  todo = << >> =>
    /\ alloc.data_total = Cardinality(Managed)
    /\ alloc.data_free = Cardinality(FreeBlocks)
    /\ alloc.meta_total = Cardinality(alloc.meta)
    /\ alloc.meta_free + alloc.pos.nodes + alloc.size.nodes = alloc.meta_total
    /\ \A e, f \in alloc.extents : ~Touch(e, f)

\* A call of the allocator comes to its end: fix_freelist "is guaranteed to always
\* terminate" although each of its rounds changes the trees it works for.
EveryCallReturns == todo # << >> ~> todo = << >>
=============================================================================
