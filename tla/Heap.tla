-------------------------------- MODULE Heap --------------------------------
(***************************************************************************)
(* heap: objects of any size behind stable references.  Small objects share *)
(* pages: slots grow from the front of a page, the objects' bytes from its  *)
(* end, and a page is compacted when its free bytes are in pieces.  Large   *)
(* objects have blocks of their own.  m_page_map indexes the heap's blocks, *)
(* m_free_map the pages by what they have left.                             *)
(*                                                                          *)
(* The trees behind the two maps are a function and a set here.             *)
(***************************************************************************)
EXTENDS Integers, FiniteSets, SequencesExt

CONSTANTS
  Blocks,       \* the blocks the allocator has, 1 .. n
  BlockSize,    \* m_block_size
  HeaderSize,   \* serialized_size<page_header>()
  SlotSize,     \* serialized_size<slot>()
  SizeField,    \* serialized_size<u32>(), the size in front of a large object
  U32,          \* u32 counts modulo this
  Sizes,        \* object sizes that the application asks for
  Values,       \* contents of objects
  None

ASSUME HeapAssumption ==
  /\ Blocks \subseteq Nat \ {0}
  /\ {BlockSize, HeaderSize, SlotSize, SizeField, U32} \subseteq Nat \ {0}
  /\ Sizes \subseteq Nat \ {0}
  /\ None \notin Values \cup [large : BOOLEAN, block_count : Nat]

VARIABLES
  m_page_map,     \* page_entry of each block that starts a page or a large object
  m_free_map,     \* pairs of free bytes and page
  content,        \* what the heap has in each block
  objects_count,
  objects_size,
  blocks_count,
  live,           \* history: references the application holds, with what it stored
  aborted         \* an assertion ended the program

vars == <<m_page_map, m_free_map, content, objects_count, objects_size, blocks_count,
          live, aborted>>

MaxSmallObject == (BlockSize * 3) \div 4

\* Blocks of at most 128 bytes are refused: the largest small object fits into a page.
ASSUME PageAssumption == HeaderSize + SlotSize + MaxSmallObject <= BlockSize

-----------------------------------------------------------------------------
(* Pages.  data is None wherever no object lies: those bytes are never read. *)

EmptySlot == [offset |-> 0, size |-> 0]

Valid(slot) == slot.offset # 0

EmptyPage ==
  [slots |-> << >>, free_ptr |-> BlockSize, free_fragmented |-> 0,
   data |-> [p \in 0 .. BlockSize - 1 |-> None]]

UnfragmentedFreeBytes(page) == page.free_ptr - (HeaderSize + Len(page.slots) * SlotSize)

FreeBytes(page) == UnfragmentedFreeBytes(page) + page.free_fragmented

FreeSlots(page) == { i \in DOMAIN page.slots : ~Valid(page.slots[i]) }

UsedSlots(page) == { i \in DOMAIN page.slots : Valid(page.slots[i]) }

EffectiveFreeBytes(page) ==
  IF FreeSlots(page) # {} THEN FreeBytes(page)
  ELSE IF FreeBytes(page) > SlotSize THEN FreeBytes(page) - SlotSize ELSE 0

\* memmove inside a page, or of a new object into it.
Moved(data, dest, source) ==
  [p \in DOMAIN data |-> IF p - dest \in DOMAIN source THEN source[p - dest] ELSE data[p]]

\* size bytes that are all x.
Filled(size, x) == [k \in 0 .. size - 1 |-> x]

\* Seeded fault: the object's bytes stay where they were.
ShiftNoMove(page, i, c) ==
  LET dest == c.free_ptr - page.slots[i].size
  IN  [c EXCEPT !.free_ptr = dest, !.slots[i].offset = dest]

\* The object of slot i of the page moves to the free pointer of c.
Shift(page, i, c) ==
  LET s == page.slots[i]
      dest == c.free_ptr - s.size
  IN  [c EXCEPT !.free_ptr = dest, !.slots[i].offset = dest,
                !.data = Moved(@, dest, [k \in 0 .. s.size - 1 |-> c.data[s.offset + k]])]

\* page_compact: objects are shifted to the end of the page, the last one first.
PageCompact(page) ==
  LET first(s) == CHOOSE i \in s : \A j \in s : page.slots[i].offset <= page.slots[j].offset
      moved == MapThenFoldSet(LAMBDA i, c : Shift(page, i, c),
                              [page EXCEPT !.free_ptr = BlockSize, !.free_fragmented = 0],
                              LAMBDA i : i, first, UsedSlots(page))
  IN  [moved EXCEPT !.data = [p \in DOMAIN @ |-> IF p < moved.free_ptr THEN None ELSE @[p]]]

\* page_allocate and the initialization of the object: the page with the object
\* in it and the slot's index.
PageAllocate(page, size, v) ==
  LET reuse == FreeSlots(page) # {}
      need == IF reuse THEN size ELSE size + SlotSize
      room == IF need > UnfragmentedFreeBytes(page) THEN PageCompact(page) ELSE page
      i == IF reuse THEN CHOOSE k \in FreeSlots(page) : \A j \in FreeSlots(page) : k <= j
           ELSE Len(page.slots) + 1
      at == room.free_ptr - size
      slots == IF reuse THEN room.slots ELSE Append(room.slots, EmptySlot)
  IN  [slot |-> i,
       page |-> [room EXCEPT !.free_ptr = at,
                             !.slots = [slots EXCEPT ![i] = [offset |-> at, size |-> size]],
                             !.data = Moved(@, at, Filled(size, v))]]

\* Slots at the end of the array that are not used any more are given back.
ReclaimSlots(slots) == SubSeq(slots, 1, Cardinality({ i \in DOMAIN slots :
                          \E j \in DOMAIN slots : j >= i /\ Valid(slots[j]) }))

\* Seeded fault: the slots at the end of the array are kept.
PageFreeKeepsSlots(page, i) ==
  LET s == page.slots[i]
      first == s.offset = page.free_ptr
  IN  [slots |-> [page.slots EXCEPT ![i] = EmptySlot],
       free_ptr |-> page.free_ptr + (IF first THEN s.size ELSE 0),
       free_fragmented |-> page.free_fragmented + (IF first THEN 0 ELSE s.size),
       data |-> Moved(page.data, s.offset, Filled(s.size, None))]

PageFree(page, i) ==
  LET s == page.slots[i]
      first == s.offset = page.free_ptr
  IN  [slots |-> ReclaimSlots([page.slots EXCEPT ![i] = EmptySlot]),
       free_ptr |-> page.free_ptr + (IF first THEN s.size ELSE 0),
       free_fragmented |-> page.free_fragmented + (IF first THEN 0 ELSE s.size),
       data |-> Moved(page.data, s.offset, Filled(s.size, None))]

-----------------------------------------------------------------------------
(* References: the slot's address, or the block of a large object.         *)

SmallRef(b, i) == [block |-> b, slot |-> i]
LargeRef(b) == [block |-> b, slot |-> 0]
IsLarge(ref) == ref.slot = 0

\* visit_object, as size() and load() use it.
Size(ref) == IF IsLarge(ref) THEN content[ref.block].size
             ELSE content[ref.block].slots[ref.slot].size

Load(ref) ==
  IF IsLarge(ref) THEN {content[ref.block].value}
  ELSE LET s == content[ref.block].slots[ref.slot]
       IN  { content[ref.block].data[p] : p \in s.offset .. s.offset + s.size - 1 }

Pages == { b \in Blocks : m_page_map[b] # None /\ ~m_page_map[b].large }

Used == UNION { b .. b + m_page_map[b].block_count - 1 :
                 b \in { c \in Blocks : m_page_map[c] # None } }

\* allocator::allocate: any free run of n blocks.
FreeRuns(n) == { b \in Blocks : b .. b + n - 1 \subseteq Blocks \ Used }

-----------------------------------------------------------------------------
(* Operations.                                                             *)

Init ==
  /\ m_page_map = [b \in Blocks |-> None]
  /\ m_free_map = {}
  /\ content = [b \in Blocks |-> None]
  /\ objects_count = 0
  /\ objects_size = 0
  /\ blocks_count = 0
  /\ live = << >>
  /\ aborted = FALSE

With(f, k, v) == [x \in DOMAIN f \cup {k} |-> IF x = k THEN v ELSE f[x]]
Without(f, k) == [x \in DOMAIN f \ {k} |-> f[x]]

\* The end of allocate_impl.
Allocated(ref, size, v) ==
  /\ objects_count' = objects_count + 1
  /\ objects_size' = objects_size + size
  /\ live' = With(live, ref, [size |-> size, value |-> v])
  /\ UNCHANGED aborted

\* The page with the least free space that is sufficient.
BestFit(size) ==
  LET fits == { e \in m_free_map : e[1] >= size }
  IN  { e \in fits : \A f \in fits : e[1] < f[1] \/ (e[1] = f[1] /\ e[2] <= f[2]) }

FreeEntry(page, b) ==
  IF EffectiveFreeBytes(page) > 0 THEN {<<EffectiveFreeBytes(page), b>>} ELSE {}

\* Seeded fault: the page's old entry stays in the free map.
AllocateOnPageKeepsEntry(size, v) ==
  /\ ~aborted
  /\ size <= MaxSmallObject
  /\ \E e \in BestFit(size) :
       LET b == e[2]
           a == PageAllocate(content[b], size, v)
       IN  /\ content' = [content EXCEPT ![b] = a.page]
           /\ m_free_map' = m_free_map \cup FreeEntry(a.page, b)
           /\ Allocated(SmallRef(b, a.slot), size, v)
  /\ UNCHANGED <<m_page_map, blocks_count>>

\* allocate_small_object on an existing page.
AllocateOnPage(size, v) ==
  /\ ~aborted
  /\ size <= MaxSmallObject
  /\ \E e \in BestFit(size) :
       LET b == e[2]
           a == PageAllocate(content[b], size, v)
       IN  /\ content' = [content EXCEPT ![b] = a.page]
           /\ m_free_map' = (m_free_map \cup FreeEntry(a.page, b)) \ {e}
           /\ Allocated(SmallRef(b, a.slot), size, v)
  /\ UNCHANGED <<m_page_map, blocks_count>>

\* The free map has no room for the new entry: slot_guard frees the slot again,
\* a compaction is not undone.
AllocateOnPageFails(size) ==
  /\ ~aborted
  /\ size <= MaxSmallObject
  /\ \E e \in BestFit(size), v \in Values :
       LET b == e[2]
           a == PageAllocate(content[b], size, v)
       IN  /\ FreeEntry(a.page, b) # {}
           /\ content' = [content EXCEPT ![b] = PageFree(a.page, a.slot)]
  /\ UNCHANGED <<m_page_map, m_free_map, objects_count, objects_size, blocks_count, live, aborted>>

\* allocate_small_object on a new page.
AllocateNewPage(size, v) ==
  /\ ~aborted
  /\ size <= MaxSmallObject
  /\ BestFit(size) = {}
  /\ \E b \in FreeRuns(1) :
       LET a == PageAllocate(EmptyPage, size, v)
       IN  /\ content' = [content EXCEPT ![b] = a.page]
           /\ m_page_map' = [m_page_map EXCEPT ![b] = [large |-> FALSE, block_count |-> 1]]
           /\ m_free_map' = m_free_map \cup FreeEntry(a.page, b)
           /\ Allocated(SmallRef(b, a.slot), size, v)
  /\ blocks_count' = blocks_count + 1

\* Seeded fault: the size in front of the object is forgotten.
RequiredBlocksNoHeader(size) == ((size + BlockSize - 1) % U32) \div BlockSize

\* The size of the allocation and ceil_div are computed as u32.
RequiredBlocks(size) ==
  LET allocation_size == (size + SizeField) % U32
  IN  ((allocation_size + BlockSize - 1) % U32) \div BlockSize

\* allocate_large_object.  The allocator refuses to allocate no block at all.  (Where
\* the blocks are too few for the object, write() runs into the blocks behind them:
\* that is not followed.)
AllocateLarge(size, v) ==
  /\ ~aborted
  /\ size > MaxSmallObject
  /\ RequiredBlocks(size) > 0
  /\ \E b \in FreeRuns(RequiredBlocks(size)) :
       /\ m_page_map' = [m_page_map EXCEPT ![b] = [large |-> TRUE, block_count |-> RequiredBlocks(size)]]
       /\ content' = [content EXCEPT ![b] = [size |-> size, value |-> v]]
       /\ Allocated(LargeRef(b), size, v)
  /\ blocks_count' = blocks_count + RequiredBlocks(size)
  /\ UNCHANGED m_free_map

\* The end of free().
Freed(ref) ==
  /\ objects_count' = objects_count - 1
  /\ objects_size' = objects_size - Size(ref)
  /\ live' = Without(live, ref)
  /\ UNCHANGED aborted

FreeLarge(ref) ==
  /\ ~aborted
  /\ IsLarge(ref)
  /\ m_page_map' = [m_page_map EXCEPT ![ref.block] = None]
  /\ content' = [content EXCEPT ![ref.block] = None]
  /\ blocks_count' = blocks_count - m_page_map[ref.block].block_count
  /\ Freed(ref)
  /\ UNCHANGED m_free_map

\* The entry that free_small_object expects in the free map.
EntryOf(b) == <<EffectiveFreeBytes(content[b]), b>>

\* free_small_object: a page without slots is given back.
FreeSmall(ref) ==
  /\ ~aborted
  /\ ~IsLarge(ref)
  /\ EntryOf(ref.block) \in m_free_map
  /\ LET b == ref.block
         page == PageFree(content[b], ref.slot)
     IN  IF page.slots = << >>
         THEN /\ m_page_map' = [m_page_map EXCEPT ![b] = None]
              /\ m_free_map' = m_free_map \ {EntryOf(b)}
              /\ content' = [content EXCEPT ![b] = None]
              /\ blocks_count' = blocks_count - 1
         ELSE /\ m_free_map' = (m_free_map \ {EntryOf(b)}) \cup {<<EffectiveFreeBytes(page), b>>}
              /\ content' = [content EXCEPT ![b] = page]
              /\ UNCHANGED <<m_page_map, blocks_count>>
  /\ Freed(ref)

\* "Matching free map entry must exist."
FreeSmallAsserts(ref) ==
  /\ ~aborted
  /\ ~IsLarge(ref)
  /\ EntryOf(ref.block) \notin m_free_map
  /\ aborted' = TRUE
  /\ UNCHANGED <<m_page_map, m_free_map, content, objects_count, objects_size, blocks_count, live>>

Store(ref, v) ==
  /\ ~aborted
  /\ content' =
       IF IsLarge(ref) THEN [content EXCEPT ![ref.block].value = v]
       ELSE LET s == content[ref.block].slots[ref.slot]
            IN  [content EXCEPT ![ref.block].data = Moved(@, s.offset, Filled(s.size, v))]
  /\ live' = [live EXCEPT ![ref].value = v]
  /\ UNCHANGED <<m_page_map, m_free_map, objects_count, objects_size, blocks_count, aborted>>

Next ==
  \/ \E size \in Sizes, v \in Values :
       AllocateOnPage(size, v) \/ AllocateNewPage(size, v) \/ AllocateLarge(size, v)
  \/ \E size \in Sizes : AllocateOnPageFails(size)
  \/ \E ref \in DOMAIN live : FreeLarge(ref) \/ FreeSmall(ref) \/ FreeSmallAsserts(ref)
  \/ \E ref \in DOMAIN live, v \in Values : Store(ref, v)

Spec == Init /\ [][Next]_vars

\* Contents are compared only.
ValueSymmetry == Permutations(Values)

-----------------------------------------------------------------------------
(* Properties                                                              *)

\* No size is so close to 2^32 that the number of its blocks is computed wrongly.
NoWrap == \A size \in Sizes : size + SizeField + BlockSize - 1 < U32

\* Inside a page: slots and objects do not meet, objects do not overlap, every
\* byte behind the free pointer is either an object's or counted as fragmented
\* (the assertions "Corrupted free pointer" and "Corrupted free counter"), and
\* no free slot is at the end of the array.
PagesWellFormed ==
  \A b \in Pages :
    LET page == content[b]
        used == UsedSlots(page)
        bytes(i) == page.slots[i].offset .. page.slots[i].offset + page.slots[i].size - 1
    IN  /\ page.free_ptr >= HeaderSize + Len(page.slots) * SlotSize
        /\ \A i \in used : bytes(i) \subseteq page.free_ptr .. BlockSize - 1
        /\ \A i, j \in used : i # j => bytes(i) \cap bytes(j) = {}
        /\ page.free_fragmented =
             Cardinality((page.free_ptr .. BlockSize - 1) \ UNION { bytes(i) : i \in used })
        /\ page.slots # << >> /\ Valid(Last(page.slots))

\* Whatever is allocated, freed and compacted in between, a reference leads to
\* an object of the size and the content that were stored last, and no two
\* references share storage.
ObjectsIntact ==
  \A ref \in DOMAIN live : Size(ref) = live[ref].size /\ Load(ref) = {live[ref].value}

\* "Sequence of blocks large enough for the object and the serialized header in front
\* of it": the blocks of a large object have room for its size and its content.
LargeObjectsFit ==
  \A ref \in DOMAIN live : IsLarge(ref) =>
    m_page_map[ref.block].block_count * BlockSize >= live[ref].size + SizeField

\* validate(): the anchor's counters are what a walk over the pages finds, and
\* large objects have room for their size and their content.
CountersMatch ==
  /\ objects_count = Cardinality(DOMAIN live)
  /\ objects_size = FoldSet(LAMBDA ref, n : live[ref].size + n, 0, DOMAIN live)
  /\ blocks_count = Cardinality(Used)
  /\ LargeObjectsFit

\* The free map lists every page that has bytes left once, with exactly the bytes
\* that page_allocate will find there.
FreeMapExact ==
  /\ m_free_map \subseteq { EntryOf(b) : b \in Pages }
  /\ \A b \in Pages : EffectiveFreeBytes(content[b]) > 0 => EntryOf(b) \in m_free_map

\* validate(): "Unable to find free map entry for a heap page." is never thrown,
\* and neither does free() miss it.
EveryPageInFreeMap == \A b \in Pages : EntryOf(b) \in m_free_map
=============================================================================
