---------------------------- MODULE NodeAllocator ----------------------------
(***************************************************************************)
(* node_allocator: single blocks from a free list, which is filled by      *)
(* growing the engine.  (Other sizes than 1 are refused.)                  *)
(***************************************************************************)
EXTENDS FreeList

CONSTANTS ChunkSize   \* m_chunk_size

ASSUME NodeAllocatorAssumption == ChunkSize \in Nat \ {0}

VARIABLES
  engine,        \* size() of the engine, which has no other user
  total, free,   \* the anchor
  allocated      \* blocks that were handed out

allocatorVars == <<head, engine, total, free, allocated>>

NodeAllocatorInit ==
  /\ FreeListInit
  /\ engine = 0
  /\ total = 0
  /\ free = 0
  /\ allocated = {}

\* The blocks that the engine grows by, in the order in which they are pushed.
Chunk == [k \in 1 .. ChunkSize |-> engine + ChunkSize - k]

\* The result of do_allocate(): a block and the list without it.
Allocation == Pop(IF head = None THEN PushAll(List, Chunk) ELSE List)

\* do_allocate(), which leaves the block as it was found.  The engine may refuse to
\* grow; then nothing has changed.
Allocate ==
  LET grown == IF head = None THEN ChunkSize ELSE 0
  IN  /\ engine + grown <= MaxBlocks
      /\ head' = Allocation.list.head
      /\ engine' = engine + grown
      /\ total' = total + grown
      /\ free' = free + grown - 1
      /\ allocated' = allocated \cup {Allocation.block}

\* do_free() of several blocks in turn; f is what the blocks hold before.  What is
\* left in a block that is an entry of the list is not told apart.
FreeNodes(f, blocks) ==
  LET wiped == [b \in Blocks |-> IF b \in ToSet(blocks) THEN Empty ELSE f[b]]
      list == PushAll([head |-> head, node |-> wiped], blocks)
  IN  /\ head' = list.head
      /\ node' = list.node
      /\ free' = free + Len(blocks)
      /\ allocated' = allocated \ ToSet(blocks)
      /\ UNCHANGED <<engine, total>>

-----------------------------------------------------------------------------
(* Properties                                                              *)

\* Nothing is lost and nothing is handed out twice: every block of the engine is
\* either in use or found on the list in exactly one place, whatever the users of
\* the blocks write; the anchor's counters say how many there are, and no node of the
\* list but the first has room.
EachBlockOnce ==
  /\ ToSet(Listed) = (0 .. engine - 1) \ allocated
  /\ IsInjective(Listed)
  /\ total = engine
  /\ free = Len(Listed)
  /\ OnlyHeadHasRoom
=============================================================================
