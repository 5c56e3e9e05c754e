------------------------------- MODULE Stack -------------------------------
(***************************************************************************)
(* raw_stack: a linked list of blocks, filled from the bottom.  The two    *)
(* topmost nodes are buffered; the topmost one may stay behind empty, so   *)
(* that values pushed and popped at a node boundary do not allocate and    *)
(* free a block each time.  The blocks come from a node_allocator, whose   *)
(* free list lives in the blocks that the stack has freed.                 *)
(***************************************************************************)
EXTENDS NodeAllocator

CONSTANTS
  NodeCapacity,   \* m_node_capacity
  Values

ASSUME StackAssumption == NodeCapacity \in Nat \ {0}

VARIABLES
  top, size, nodes,   \* the anchor
  m_buf               \* the buffered nodes, the topmost last

vars == <<head, node, engine, total, free, allocated, top, size, nodes, m_buf>>

Init ==
  /\ NodeAllocatorInit
  /\ top = None
  /\ size = 0
  /\ nodes = 0
  /\ m_buf = << >>

IsFull(n) == Len(node[n].values) = NodeCapacity
IsEmpty(n) == node[n].values = << >>

\* node with the last value of n popped.
Popped(n) == [node EXCEPT ![n].values = Front(@)]

-----------------------------------------------------------------------------

\* check_buffer_invariants(), which every operation but clear(), reset() and
\* the constructor starts with.
BufferInvariants ==
  IF size = 0 THEN m_buf = << >>
  ELSE IF nodes = 1 THEN m_buf = <<top>>
  ELSE /\ Len(m_buf) = 2
       /\ m_buf[2] = top
       /\ m_buf[1] = node[top].link
       /\ ~IsEmpty(m_buf[1])

\* Seeded fault: values always go to the last buffered node.
PushTargetLast(f, buf) == Last(buf)

\* The first buffered node is filled before the last one.
PushTarget(f, buf) ==
  IF Len(f[Head(buf)].values) < NodeCapacity THEN Head(buf) ELSE Last(buf)

PushValue(f, buf, v) ==
  /\ node' = [f EXCEPT ![PushTarget(f, buf)].values = Append(@, v)]
  /\ size' = size + 1

\* push() where the last buffered node has room.
PushExisting(v) ==
  /\ BufferInvariants
  /\ m_buf # << >>
  /\ ~IsFull(Last(m_buf))
  /\ PushValue(node, m_buf, v)
  /\ UNCHANGED <<allocatorVars, top, nodes, m_buf>>

NeedsNode == BufferInvariants /\ (m_buf # << >> => IsFull(Last(m_buf)))

\* The blocks once create_node() has initialised the new one and push() linked it.
NodeCreated ==
  [Allocation.list.node EXCEPT
     ![Allocation.block] = [Empty EXCEPT !.link = IF m_buf = << >> THEN None ELSE Last(m_buf)]]

\* Seeded fault: the buffer keeps a third node.
BufferedThree(n) == Append(m_buf, n)

\* At most two nodes stay buffered.
Buffered(n) == IF Len(m_buf) = 2 THEN <<m_buf[2], n>> ELSE Append(m_buf, n)

\* push() that needs a new node.
PushNewNode(v) ==
  /\ NeedsNode
  /\ Allocate
  /\ nodes' = nodes + 1
  /\ top' = Allocation.block
  /\ m_buf' = Buffered(Allocation.block)
  /\ PushValue(NodeCreated, Buffered(Allocation.block), v)

\* create_node(): the block is allocated, overwriting it throws.
PushCreateFails ==
  /\ NeedsNode
  /\ Allocate
  /\ node' = Allocation.list.node
  /\ UNCHANGED <<top, size, nodes, m_buf>>

\* pop() from the topmost node, which may become empty and stays.
PopBack ==
  /\ BufferInvariants
  /\ size > 0
  /\ Len(m_buf) > 1
  /\ ~IsEmpty(Last(m_buf))
  /\ node' = Popped(Last(m_buf))
  /\ size' = size - 1
  /\ UNCHANGED <<allocatorVars, top, nodes, m_buf>>

\* Seeded fault: the topmost node is not looked at.
PopsFrontAlways == BufferInvariants /\ size > 0

\* pop() uses the first buffered node when it is the only one, or the one
\* above it is empty.
PopsFront ==
  /\ BufferInvariants
  /\ size > 0
  /\ Len(m_buf) > 1 => IsEmpty(Last(m_buf))

PopFront ==
  /\ PopsFront
  /\ Len(node[Head(m_buf)].values) > 1
  /\ node' = Popped(Head(m_buf))
  /\ size' = size - 1
  /\ UNCHANGED <<allocatorVars, top, nodes, m_buf>>

\* Seeded fault: the empty node above is dropped but not freed.
PopToPreviousLeaks ==
  LET first == Head(m_buf)
  IN  /\ PopsFront
      /\ Len(node[first].values) = 1
      /\ node[first].link # None
      /\ size' = size - 1
      /\ node' = Popped(first)
      /\ nodes' = nodes - Len(Tail(m_buf))
      /\ top' = first
      /\ UNCHANGED allocatorVars

\* The first node becomes empty: the empty node above it is freed.
PopToPrevious ==
  LET first == Head(m_buf)
  IN  /\ PopsFront
      /\ Len(node[first].values) = 1
      /\ node[first].link # None
      /\ size' = size - 1
      /\ FreeNodes(Popped(first), Tail(m_buf))
      /\ nodes' = nodes - Len(Tail(m_buf))
      /\ top' = first

\* ... and the predecessor is loaded into the buffer,
PopLoadsPrevious ==
  /\ PopToPrevious
  /\ m_buf' = <<node[Head(m_buf)].link, Head(m_buf)>>

\* ... or reading it throws, when the value is already gone.
PopReadFails ==
  /\ PopToPrevious
  /\ m_buf' = <<Head(m_buf)>>

\* The last value: no node stays behind.
PopLast ==
  /\ PopsFront
  /\ Len(node[Head(m_buf)].values) = 1
  /\ node[Head(m_buf)].link = None
  /\ size' = size - 1
  /\ FreeNodes(Popped(Head(m_buf)), Reverse(m_buf))
  /\ nodes' = nodes - Len(m_buf)
  /\ top' = None
  /\ m_buf' = << >>

\* top(): the last buffered node, unless it is empty.
Top ==
  Last(node[IF Len(m_buf) > 1 /\ ~IsEmpty(Last(m_buf)) THEN Last(m_buf) ELSE Head(m_buf)].values)

\* The nodes from the top to the bottom.
Chain == Linked(top)

\* clear() and reset(): every node on the list is freed.
Reset ==
  /\ FreeNodes(node, Chain)
  /\ top' = None
  /\ size' = 0
  /\ nodes' = 0
  /\ m_buf' = << >>

\* The stack object is destroyed and constructed again on the same anchor.
Reopen ==
  /\ m_buf' = CASE top = None -> << >>
                [] top # None /\ node[top].link = None -> <<top>>
                [] OTHER -> <<node[top].link, top>>
  /\ UNCHANGED <<node, allocatorVars, top, size, nodes>>

Next ==
  \/ \E v \in Values : PushExisting(v) \/ PushNewNode(v)
  \/ PushCreateFails
  \/ PopBack \/ PopFront \/ PopLoadsPrevious \/ PopReadFails \/ PopLast
  \/ Reset \/ Reopen

Spec == Init /\ [][Next]_vars

-----------------------------------------------------------------------------
(* Properties                                                              *)

Contents ==
  LET chain == Reverse(Chain) IN FlattenSeq([k \in DOMAIN chain |-> node[chain[k]].values])

\* Seen from outside the list of half-empty nodes is a stack: what pop() removes is
\* the value pushed last, across node boundaries, and after an operation that threw
\* in the middle.
Simple == INSTANCE AbstractStack WITH stack <- Contents
ImplementsStack == Simple!Spec

\* validate(), and more: the anchor's counters match the list, only the top node may
\* be empty, all nodes below the buffered ones are full, no node is a block that the
\* allocator thinks is free, and top() reads the value pushed last, out of whichever
\* buffered node holds it.
ListValid ==
  /\ Len(Contents) = size
  /\ Len(Chain) = nodes
  /\ \A k \in 2 .. Len(Chain) : ~IsEmpty(Chain[k])
  /\ \A k \in 3 .. Len(Chain) : IsFull(Chain[k])
  /\ ToSet(Chain) \subseteq allocated
  /\ size > 0 /\ BufferInvariants => Top = Last(Contents)

Leaked == allocated \ ToSet(Chain)

\* Every operation but a push() that fails in create_node() gives back to the
\* allocator all the blocks that it takes off the list.
NothingLeaked == [][ Leaked' \subseteq Leaked \/ PushCreateFails ]_vars

\* Every operation that returns leaves the buffer as check_buffer_invariants()
\* wants to find it; only a pop() that fails to read does not.
BufferMaintained == [][ BufferInvariants' \/ PopReadFails ]_vars

\* "Must buffer two nodes.", the assertion that top(), push() and pop() begin with: a
\* stack of two nodes or more has two of them in the buffer.
TwoNodesBuffered == size > 0 /\ nodes > 1 => Len(m_buf) = 2
=============================================================================
