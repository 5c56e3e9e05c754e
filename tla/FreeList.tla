------------------------------ MODULE FreeList ------------------------------
(***************************************************************************)
(* detail::free_list: unused blocks, kept in the unused blocks themselves. *)
(* A node of the list is one of the free blocks and names others; when it  *)
(* names none it is handed out itself.  Nodes start with a link and a      *)
(* counter, as those of the stack do: a block can be mistaken for either.  *)
(***************************************************************************)
EXTENDS Integers, FiniteSets, SequencesExt

CONSTANTS
  MaxBlocks,       \* bound: the engine does not grow beyond this size
  None,            \* the invalid block_index
  BlockCapacity    \* block_capacity(): block indices per node

Blocks == 0 .. MaxBlocks - 1

ASSUME FreeListAssumption ==
  /\ MaxBlocks \in Nat
  /\ None \notin Nat
  /\ BlockCapacity \in Nat \ {0}

VARIABLES
  head,   \* the anchor
  node    \* what each block holds: the link and the values

Empty == [link |-> None, values |-> << >>]

FreeListInit ==
  /\ head = None
  /\ node = [b \in Blocks |-> Empty]

List == [head |-> head, node |-> node]

\* Seeded fault: the new head is not linked to the old one.
PushUnlinked(list, block) ==
  IF list.head # None /\ Len(list.node[list.head].values) < BlockCapacity
  THEN [list EXCEPT !.node[list.head].values = Append(@, block)]
  ELSE [head |-> block, node |-> [list.node EXCEPT ![block] = Empty]]

\* push(): an entry of the head node, or a new head node.
Push(list, block) ==
  IF list.head # None /\ Len(list.node[list.head].values) < BlockCapacity
  THEN [list EXCEPT !.node[list.head].values = Append(@, block)]
  ELSE [head |-> block, node |-> [list.node EXCEPT ![block] = [Empty EXCEPT !.link = list.head]]]

PushAll(list, blocks) == FoldLeft(Push, list, blocks)

\* pop(): the head node's last entry, or the head node itself.
Pop(list) ==
  LET values == list.node[list.head].values
  IN  IF values # << >>
      THEN [block |-> Last(values), list |-> [list EXCEPT !.node[list.head].values = Front(@)]]
      ELSE [block |-> list.head, list |-> [list EXCEPT !.head = list.node[list.head].link]]

-----------------------------------------------------------------------------

\* The blocks from b on along the links, as long as there are any.
Linked(b) ==
  LET walk[k \in 0 .. MaxBlocks] ==
        [n \in Blocks \cup {None} |->
           IF k = 0 \/ n = None THEN << >> ELSE <<n>> \o walk[k - 1][node[n].link]]
  IN  walk[MaxBlocks][b]

\* All the blocks pop() will return, in some order.
Listed ==
  LET nodes == Linked(head)
  IN  nodes \o FlattenSeq([k \in DOMAIN nodes |-> node[nodes[k]].values])

\* pop() looks into the head node only: behind it every node must be full, or
\* push() would spend a node where an entry was free.
OnlyHeadHasRoom ==
  LET nodes == Linked(head)
  IN  \A k \in 2 .. Len(nodes) : Len(node[nodes[k]].values) = BlockCapacity
=============================================================================
