------------------------------- MODULE BTree -------------------------------
(***************************************************************************)
(* The btree of container/btree: a tree of leaf and internal nodes in      *)
(* blocks, its anchor, and the cursors that are linked to it.  Cursors     *)
(* hold the path from the root to their element (m_parents, m_leaf,        *)
(* m_index); every insertion, erasure, split, merge and steal of an entry  *)
(* repairs the paths of all of them, and that is what the properties are   *)
(* about.                                                                  *)
(*                                                                         *)
(* A value is its key: what else it carries is never looked at.  Indices   *)
(* count from 1, so an index of the model is the code's index plus one,    *)
(* and "m_index = get_size()" becomes index = Len(vals) + 1.  The block    *)
(* allocator is external: a new node gets the smallest free block.  The    *)
(* operations are total: an allocation never fails.                        *)
(*                                                                         *)
(* Operations work on a record s of the tree's state (the anchor, the      *)
(* nodes and the cursors), in the order of the code's assignments.         *)
(***************************************************************************)
EXTENDS Integers, Sequences, FiniteSets, SequencesExt

CONSTANTS
  Keys,            \* the keys of the values, a set of integers
  LeafCapacity,    \* m_leaf_capacity
  MaxChildren,     \* m_internal_max_children
  NodeIds,         \* the blocks the nodes can live in, a set of integers
  Cursors,         \* the cursors the application keeps
  Temp,            \* the cursor a call such as raw_btree::insert makes for itself
  None             \* the invalid block index

\* The constructor refuses a block size that does not give these.
ASSUME CapacityAssumption == LeafCapacity >= 2 /\ MaxChildren >= 4

VARIABLES
  anchor,          \* raw_btree_anchor
  node,            \* the content of every allocated block of the tree
  cursor           \* the cursors of m_cursors

treeVars == <<anchor, node, cursor>>

MinValues == LeafCapacity \div 2
MinChildren == MaxChildren \div 2

------------------------------------------------------------------------
\* The data.

EmptyAnchor == [root |-> None, height |-> 0, leftmost |-> None, rightmost |-> None,
                size |-> 0, leaf_nodes |-> 0, internal_nodes |-> 0]

Leaf(vals) == [kind |-> "leaf", vals |-> vals]
Internal(keys, kids) == [kind |-> "internal", keys |-> keys, kids |-> kids]

\* reset_to_zero and reset_to_invalid, which may keep the DELETED flag.
ZeroCursor == [parents |-> <<>>, leaf |-> None, index |-> 1, flags |-> {}]
InvalidCursor(flags) == [ZeroCursor EXCEPT !.flags = flags \cup {"INVALID"}]

Invalid(c) == "INVALID" \in c.flags
Erased(c) == "DELETED" \in c.flags
Usable(c) == c.flags = {}

\* The operations that walk over m_cursors skip the invalid ones.
WithCursors(s, Fix(_, _)) ==
  [s EXCEPT !.cur = [c \in DOMAIN s.cur |->
                       IF Invalid(s.cur[c]) THEN s.cur[c] ELSE Fix(c, s.cur[c])]]

FreshNode(s) == CHOOSE b \in NodeIds \ DOMAIN s.node :
                  \A other \in NodeIds \ DOMAIN s.node : b <= other

CreateNode(s, content) ==
  LET counter == IF content.kind = "leaf" THEN "leaf_nodes" ELSE "internal_nodes"
  IN  [s EXCEPT !.node = (FreshNode(s) :> content) @@ @,
                !.anchor[counter] = @ + 1]

FreeNode(s, b) ==
  LET counter == IF s.node[b].kind = "leaf" THEN "leaf_nodes" ELSE "internal_nodes"
  IN  [s EXCEPT !.node = [x \in DOMAIN @ \ {b} |-> @[x]], !.anchor[counter] = @ - 1]

------------------------------------------------------------------------
\* Searching.

\* Position of the first element that is not smaller (not smaller or equal).
LowerBound(seq, key) == 1 + Cardinality({i \in DOMAIN seq : seq[i] < key})
UpperBound(seq, key) == 1 + Cardinality({i \in DOMAIN seq : seq[i] <= key})
Bound(which, seq, key) == IF which = "lower" THEN LowerBound(seq, key) ELSE UpperBound(seq, key)

\* The path from node b down to a leaf; Pick chooses the child in a node.
Path(s, b, Pick(_)) ==
  LET down[x \in DOMAIN s.node] ==
        IF s.node[x].kind = "leaf" THEN [ZeroCursor EXCEPT !.leaf = x]
        ELSE LET index == Pick(s.node[x])
             IN  [down[s.node[x].kids[index]] EXCEPT
                    !.parents = <<[node |-> x, index |-> index]>> \o @]
  IN  down[b]

FirstChild(n) == 1
LastChild(n) == Len(n.kids)

\* next_leaf and prev_leaf: the deepest parent that has a child on that side,
\* then down along its first (last) children.  None: there is no such leaf.
Sibling(s, c, step, Pick(_)) ==
  LET able == {i \in DOMAIN c.parents :
                 c.parents[i].index + step \in DOMAIN s.node[c.parents[i].node].kids}
      pos == CHOOSE i \in able : \A j \in able : j <= i
      entry == [c.parents[pos] EXCEPT !.index = @ + step]
      down == Path(s, s.node[entry.node].kids[entry.index], Pick)
  IN  IF able = {} THEN None
      ELSE [down EXCEPT !.parents = Append(SubSeq(c.parents, 1, pos - 1), entry) \o @]

\* Seeded fault: only the lowest internal node is asked for a next leaf.
NextLeafOfParent(s, c) ==
  IF c.parents = <<>> \/ Last(c.parents).index = Len(s.node[Last(c.parents).node].kids) THEN None
  ELSE Sibling(s, c, 1, FirstChild)

NextLeaf(s, c) == Sibling(s, c, 1, FirstChild)
PrevLeaf(s, c) == Sibling(s, c, -1, LastChild)

\* seek_bound: a bound that is not in its leaf is the first value of the next
\* one, because the keys of internal nodes may be larger than what is below.
SeekBound(s, key, which) ==
  IF s.anchor.height = 0 THEN InvalidCursor({})
  ELSE LET down == Path(s, s.anchor.root, LAMBDA n : Bound(which, n.keys, key))
           here == [down EXCEPT !.index = Bound(which, s.node[down.leaf].vals, key)]
           next == NextLeaf(s, here)
       IN  IF here.index <= Len(s.node[here.leaf].vals) THEN here
           ELSE IF next = None THEN InvalidCursor({}) ELSE next

\* find does not go on to the next leaf.
Find(s, key) ==
  IF s.anchor.height = 0 THEN InvalidCursor({})
  ELSE LET down == Path(s, s.anchor.root, LAMBDA n : LowerBound(n.keys, key))
           here == [down EXCEPT !.index = LowerBound(s.node[down.leaf].vals, key)]
           vals == s.node[here.leaf].vals
       IN  IF here.index <= Len(vals) /\ vals[here.index] = key THEN here ELSE InvalidCursor({})

------------------------------------------------------------------------
\* Insertion.

\* internal_node::insert_split_result: the new child is at index.
WithChild(n, index, key, child) ==
  Internal(InsertAt(n.keys, index - 1, key), InsertAt(n.kids, index, child))

CreateRoot(s, left, right, key) ==
  LET s1 == CreateNode(s, Internal(<<key>>, <<left, right>>))
  IN  [s1 EXCEPT !.anchor.height = @ + 1, !.anchor.root = FreshNode(s)]

\* apply_root_split: all cursors get the new root in front of their path.
ApplyRootSplit(s, root, left, right) ==
  LET count == Len(s.node[left].kids)
      Fix(c, cur) ==
        LET old == cur.parents[1]
        IN  IF old.index > count
            THEN [cur EXCEPT !.parents =
                    <<[node |-> root, index |-> 2],
                      [node |-> right, index |-> old.index - count]>> \o Tail(@)]
            ELSE [cur EXCEPT !.parents = <<[node |-> root, index |-> 1]>> \o @]
  IN  WithCursors(s, Fix)

\* apply_child_split: depth is the place of the parent on the path.
ApplyChildSplit(s, parent, depth, at, right) ==
  LET count == Len(s.node[s.node[parent].kids[at]].kids)
      Fix(c, cur) ==
        LET up == cur.parents[depth]
            down == cur.parents[depth + 1]
        IN  CASE up.node # parent \/ up.index < at -> cur
              [] up.node = parent /\ up.index > at -> [cur EXCEPT !.parents[depth].index = @ + 1]
              [] up.node = parent /\ up.index = at ->
                   IF down.index <= count THEN cur
                   ELSE [cur EXCEPT !.parents[depth].index = @ + 1,
                                    !.parents[depth + 1] = [node |-> right, index |-> @.index - count]]
  IN  WithCursors(s, Fix)

\* A full internal node b at the end of the path of cursor me is split in
\* advance, so that the level below can always add an entry to it.
SplitInternal(s, me, b) ==
  LET full == s.node[b]
      count == (Len(full.kids) + 1) \div 2
      right == FreshNode(s)
      s1 == CreateNode(s, Internal(SubSeq(full.keys, count + 1, Len(full.keys)),
                                   SubSeq(full.kids, count + 1, Len(full.kids))))
      s2 == [s1 EXCEPT !.node[b] = Internal(SubSeq(full.keys, 1, count - 1),
                                            SubSeq(full.kids, 1, count))]
      depth == Len(s.cur[me].parents)
      up == s.cur[me].parents[depth - 1]
  IN  IF depth = 1
      THEN ApplyRootSplit(CreateRoot(s2, b, right, full.keys[count]), FreshNode(s2), b, right)
      ELSE ApplyChildSplit(
             [s2 EXCEPT !.node[up.node] = WithChild(@, up.index + 1, full.keys[count], right)],
             up.node, depth - 1, up.index, right)

\* seek_insert_location; b is the node the walk has reached.
RECURSIVE SeekInsertLocation(_, _, _, _)
SeekInsertLocation(s, me, key, b) ==
  IF s.node[b].kind = "leaf"
  THEN [s EXCEPT !.cur[me].leaf = b, !.cur[me].index = LowerBound(s.node[b].vals, key)]
  ELSE LET s1 == [s EXCEPT !.cur[me].parents =
                     Append(@, [node |-> b, index |-> LowerBound(s.node[b].keys, key)])]
           s2 == IF Len(s.node[b].kids) = MaxChildren THEN SplitInternal(s1, me, b) ELSE s1
           entry == Last(s2.cur[me].parents)
       IN  SeekInsertLocation(s2, me, key, s2.node[entry.node].kids[entry.index])

\* Seeded fault: the cursor at the place of insertion stays where it is.
ShiftedBehind(c, cur, me, leaf, at) ==
  IF c # me /\ cur.leaf = leaf /\ cur.index > at THEN [cur EXCEPT !.index = @ + 1] ELSE cur

\* The cursors behind the place of insertion move with their element.
Shifted(c, cur, me, leaf, at) ==
  IF c # me /\ cur.leaf = leaf /\ cur.index >= at THEN [cur EXCEPT !.index = @ + 1] ELSE cur

\* How many values stay in a full leaf that is split: splits at the ends of the
\* tree are made for values that arrive in order.
LeftSize(s, leaf) ==
  CASE leaf = s.anchor.rightmost -> LeafCapacity
    [] leaf # s.anchor.rightmost /\ leaf = s.anchor.leftmost -> 1
    [] OTHER -> (LeafCapacity + 2) \div 2

\* The leaf is full: the values behind left_size go into a new leaf to the right.
SplitLeaf(s, me, key) ==
  LET here == s.cur[me]
      leaf == here.leaf
      at == here.index
      left_size == LeftSize(s, leaf)
      all == InsertAt(s.node[leaf].vals, at, key)
      new == FreshNode(s)
      s1 == CreateNode(s, Leaf(SubSeq(all, left_size + 1, Len(all))))
      s2 == [s1 EXCEPT !.node[leaf] = Leaf(SubSeq(all, 1, left_size)),
                       !.anchor.rightmost = IF @ = leaf THEN new ELSE @]
      Moved(cur) == IF cur.index > left_size
                    THEN [cur EXCEPT !.leaf = new, !.index = @ - left_size] ELSE cur
      OfRoot(c, cur) ==
        LET cur1 == Moved(Shifted(c, cur, me, leaf, at))
        IN  [cur1 EXCEPT !.parents =
               <<[node |-> FreshNode(s2), index |-> IF cur1.leaf = new THEN 2 ELSE 1]>>]
      depth == Len(here.parents)
      up == here.parents[depth]
      OfParent(c, cur) ==
        LET cur1 == Moved(Shifted(c, cur, me, leaf, at))
        IN  CASE cur.parents[depth].node # up.node \/ cur.parents[depth].index < up.index -> cur
              [] cur.parents[depth].node = up.node /\ cur.parents[depth].index > up.index ->
                   [cur EXCEPT !.parents[depth].index = @ + 1]
              [] cur.parents[depth].node = up.node /\ cur.parents[depth].index = up.index ->
                   [cur1 EXCEPT !.parents[depth].index = IF cur1.leaf = new THEN @ + 1 ELSE @]
  IN  IF depth = 0
      THEN WithCursors(CreateRoot(s2, leaf, new, all[left_size]), OfRoot)
      ELSE WithCursors([s2 EXCEPT !.node[up.node] = WithChild(@, up.index + 1, all[left_size], new)],
                       OfParent)

InsertNonfull(s, me, key) ==
  LET here == s.cur[me]
      Fix(c, cur) == Shifted(c, cur, me, here.leaf, here.index)
  IN  WithCursors([s EXCEPT !.node[here.leaf].vals = InsertAt(@, here.index, key)], Fix)

InsertFirst(s, me, key) ==
  LET new == FreshNode(s)
      s1 == CreateNode(s, Leaf(<<key>>))
  IN  [s1 EXCEPT !.anchor = [@ EXCEPT !.height = 1, !.size = 1, !.root = new,
                                      !.leftmost = new, !.rightmost = new],
                 !.cur[me] = [ZeroCursor EXCEPT !.leaf = new]]

\* tree::insert.  The internal nodes on the way may be split even when the key
\* turns out to be there already.
InsertValue(s, me, key) ==
  IF s.anchor.size = 0 THEN InsertFirst(s, me, key)
  ELSE LET s1 == SeekInsertLocation([s EXCEPT !.cur[me] = ZeroCursor], me, key, s.anchor.root)
           vals == s1.node[s1.cur[me].leaf].vals
           at == s1.cur[me].index
           s2 == IF Len(vals) < LeafCapacity THEN InsertNonfull(s1, me, key) ELSE SplitLeaf(s1, me, key)
       IN  IF at <= Len(vals) /\ vals[at] = key THEN s1
           ELSE [s2 EXCEPT !.anchor.size = @ + 1]

------------------------------------------------------------------------
\* Erasure.

\* Seeded fault: it is always the last key that goes.
WithoutChildOrLastKey(n, index) == Internal(Front(n.keys), RemoveAt(n.kids, index))

\* internal_node::remove_child: the key of the child goes with it, the last
\* child takes the key before it.
WithoutChild(n, index) ==
  Internal(IF index = Len(n.kids) THEN Front(n.keys) ELSE RemoveAt(n.keys, index),
           RemoveAt(n.kids, index))

LastEntry(cur) == Last(cur.parents)
MoveLastEntry(cur, by) == [cur EXCEPT !.parents[Len(cur.parents)].index = @ + by]

\* One value moves from the neighbor into the leaf at index li of parent.
StealLeafEntry(s, parent, li, ni) ==
  LET leaf == s.node[parent].kids[li]
      other == s.node[parent].kids[ni]
      mine == s.node[leaf].vals
      its == s.node[other].vals
      FromRight(c, cur) ==
        IF cur.leaf # other THEN cur
        ELSE IF cur.index = 1
             THEN MoveLastEntry([cur EXCEPT !.leaf = leaf, !.index = Len(mine) + 1], -1)
             ELSE [cur EXCEPT !.index = @ - 1]
      FromLeft(c, cur) ==
        CASE cur.leaf = leaf -> [cur EXCEPT !.index = @ + 1]
          [] cur.leaf = other /\ cur.index >= Len(its) ->
               MoveLastEntry([cur EXCEPT !.leaf = leaf, !.index = @ - (Len(its) - 1)], 1)
          [] OTHER -> cur
  IN  IF ni = li + 1
      THEN WithCursors([s EXCEPT !.node[leaf].vals = Append(mine, its[1]),
                                 !.node[other].vals = Tail(its),
                                 !.node[parent].keys[li] = its[1]], FromRight)
      ELSE WithCursors([s EXCEPT !.node[leaf].vals = <<Last(its)>> \o mine,
                                 !.node[other].vals = Front(its),
                                 !.node[parent].keys[ni] = its[Len(its) - 1]], FromLeft)

\* All values of the neighbor move into the leaf; the neighbor is freed later.
MergeLeaf(s, parent, li, ni) ==
  LET leaf == s.node[parent].kids[li]
      other == s.node[parent].kids[ni]
      mine == s.node[leaf].vals
      its == s.node[other].vals
      FromRight(c, cur) ==
        IF cur.leaf # other THEN cur
        ELSE MoveLastEntry([cur EXCEPT !.leaf = leaf, !.index = @ + Len(mine)], -1)
      FromLeft(c, cur) ==
        CASE cur.leaf = leaf -> [cur EXCEPT !.index = @ + Len(its)]
          [] cur.leaf = other -> MoveLastEntry([cur EXCEPT !.leaf = leaf], 1)
          [] OTHER -> cur
  IN  IF ni = li + 1
      THEN WithCursors([s EXCEPT !.node[leaf].vals = mine \o its,
                                 !.anchor.rightmost = IF @ = other THEN leaf ELSE @,
                                 !.node[parent].keys = IF ni = Len(s.node[parent].kids) THEN @
                                                       ELSE [@ EXCEPT ![li] = Last(its)]],
                       FromRight)
      ELSE WithCursors([s EXCEPT !.node[leaf].vals = its \o mine,
                                 !.anchor.leftmost = IF @ = other THEN leaf ELSE @],
                       FromLeft)

\* The same for internal nodes; depth is the place of the node on the paths.
StealInternalEntry(s, parent, depth, xi, ni) ==
  LET x == s.node[parent].kids[xi]
      other == s.node[parent].kids[ni]
      mine == s.node[x]
      its == s.node[other]
      FromRight(c, cur) ==
        IF cur.parents[depth].node # other THEN cur
        ELSE IF cur.parents[depth].index = 1
             THEN [cur EXCEPT !.parents[depth] = [node |-> x, index |-> Len(mine.kids) + 1],
                              !.parents[depth - 1].index = @ - 1]
             ELSE [cur EXCEPT !.parents[depth].index = @ - 1]
      FromLeft(c, cur) ==
        CASE cur.parents[depth].node = x -> [cur EXCEPT !.parents[depth].index = @ + 1]
          [] cur.parents[depth].node = other /\ cur.parents[depth].index >= Len(its.kids) ->
               [cur EXCEPT !.parents[depth] = [node |-> x, index |-> @.index - (Len(its.kids) - 1)],
                           !.parents[depth - 1].index = @ + 1]
          [] OTHER -> cur
  IN  IF ni = xi + 1
      THEN WithCursors([s EXCEPT
             !.node[x] = Internal(Append(mine.keys, s.node[parent].keys[xi]),
                                  Append(mine.kids, its.kids[1])),
             !.node[parent].keys[xi] = its.keys[1],
             !.node[other] = WithoutChild(its, 1)], FromRight)
      ELSE WithCursors([s EXCEPT
             !.node[x] = Internal(<<s.node[parent].keys[ni]>> \o mine.keys,
                                  <<Last(its.kids)>> \o mine.kids),
             !.node[parent].keys[ni] = Last(its.keys),
             !.node[other] = WithoutChild(its, Len(its.kids))], FromLeft)

MergeInternal(s, parent, depth, xi, ni) ==
  LET x == s.node[parent].kids[xi]
      other == s.node[parent].kids[ni]
      mine == s.node[x]
      its == s.node[other]
      FromRight(c, cur) ==
        IF cur.parents[depth].node # other THEN cur
        ELSE [cur EXCEPT !.parents[depth] = [node |-> x, index |-> @.index + Len(mine.kids)],
                         !.parents[depth - 1].index = @ - 1]
      FromLeft(c, cur) ==
        CASE cur.parents[depth].node = other ->
               [cur EXCEPT !.parents[depth].node = x, !.parents[depth - 1].index = @ + 1]
          [] cur.parents[depth].node = x -> [cur EXCEPT !.parents[depth].index = @ + Len(its.kids)]
          [] OTHER -> cur
  IN  IF ni = xi + 1
      THEN WithCursors([s EXCEPT
             !.node[x] = Internal(mine.keys \o <<s.node[parent].keys[xi]>> \o its.keys,
                                  mine.kids \o its.kids),
             !.node[parent].keys = IF ni = Len(s.node[parent].kids) THEN @
                                   ELSE [@ EXCEPT ![xi] = s.node[parent].keys[ni]]], FromRight)
      ELSE WithCursors([s EXCEPT
             !.node[x] = Internal(its.keys \o <<s.node[parent].keys[ni]>> \o mine.keys,
                                  its.kids \o mine.kids)], FromLeft)

\* Removes child ci of the node at place depth of the path of cursor me and
\* repairs the levels above it.
RECURSIVE PropagateDeletion(_, _, _, _)
PropagateDeletion(s, me, depth, ci) ==
  LET x == s.cur[me].parents[depth].node
      Fix(c, cur) ==
        IF cur.parents[depth].node = x /\ cur.parents[depth].index > ci
        THEN [cur EXCEPT !.parents[depth].index = @ - 1] ELSE cur
      s1 == WithCursors([s EXCEPT !.node[x] = WithoutChild(@, ci)], Fix)
      kids == s1.node[x].kids
      DropRoot(c, cur) == [cur EXCEPT !.parents = Tail(@)]
      Collapse == WithCursors(FreeNode([s1 EXCEPT !.anchor.root = kids[1],
                                                  !.anchor.height = @ - 1], x), DropRoot)
      up == s1.cur[me].parents[depth - 1]
      ups == s1.node[up.node].kids
      Spare(i) == i \in DOMAIN ups /\ Len(s1.node[ups[i]].kids) > MinChildren
      ni == IF up.index > 1 THEN up.index - 1 ELSE up.index + 1
  IN  IF depth = 1 THEN IF Len(kids) = 1 THEN Collapse ELSE s1
      ELSE IF Len(kids) >= MinChildren THEN s1
      ELSE IF Spare(up.index + 1) THEN StealInternalEntry(s1, up.node, depth, up.index, up.index + 1)
      ELSE IF Spare(up.index - 1) THEN StealInternalEntry(s1, up.node, depth, up.index, up.index - 1)
      ELSE PropagateDeletion(
             FreeNode(MergeInternal(s1, up.node, depth, up.index, ni), ups[ni]),
             me, depth - 1, ni)

MergeAndPropagate(s, me, li, ni) ==
  LET parent == LastEntry(s.cur[me]).node
      other == s.node[parent].kids[ni]
  IN  PropagateDeletion(FreeNode(MergeLeaf(s, parent, li, ni), other), me,
                        Len(s.cur[me].parents), ni)

\* The root is a leaf and has become empty: so has the tree.
EraseRoot(s, leaf) ==
  LET Fix(c, cur) == InvalidCursor(cur.flags)
  IN  WithCursors([FreeNode(s, leaf) EXCEPT !.anchor =
                     [@ EXCEPT !.root = None, !.leftmost = None, !.rightmost = None, !.height = 0]],
                  Fix)

\* A leaf at an end of the tree has become empty: its (erased) cursors go to
\* the neighbor.
DropEndLeaf(s, me, leaf) ==
  LET parent == LastEntry(s.cur[me]).node
      li == LastEntry(s.cur[me]).index
      left == leaf = s.anchor.leftmost
      ni == IF left THEN li + 1 ELSE li - 1
      other == s.node[parent].kids[ni]
      Fix(c, cur) ==
        IF cur.leaf # leaf THEN cur
        ELSE MoveLastEntry([cur EXCEPT !.leaf = other,
                                       !.index = IF left THEN 1 ELSE Len(s.node[other].vals) + 1],
                           ni - li)
      s1 == WithCursors([s EXCEPT !.anchor.leftmost = IF left THEN other ELSE @,
                                  !.anchor.rightmost = IF left THEN @ ELSE other], Fix)
  IN  PropagateDeletion(FreeNode(s1, leaf), me, Len(s.cur[me].parents), li)

\* An inner leaf with too few values steals one from a neighbor or merges.
FixInnerLeaf(s, me) ==
  LET parent == LastEntry(s.cur[me]).node
      li == LastEntry(s.cur[me]).index
      kids == s.node[parent].kids
      Spare(i, end) ==
        i \in DOMAIN kids
        /\ LET n == Len(s.node[kids[i]].vals) IN n > MinValues \/ (kids[i] = end /\ n > 1)
      ni == IF li < Len(kids) THEN li + 1 ELSE li - 1
  IN  IF Spare(li + 1, s.anchor.rightmost) THEN StealLeafEntry(s, parent, li, li + 1)
      ELSE IF Spare(li - 1, s.anchor.leftmost) THEN StealLeafEntry(s, parent, li, li - 1)
      ELSE MergeAndPropagate(s, me, li, ni)

\* tree::erase of the element at the cursor me.
EraseAt(s, me) ==
  LET leaf == s.cur[me].leaf
      at == s.cur[me].index
      Mark(c, cur) ==
        CASE cur.leaf # leaf \/ cur.index < at -> cur
          [] cur.leaf = leaf /\ cur.index = at -> [cur EXCEPT !.flags = @ \cup {"DELETED"}]
          [] cur.leaf = leaf /\ cur.index > at -> [cur EXCEPT !.index = @ - 1]
      s1 == WithCursors([s EXCEPT !.node[leaf].vals = RemoveAt(@, at), !.anchor.size = @ - 1], Mark)
      count == Len(s1.node[leaf].vals)
      atEnd == leaf \in {s.anchor.leftmost, s.anchor.rightmost}
      li == LastEntry(s.cur[me]).index
  IN  IF s.cur[me].parents = <<>> THEN IF count = 0 THEN EraseRoot(s1, leaf) ELSE s1
      ELSE IF atEnd /\ count = 0 THEN DropEndLeaf(s1, me, leaf)
      ELSE IF atEnd /\ s.anchor.leaf_nodes = 2 /\ s1.anchor.size <= LeafCapacity
           THEN MergeAndPropagate(s1, me, li, IF leaf = s.anchor.leftmost THEN 2 ELSE 1)
      ELSE IF atEnd \/ count >= MinValues THEN s1
      ELSE FixInnerLeaf(s1, me)

\* tree::clear
Cleared(s) ==
  LET Fix(c, cur) == InvalidCursor({"DELETED"})
  IN  [WithCursors(s, Fix) EXCEPT !.anchor = EmptyAnchor, !.node = <<>>]

------------------------------------------------------------------------
\* The cursor's own moves.

MinPosition(s) == IF s.anchor.height = 0 THEN InvalidCursor({}) ELSE Path(s, s.anchor.root, FirstChild)

LastOf(s, c) == [c EXCEPT !.index = Len(s.node[c.leaf].vals)]

MaxPosition(s) ==
  IF s.anchor.height = 0 THEN InvalidCursor({}) ELSE LastOf(s, Path(s, s.anchor.root, LastChild))

\* move_next: an erased cursor stands before the element that follows.
NextPosition(s, c) ==
  LET here == [c EXCEPT !.flags = {}, !.index = IF Erased(c) THEN @ ELSE @ + 1]
      next == NextLeaf(s, here)
  IN  IF Invalid(c) THEN [c EXCEPT !.flags = {"INVALID"}]
      ELSE IF here.index <= Len(s.node[c.leaf].vals) THEN here
      ELSE IF next = None THEN InvalidCursor({}) ELSE next

PrevPosition(s, c) ==
  LET prev == PrevLeaf(s, c)
  IN  IF Invalid(c) THEN [c EXCEPT !.flags = {"INVALID"}]
      ELSE IF c.index > 1 THEN [c EXCEPT !.flags = {}, !.index = @ - 1]
      ELSE IF prev = None THEN InvalidCursor({}) ELSE LastOf(s, prev)

------------------------------------------------------------------------
\* The operations of the interface.

State == [anchor |-> anchor, node |-> node,
          cur |-> [c \in Cursors \cup {Temp} |->
                     IF c = Temp THEN InvalidCursor({}) ELSE cursor[c]]]

\* The addresses of blocks mean nothing: after an operation the nodes are
\* numbered in the order a walk over the tree meets them, what is not part of
\* the tree behind them.
Renumbered(s) ==
  LET walk[x \in DOMAIN s.node] ==
        <<x>> \o (IF s.node[x].kind = "leaf" THEN <<>>
                  ELSE FlattenSeq([i \in DOMAIN s.node[x].kids |-> walk[s.node[x].kids[i]]]))
      met == IF s.anchor.height = 0 THEN <<>> ELSE walk[s.anchor.root]
      order == met \o SetToSortSeq(DOMAIN s.node \ Range(met), <)
      number == [b \in DOMAIN s.node |-> CHOOSE i \in DOMAIN order : order[i] = b] @@ (None :> None)
      Renamed(n) == IF n.kind = "leaf" THEN n
                    ELSE [n EXCEPT !.kids = [i \in DOMAIN @ |-> number[@[i]]]]
      Moved(cur) == [cur EXCEPT !.leaf = number[@],
                                !.parents = [i \in DOMAIN @ |-> [@[i] EXCEPT !.node = number[@]]]]
  IN  [s EXCEPT !.node = [i \in DOMAIN order |-> Renamed(s.node[order[i]])],
                !.anchor = [@ EXCEPT !.root = number[@], !.leftmost = number[@], !.rightmost = number[@]],
                !.cur = [c \in DOMAIN @ |-> Moved(@[c])]]

\* A cursor that a call made for itself is unlinked when the call is over.
Becomes(s) ==
  LET r == Renumbered(s)
  IN  /\ anchor' = r.anchor
      /\ node' = r.node
      /\ cursor' = [c \in Cursors |-> r.cur[c]]

Init ==
  /\ anchor = EmptyAnchor
  /\ node = <<>>
  /\ cursor = [c \in Cursors |-> InvalidCursor({})]

\* raw_btree::insert (a cursor of its own) and cursor::insert.
Insert(c, key) == Becomes(InsertValue(State, c, key))

\* find and erase, with a cursor of the call's own ...
EraseKey(key) ==
  LET here == Find(State, key)
  IN  Usable(here) /\ Becomes(EraseAt([State EXCEPT !.cur[Temp] = here], Temp))

\* ... or cursor::erase, which check_element_valid guards.
Erase(c) == Usable(cursor[c]) /\ Becomes(EraseAt(State, c))

Clear == anchor.size > 0 /\ Becomes(Cleared(State))

Seek(c, position) == cursor' = [cursor EXCEPT ![c] = position] /\ UNCHANGED <<anchor, node>>

MoveMin(c) == Seek(c, MinPosition(State))
MoveMax(c) == Seek(c, MaxPosition(State))

\* A cursor that is invalid and not erased throws bad_cursor.
MoveNext(c) == (Usable(cursor[c]) \/ Erased(cursor[c])) /\ Seek(c, NextPosition(State, cursor[c]))
MovePrev(c) == (Usable(cursor[c]) \/ Erased(cursor[c])) /\ Seek(c, PrevPosition(State, cursor[c]))

SeekKey(c, key) ==
  \/ Seek(c, Find(State, key))
  \/ Seek(c, SeekBound(State, key, "lower"))
  \/ Seek(c, SeekBound(State, key, "upper"))

Reset(c) == Seek(c, InvalidCursor({}))

TreeStep ==
  \/ \E c \in Cursors \cup {Temp}, key \in Keys : Insert(c, key)
  \/ \E key \in Keys : EraseKey(key)
  \/ \E c \in Cursors : Erase(c)
  \/ Clear

CursorStep ==
  \E c \in Cursors :
    \/ MoveMin(c) \/ MoveMax(c) \/ MoveNext(c) \/ MovePrev(c) \/ Reset(c)
    \/ \E key \in Keys : SeekKey(c, key)

------------------------------------------------------------------------
\* Correctness.

Below(s, b) ==
  LET below[x \in DOMAIN s.node] ==
        IF s.node[x].kind = "leaf" THEN s.node[x].vals
        ELSE FlattenSeq([i \in DOMAIN s.node[x].kids |-> below[s.node[x].kids[i]]])
  IN  below[b]

\* The values of the tree, in its order.
Contents(s) == IF s.anchor.height = 0 THEN <<>> ELSE Below(s, s.anchor.root)

NodesBelow(s, b) ==
  LET nodes[x \in DOMAIN s.node] ==
        {x} \cup (IF s.node[x].kind = "leaf" THEN {} ELSE UNION {nodes[k] : k \in Range(s.node[x].kids)})
  IN  nodes[b]

TreeNodes(s) == IF s.anchor.height = 0 THEN {} ELSE NodesBelow(s, s.anchor.root)

Ascending(seq) == \A i, j \in DOMAIN seq : i < j => seq[i] < seq[j]

\* The checks of tree::validate below node b: everything is in (lo, hi].
RECURSIVE ValidBelow(_, _, _, _, _)
ValidBelow(s, b, level, lo, hi) ==
  LET n == s.node[b]
      bounds == <<lo>> \o n.keys \o <<hi>>
      ends == {s.anchor.root, s.anchor.leftmost, s.anchor.rightmost}
  IN  IF level = 0
      THEN /\ n.kind = "leaf"
           /\ Len(n.vals) \in (IF b \in ends THEN 1 ELSE MinValues) .. LeafCapacity
           /\ n.vals # <<>>
           /\ Ascending(n.vals)
           /\ \A i \in DOMAIN n.vals : lo < n.vals[i] /\ n.vals[i] <= hi
      ELSE /\ n.kind = "internal"
           /\ Len(n.kids) \in (IF b = s.anchor.root THEN 2 ELSE MinChildren) .. MaxChildren
           /\ Len(n.keys) = Len(n.kids) - 1
           /\ Ascending(<<lo>> \o n.keys)
           /\ \A i \in DOMAIN n.keys : n.keys[i] <= hi
           /\ \A i \in DOMAIN n.kids :
                ValidBelow(s, n.kids[i], level - 1, bounds[i], bounds[i + 1])

LeafOf(s, Pick(_)) == IF s.anchor.height = 0 THEN None ELSE Path(s, s.anchor.root, Pick).leaf

\* What tree::validate checks of the nodes: order, the bounds the internal keys
\* promise, and fill limits in every node but the root and the two end leaves;
\* the end leaves and the size are those of the anchor.
ValidTree(s) ==
  /\ s.anchor.height > 0 =>
       ValidBelow(s, s.anchor.root, s.anchor.height - 1,
                  (CHOOSE k \in Keys : \A other \in Keys : k <= other) - 1,
                  CHOOSE k \in Keys : \A other \in Keys : k >= other)
  /\ s.anchor.leftmost = LeafOf(s, FirstChild)
  /\ s.anchor.rightmost = LeafOf(s, LastChild)
  /\ s.anchor.size = Len(Contents(s))

\* The path of a cursor is a path of the tree, from the root to a leaf, and it
\* ends at an element, or for an erased cursor at most right behind the last
\* element of a leaf (the assertions of cursor::check_element_valid).
CursorsOnPath ==
  \A c \in Cursors :
    LET cur == cursor[c]
        ids == [i \in DOMAIN cur.parents |-> cur.parents[i].node] \o <<cur.leaf>>
    IN  ~Invalid(cur) =>
          /\ anchor.height = Len(ids)
          /\ ids[1] = anchor.root
          /\ \A i \in DOMAIN ids : ids[i] \in DOMAIN node
          /\ \A i \in DOMAIN cur.parents :
               /\ cur.parents[i].index \in DOMAIN node[ids[i]].kids
               /\ node[ids[i]].kids[cur.parents[i].index] = ids[i + 1]
          /\ cur.index \in 1 .. (Len(node[cur.leaf].vals) + IF Erased(cur) THEN 1 ELSE 0)

ValueAt(s, c) == s.node[c.leaf].vals[c.index]

\* Every search finds what a search in the ordered set of values would find,
\* although the keys of internal nodes may be stale.
SearchesAreExact ==
  LET s == State
      all == Range(Contents(s))
      Hits(c, wanted) == IF wanted = {} THEN c = InvalidCursor({})
                         ELSE Usable(c) /\ ValueAt(s, c) = CHOOSE k \in wanted : \A x \in wanted : k <= x
  IN  \A key \in Keys :
        /\ Hits(Find(s, key), all \cap {key})
        /\ Hits(SeekBound(s, key, "lower"), {k \in all : k >= key})
        /\ Hits(SeekBound(s, key, "upper"), {k \in all : k > key})

\* The values to the left of a cursor that is not invalid.
RECURSIVE LeftOf(_, _)
LeftOf(s, c) ==
  IF c.parents = <<>> THEN {s.node[c.leaf].vals[i] : i \in 1 .. (c.index - 1)}
  ELSE LET up == c.parents[1]
           kids == s.node[up.node].kids
       IN  UNION {Range(Below(s, kids[i])) : i \in 1 .. (up.index - 1)}
           \cup LeftOf(s, [c EXCEPT !.parents = Tail(@)])

\* What an operation with a cursor of its own may do to another cursor c:
\* the element under c stays under it or c is marked as erased, and no element
\* changes from one side of c to the other.  With the last element c becomes
\* invalid.
KeptBy(s, c) ==
  LET old == State
      before == Range(Contents(old))
      after == Range(Contents(s))
      was == old.cur[c]
      is == s.cur[c]
  IN  IF after = {} THEN Invalid(is) /\ Erased(is)
      ELSE /\ ~Invalid(is)
           /\ LeftOf(s, is) \cap before = LeftOf(old, was) \cap after
           /\ Erased(is) = (Erased(was) \/ ValueAt(old, was) \notin after)
           /\ ~Erased(is) => ValueAt(s, is) = ValueAt(old, was)

\* Cursors survive the operations of others: whatever is inserted or erased,
\* however the tree is rebuilt for it, a cursor stays with its element.
CursorsStayPut ==
  /\ CursorsOnPath
  /\ \A c \in Cursors :
       ~Invalid(cursor[c]) =>
         \A key \in Keys :
           LET here == Find(State, key)
           IN  IF Usable(here) THEN KeptBy(EraseAt([State EXCEPT !.cur[Temp] = here], Temp), c)
               ELSE KeptBy(InsertValue(State, Temp, key), c)

=============================================================================
