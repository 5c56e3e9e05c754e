---------------------------- MODULE BTreeLoader ----------------------------
(***************************************************************************)
(* Bulk loading (container/btree/loader.ipp) on top of the btree: values   *)
(* that arrive in order fill leaf after leaf; the internal levels above    *)
(* are built as proto nodes in memory, which hold more children than a     *)
(* node may so that no node is emitted with too few of them.               *)
(*                                                                         *)
(* While a loader is open the application uses nothing but the loader (the *)
(* code only checks in finish that the tree is still empty).               *)
(***************************************************************************)
EXTENDS BTree

CONSTANTS
  LoadCounts       \* how many values one call of loader::insert passes

VARIABLES
  loader,          \* m_state, m_leaf, m_parents, m_size, m_leftmost_leaf, m_rightmost_leaf
  given            \* the values the application has passed to the loader

vars == <<treeVars, loader, given>>

NoLoader == [open |-> FALSE, leaf |-> None, parents |-> <<>>, size |-> 0,
             leftmost |-> None, rightmost |-> None]

LoaderState == [loader |-> loader] @@ State

ProtoNode == [keys |-> <<>>, kids |-> <<>>]
ProtoCapacity == MaxChildren + MinChildren

\* insert_child and flush_internal: level i of the proto nodes.
RECURSIVE InsertChild(_, _, _, _)
RECURSIVE FlushInternal(_, _, _)

InsertChild(s, i, key, child) ==
  LET s1 == IF i > Len(s.loader.parents) THEN [s EXCEPT !.loader.parents = Append(@, ProtoNode)] ELSE s
      s2 == IF Len(s1.loader.parents[i].kids) = ProtoCapacity THEN FlushInternal(s1, i, MaxChildren) ELSE s1
  IN  [s2 EXCEPT !.loader.parents[i] = [keys |-> Append(@.keys, key), kids |-> Append(@.kids, child)]]

FlushInternal(s, i, count) ==
  LET proto == s.loader.parents[i]
      s1 == CreateNode(s, Internal(SubSeq(proto.keys, 1, count - 1), SubSeq(proto.kids, 1, count)))
      s2 == InsertChild(s1, i + 1, proto.keys[count], FreshNode(s))
      Rest(seq) == SubSeq(seq, count + 1, Len(seq))
  IN  [s2 EXCEPT !.loader.parents[i] = [keys |-> Rest(@.keys), kids |-> Rest(@.kids)]]

FlushLeaf(s) ==
  LET leaf == s.loader.leaf
      s1 == InsertChild(s, 1, Last(s.node[leaf].vals), leaf)
  IN  [s1 EXCEPT !.loader.leftmost = IF @ = None THEN leaf ELSE @,
                 !.loader.rightmost = leaf,
                 !.loader.leaf = None]

\* loader::insert.  The loop counts down but never moves its pointer: what does
\* not fit into the leaf is taken from the front of the values again.
RECURSIVE InsertValues(_, _, _)
InsertValues(s, values, count) ==
  LET s1 == IF s.loader.leaf # None /\ Len(s.node[s.loader.leaf].vals) = LeafCapacity
            THEN FlushLeaf(s) ELSE s
      s2 == IF s1.loader.leaf = None
            THEN [CreateNode(s1, Leaf(<<>>)) EXCEPT !.loader.leaf = FreshNode(s1)] ELSE s1
      room == LeafCapacity - Len(s2.node[s2.loader.leaf].vals)
      take == IF room > count THEN count ELSE room
  IN  IF count = 0 THEN s
      ELSE InsertValues([s2 EXCEPT !.node[s2.loader.leaf].vals = @ \o SubSeq(values, 1, take),
                                   !.loader.size = @ + take], values, count - take)

\* The loop of finish: every level is flushed to the next until one child is left.
RECURSIVE FlushLevels(_, _)
FlushLevels(s, i) ==
  LET count == Len(s.loader.parents[i].kids)
      s1 == IF count > MaxChildren THEN FlushInternal(s, i, (count + 1) \div 2) ELSE s
  IN  IF i = Len(s.loader.parents) /\ count = 1 THEN s
      ELSE FlushLevels(FlushInternal(s1, i, Len(s1.loader.parents[i].kids)), i + 1)

Finished(s) ==
  LET s1 == FlushLevels(IF s.loader.leaf # None THEN FlushLeaf(s) ELSE s, 1)
      top == Last(s1.loader.parents)
  IN  IF s.loader.size = 0 THEN s
      ELSE [s1 EXCEPT !.anchor = [@ EXCEPT !.height = Len(s1.loader.parents),
                                           !.root = top.kids[1],
                                           !.size = s1.loader.size,
                                           !.leftmost = s1.loader.leftmost,
                                           !.rightmost = s1.loader.rightmost]]

\* The blocks of everything that has been built so far.
LoaderNodes(s) ==
  (IF s.loader.leaf = None THEN {} ELSE {s.loader.leaf})
  \cup UNION {UNION {NodesBelow(s, k) : k \in Range(s.loader.parents[i].kids)}
              : i \in DOMAIN s.loader.parents}

Discarded(s) == FoldSet(LAMBDA b, t : FreeNode(t, b), s, LoaderNodes(s))

------------------------------------------------------------------------

LoaderInit == Init /\ loader = NoLoader /\ given = <<>>

BulkLoad ==
  /\ ~loader.open
  /\ anchor.size = 0
  /\ loader' = [NoLoader EXCEPT !.open = TRUE]
  /\ given' = <<>>
  /\ UNCHANGED treeVars

\* The values are larger than what came before, as the interface demands.
LoaderInsert ==
  /\ loader.open
  /\ \E set \in SUBSET {k \in Keys : given # <<>> => k > Last(given)} :
       /\ Cardinality(set) \in LoadCounts
       /\ LET values == SetToSortSeq(set, <)
              s == InsertValues(LoaderState, values, Len(values))
          IN  anchor' = s.anchor /\ node' = s.node /\ UNCHANGED cursor /\ loader' = s.loader /\ given' = given \o values

FinishLoad ==
  /\ loader.open
  /\ anchor.size = 0
  /\ Becomes(Finished(LoaderState))
  /\ loader' = NoLoader
  /\ UNCHANGED given

DiscardLoad ==
  /\ loader.open
  /\ Becomes(Discarded(LoaderState))
  /\ loader' = NoLoader
  /\ given' = <<>>

Next ==
  \/ ~loader.open /\ TreeStep /\ given' = <<>> /\ UNCHANGED loader
  \/ ~loader.open /\ CursorStep /\ UNCHANGED <<loader, given>>
  \/ BulkLoad
  \/ LoaderInsert
  \/ FinishLoad
  \/ DiscardLoad

Spec == LoaderInit /\ [][Next]_vars

\* The tree passes tree::validate, and its counters and the allocated blocks are
\* exactly its nodes and those of an open loader: no node is lost or used twice.
TreeIsValid ==
  LET s == LoaderState
      nodes == TreeNodes(s) \cup LoaderNodes(s)
  IN  /\ ValidTree(s)
      /\ DOMAIN node = nodes
      /\ anchor.leaf_nodes = Cardinality({b \in nodes : node[b].kind = "leaf"})
      /\ anchor.internal_nodes = Cardinality({b \in nodes : node[b].kind = "internal"})

\* A tree that was loaded in bulk holds the values that were passed to
\* loader::insert, each once and in their order.
LoadedAsGiven == ~loader.open /\ given # <<>> => Contents(State) = given

=============================================================================
