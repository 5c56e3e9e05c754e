-------------------------------- MODULE List --------------------------------
(***************************************************************************)
(* raw_list: a doubly linked list of nodes with several values each, and the *)
(* cursors that keep pointing at their value while others are inserted and  *)
(* erased.                                                                  *)
(*                                                                          *)
(* A value is known by its position in the list: 1 .. size, renamed with    *)
(* every insertion and erasure.  Nodes are renamed by their order as well;   *)
(* blocks are only compared.  Indices inside a node start at 0.             *)
(***************************************************************************)
EXTENDS Integers, FiniteSets, SequencesExt

CONSTANTS
  NodeCapacity,     \* m_node_capacity
  Cursors,
  MaxSize           \* bound: values in the list

ASSUME ListAssumption == NodeCapacity \in Nat \ {0} /\ MaxSize \in Nat

VARIABLES
  list,      \* the anchor and the nodes
  cursors,   \* the cursors of the application
  seen       \* history: where each cursor is, from the positions of the values

vars == <<list, cursors, seen>>

NoNode == 0

Flags == {"INVALID", "DELETED", "SEEK_FIRST_NEXT", "SEEK_LAST_NEXT"}

EmptyList == [first |-> NoNode, last |-> NoNode, size |-> 0, count |-> 0, nodes |-> << >>]

-----------------------------------------------------------------------------
(* Values are named by position: names behind r make room or close up.      *)

Rename(l, f(_)) ==
  [l EXCEPT !.nodes = [n \in DOMAIN l.nodes |->
      [l.nodes[n] EXCEPT !.vals = [i \in DOMAIN l.nodes[n].vals |-> f(l.nodes[n].vals[i])]]]]

Opened(l, r) == Rename(l, LAMBDA e : IF e > r THEN e + 1 ELSE e)

Closed(l, r) == Rename(l, LAMBDA e : IF e > r THEN e - 1 ELSE e)

\* seen[c]: the value the cursor is at (0: it was erased), the number of values
\* known to be before the cursor, and the first value known to be behind it.
\* Nowhere: the cursor is invalid.
Nowhere == [at |-> 0, lo |-> 0, hi |-> 0]

AtValue(e) == [at |-> e, lo |-> e - 1, hi |-> e + 1]

\* A value is inserted behind the first r values.  At the place of an erased value
\* it may be on either side of the cursor.
SeenAfterInsert(s, r) ==
  CASE s = Nowhere -> s
    [] s.at # 0 -> IF r < s.at THEN AtValue(s.at + 1) ELSE s
    [] OTHER -> [s EXCEPT !.lo = IF r < @ THEN @ + 1 ELSE @, !.hi = IF r < @ THEN @ + 1 ELSE @]

SeenAfterErase(s, e) ==
  CASE s = Nowhere -> s
    [] s.at = e -> [at |-> 0, lo |-> e - 1, hi |-> e]
    [] s.at \notin {0, e} -> IF e < s.at THEN AtValue(s.at - 1) ELSE s
    [] OTHER -> [s EXCEPT !.lo = IF e <= @ THEN @ - 1 ELSE @, !.hi = IF e < @ THEN @ - 1 ELSE @]

-----------------------------------------------------------------------------
(* Nodes.  s is a record of the list and its cursors.                       *)

Size(l, n) == Len(l.nodes[n].vals)

FreeNode(l) == CHOOSE n \in 1 .. Cardinality(DOMAIN l.nodes) + 1 : n \notin DOMAIN l.nodes

Invalid(cur) == "INVALID" \in cur.flags
Erased(cur) == "DELETED" \in cur.flags

\* cursors_in_node
CursorsInNode(cs, n, f(_)) ==
  [c \in DOMAIN cs |->
     IF cs[c].linked /\ ~Invalid(cs[c]) /\ cs[c].node = n THEN f(cs[c]) ELSE cs[c]]

\* create_node and the links of the new node behind n.
NodeBehind(l, n) ==
  LET m == FreeNode(l)
      next == l.nodes[n].next
      new == [prev |-> n, next |-> next, vals |-> << >>]
      nodes == [k \in DOMAIN l.nodes \cup {m} |->
                  CASE k = m -> new
                    [] k = n -> [l.nodes[n] EXCEPT !.next = m]
                    [] k = next -> [l.nodes[next] EXCEPT !.prev = m]
                    [] OTHER -> l.nodes[k]]
  IN  [l EXCEPT !.nodes = nodes, !.count = @ + 1, !.last = IF next = NoNode THEN m ELSE @]

\* Seeded fault: the successor of a destroyed node keeps its link to it.
DestroyNodeOneSided(l, n) ==
  LET prev == l.nodes[n].prev
      next == l.nodes[n].next
  IN  [l EXCEPT !.first = IF prev = NoNode THEN next ELSE @,
                !.last = IF next = NoNode THEN prev ELSE @,
                !.count = @ - 1,
                !.nodes = [k \in DOMAIN @ \ {n} |->
                             IF k = prev THEN [@[k] EXCEPT !.next = next] ELSE @[k]]]

DestroyNode(l, n) ==
  LET prev == l.nodes[n].prev
      next == l.nodes[n].next
  IN  [l EXCEPT !.first = IF prev = NoNode THEN next ELSE @,
                !.last = IF next = NoNode THEN prev ELSE @,
                !.count = @ - 1,
                !.nodes = [k \in DOMAIN @ \ {n} |->
                             CASE k = prev -> [@[k] EXCEPT !.next = next]
                               [] k = next -> [@[k] EXCEPT !.prev = prev]
                               [] OTHER -> @[k]]]

\* insert_first
InsertFirst(s) ==
  [s EXCEPT !.list = [first |-> 1, last |-> 1, size |-> 1, count |-> @.count + 1,
                      nodes |-> [n \in {1} |-> [prev |-> NoNode, next |-> NoNode, vals |-> <<1>>]]]]

\* The number of values that remain in the old node of a split.
Mid(l, n) ==
  IF l.nodes[n].next = l.last THEN NodeCapacity
  ELSE IF n = l.first THEN 1
  ELSE (NodeCapacity + 2) \div 2

\* Seeded fault: cursors behind the split point do not count the new value.
SplitCursorsOff(cs, n, m, mid, index) ==
  CursorsInNode(cs, n, LAMBDA cur :
    IF cur.index >= mid THEN [cur EXCEPT !.node = m, !.index = @ - mid] ELSE cur)

\* The cursors of a node that is split, for a value in the old or the new node.
SplitCursors(cs, n, m, mid, index) ==
  CursorsInNode(cs, n, LAMBDA cur :
    IF index < mid
    THEN IF cur.index >= mid - 1 THEN [cur EXCEPT !.node = m, !.index = @ - (mid - 1)]
         ELSE IF cur.index >= index THEN [cur EXCEPT !.index = @ + 1] ELSE cur
    ELSE IF cur.index >= mid
         THEN [cur EXCEPT !.node = m, !.index = @ - mid + (IF @ >= index THEN 1 ELSE 0)] ELSE cur)

\* insert_at: the new value is the one behind the first r values of the list.
InsertAtIndex(s, n, index, r) ==
  LET opened == [Opened(s.list, r) EXCEPT !.size = @ + 1]
      vals == InsertAt(opened.nodes[n].vals, index + 1, r + 1)
      shifted == CursorsInNode(s.cursors, n, LAMBDA cur :
                   IF cur.index >= index THEN [cur EXCEPT !.index = @ + 1] ELSE cur)
      split == NodeBehind(opened, n)
      m == split.nodes[n].next
      mid == Mid(split, n)
  IN  IF Size(s.list, n) < NodeCapacity
      THEN [list |-> [opened EXCEPT !.nodes[n].vals = vals], cursors |-> shifted]
      ELSE [list |-> [split EXCEPT !.nodes[n].vals = SubSeq(vals, 1, mid),
                                   !.nodes[m].vals = SubSeq(vals, mid + 1, Len(vals))],
            cursors |-> SplitCursors(s.cursors, n, m, mid, index)]

\* The first or the last node became empty.
DropEmptyNode(s, n) ==
  LET seek == IF n = s.list.first THEN "SEEK_FIRST_NEXT" ELSE "SEEK_LAST_NEXT"
  IN  [list |-> DestroyNode(s.list, n),
       cursors |-> CursorsInNode(s.cursors, n, LAMBDA cur :
                     [cur EXCEPT !.flags = {"DELETED", seek}, !.node = NoNode, !.index = 0])]

\* Seeded fault: the value is put in front of the node instead of behind it.
StealToFront(s, n) ==
  LET next == s.list.nodes[n].next
      from == s.list.nodes[next].vals
  IN  [s EXCEPT !.list.nodes[n].vals = <<Head(from)>> \o @, !.list.nodes[next].vals = Tail(from)]

\* A node in the middle has too few values: one of the next node is taken over.
StealFromNext(s, n) ==
  LET next == s.list.nodes[n].next
      size == Size(s.list, n)
      from == s.list.nodes[next].vals
  IN  [list |-> [s.list EXCEPT !.nodes[n].vals = Append(@, Head(from)), !.nodes[next].vals = Tail(from)],
       cursors |-> CursorsInNode(s.cursors, next, LAMBDA cur :
                     IF cur.index = 0 THEN [cur EXCEPT !.node = n, !.index = size]
                     ELSE [cur EXCEPT !.index = @ - 1])]

\* ... or all of them, if the next node would have too few, too.
MergeNext(s, n) ==
  LET next == s.list.nodes[n].next
      size == Size(s.list, n)
  IN  [list |-> DestroyNode([s.list EXCEPT !.nodes[n].vals = @ \o s.list.nodes[next].vals], next),
       cursors |-> CursorsInNode(s.cursors, next, LAMBDA cur :
                     [cur EXCEPT !.node = n, !.index = @ + size])]

\* erase_at of the value at position e of the list.
EraseAtIndex(s, n, index, e) ==
  LET min == NodeCapacity \div 2
      without == [s.list EXCEPT !.size = @ - 1, !.nodes[n].vals = RemoveAt(@, index + 1)]
      t == [list |-> Closed(without, e),
            cursors |-> CursorsInNode(s.cursors, n, LAMBDA cur :
                          CASE cur.index = index -> [cur EXCEPT !.flags = @ \cup {"DELETED"}]
                            [] cur.index > index -> [cur EXCEPT !.index = @ - 1]
                            [] OTHER -> cur)]
      next == t.list.nodes[n].next
  IN  IF Size(t.list, n) >= min THEN t
      ELSE IF n \in {t.list.first, t.list.last}
      THEN IF Size(t.list, n) = 0 THEN DropEmptyNode(t, n) ELSE t
      ELSE IF Size(t.list, next) > min \/ (next = t.list.last /\ Size(t.list, next) > 1)
      THEN StealFromNext(t, n)
      ELSE MergeNext(t, n)

-----------------------------------------------------------------------------
(* The nodes in the order of their links, and the renaming by that order.   *)

\* visit_nodes: one node further along the links.
Further(l, path) ==
  LET next == IF path = << >> THEN l.first ELSE l.nodes[Last(path)].next
  IN  IF next \notin DOMAIN l.nodes \/ next \in ToSet(path) THEN path
      ELSE Append(path, next)

Order(l) ==
  LET count == Cardinality(DOMAIN l.nodes)
      walk[n \in 0 .. count] == IF n = 0 THEN << >> ELSE Further(l, walk[n - 1])
  IN  walk[count]

\* Nodes that no link leads to come last; a node that is gone has no name.
Renumbered(s) ==
  LET path == Order(s.list)
      order == path \o SetToSeq(DOMAIN s.list.nodes \ ToSet(path))
      name(n) == IF \E i \in DOMAIN order : order[i] = n
                 THEN CHOOSE i \in DOMAIN order : order[i] = n ELSE NoNode
  IN  [list |-> [s.list EXCEPT !.first = name(@), !.last = name(@),
                   !.nodes = [i \in DOMAIN order |->
                      [prev |-> name(@[order[i]].prev), next |-> name(@[order[i]].next),
                       vals |-> @[order[i]].vals]]],
       cursors |-> [c \in DOMAIN s.cursors |-> [s.cursors[c] EXCEPT !.node = name(@)]]]

State == [list |-> list, cursors |-> cursors]

Becomes(s) ==
  LET t == Renumbered(s)
  IN  list' = t.list /\ cursors' = t.cursors

-----------------------------------------------------------------------------
(* Where a cursor is.                                                       *)

\* The position of the value a cursor is at; 0 when it is at none.
Position(cur) ==
  IF \/ Invalid(cur) \/ Erased(cur) \/ cur.node \notin DOMAIN list.nodes
     \/ cur.index >= Size(list, cur.node) THEN 0
  ELSE list.nodes[cur.node].vals[cur.index + 1]

\* The number of values before a cursor; -1 when it points outside of every node.
Before(cur) ==
  IF "SEEK_FIRST_NEXT" \in cur.flags THEN 0
  ELSE IF "SEEK_LAST_NEXT" \in cur.flags THEN list.size
  ELSE IF cur.node \notin DOMAIN list.nodes \/ cur.index > Size(list, cur.node) THEN -1
  ELSE IF cur.index < Size(list, cur.node) THEN list.nodes[cur.node].vals[cur.index + 1] - 1
  ELSE list.nodes[cur.node].vals[cur.index]

\* The cursor is where its history says.
StaysPut(c) ==
  LET cur == cursors[c]
      s == seen[c]
  IN  CASE Invalid(cur) -> s = Nowhere
        [] Erased(cur) /\ ~Invalid(cur) -> s.at = 0 /\ Before(cur) \in s.lo .. s.hi - 1
        [] OTHER -> s.at # 0 /\ Position(cur) = s.at

\* A cursor that a clear() took off m_cursors is followed for as long as it is in
\* place.  Once the list has changed under it, CursorsStayPut is violated, its block
\* may be anything, and only calls that do not look at the block are followed.
Usable(c) == cursors[c].linked \/ StaysPut(c)

Known(c) == IF Usable(c) THEN seen[c] ELSE Nowhere

-----------------------------------------------------------------------------
(* Operations of the list.                                                  *)

NewCursor == [linked |-> TRUE, flags |-> {"INVALID"}, node |-> NoNode, index |-> 0]

Init ==
  /\ list = EmptyList
  /\ cursors = [c \in Cursors |-> NewCursor]
  /\ seen = [c \in Cursors |-> Nowhere]

Inserts(s, r) ==
  /\ list.size < MaxSize
  /\ Becomes(s)
  /\ seen' = [c \in Cursors |-> SeenAfterInsert(Known(c), r)]

Erases(s, e) ==
  /\ Becomes(s)
  /\ seen' = [c \in Cursors |-> SeenAfterErase(Known(c), e)]

PushBack ==
  IF list.size = 0 THEN Inserts(InsertFirst(State), 0)
  ELSE Inserts(InsertAtIndex(State, list.last, Size(list, list.last), list.size), list.size)

PushFront ==
  IF list.size = 0 THEN Inserts(InsertFirst(State), 0)
  ELSE Inserts(InsertAtIndex(State, list.first, 0, 0), 0)

PopBack ==
  /\ list.size > 0
  /\ Erases(EraseAtIndex(State, list.last, Size(list, list.last) - 1, list.size), list.size)

PopFront ==
  /\ list.size > 0
  /\ Erases(EraseAtIndex(State, list.first, 0, 1), 1)

\* clear: clear_and_dispose takes every cursor off m_cursors.
Clear ==
  /\ list' = [EmptyList EXCEPT !.count = list.count - Len(Order(list))]
  /\ cursors' = [c \in Cursors |->
                   IF cursors[c].linked
                   THEN [linked |-> FALSE, flags |-> cursors[c].flags \cup {"INVALID", "DELETED"},
                         node |-> NoNode, index |-> 0]
                   ELSE cursors[c]]
  /\ seen' = [c \in Cursors |-> Nowhere]

-----------------------------------------------------------------------------
(* Operations of cursors.                                                   *)

\* check_cursor_valid_element
OnValue(c) == ~Erased(cursors[c]) /\ ~Invalid(cursors[c])

InsertBefore(c) ==
  /\ Usable(c) /\ OnValue(c)
  /\ Inserts(InsertAtIndex(State, cursors[c].node, cursors[c].index, seen[c].at - 1), seen[c].at - 1)

InsertAfter(c) ==
  /\ Usable(c) /\ OnValue(c)
  /\ Inserts(InsertAtIndex(State, cursors[c].node, cursors[c].index + 1, seen[c].at), seen[c].at)

\* erase: the cursor is marked even if the list does not know it.
EraseCursor(c) ==
  /\ Usable(c) /\ OnValue(c)
  /\ Erases(EraseAtIndex([State EXCEPT !.cursors[c].flags = @ \cup {"DELETED"}],
                         cursors[c].node, cursors[c].index, seen[c].at), seen[c].at)

\* move_to_node: to the first or the last value of a node.
MovedTo(cur, n, forward) ==
  IF n = NoNode THEN [cur EXCEPT !.flags = @ \cup {"INVALID"}, !.node = NoNode, !.index = 0]
  ELSE [cur EXCEPT !.flags = @ \ {"INVALID"}, !.node = n,
                   !.index = IF forward THEN 0 ELSE Size(list, n) - 1]

MovedFirst(cur) == MovedTo([cur EXCEPT !.flags = {}], list.first, TRUE)
MovedLast(cur) == MovedTo([cur EXCEPT !.flags = {}], list.last, FALSE)

MovedNext(cur) ==
  LET flags == cur.flags \ {"DELETED"}
      index == IF Erased(cur) THEN cur.index ELSE cur.index + 1
  IN  IF Erased(cur) /\ Invalid(cur) THEN [cur EXCEPT !.flags = flags]
      ELSE IF Erased(cur) /\ "SEEK_FIRST_NEXT" \in flags THEN MovedFirst(cur)
      ELSE IF Erased(cur) /\ "SEEK_LAST_NEXT" \in flags THEN [cur EXCEPT !.flags = {"INVALID"}]
      ELSE IF index = Size(list, cur.node)
      THEN MovedTo([cur EXCEPT !.flags = flags], list.nodes[cur.node].next, TRUE)
      ELSE [cur EXCEPT !.flags = flags, !.index = index]

MovedPrev(cur) ==
  LET flags == cur.flags \ {"DELETED"}
  IN  IF Erased(cur) /\ Invalid(cur) THEN [cur EXCEPT !.flags = flags]
      ELSE IF Erased(cur) /\ "SEEK_LAST_NEXT" \in flags THEN MovedLast(cur)
      ELSE IF Erased(cur) /\ "SEEK_FIRST_NEXT" \in flags THEN [cur EXCEPT !.flags = {"INVALID"}]
      ELSE IF cur.index = 0
      THEN MovedTo([cur EXCEPT !.flags = flags], list.nodes[cur.node].prev, FALSE)
      ELSE [cur EXCEPT !.flags = flags, !.index = @ - 1]

\* Where a move ought to lead: to one of the given positions, or off the list.
SeenAfterMove(cur, positions) ==
  LET p == Position(cur)
      ok == { e \in positions : e \in 1 .. list.size }
  IN  IF p \in ok THEN AtValue(p)
      ELSE IF p = 0 /\ ok # positions THEN Nowhere
      ELSE AtValue(CHOOSE e \in ok : TRUE)

Moves(c, cur, positions) ==
  /\ cursors' = [cursors EXCEPT ![c] = cur]
  /\ seen' = [seen EXCEPT ![c] = SeenAfterMove(cur, positions)]
  /\ UNCHANGED list

MoveFirst(c) == Moves(c, MovedFirst(cursors[c]), {1})
MoveLast(c) == Moves(c, MovedLast(cursors[c]), {list.size})

\* "Bad cursor." is thrown for a cursor that is at the end.
MoveNext(c) ==
  /\ Usable(c)
  /\ Erased(cursors[c]) \/ ~Invalid(cursors[c])
  /\ Moves(c, MovedNext(cursors[c]),
           IF seen[c] = Nowhere THEN {0}
           ELSE IF seen[c].at # 0 THEN {seen[c].hi} ELSE seen[c].lo + 1 .. seen[c].hi)

MovePrev(c) ==
  /\ Usable(c)
  /\ Erased(cursors[c]) \/ ~Invalid(cursors[c])
  /\ Moves(c, MovedPrev(cursors[c]),
           IF seen[c] = Nowhere THEN {0}
           ELSE IF seen[c].at # 0 THEN {seen[c].lo} ELSE seen[c].lo .. seen[c].hi - 1)

\* A cursor is destroyed and another created; or one is assigned to another.
CreateCursor(c) ==
  /\ cursors' = [cursors EXCEPT ![c] = NewCursor]
  /\ seen' = [seen EXCEPT ![c] = Nowhere]
  /\ UNCHANGED list

AssignCursor(c, d) ==
  /\ c # d /\ Usable(d)
  /\ cursors' = [cursors EXCEPT ![c] = [cursors[d] EXCEPT !.linked = cursors[c].linked]]
  /\ seen' = [seen EXCEPT ![c] = seen[d]]
  /\ UNCHANGED list

Next ==
  \/ PushBack \/ PushFront \/ PopBack \/ PopFront \/ Clear
  \/ \E c \in Cursors :
       \/ InsertBefore(c) \/ InsertAfter(c) \/ EraseCursor(c)
       \/ MoveFirst(c) \/ MoveLast(c) \/ MoveNext(c) \/ MovePrev(c)
       \/ CreateCursor(c)
  \/ \E c, d \in Cursors : AssignCursor(c, d)

Spec == Init /\ [][Next]_vars

CursorSymmetry == Permutations(Cursors)

-----------------------------------------------------------------------------
(* Properties                                                               *)

\* The anchor and the links describe one chain of nodes, the same in both
\* directions; no node is lost, none is empty, and only the first and the last one
\* have fewer values than half the capacity.
LinksValid ==
  LET order == Order(list)
  IN  /\ Len(order) = list.count /\ Cardinality(DOMAIN list.nodes) = list.count
      /\ list.last = IF order = << >> THEN NoNode ELSE Last(order)
      /\ \A i \in DOMAIN order :
           LET node == list.nodes[order[i]]
           IN  /\ node.prev = IF i = 1 THEN NoNode ELSE order[i - 1]
               /\ node.next = IF i = Len(order) THEN NoNode ELSE order[i + 1]
               /\ Len(node.vals) \in 1 .. NodeCapacity
               /\ i \notin {1, Len(order)} => Len(node.vals) >= NodeCapacity \div 2

\* A walk over the nodes finds the values in the order in which the operations put
\* them there, each once, and size() many.
ContentsInOrder ==
  LET order == Order(list)
  IN  FlattenSeq([i \in 1 .. Len(order) |-> list.nodes[order[i]].vals]) = [i \in 1 .. list.size |-> i]

\* A cursor that the list knows stays at its value through every split, merge and
\* shift that others cause; when its value is erased it stays between the neighbours
\* of that value; and it moves to the neighbour, leaving out none and visiting none
\* twice.
LinkedCursorsStayPut ==
  \A c \in Cursors : cursors[c].linked => StaysPut(c)

\* "existing cursors are updated so that they keep pointing at the same element": all
\* of them, also one that is used again after a clear().
CursorsStayPut ==
  \A c \in Cursors : StaysPut(c)

\* "Index out of bounds.": the end nodes of a list with values have a value to remove.
EndsHoldValues ==
  list.size > 0 => Size(list, list.first) > 0 /\ Size(list, list.last) > 0
=============================================================================
