-------------------------------- MODULE Array --------------------------------
(***************************************************************************)
(* raw_array on an extent: a vector whose storage is reallocated as it grows *)
(* and shrinks.  Several arrays share a default_allocator.                   *)
(*                                                                          *)
(* The value at index i of array x is <<x, i>>, and a block holds the set of *)
(* values written to it.                                                    *)
(***************************************************************************)
EXTENDS DefaultAllocator

CONSTANTS
  Arrays,
  LinearArrays,     \* arrays with linear growth; the others grow exponentially
  LinearChunk,      \* chunk_size of the linear growth
  BlockCapacity,    \* values in a block
  MaxElements       \* bound: values in an array

ASSUME ArrayAssumption ==
  /\ LinearArrays \subseteq Arrays
  /\ {LinearChunk, BlockCapacity} \subseteq Nat \ {0}
  /\ MaxElements \in Nat

VARIABLES
  arrays   \* the anchors: storage (start, blocks) and number of values

vars == <<alloc, content, todo, result, arrays>>

NoStorage == -1

CeilDiv(n, d) == (n + d - 1) \div d

\* new_size: the growth strategy.
NewSize(x, minimum) ==
  IF x \in LinearArrays THEN CeilDiv(minimum, LinearChunk) * LinearChunk ELSE Pow2(minimum)

\* Seeded fault: storage that is not needed any more is forgotten, not freed.
ResizeExtentLeaks(x, n) ==
  LET start == arrays[x].start
      blocks == arrays[x].blocks
      set == <<[op |-> "anchor", array |-> x, blocks |-> n]>>
  IN  CASE n = blocks -> << >>
        [] n # blocks /\ blocks = 0 -> Allocate(n) \o set
        [] n # blocks /\ n = 0 -> set
        [] OTHER -> Reallocate(start, blocks, n) \o set

\* extent::resize and allocator::reallocate, which tell apart what the storage was
\* and will be; the anchor is set when the allocator has returned.
ResizeExtent(x, n) ==
  LET start == arrays[x].start
      blocks == arrays[x].blocks
      set == <<[op |-> "anchor", array |-> x, blocks |-> n]>>
  IN  CASE n = blocks -> << >>
        [] n # blocks /\ blocks = 0 -> Allocate(n) \o set
        [] n # blocks /\ n = 0 -> Free(start, blocks) \o set
        [] OTHER -> Reallocate(start, blocks, n) \o set

Write(x, n) == <<[op |-> "write", array |-> x, size |-> n]>>

\* reserve()
Reserved(x, n) ==
  LET needed == CeilDiv(n, BlockCapacity)
  IN  IF needed > arrays[x].blocks THEN ResizeExtent(x, NewSize(x, needed)) ELSE << >>

Calls(steps) ==
  /\ todo = << >>
  /\ steps # << >>
  /\ todo' = steps
  /\ UNCHANGED <<alloc, content, result, arrays>>

PushBack(x) ==
  /\ arrays[x].size < MaxElements
  /\ Calls((IF arrays[x].size \div BlockCapacity = arrays[x].blocks
            THEN ResizeExtent(x, NewSize(x, arrays[x].blocks + 1)) ELSE << >>)
           \o Write(x, arrays[x].size + 1))

\* pop_back, and resize() to fewer values.
Truncate(x, n) ==
  /\ todo = << >>
  /\ n < arrays[x].size
  /\ arrays' = [arrays EXCEPT ![x].size = n]
  /\ UNCHANGED <<alloc, content, todo, result>>

\* resize() to more values.
Resize(x, n) ==
  /\ n > arrays[x].size
  /\ Calls(Reserved(x, n) \o Write(x, n))

Reserve(x, n) == Calls(Reserved(x, n))

\* shrink() and shrink_to_fit()
Shrink(x, exact) ==
  LET needed == CeilDiv(arrays[x].size, BlockCapacity)
  IN  Calls(ResizeExtent(x, IF exact THEN needed ELSE NewSize(x, needed)))

\* reset()
Reset(x) ==
  /\ arrays[x].blocks > 0
  /\ Calls(Free(arrays[x].start, arrays[x].blocks) \o <<[op |-> "reset", array |-> x]>>)

\* The end of extent::resize.
SetAnchor ==
  /\ At("anchor")
  /\ LET n == Head(todo).blocks
     IN  arrays' = [arrays EXCEPT ![Head(todo).array].blocks = n,
                                  ![Head(todo).array].start = IF n = 0 THEN NoStorage ELSE result]
  /\ Then(<< >>)
  /\ result' = 0
  /\ UNCHANGED <<alloc, content>>

SetReset ==
  /\ At("reset")
  /\ arrays' = [arrays EXCEPT ![Head(todo).array] = [start |-> NoStorage, blocks |-> 0, size |-> 0]]
  /\ Then(<< >>)
  /\ UNCHANGED <<alloc, content, result>>

\* The end of push_back and resize: values are written, and blocks in which the
\* first value is written are zeroed before.
WriteValues ==
  /\ At("write")
  /\ LET x == Head(todo).array
         from == arrays[x].size
         to == Head(todo).size
         new(b) == { i \in from .. to - 1 : arrays[x].start + i \div BlockCapacity = b }
     IN  /\ content' = [b \in DOMAIN content |->
                          (IF \E i \in new(b) : i % BlockCapacity = 0 THEN {} ELSE content[b])
                            \cup { <<x, i>> : i \in new(b) }]
         /\ arrays' = [arrays EXCEPT ![x].size = to]
  /\ Then(<< >>)
  /\ UNCHANGED <<alloc, result>>

Init ==
  /\ AllocatorInit
  /\ arrays = [x \in Arrays |-> [start |-> NoStorage, blocks |-> 0, size |-> 0]]

Step ==
  \/ AllocatorStep /\ UNCHANGED arrays
  \/ SetAnchor \/ SetReset \/ WriteValues

Next ==
  \/ Step
  \/ AddRegion /\ UNCHANGED arrays
  \/ \E x \in Arrays :
       \/ PushBack(x) \/ Shrink(x, TRUE) \/ Shrink(x, FALSE) \/ Reset(x)
       \/ Resize(x, MaxElements) \/ Reserve(x, MaxElements)
       \/ \E n \in 0 .. MaxElements : Truncate(x, n)

\* A call that was begun runs on: the library has no other thread to wait for.
Spec == Init /\ [][Next]_vars /\ WF_vars(Step)

-----------------------------------------------------------------------------
(* Properties                                                               *)

StorageOf(x) == arrays[x].start .. arrays[x].start + arrays[x].blocks - 1

\* Between two calls, also when one threw, every block that the allocator has got is
\* free, or metadata, or the storage of one array, and never two of these.
BlocksAccounted ==
  todo = << >> =>
    /\ Managed = FreeBlocks \cup alloc.meta \cup UNION { StorageOf(x) : x \in Arrays }
    /\ FreeBlocks \cap alloc.meta = {}
    /\ \A x \in Arrays : StorageOf(x) \cap (FreeBlocks \cup alloc.meta) = {}
    /\ \A x, y \in Arrays : x # y => StorageOf(x) \cap StorageOf(y) = {}

\* No array loses a value: whatever its storage and that of the others went through,
\* get(i) finds the value that was written at i.
ArraysKeepValues ==
  todo = << >> =>
    \A x \in Arrays : \A i \in 0 .. arrays[x].size - 1 :
      /\ i \div BlockCapacity < arrays[x].blocks
      /\ <<x, i>> \in content[arrays[x].start + i \div BlockCapacity]
=============================================================================
