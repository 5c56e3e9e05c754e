------------------------------ MODULE HashTable ------------------------------
(***************************************************************************)
(* raw_hash_table: linear hashing.  The bucket that the step pointer names is *)
(* split when the table gets too full, whatever its own size, and the last   *)
(* bucket is merged back when the table gets too empty.  Primary buckets lie  *)
(* in ranges of blocks whose sizes grow; a bucket that is full has a chain of *)
(* overflow nodes behind it.                                                 *)
(*                                                                           *)
(* A chain of linked nodes is a sequence of nodes, a node the sequence of its *)
(* values.  The block of a primary bucket is named by its range and the offset *)
(* in it.                                                                    *)
(***************************************************************************)
EXTENDS Integers, FiniteSets, SequencesExt

CONSTANTS
  Keys,             \* keys of values, numbers
  HashRange,        \* key_hash(key) = key % HashRange
  Payloads,         \* the rest of a value
  BucketCapacity,   \* m_bucket_capacity
  RangeRepeat,      \* bucket_range_repeat
  RangeMaxPower,    \* bucket_range_max_power
  Unused,           \* content of a block that is not a bucket
  MaxLost           \* bound: values lost in redistributions that fail

ASSUME HashTableAssumption ==
  /\ Keys \subseteq Nat
  /\ {HashRange, BucketCapacity, RangeRepeat} \subseteq Nat \ {0}
  /\ {RangeMaxPower, MaxLost} \subseteq Nat

VARIABLES
  table,    \* the anchor and the blocks of the table
  stored,   \* history: payload of each key whose value is in the table
  lost,     \* history: values that size() counts and no bucket holds any more
  failed,   \* the last operation threw bad_alloc
  aborted   \* an assertion ended the program

vars == <<table, stored, lost, failed, aborted>>

MaxLevel == 63

Hash(key) == key % HashRange

Value(key, payload) == [key |-> key, payload |-> payload]

-----------------------------------------------------------------------------
(* Ranges of primary buckets; indices start at 0 as in the code.            *)

PrecomputedRanges == (RangeMaxPower + 1) * RangeRepeat

\* bucket_range_size
RangeSize(r) == 2 ^ (IF r < PrecomputedRanges THEN r \div RangeRepeat ELSE RangeMaxPower)

\* total_bucket_count: closed form for what the table of sums holds.
TotalBucketCount(count) ==
  IF count <= PrecomputedRanges
  THEN RangeRepeat * (2 ^ (count \div RangeRepeat) - 1)
         + (count % RangeRepeat) * 2 ^ (count \div RangeRepeat)
  ELSE RangeRepeat * (2 ^ (RangeMaxPower + 1) - 1) + (count - PrecomputedRanges) * 2 ^ RangeMaxPower

\* find_bucket_position: the range of a bucket and its offset there.
FindBucketPosition(index) ==
  LET sums == TotalBucketCount(PrecomputedRanges)
      range == CHOOSE r \in 0 .. PrecomputedRanges - 1 :
                 TotalBucketCount(r) <= index /\ index < TotalBucketCount(r + 1)
  IN  IF index < sums
      THEN <<range, index - (TotalBucketCount(range + 1) - RangeSize(range))>>
      ELSE <<PrecomputedRanges + (index - sums) \div 2 ^ RangeMaxPower, (index - sums) % 2 ^ RangeMaxPower>>

AllocatedPrimaryBuckets(t) == TotalBucketCount(t.ranges)

\* The blocks of all ranges.
RangeBlocks(count) == UNION { { <<r, o>> : o \in 0 .. RangeSize(r) - 1 } : r \in 0 .. count - 1 }

\* read_primary_bucket
Bucket(t, index) == t.blocks[FindBucketPosition(index)]

WithBucket(t, index, chain) == [t EXCEPT !.blocks[FindBucketPosition(index)] = chain]

EmptyChain == << << >> >>

\* allocate_primary_bucket: a range is allocated when the last one is used up.
NeedsRange(t) == t.primary >= AllocatedPrimaryBuckets(t)

AllocatePrimaryBucket(t) ==
  LET ranges == IF NeedsRange(t) THEN t.ranges + 1 ELSE t.ranges
      blocks == [a \in RangeBlocks(ranges) |-> IF a \in DOMAIN t.blocks THEN t.blocks[a] ELSE Unused]
  IN  WithBucket([t EXCEPT !.ranges = ranges, !.blocks = blocks, !.primary = @ + 1],
                 t.primary, EmptyChain)

\* free_primary_bucket: ranges behind the last bucket are freed, the block of a
\* bucket that is not used any more keeps its content.
FreePrimaryBucket(t) ==
  LET index == t.primary - 1
      ranges == CHOOSE n \in 0 .. t.ranges :
                  /\ n = 0 \/ TotalBucketCount(n - 1) < index
                  /\ \A m \in n + 1 .. t.ranges : TotalBucketCount(m - 1) >= index
  IN  [t EXCEPT !.primary = index, !.ranges = ranges,
                !.blocks = [a \in RangeBlocks(ranges) |-> t.blocks[a]]]

\* bucket_for_hash: buckets before the step pointer have been split already.
BucketForHash(t, hash) ==
  LET index == hash % 2 ^ t.level
  IN  IF index < t.step THEN hash % 2 ^ (t.level + 1) ELSE index

-----------------------------------------------------------------------------
(* Values in a chain.                                                       *)

\* Seeded fault: only the first value with the same hash is compared.
FindInNodeFirst(node, key) ==
  LET lower == 1 + Cardinality({ i \in DOMAIN node : Hash(node[i].key) < Hash(key) })
  IN  IF lower <= Len(node) /\ node[lower].key = key
      THEN [found |-> TRUE, position |-> lower]
      ELSE [found |-> FALSE, position |-> lower]

\* find_in_node: binary search for the hash, then a walk over equal hashes.
FindInNode(node, key) ==
  LET lower == 1 + Cardinality({ i \in DOMAIN node : Hash(node[i].key) < Hash(key) })
      upper == 1 + Cardinality({ i \in DOMAIN node : Hash(node[i].key) <= Hash(key) })
      hits == { i \in lower .. upper - 1 : node[i].key = key }
  IN  IF hits # {} THEN [found |-> TRUE, position |-> Min(hits)]
      ELSE [found |-> FALSE, position |-> upper]

\* find_in_bucket: the nodes in which the key is found.
Hits(chain, key) == { n \in DOMAIN chain : FindInNode(chain[n], key).found }

\* insert_into_bucket for a key that the chain does not hold.  The last node with
\* room is taken (every such node replaces the one found before).
InsertIntoChain(chain, v) ==
  LET room == { n \in DOMAIN chain : Len(chain[n]) < BucketCapacity }
  IN  IF room = {} THEN Append(chain, <<v>>)
      ELSE [chain EXCEPT ![Max(room)] = InsertAt(@, FindInNode(@, v.key).position, v)]

\* The same with the count of overflow buckets.
InsertIntoBucket(t, v) ==
  LET b == BucketForHash(t, Hash(v.key))
      chain == InsertIntoChain(Bucket(t, b), v)
  IN  [WithBucket(t, b, chain) EXCEPT !.overflow = @ + Len(chain) - Len(Bucket(t, b))]

\* Storing v takes a new overflow node, and the allocator is asked for it first.
NeedsOverflow(t, v) == InsertIntoBucket(t, v).overflow > t.overflow

-----------------------------------------------------------------------------
(* grow and shrink.                                                         *)

\* The first part of grow: when all buckets of a level are split the next begins.
NextLevel(t) ==
  IF t.step = 2 ^ t.level THEN [t EXCEPT !.level = @ + 1, !.step = 0] ELSE t

\* The values that grow or shrink took out of a bucket are inserted again.
Redistribute(split) == FoldLeft(InsertIntoBucket, split.table, split.values)

\* An overflow node for one of them cannot be allocated: the values behind it are in
\* no bucket any more.
Interrupted(split) ==
  { [table |-> Redistribute([split EXCEPT !.values = SubSeq(@, 1, i - 1)]),
     lost  |-> { split.values[j].key : j \in i .. Len(split.values) }] :
      i \in { i \in DOMAIN split.values :
              NeedsOverflow(Redistribute([split EXCEPT !.values = SubSeq(@, 1, i - 1)]), split.values[i]) } }

\* Seeded fault: the values are distributed before the step pointer moves.
SplitEarly(t) ==
  LET u == NextLevel(t)
      chain == Bucket(u, u.step)
  IN  [table |-> [WithBucket(AllocatePrimaryBucket(u), u.step, EmptyChain)
                    EXCEPT !.overflow = @ - (Len(chain) - 1)],
       values |-> FlattenSeq(chain)]

GrowDistributesEarly(t) == [Redistribute(SplitEarly(t)) EXCEPT !.step = @ + 1]

\* grow: the values of the bucket at the step pointer are taken out and, with the
\* step pointer behind the bucket, inserted again.
Split(t) ==
  LET u == NextLevel(t)
      chain == Bucket(u, u.step)
  IN  [table |-> [WithBucket(AllocatePrimaryBucket(u), u.step, EmptyChain)
                    EXCEPT !.overflow = @ - (Len(chain) - 1), !.step = @ + 1],
       values |-> FlattenSeq(chain)]

Grow(t) == Redistribute(Split(t))

\* shrink: the values of the last bucket go to the bucket it was split from.
Merge(t) ==
  LET u == IF t.step = 0 THEN [t EXCEPT !.level = @ - 1, !.step = 2 ^ (t.level - 1)] ELSE t
      chain == Bucket(u, u.primary - 1)
  IN  [table |-> [FreePrimaryBucket(u) EXCEPT !.overflow = @ - (Len(chain) - 1), !.step = @ - 1],
       values |-> FlattenSeq(chain)]

Shrink(t) == Redistribute(Merge(t))

TooFull(t) == 5 * t.size > 4 * t.primary * BucketCapacity    \* load() > max_fill_factor
TooEmpty(t) == 2 * t.size < t.primary * BucketCapacity       \* load() < min_fill_factor

MustGrow(t) == TooFull(t) /\ ~(t.step = 2 ^ t.level /\ t.level >= MaxLevel)
MustShrink(t) == TooEmpty(t) /\ ~(t.step = 0 /\ t.level = 0)

\* Seeded fault: the table grows by one bucket at most.
GrowIfTooFull(t) == IF TooFull(t) THEN Grow(t) ELSE t

RECURSIVE GrowWhileTooFull(_)
GrowWhileTooFull(t) == IF MustGrow(t) THEN GrowWhileTooFull(Grow(t)) ELSE t

RECURSIVE ShrinkWhileTooEmpty(_)
ShrinkWhileTooEmpty(t) == IF MustShrink(t) THEN ShrinkWhileTooEmpty(Shrink(t)) ELSE t

\* The tables on which these loops call grow and shrink.
RECURSIVE GrowRounds(_)
GrowRounds(t) == IF MustGrow(t) THEN {t} \cup GrowRounds(Grow(t)) ELSE {}

RECURSIVE ShrinkRounds(_)
ShrinkRounds(t) == IF MustShrink(t) THEN {t} \cup ShrinkRounds(Shrink(t)) ELSE {}

-----------------------------------------------------------------------------
(* Operations.                                                              *)

EmptyTable ==
  [size |-> 0, primary |-> 0, overflow |-> 0, step |-> 0, level |-> 0, ranges |-> 0, blocks |-> << >>]

Init == table = EmptyTable /\ stored = << >> /\ lost = 0 /\ failed = FALSE /\ aborted = FALSE

\* The first part of insert.
WithFirstBucket(t) == IF t.primary = 0 THEN AllocatePrimaryBucket(t) ELSE t

\* find_impl and contains: the payloads of the values found for the key.
Find(key) ==
  IF table.size = 0 THEN {}
  ELSE LET chain == Bucket(table, BucketForHash(table, Hash(key)))
       IN  { chain[n][FindInNode(chain[n], key).position].payload : n \in Hits(chain, key) }

InsertedValue(v) ==
  [InsertIntoBucket(WithFirstBucket(table), v) EXCEPT !.size = @ + 1]

\* The history after v was stored, or after the values of some keys got lost.
WithValue(v) == [k \in DOMAIN stored \cup {v.key} |-> IF k = v.key THEN v.payload ELSE stored[k]]
Without(f, gone) == [k \in DOMAIN f \ gone |-> f[k]]

\* insert() of a key that is not in the table.
Insert(v) ==
  /\ ~aborted
  /\ Find(v.key) = {}
  /\ table' = GrowWhileTooFull(InsertedValue(v))
  /\ stored' = WithValue(v)
  /\ failed' = FALSE
  /\ UNCHANGED <<lost, aborted>>

\* The allocator has no blocks for the first bucket or for an overflow node:
\* nothing is stored.
InsertThrows(v) ==
  /\ ~aborted
  /\ Find(v.key) = {}
  /\ table.primary > 0 => NeedsOverflow(table, v)
  /\ failed' = TRUE
  /\ UNCHANGED <<table, stored, lost, aborted>>

\* It has none for the range of the new bucket, in some round of the loop: insert
\* throws out of grow when the value is in the table, is counted, and the level may
\* be changed already.
InsertThrowsInGrow(v) ==
  /\ ~aborted
  /\ Find(v.key) = {}
  /\ \E t \in GrowRounds(InsertedValue(v)) : NeedsRange(t) /\ table' = NextLevel(t)
  /\ stored' = WithValue(v)
  /\ failed' = TRUE
  /\ UNCHANGED <<lost, aborted>>

\* It has none for an overflow node when the values of the split bucket are put
\* back: the rest of them, perhaps the new value too, is lost and stays counted.
Loses(redistributions, history) ==
  \E r \in redistributions :
    /\ lost + Cardinality(r.lost) <= MaxLost
    /\ table' = r.table
    /\ stored' = Without(history, r.lost)
    /\ lost' = lost + Cardinality(r.lost)

InsertLosesValues(v) ==
  /\ ~aborted
  /\ Find(v.key) = {}
  /\ \E t \in GrowRounds(InsertedValue(v)) : Loses(Interrupted(Split(t)), WithValue(v))
  /\ failed' = TRUE
  /\ UNCHANGED aborted

\* insert_or_update of a key in the table: the value is replaced in its place.
\* (insert() leaves such a table alone.)
Overwrite(v) ==
  /\ ~aborted
  /\ Find(v.key) # {}
  /\ LET b == BucketForHash(table, Hash(v.key))
         chain == Bucket(table, b)
         n == Min(Hits(chain, v.key))
     IN  table' = WithBucket(table, b, [chain EXCEPT ![n][FindInNode(chain[n], v.key).position] = v])
  /\ stored' = [stored EXCEPT ![v.key] = v.payload]
  /\ failed' = FALSE
  /\ UNCHANGED <<lost, aborted>>

\* The first part of erase_impl.
Removed(key) ==
  LET b == BucketForHash(table, Hash(key))
      chain == Bucket(table, b)
      n == Min(Hits(chain, key))
      rest == [chain EXCEPT ![n] = RemoveAt(@, FindInNode(@, key).position)]
  IN  [WithBucket(table, b, rest) EXCEPT !.size = @ - 1]

Erased(t) ==
  IF t.size = 0
  THEN FreePrimaryBucket([t EXCEPT !.overflow = @ - (Len(Bucket(t, 0)) - 1)])
  ELSE ShrinkWhileTooEmpty(t)

\* "Empty hash tables have 0 level." and "... cannot have nonzero step pointers."
EraseAsserts(t) == t.size = 0 /\ (t.level # 0 \/ t.step # 0)

Erase(key) ==
  /\ ~aborted
  /\ Find(key) # {}
  /\ aborted' = EraseAsserts(Removed(key))
  /\ table' = IF aborted' THEN Removed(key) ELSE Erased(Removed(key))
  /\ stored' = Without(stored, {key})
  /\ failed' = FALSE
  /\ UNCHANGED lost

\* shrink() cannot put back the values of the merged bucket: erase throws when the
\* value is erased already.
EraseLosesValues(key) ==
  /\ ~aborted
  /\ Find(key) # {}
  /\ Removed(key).size > 0
  /\ \E t \in ShrinkRounds(Removed(key)) : Loses(Interrupted(Merge(t)), Without(stored, {key}))
  /\ failed' = TRUE
  /\ UNCHANGED aborted

\* clear: the buckets are freed from the last to the first with their chains.
Clear ==
  /\ ~aborted
  /\ table.primary > 0
  /\ table' = EmptyTable
  /\ stored' = << >>
  /\ lost' = 0
  /\ failed' = FALSE
  /\ UNCHANGED aborted

Next ==
  \/ \E k \in Keys, p \in Payloads :
       \/ Insert(Value(k, p)) \/ InsertThrows(Value(k, p)) \/ InsertThrowsInGrow(Value(k, p))
       \/ InsertLosesValues(Value(k, p)) \/ Overwrite(Value(k, p))
  \/ \E k \in Keys : Erase(k) \/ EraseLosesValues(k)
  \/ Clear

Spec == Init /\ [][Next]_vars

PayloadSymmetry == Permutations(Payloads)

-----------------------------------------------------------------------------
(* Properties                                                               *)

\* validate(), and what grow, shrink and allocate_primary_bucket assert: the step
\* pointer and the level say how many buckets there are, every value is in the
\* bucket of its hash, nodes are sorted by hash, no more than the needed ranges are
\* allocated, and the anchor's counters are right, but for the values that a
\* redistribution lost (grow says so), which size() goes on to count.
TableValid ==
  LET t == table
      chains == { Bucket(t, i) : i \in 0 .. t.primary - 1 }
  IN  /\ t.step <= 2 ^ t.level
      /\ t.primary = (IF t.size = 0 THEN 0 ELSE 2 ^ t.level + t.step)
      /\ t.primary <= AllocatedPrimaryBuckets(t)
      /\ t.ranges > 0 => TotalBucketCount(t.ranges - 1) < t.primary
      /\ \A i \in 0 .. t.primary - 1 : \A n \in DOMAIN Bucket(t, i) :
           LET node == Bucket(t, i)[n]
           IN  /\ Len(node) <= BucketCapacity
               /\ \A j \in DOMAIN node : BucketForHash(t, Hash(node[j].key)) = i
               /\ \A j \in 2 .. Len(node) : Hash(node[j - 1].key) <= Hash(node[j].key)
      /\ t.size = Cardinality(DOMAIN stored) + lost
      /\ t.overflow = MapThenSumSet(LAMBDA i : Len(Bucket(t, i)) - 1, 0 .. t.primary - 1)

\* find() and contains() agree with what was inserted, overwritten and erased,
\* whatever was split and merged in between and wherever the chains have gaps.  An
\* insert that threw has stored its value if the new bucket's range is what could
\* not be allocated, and nothing if its own place could not; a redistribution that
\* failed has lost the rest of one bucket's values and no other value.
LookupsAgree ==
  \A k \in Keys : Find(k) = (IF k \in DOMAIN stored THEN {stored[k]} ELSE {})

\* An insert that returns leaves the table no fuller than max_fill_factor, even if
\* earlier inserts threw before they could grow it; an erase that returns leaves it at
\* min_fill_factor at least, or with one bucket.
LoadBounded ==
  [][~failed' => /\ table'.size > table.size => ~TooFull(table')
                 /\ table'.size < table.size => ~TooEmpty(table') \/ table'.primary <= 1]_vars

\* validate(): "Inconsistent value count." (hash_table.cpp:811).  size() is the number
\* of values that a walk over all buckets and their chains finds.
SizeCountsValues ==
  table.size = MapThenSumSet(LAMBDA i : Len(FlattenSeq(Bucket(table, i))), 0 .. table.primary - 1)

\* erase_impl: "Empty hash tables have 0 level." and "Empty hash table cannot have
\* nonzero step pointers." (hash_table.cpp:875-876).
EmptyTableIsReset == table.size = 0 => table.level = 0 /\ table.step = 0
=============================================================================
