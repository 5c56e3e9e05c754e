------------------------------ MODULE Journal ------------------------------
(***************************************************************************)
(* The journal of transaction_engine: a redo log in a file, with a buffer  *)
(* in front of it.  The log is a sequence of cells (the file's header is   *)
(* left out): a begin record is one cell, a commit record two (type and    *)
(* database size), a write record four (type, index and the block's two    *)
(* halves), so that records and block data can straddle the end of the     *)
(* buffer and a write can stop inside a record.                            *)
(*                                                                         *)
(* Power loss: what reaches the disk before a sync is any prefix of the    *)
(* cells of a write (TornWrites = "prefix") or any subset of them ("any"). *)
(***************************************************************************)
EXTENDS Integers, Sequences

CONSTANTS
  Blocks,        \* block indices, a set of numbers
  Sizes,         \* database sizes passed to commit
  Values,        \* numbers that stand for block contents
  None,          \* no content, no size
  Torn,          \* the content of a block whose halves do not belong together
  BufferCells,   \* m_buffer.size()
  MaxCells,      \* bound: length of the log in cells
  TornWrites,    \* "prefix" or "any"
  MaxErrors,     \* bound: I/O calls that fail
  Assertions,    \* PREQUEL_DEBUG: PREQUEL_ASSERT ends the program
  RetryAfterError   \* the application repeats a failed write or commit instead
                    \* of rolling back

ASSUME JournalAssumption ==
  /\ Blocks \subseteq Nat
  /\ Sizes \subseteq Nat
  /\ Values \subseteq Nat
  /\ None \notin Nat
  /\ Torn \notin Nat \cup {None}
  /\ BufferCells \in Nat \ {0}
  /\ MaxCells \in Nat
  /\ MaxErrors \in Nat
  /\ TornWrites \in {"prefix", "any"}
  /\ Assertions \in BOOLEAN

VARIABLES
  logFile,               \* the log as the operating system returns it
  logDisk,               \* the logs restore() may be left with after a power loss
  m_buffer_offset,       \* cells of the log in front of the buffer
  buffer,                \* the used part of m_buffer
  m_in_transaction,
  m_transaction_begin,
  m_block_positions,     \* where a block's newest committed data starts, 0 if unknown
  m_uncommitted_block_positions,
  m_database_size,
  m_sync_on_commit,
  pc,                    \* the step of the running commit or checkpoint
  commitSize,            \* the database size of the running commit
  failed,                \* writes (and, as None, a commit) of this transaction that failed:
                         \* the engine writes those blocks again before it commits
  errors                 \* I/O errors so far

fileVars == <<logFile, logDisk>>
bufferVars == <<m_buffer_offset, buffer>>
txVars == <<m_in_transaction, m_transaction_begin, m_uncommitted_block_positions>>
indexVars == <<m_block_positions, m_database_size>>
vars == <<logFile, logDisk, m_buffer_offset, buffer, m_in_transaction, m_transaction_begin,
          m_block_positions, m_uncommitted_block_positions, m_database_size, m_sync_on_commit,
          pc, commitSize, failed, errors>>

-----------------------------------------------------------------------------
(* Cells and records.                                                      *)

Hole == <<"hole", 0>>   \* bytes of a file that were never written

BeginRecord == << <<"begin", 0>> >>
CommitRecord(n) == << <<"commit", 0>>, <<"size", n>> >>
BlockData(v) == << <<"data", v>>, <<"data", v>> >>
WriteRecord(i, v) == << <<"write", 0>>, <<"index", i>> >> \o BlockData(v)

NoPositions == [b \in Blocks |-> 0]

\* m_log_size, which every operation keeps equal to this.
LogSize == m_buffer_offset + Len(buffer)

\* Cell number p (from 0) of a log, as read() of a file returns it.
At(log, p) == IF p < Len(log) THEN log[p + 1] ELSE Hole

\* read_internal: cells in front of the buffer come from the file.
CellAt(p) == IF p < m_buffer_offset THEN At(logFile, p) ELSE At(buffer, p - m_buffer_offset)

-----------------------------------------------------------------------------
(* restore(): scanning the log record by record.                           *)

Scanners == [offset : Nat, good : Nat, active : BOOLEAN, written : [Blocks -> Nat],
             positions : [Blocks -> Nat], size : Nat \cup {None}]

Kind(log, p) == At(log, p)[1]
Number(log, p) == At(log, p)[2]

\* The state of the scan: offset is where the next record starts, good the end of
\* the last complete transaction.
ScanStart ==
  [offset |-> 0, good |-> 0, active |-> FALSE, written |-> NoPositions,
   positions |-> NoPositions, size |-> None]

\* There is no complete record at this place that restore_transaction expects here.
ScanEnds(log, s) ==
  \/ s.offset + 1 > Len(log)
  \/ ~s.active /\ Kind(log, s.offset) # "begin"
  \/ /\ s.active
     /\ ~(Kind(log, s.offset) = "write" /\ s.offset + 4 <= Len(log))
     /\ ~(Kind(log, s.offset) = "commit" /\ s.offset + 2 <= Len(log))

\* One record of restore_transaction.  It would accept an abort record too, which
\* no operation of the journal writes.
ScanRecord(log, s) ==
  CASE ~s.active ->
         [s EXCEPT !.active = TRUE, !.written = NoPositions, !.offset = @ + 1]
    [] s.active /\ Kind(log, s.offset) = "write" ->
         [s EXCEPT !.written[Number(log, s.offset + 1)] = s.offset + 2, !.offset = @ + 4]
    [] OTHER ->
         LET n == Number(log, s.offset + 1)
         IN  [s EXCEPT !.active = FALSE, !.offset = @ + 2, !.good = s.offset + 2, !.size = n,
                       !.positions = [b \in Blocks |->
                          IF b >= n THEN 0 ELSE IF s.written[b] # 0 THEN s.written[b] ELSE @[b]]]

\* Where a scan ends that has got as far as s.
Scan(log) ==
  LET scan[s \in Scanners] == IF ScanEnds(log, s) THEN s ELSE scan[ScanRecord(log, s)] IN scan

\* What restore() makes of a log.
Restore(log) == Scan(log)[ScanStart]

\* Seeded fault: the incomplete transaction at the end stays in the file.
RestoredUncut(log) == log

\* The log after restore cut off what it could not use.
Restored(log) == SubSeq(log, 1, Restore(log).good)

-----------------------------------------------------------------------------
(* The log file.                                                           *)

Overwrite(f, off, d) ==
  [p \in 1 .. (IF off + Len(d) > Len(f) THEN off + Len(d) ELSE Len(f)) |->
     IF p > off /\ p <= off + Len(d) THEN d[p - off] ELSE At(f, p - 1)]

\* What a power loss may leave of a write of d.
Landed(f, off, d) ==
  IF TornWrites = "prefix"
  THEN { Overwrite(f, off, SubSeq(d, 1, k)) : k \in 0 .. Len(d) }
  ELSE { Overwrite(f, off, [k \in 1 .. Len(d) |-> IF k \in K THEN d[k] ELSE At(f, off + k - 1)]) :
           K \in SUBSET (1 .. Len(d)) }

MayLand(off, d) == logDisk' = logDisk \cup { Restored(c) : c \in Landed(logFile, off, d) }

FileWrite(off, d) ==
  /\ logFile' = Overwrite(logFile, off, d)
  /\ MayLand(off, d)

\* The write stops with an error before its last cell.
FileWriteFails(off, d) ==
  /\ \E k \in 0 .. Len(d) - 1 : logFile' = Overwrite(logFile, off, SubSeq(d, 1, k))
  /\ MayLand(off, d)

Truncate(n) ==
  /\ logFile' = SubSeq(logFile, 1, n)
  /\ logDisk' = logDisk \cup {Restored(SubSeq(logFile, 1, n))}

SyncLog ==
  /\ logDisk' = {Restored(logFile)}
  /\ UNCHANGED logFile

-----------------------------------------------------------------------------
(* append_to_buffer and flush_buffer.                                      *)

\* Full buffers that have to go to the file before all of d is in the buffer.
Flushes(d) == (Len(buffer) + Len(d) - 1) \div BufferCells

AppendToBuffer(d) ==
  LET all == buffer \o d
      n == Flushes(d) * BufferCells
  IN  /\ buffer' = SubSeq(all, n + 1, Len(all))
      /\ m_buffer_offset' = m_buffer_offset + n
      /\ IF n = 0 THEN UNCHANGED fileVars
         ELSE FileWrite(m_buffer_offset, SubSeq(all, 1, n))

\* The write of buffer number j + 1 fails: what was appended so far stays.
AppendToBufferFails(d, j) ==
  LET all == buffer \o d
      n == j * BufferCells
      upto == IF n + BufferCells < Len(all) THEN n + BufferCells ELSE Len(all)
  IN  /\ buffer' = SubSeq(all, n + 1, upto)
      /\ m_buffer_offset' = m_buffer_offset + n
      /\ \E k \in n .. upto - 1 :
           logFile' = Overwrite(logFile, m_buffer_offset, SubSeq(all, 1, k))
      /\ MayLand(m_buffer_offset, SubSeq(all, 1, upto))

\* Append and flush_buffer.
AppendAndFlush(d) ==
  /\ FileWrite(m_buffer_offset, buffer \o d)
  /\ m_buffer_offset' = LogSize + Len(d)
  /\ buffer' = << >>

-----------------------------------------------------------------------------
(* Transactions.                                                           *)

Init ==
  /\ logFile = << >>
  /\ logDisk = {<< >>}
  /\ m_buffer_offset = 0
  /\ buffer = << >>
  /\ m_in_transaction = FALSE
  /\ m_transaction_begin = 0
  /\ m_block_positions = NoPositions
  /\ m_uncommitted_block_positions = NoPositions
  /\ m_database_size = None
  /\ m_sync_on_commit = TRUE
  /\ pc = "idle"
  /\ commitSize = None
  /\ failed = {}
  /\ errors = 0

IOError == errors < MaxErrors /\ errors' = errors + 1

\* After a failed commit the application rolls back, or it goes on.
InTransaction ==
  /\ pc = "idle"
  /\ m_in_transaction
  /\ None \in failed => RetryAfterError

\* After a failed write it does so at the latest instead of committing.
MayCommit ==
  /\ InTransaction
  /\ IF RetryAfterError THEN failed \subseteq {None} ELSE failed = {}

Repaired(i) == failed' = IF RetryAfterError THEN failed \ {i} ELSE failed

Begin ==
  /\ pc = "idle"
  /\ ~m_in_transaction
  /\ LogSize + 7 <= MaxCells
  /\ m_in_transaction' = TRUE
  /\ m_transaction_begin' = LogSize
  /\ AppendToBuffer(BeginRecord)
  /\ UNCHANGED <<m_uncommitted_block_positions, pc, commitSize, failed, errors>>
  /\ UNCHANGED indexVars

\* write(): the first version of a block in this transaction is appended.
WriteNew(i, v) ==
  /\ InTransaction
  /\ m_uncommitted_block_positions[i] = 0
  /\ LogSize + 6 <= MaxCells
  /\ AppendToBuffer(WriteRecord(i, v))
  /\ m_uncommitted_block_positions' =
       [m_uncommitted_block_positions EXCEPT ![i] = LogSize + 2]
  /\ UNCHANGED <<m_in_transaction, m_transaction_begin, pc, commitSize, errors>>
  /\ Repaired(i)
  /\ UNCHANGED indexVars

WriteNewFails(i, v, j) ==
  /\ IOError
  /\ InTransaction
  /\ m_uncommitted_block_positions[i] = 0
  /\ LogSize + 6 <= MaxCells
  /\ j < Flushes(WriteRecord(i, v))
  /\ AppendToBufferFails(WriteRecord(i, v), j)
  /\ failed' = failed \cup {i}
  /\ UNCHANGED <<pc, commitSize>>
  /\ UNCHANGED txVars
  /\ UNCHANGED indexVars

\* Later versions overwrite it: the part in front of the buffer in the file,
\* the rest in the buffer (write_internal).
Rewrite(i, v) ==
  LET pos == m_uncommitted_block_positions[i]
      d == BlockData(v)
      n == IF pos >= m_buffer_offset THEN 0
           ELSE IF pos + Len(d) > m_buffer_offset THEN m_buffer_offset - pos ELSE Len(d)
  IN  /\ InTransaction
      /\ pos # 0
      /\ IF n = 0 THEN UNCHANGED fileVars ELSE FileWrite(pos, SubSeq(d, 1, n))
      /\ buffer' = IF n = Len(d) THEN buffer
                   ELSE Overwrite(buffer, pos + n - m_buffer_offset, SubSeq(d, n + 1, Len(d)))
      /\ UNCHANGED <<m_buffer_offset, pc, commitSize, errors>>
      /\ Repaired(i)
      /\ UNCHANGED txVars
      /\ UNCHANGED indexVars

RewriteFails(i, v) ==
  LET pos == m_uncommitted_block_positions[i]
      d == BlockData(v)
      n == IF pos + Len(d) > m_buffer_offset THEN m_buffer_offset - pos ELSE Len(d)
  IN  /\ IOError
      /\ InTransaction
      /\ pos # 0
      /\ pos < m_buffer_offset
      /\ FileWriteFails(pos, SubSeq(d, 1, n))
      /\ failed' = failed \cup {i}
      /\ UNCHANGED <<pc, commitSize>>
      /\ UNCHANGED bufferVars
      /\ UNCHANGED txVars
      /\ UNCHANGED indexVars

\* commit(): the commit record is appended and everything flushed ...
CommitFlush(n) ==
  /\ MayCommit
  /\ LogSize + 2 <= MaxCells
  /\ AppendAndFlush(CommitRecord(n))
  /\ pc' = "commit"
  /\ commitSize' = n
  /\ UNCHANGED <<failed, errors>>
  /\ UNCHANGED txVars
  /\ UNCHANGED indexVars

CommitFlushFails(n, j) ==
  /\ IOError
  /\ MayCommit
  /\ LogSize + 2 <= MaxCells
  /\ j <= Flushes(CommitRecord(n))
  /\ AppendToBufferFails(CommitRecord(n), j)
  /\ failed' = failed \cup {None}
  /\ UNCHANGED <<pc, commitSize>>
  /\ UNCHANGED txVars
  /\ UNCHANGED indexVars

EndTransaction ==
  /\ m_in_transaction' = FALSE
  /\ m_transaction_begin' = 0
  /\ m_uncommitted_block_positions' = NoPositions
  /\ failed' = {}

\* Seeded fault: commit() returns before the file is synced.
CommitSyncOmitted ==
  /\ pc = "commit"
  /\ UNCHANGED fileVars
  /\ m_block_positions' =
       [b \in Blocks |-> IF b >= commitSize THEN 0
                         ELSE IF m_uncommitted_block_positions[b] # 0
                         THEN m_uncommitted_block_positions[b] ELSE m_block_positions[b]]
  /\ m_database_size' = commitSize
  /\ EndTransaction
  /\ pc' = "idle"
  /\ commitSize' = None
  /\ UNCHANGED errors
  /\ UNCHANGED bufferVars

\* ... then the file is synced and the index updated.
CommitSync ==
  /\ pc = "commit"
  /\ IF m_sync_on_commit THEN SyncLog ELSE UNCHANGED fileVars
  /\ m_block_positions' =
       [b \in Blocks |-> IF b >= commitSize THEN 0
                         ELSE IF m_uncommitted_block_positions[b] # 0
                         THEN m_uncommitted_block_positions[b] ELSE m_block_positions[b]]
  /\ m_database_size' = commitSize
  /\ EndTransaction
  /\ pc' = "idle"
  /\ commitSize' = None
  /\ UNCHANGED errors
  /\ UNCHANGED bufferVars

CommitSyncFails ==
  /\ IOError
  /\ m_sync_on_commit
  /\ pc = "commit"
  /\ pc' = "idle"
  /\ commitSize' = None
  /\ failed' = failed \cup {None}
  /\ UNCHANGED fileVars
  /\ UNCHANGED bufferVars
  /\ UNCHANGED txVars
  /\ UNCHANGED indexVars

\* Seeded fault: abort() resets the buffer but not the file.
AbortKeepsFile ==
  /\ pc = "idle"
  /\ m_in_transaction
  /\ IF m_transaction_begin < m_buffer_offset
     THEN m_buffer_offset' = m_transaction_begin /\ buffer' = << >>
     ELSE /\ buffer' = SubSeq(buffer, 1, m_transaction_begin - m_buffer_offset)
          /\ UNCHANGED m_buffer_offset
  /\ EndTransaction
  /\ UNCHANGED <<pc, commitSize, errors>>
  /\ UNCHANGED fileVars
  /\ UNCHANGED indexVars

\* The assertion in abort(): when no flush succeeded since begin(), none of the
\* transaction is in the file.
NothingFlushed ==
  m_transaction_begin >= m_buffer_offset => Len(logFile) = m_buffer_offset

\* abort(): cut the transaction off the file, or only off the buffer.
Abort ==
  /\ pc = "idle"
  /\ m_in_transaction
  /\ Assertions => NothingFlushed
  /\ IF m_transaction_begin < m_buffer_offset
     THEN /\ Truncate(m_transaction_begin)
          /\ m_buffer_offset' = m_transaction_begin
          /\ buffer' = << >>
     ELSE /\ buffer' = SubSeq(buffer, 1, m_transaction_begin - m_buffer_offset)
          /\ UNCHANGED m_buffer_offset
          /\ UNCHANGED fileVars
  /\ EndTransaction
  /\ UNCHANGED <<pc, commitSize, errors>>
  /\ UNCHANGED indexVars

\* A flush failed after it had extended the file: a debug build ends here, a release
\* build goes on with Abort.
AbortAsserts ==
  /\ Assertions
  /\ pc = "idle"
  /\ m_in_transaction
  /\ ~NothingFlushed
  /\ pc' = "dead"
  /\ UNCHANGED <<commitSize, failed, errors>>
  /\ UNCHANGED fileVars
  /\ UNCHANGED bufferVars
  /\ UNCHANGED txVars
  /\ UNCHANGED indexVars

-----------------------------------------------------------------------------
(* checkpoint(): the log's side.  The copy into the database file happens  *)
(* while pc is "copy".                                                     *)

CheckpointSync ==
  /\ pc = "idle"
  /\ ~m_in_transaction
  /\ m_database_size # None
  /\ SyncLog
  /\ pc' = "copy"
  /\ UNCHANGED <<commitSize, failed, errors>>
  /\ UNCHANGED bufferVars
  /\ UNCHANGED txVars
  /\ UNCHANGED indexVars

\* Copying a block, or syncing the database file, failed.
CheckpointCopyFails ==
  /\ IOError
  /\ pc = "copy"
  /\ pc' = "idle"
  /\ UNCHANGED <<commitSize, failed>>
  /\ UNCHANGED fileVars
  /\ UNCHANGED bufferVars
  /\ UNCHANGED txVars
  /\ UNCHANGED indexVars

CheckpointShrink ==
  /\ pc = "copy"
  /\ Truncate(0)
  /\ pc' = "shrink"
  /\ UNCHANGED <<commitSize, failed, errors>>
  /\ UNCHANGED bufferVars
  /\ UNCHANGED txVars
  /\ UNCHANGED indexVars

\* Seeded fault: the checkpoint does not reset the journal's database size.
CheckpointDoneKeepsSize ==
  /\ pc = "shrink"
  /\ SyncLog
  /\ m_buffer_offset' = 0
  /\ buffer' = << >>
  /\ m_block_positions' = NoPositions
  /\ pc' = "idle"
  /\ UNCHANGED <<m_database_size, commitSize, failed, errors>>
  /\ UNCHANGED txVars

CheckpointDone ==
  /\ pc = "shrink"
  /\ SyncLog
  /\ m_buffer_offset' = 0
  /\ buffer' = << >>
  /\ m_block_positions' = NoPositions
  /\ m_database_size' = None
  /\ pc' = "idle"
  /\ UNCHANGED <<commitSize, failed, errors>>
  /\ UNCHANGED txVars

\* The log is truncated but the index still points into it.
CheckpointShrinkFails ==
  /\ IOError
  /\ pc = "shrink"
  /\ pc' = IF RetryAfterError THEN "idle" ELSE "closed"
  /\ UNCHANGED <<commitSize, failed>>
  /\ UNCHANGED fileVars
  /\ UNCHANGED bufferVars
  /\ UNCHANGED txVars
  /\ UNCHANGED indexVars

\* A crash at any point, or a regular end of the program, and the next start.
Restart ==
  \E c \in logDisk :
    /\ logFile' = c
    /\ logDisk' = {c}
    /\ m_buffer_offset' = Len(c)
    /\ buffer' = << >>
    /\ m_block_positions' = Restore(c).positions
    /\ m_database_size' = Restore(c).size
    /\ m_sync_on_commit' = TRUE
    /\ EndTransaction
    /\ pc' = "idle"
    /\ commitSize' = None
    /\ UNCHANGED errors

\* sync_on_commit(enabled)
SetSyncOnCommit ==
  /\ m_sync_on_commit' = ~m_sync_on_commit
  /\ UNCHANGED <<pc, commitSize, failed, errors>>
  /\ UNCHANGED fileVars
  /\ UNCHANGED bufferVars
  /\ UNCHANGED txVars
  /\ UNCHANGED indexVars

Operation ==
  \/ Begin
  \/ \E i \in Blocks, v \in Values : WriteNew(i, v) \/ Rewrite(i, v) \/ RewriteFails(i, v)
  \/ \E i \in Blocks, v \in Values, j \in 0 .. MaxCells : WriteNewFails(i, v, j)
  \/ \E n \in Sizes : CommitFlush(n)
  \/ \E n \in Sizes, j \in 0 .. MaxCells : CommitFlushFails(n, j)
  \/ CommitSync \/ CommitSyncFails
  \/ Abort \/ AbortAsserts
  \/ CheckpointSync \/ CheckpointCopyFails \/ CheckpointShrink
  \/ CheckpointDone \/ CheckpointShrinkFails

Next ==
  \/ Operation /\ UNCHANGED m_sync_on_commit
  \/ SetSyncOnCommit
  \/ Restart

Spec == Init /\ [][Next]_vars

-----------------------------------------------------------------------------
(* Properties                                                              *)

\* The bytes of a block: a number if its halves belong together.
Content(first, second) == IF first[2] = second[2] THEN first[2] ELSE Torn

\* What read() returns for a block at the given position.
ReadAt(pos) == IF pos = 0 THEN None ELSE Content(CellAt(pos), CellAt(pos + 1))

\* The journal that a restart on log c shows to the engine.
Image(c) ==
  LET r == Restore(c)
  IN  [blocks |-> [b \in Blocks |-> IF r.positions[b] = 0 THEN None
                                    ELSE Content(At(c, r.positions[b]), At(c, r.positions[b] + 1))],
       size |-> r.size]

\* A checkpoint has shrunk the log: the index is about to be dropped.
LogGone == pc \in {"shrink", "closed"}

\* The journal as the redo log that transaction_engine relies on: commits are
\* atomic, nothing uncommitted survives a restart, acknowledged commits do,
\* whatever the buffer, the power loss and the I/O errors do in between.
Log == INSTANCE RedoLog WITH
  jBlocks  <- [b \in Blocks |-> IF LogGone THEN None ELSE ReadAt(m_block_positions[b])],
  jSize    <- IF LogGone THEN None ELSE m_database_size,
  jWritten <- [b \in Blocks |-> ReadAt(m_uncommitted_block_positions[b])],
  jActive  <- m_in_transaction,
  jDisk    <- { Image(c) : c \in logDisk },
  jSync    <- m_sync_on_commit

ImplementsRedoLog == Log!Spec

\* The index in memory is what a scan of the log file rebuilds, whenever no
\* transaction and no checkpoint is running ("index/program state management,
\* which we will be able to restore after a crash by scanning the journal").
IndexMatchesLog ==
  pc = "idle" /\ ~m_in_transaction =>
    /\ Restore(logFile).positions = m_block_positions
    /\ Restore(logFile).size = m_database_size

\* PREQUEL_ASSERT(file_size() + m_buffer_used == m_log_size, "Log size
\* invariant."), which abort() states at its end (journal.ipp:324) and begin()
\* relies on (259): between transactions the file ends where the buffer starts,
\* so no remains of an aborted transaction lie behind the log.
LogSizeInvariant ==
  pc = "idle" /\ ~m_in_transaction => Len(logFile) + Len(buffer) = LogSize

\* As long as no I/O call has failed the assertions about the size of the log hold
\* in begin(), commit() and abort(), in the middle of a transaction too: however
\* records lie across flushes, whatever is rewritten behind the buffer, cut off by
\* an abort or a checkpoint or lost with the power, the file ends where the
\* buffer starts.
OnlyErrorsLeaveRemains ==
  errors = 0 /\ pc \in {"idle", "commit"} => Len(logFile) = m_buffer_offset

\* Every journal a power loss may leave behind holds only block contents that
\* a transaction wrote: the database "will just revert to an earlier version".
RevertsToWrittenBlocks ==
  \A c \in logDisk : \A b \in Blocks : Image(c).blocks[b] \in Values \cup {None}

\* The same for a journal that is never synced: without sync_on_commit the database
\* "will just revert to an earlier version of itself" (journal.hpp:87), whatever
\* part of the last writes the power loss has left.
UnsyncedLogReverts == ~m_sync_on_commit => RevertsToWrittenBlocks
=============================================================================
