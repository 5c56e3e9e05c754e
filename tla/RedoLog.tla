------------------------------ MODULE RedoLog ------------------------------
(***************************************************************************)
(* What the journal promises to transaction_engine, without its file: the  *)
(* newest version of every committed block, the committed database size,   *)
(* the blocks of the transaction that is being written, and the states a   *)
(* restart may find on disk.  Journal implements it; TransactionEngine is  *)
(* built on it.                                                            *)
(***************************************************************************)
EXTENDS Naturals

CONSTANTS
  Blocks,         \* block indices, a set of numbers
  Sizes,          \* database sizes in blocks
  Values,         \* contents of one block
  None,           \* neither a content nor a size
  Torn            \* the content of a block of which only a part was written

VARIABLES
  jBlocks,    \* newest committed version of each block, None if not in the journal
  jSize,      \* m_database_size
  jWritten,   \* versions written by the running transaction
  jActive,    \* m_in_transaction
  jDisk,      \* the journal states that restore() may find after a power loss
  jSync       \* m_sync_on_commit

logVars == <<jBlocks, jSize, jWritten, jActive, jDisk>>

NoBlocks == [b \in Blocks |-> None]

Empty == [blocks |-> NoBlocks, size |-> None]

Current == [blocks |-> jBlocks, size |-> jSize]

\* The state of the journal once a transaction that wrote w is committed with
\* database size n.
Merged(w, n) ==
  [blocks |-> [b \in Blocks |-> IF b >= n THEN None
                                ELSE IF w[b] # None THEN w[b] ELSE jBlocks[b]],
   size   |-> n]

After(n) == Merged(jWritten, n)

Adopt(s) == jBlocks' = s.blocks /\ jSize' = s.size

EndTransaction == jActive' = FALSE /\ jWritten' = NoBlocks

Init ==
  /\ jBlocks = NoBlocks
  /\ jSize = None
  /\ jWritten = NoBlocks
  /\ jActive = FALSE
  /\ jDisk = {Empty}

Begin ==
  /\ ~jActive
  /\ jActive' = TRUE
  /\ UNCHANGED <<jBlocks, jSize, jWritten, jDisk>>

Write(b, v) ==
  /\ jActive
  /\ jWritten' = [jWritten EXCEPT ![b] = v]
  /\ UNCHANGED <<jBlocks, jSize, jActive, jDisk>>

\* An I/O error while an earlier version of this transaction is overwritten.
WriteFails(b) ==
  /\ jActive
  /\ jWritten[b] # None
  /\ jWritten' = [jWritten EXCEPT ![b] = Torn]
  /\ UNCHANGED <<jBlocks, jSize, jActive, jDisk>>

\* do_write of the engine for all blocks of S: the first write of a transaction
\* begins it.
WriteAll(S, data) ==
  /\ jActive' = (jActive \/ S # {})
  /\ jWritten' = [b \in Blocks |-> IF b \in S THEN data[b] ELSE jWritten[b]]
  /\ UNCHANGED <<jBlocks, jSize, jDisk>>

\* The same, but writing block j fails after the blocks of S were written: an
\* earlier version of j in this transaction may be damaged.
WriteAllFails(S, j, data) ==
  /\ jActive' = TRUE
  /\ \E old \in {jWritten[j]} \cup (IF jWritten[j] = None THEN {} ELSE {Torn}) :
       jWritten' = [b \in Blocks |-> IF b = j THEN old
                                     ELSE IF b \in S THEN data[b] ELSE jWritten[b]]
  /\ UNCHANGED <<jBlocks, jSize, jDisk>>

\* The commit record is in the file: from here on it may survive.
CommitLogged(n) ==
  /\ jActive
  /\ \A b \in Blocks : jWritten[b] # Torn
  /\ jDisk' = jDisk \cup {After(n)}
  /\ UNCHANGED <<jBlocks, jSize, jWritten, jActive>>

\* The engine's commit: it writes the blocks of S first.
WriteAllAndCommit(S, data, n) ==
  LET w == [b \in Blocks |-> IF b \in S THEN data[b] ELSE jWritten[b]]
  IN  /\ jActive \/ S # {}
      /\ \A b \in Blocks : w[b] # Torn
      /\ jActive' = TRUE
      /\ jWritten' = w
      /\ jDisk' = jDisk \cup {Merged(w, n)}
      /\ UNCHANGED <<jBlocks, jSize>>

\* commit returns: with sync_on_commit it is certain to survive.
CommitDone(n) ==
  /\ jActive
  /\ After(n) \in jDisk
  /\ Adopt(After(n))
  /\ EndTransaction
  /\ jDisk' = IF jSync THEN {After(n)} ELSE jDisk

Abort ==
  /\ jActive
  /\ EndTransaction
  /\ UNCHANGED <<jBlocks, jSize, jDisk>>

(* The log's part of a checkpoint: sync, and once the database file is     *)
(* written, shrink, sync and forget.                                       *)

Sync ==
  /\ ~jActive
  /\ jSize # None
  /\ jDisk' = {Current}
  /\ UNCHANGED <<jBlocks, jSize, jWritten, jActive>>

Shrink ==
  /\ ~jActive
  /\ jDisk = {Current}
  /\ jDisk' = jDisk \cup {Empty}
  /\ Adopt(Empty)
  /\ UNCHANGED <<jWritten, jActive>>

Forget ==
  /\ Current = Empty
  /\ Empty \in jDisk
  /\ ~jActive
  /\ jDisk' = {Empty}
  /\ UNCHANGED <<jBlocks, jSize, jWritten, jActive>>

\* The process is gone; the next one restores what it finds.
Restore ==
  /\ \E s \in jDisk : Adopt(s) /\ jDisk' = {s}
  /\ EndTransaction

Next ==
  \/ Begin
  \/ \E b \in Blocks, v \in Values : Write(b, v) \/ WriteFails(b)
  \/ \E n \in Sizes : CommitLogged(n) \/ CommitDone(n)
  \/ Abort \/ Sync \/ Shrink \/ Forget \/ Restore

\* jSync may change at any time: it matters only when a commit returns.
Spec == Init /\ [][Next]_logVars
=============================================================================
