------------------------ MODULE TransactionalStore ------------------------
(***************************************************************************)
(* What transaction_engine promises its user: a database of blocks that    *)
(* changes by whole transactions only.  A state of the database is its     *)
(* size and the contents of its blocks; blocks past the end are zero.      *)
(***************************************************************************)
EXTENDS Naturals

CONSTANTS
  Blocks, Values, Zero,
  MaxSize    \* bound: size of the database in blocks

VARIABLES
  committed,    \* the state the last commit left
  working,      \* what the running transaction sees
  inTx,
  mayRecover    \* the states a restart may find

storeVars == <<committed, working, inTx, mayRecover>>

States == [size : 0 .. MaxSize, data : [Blocks -> Values]]

Init ==
  /\ committed \in States
  /\ working = committed
  /\ inTx = FALSE
  /\ mayRecover = {committed}

Begin ==
  /\ ~inTx
  /\ inTx' = TRUE
  /\ UNCHANGED <<committed, working, mayRecover>>

Write(b, v) ==
  /\ inTx
  /\ b < working.size
  /\ working' = [working EXCEPT !.data[b] = v]
  /\ UNCHANGED <<committed, inTx, mayRecover>>

Grow(n) ==
  /\ inTx
  /\ working.size + n <= MaxSize
  /\ working' = [working EXCEPT !.size = @ + n]
  /\ UNCHANGED <<committed, inTx, mayRecover>>

\* A commit has begun to write: if it is interrupted it may or may not survive.
CommitStarts ==
  /\ inTx
  /\ mayRecover' = mayRecover \cup {working}
  /\ UNCHANGED <<committed, working, inTx>>

\* A commit returns: it survives.  One that changed nothing decides nothing.
Commit ==
  /\ inTx
  /\ committed' = working
  /\ inTx' = FALSE
  /\ \/ mayRecover' = {working}
     \/ working = committed /\ UNCHANGED mayRecover
  /\ UNCHANGED working

Rollback ==
  /\ inTx
  /\ working' = committed
  /\ inTx' = FALSE
  /\ UNCHANGED <<committed, mayRecover>>

\* A checkpoint settles what survives: the committed state.
Settle ==
  /\ ~inTx
  /\ mayRecover' = {committed}
  /\ UNCHANGED <<committed, working, inTx>>

Restart ==
  /\ committed' \in mayRecover
  /\ working' = committed'
  /\ mayRecover' = {committed'}
  /\ inTx' = FALSE

Next ==
  \/ Begin
  \/ \E b \in Blocks, v \in Values : Write(b, v)
  \/ \E n \in 1 .. MaxSize : Grow(n)
  \/ CommitStarts \/ Commit \/ Rollback \/ Settle \/ Restart

Spec == Init /\ [][Next]_storeVars
=============================================================================
