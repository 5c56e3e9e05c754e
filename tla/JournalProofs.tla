--------------------------- MODULE JournalProofs ---------------------------
(***************************************************************************)
(* The journal keeps its promise to transaction_engine (RedoLog), for      *)
(* every block set, every buffer size, every length of the log and every   *)
(* number of I/O errors, where writes land on the disk from front to back  *)
(* and the application rolls back when an operation has failed.            *)
(*                                                                         *)
(* The argument is about restore(): what it makes of a log depends on the  *)
(* records that it has scanned so far only through the state of the scan   *)
(* (Ready), and a log without another commit record is cut off where the   *)
(* last transaction ends.                                                  *)
(***************************************************************************)
EXTENDS Journal, WellFoundedInduction, TLAPS

Kinds == {"hole", "begin", "commit", "size", "write", "index", "data"}
Cells == Kinds \X Nat
Logs == Seq(Cells)

-----------------------------------------------------------------------------
(* Induction, with a set in place of a predicate.                          *)

\* A set of natural numbers that is not empty has a least element.
LEMMA LeastNumber ==
  ASSUME NEW T, T \subseteq Nat, T # {}
  PROVE  \E x \in T : \A y \in T : x <= y
<1> DEFINE R == { ss \in Nat \X Nat : ss[1] < ss[2] }
<1>1. IsWellFoundedOn(R, Nat) BY NatLessThanWellFounded DEF OpToRel
<1>2. \A x, y \in Nat : y < x => <<y, x>> \in R OBVIOUS
<1> HIDE DEF R
<1>3. PICK x \in T : \A y \in T : ~(<<y, x>> \in R) BY <1>1, WFMin
<1>4. ASSUME NEW y \in T PROVE x <= y
  <2>1. x \in Nat /\ y \in Nat OBVIOUS
  <2>2. ~(y < x) BY <1>2, <1>3, <2>1
  <2>3. QED BY <2>1, <2>2
<1>5. QED BY <1>4

\* Induction over the natural numbers.
LEMMA NumberInduction ==
  ASSUME NEW T, 0 \in T, \A n \in Nat : n \in T => n + 1 \in T
  PROVE  Nat \subseteq T
<1>1. SUFFICES ASSUME Nat \ T # {} PROVE FALSE OBVIOUS
<1>2. Nat \ T \subseteq Nat OBVIOUS
<1>3. PICK x \in Nat \ T : \A y \in Nat \ T : x <= y BY <1>1, <1>2, LeastNumber
<1>4. x # 0 /\ x - 1 \in Nat OBVIOUS
<1>5. x - 1 \notin Nat \ T BY <1>3, <1>4
<1>6. QED BY <1>3, <1>4, <1>5

-----------------------------------------------------------------------------
(* The scan of restore().                                                  *)

\* What a read of a log returns is a cell, past its end too.
LEMMA AtType ==
  ASSUME NEW log \in Logs, NEW p \in Nat
  PROVE  At(log, p) \in Cells /\ Number(log, p) \in Nat
<1>1. Hole \in Cells BY DEF Hole, Cells, Kinds
<1>2. p < Len(log) => log[p + 1] \in Cells BY DEF Logs
<1>3. At(log, p) \in Cells BY <1>1, <1>2 DEF At
<1>4. QED BY <1>3 DEF Number, Cells

\* A scan starts from a proper state.
LEMMA StartType == ScanStart \in Scanners
BY DEF ScanStart, Scanners, NoPositions

\* A record that is complete takes the scan to a proper state further on.
LEMMA RecordType ==
  ASSUME NEW log \in Logs, NEW s \in Scanners, ~ScanEnds(log, s)
  PROVE  /\ ScanRecord(log, s) \in Scanners
         /\ ScanRecord(log, s).offset \in Nat
         /\ ScanRecord(log, s).offset > s.offset
         /\ s.offset < Len(log)
<1>1. s.offset \in Nat /\ Len(log) \in Nat BY DEF Scanners, Logs
<1>2. s.offset < Len(log)
  <2>1. ~(s.offset + 1 > Len(log)) BY DEF ScanEnds
  <2>2. QED BY ONLY <1>1, <2>1
<1>3. Number(log, s.offset + 1) \in Nat
  <2>1. s.offset + 1 \in Nat BY ONLY <1>1
  <2>2. QED BY <2>1, AtType
<1>4. CASE ~s.active
  <2>1. ScanRecord(log, s) = [s EXCEPT !.active = TRUE, !.written = NoPositions, !.offset = @ + 1]
    BY <1>4 DEF ScanRecord
  <2>2. ScanRecord(log, s) =
            [offset |-> s.offset + 1, good |-> s.good, active |-> TRUE, written |-> NoPositions,
             positions |-> s.positions, size |-> s.size]
    BY <2>1 DEF Scanners
  <2>3. QED BY <1>1, <1>2, <2>2 DEF Scanners, NoPositions
<1>5. CASE s.active /\ Kind(log, s.offset) = "write"
  <2>1. ScanRecord(log, s) =
          [s EXCEPT !.written[Number(log, s.offset + 1)] = s.offset + 2, !.offset = @ + 4]
    BY <1>5 DEF ScanRecord
  <2> DEFINE W == [s.written EXCEPT ![Number(log, s.offset + 1)] = s.offset + 2]
  <2>2. ScanRecord(log, s) =
          [offset |-> s.offset + 4, good |-> s.good, active |-> s.active, written |-> W,
           positions |-> s.positions, size |-> s.size]
    BY <2>1 DEF Scanners
  <2>3. W \in [Blocks -> Nat]
    <3>1. s.written \in [Blocks -> Nat] /\ s.offset + 2 \in Nat BY <1>1 DEF Scanners
    <3>2. W = [b \in Blocks |-> IF b = Number(log, s.offset + 1) THEN s.offset + 2 ELSE s.written[b]]
      BY <3>1
    <3>3. QED BY <3>1, <3>2
  <2> HIDE DEF W
  <2>4. QED BY <1>1, <1>2, <2>2, <2>3 DEF Scanners
<1>6. CASE s.active /\ Kind(log, s.offset) # "write"
  <2> DEFINE n == Number(log, s.offset + 1)
             P == [b \in Blocks |-> IF b >= n THEN 0 ELSE IF s.written[b] # 0 THEN s.written[b]
                                    ELSE s.positions[b]]
  <2>1. ScanRecord(log, s) =
          [s EXCEPT !.active = FALSE, !.offset = @ + 2, !.good = s.offset + 2, !.size = n,
                    !.positions = P]
    BY <1>6 DEF ScanRecord, Scanners
  <2>2. P \in [Blocks -> Nat] BY DEF Scanners
  <2>3. n \in Nat BY <1>3
  <2> HIDE DEF n, P
  <2>4. ScanRecord(log, s) =
          [offset |-> s.offset + 2, good |-> s.offset + 2, active |-> FALSE,
           written |-> s.written, positions |-> P, size |-> n]
    BY <2>1 DEF Scanners
  <2>5. QED BY <1>1, <1>2, <2>2, <2>3, <2>4 DEF Scanners
<1>7. QED BY <1>4, <1>5, <1>6

\* Scan is what its recursive definition says: every record is behind the one
\* before it, and the log has an end.
LEMMA ScanDefined ==
  ASSUME NEW log \in Logs
  PROVE  \A s \in Scanners :
           Scan(log)[s] = IF ScanEnds(log, s) THEN s ELSE Scan(log)[ScanRecord(log, s)]
<1> DEFINE Within(n) == { s \in Scanners : s.offset + n >= Len(log) }
           IsScan(f, S) ==
             \A s \in S : f[s] = IF ScanEnds(log, s) THEN s ELSE f[ScanRecord(log, s)]
           T == { n \in Nat : \E f : f = [s \in Within(n) |-> f[s]] /\ IsScan(f, Within(n)) }
<1>1. Len(log) \in Nat /\ \A s \in Scanners : s.offset \in Nat BY DEF Logs, Scanners
<1>2. 0 \in T
  <2>1. \A s \in Within(0) : ScanEnds(log, s) BY <1>1 DEF ScanEnds
  <2>2. IsScan([s \in Within(0) |-> s], Within(0)) BY <2>1
  <2>3. QED BY <2>2
<1>3. ASSUME NEW n \in Nat, n \in T PROVE n + 1 \in T
  <2>1. PICK f : IsScan(f, Within(n)) BY <1>3
  <2> DEFINE g == [s \in Within(n + 1) |-> IF ScanEnds(log, s) THEN s ELSE f[ScanRecord(log, s)]]
  <2>2. ASSUME NEW s \in Within(n + 1), ~ScanEnds(log, s)
        PROVE  ScanRecord(log, s) \in Within(n) /\ ScanRecord(log, s) \in Within(n + 1)
    BY <1>1, <2>2, RecordType
  <2>3. ASSUME NEW s \in Within(n) PROVE g[s] = f[s]
    <3>1. s \in Within(n + 1) BY <1>1
    <3>2. f[s] = IF ScanEnds(log, s) THEN s ELSE f[ScanRecord(log, s)] BY <2>1
    <3>3. QED BY <3>1, <3>2
  <2>4. ASSUME NEW s \in Within(n + 1)
        PROVE  g[s] = IF ScanEnds(log, s) THEN s ELSE g[ScanRecord(log, s)]
    BY <2>2, <2>3
  <2>5. IsScan(g, Within(n + 1)) BY <2>4
  <2>6. g = [s \in Within(n + 1) |-> g[s]] OBVIOUS
  <2> HIDE DEF g, Within, IsScan
  <2>7. QED BY <2>5, <2>6
<1> HIDE DEF T
<1>4. Nat \subseteq T BY <1>2, <1>3, NumberInduction
<1> USE DEF T
<1>5. PICK f : f = [s \in Within(Len(log)) |-> f[s]] /\ IsScan(f, Within(Len(log)))
  BY <1>1, <1>4
<1>6. Within(Len(log)) = Scanners BY <1>1
<1> DEFINE P(h) == h = [s \in Scanners |-> IF ScanEnds(log, s) THEN s ELSE h[ScanRecord(log, s)]]
<1>7. P(f) BY <1>5, <1>6
<1>8. Scan(log) = CHOOSE h : P(h) BY DEF Scan
<1> HIDE DEF P
<1>9. P(Scan(log)) BY <1>7, <1>8
<1>10. QED BY <1>9 DEF P

\* Induction along a scan, backwards from where it ends.
LEMMA ScanInduction ==
  ASSUME NEW log \in Logs, NEW T,
         \A s \in Scanners : ScanEnds(log, s) => s \in T,
         \A s \in Scanners : ~ScanEnds(log, s) /\ ScanRecord(log, s) \in T => s \in T
  PROVE  Scanners \subseteq T
<1> DEFINE M == { n \in Nat : \A s \in Scanners : s.offset + n >= Len(log) => s \in T }
<1>1. Len(log) \in Nat /\ \A s \in Scanners : s.offset \in Nat BY DEF Logs, Scanners
<1>2. 0 \in M BY <1>1 DEF ScanEnds
<1>3. ASSUME NEW n \in Nat, n \in M PROVE n + 1 \in M
  <2>1. ASSUME NEW s \in Scanners, s.offset + (n + 1) >= Len(log) PROVE s \in T
    <3>1. CASE ScanEnds(log, s) BY <3>1
    <3>2. CASE ~ScanEnds(log, s)
      <4>1. ScanRecord(log, s) \in Scanners /\ ScanRecord(log, s).offset + n >= Len(log)
        BY <1>1, <2>1, <3>2, RecordType
      <4>2. QED BY <1>3, <3>2, <4>1
    <3>3. QED BY <3>1, <3>2
  <2>2. QED BY <2>1
<1> HIDE DEF M
<1>4. Len(log) \in M BY <1>1, <1>2, <1>3, NumberInduction
<1> USE DEF M
<1>5. QED BY <1>1, <1>4

\* A scan that meets no commit record any more changes nothing of the index.
LEMMA ScanWithoutCommit ==
  ASSUME NEW log \in Logs, NEW s \in Scanners,
         \A p \in Nat : p >= s.offset /\ p < Len(log) => Kind(log, p) # "commit"
  PROVE  /\ Scan(log)[s].good = s.good
         /\ Scan(log)[s].positions = s.positions
         /\ Scan(log)[s].size = s.size
<1> DEFINE NoCommit(t) ==
             \A p \in Nat : p >= t.offset /\ p < Len(log) => Kind(log, p) # "commit"
           Same(t, u) == t.good = u.good /\ t.positions = u.positions /\ t.size = u.size
           T == { t \in Scanners : NoCommit(t) => Same(Scan(log)[t], t) }
<1>1. ASSUME NEW t \in Scanners, ScanEnds(log, t) PROVE t \in T
  BY <1>1, ScanDefined
<1>2. ASSUME NEW t \in Scanners, ~ScanEnds(log, t), ScanRecord(log, t) \in T PROVE t \in T
  <2>1. SUFFICES ASSUME NoCommit(t) PROVE Same(Scan(log)[t], t) OBVIOUS
  <2> DEFINE u == ScanRecord(log, t)
  <2>2. Scan(log)[t] = Scan(log)[u] BY <1>2, ScanDefined
  <2>3. u \in Scanners /\ u.offset > t.offset /\ t.offset < Len(log) /\ u.offset \in Nat
    BY <1>2, RecordType
  <2>4. t.offset \in Nat /\ Len(log) \in Nat BY DEF Scanners, Logs
  <2>5. Kind(log, t.offset) # "commit" BY <2>1, <2>3, <2>4
  <2>6. Same(u, t)
    <3>1. CASE ~t.active
      <4>1. u = [t EXCEPT !.active = TRUE, !.written = NoPositions, !.offset = @ + 1]
        BY <3>1 DEF ScanRecord
      <4>2. QED BY <4>1 DEF Scanners
    <3>2. CASE t.active
      <4>1. Kind(log, t.offset) = "write" BY <1>2, <2>5, <3>2 DEF ScanEnds
      <4>2. u = [t EXCEPT !.written[Number(log, t.offset + 1)] = t.offset + 2, !.offset = @ + 4]
        BY <3>2, <4>1 DEF ScanRecord
      <4>3. QED BY <4>2 DEF Scanners
    <3>3. QED BY <3>1, <3>2
  <2>7. NoCommit(u) BY <2>1, <2>3, <2>4
  <2> HIDE DEF u
  <2>8. Same(Scan(log)[u], u) BY <1>2, <2>7 DEF u
  <2>9. QED BY <2>2, <2>6, <2>8
<1> HIDE DEF T
<1>3. Scanners \subseteq T BY <1>1, <1>2, ScanInduction
<1> USE DEF T
<1>4. QED BY <1>3

\* restore() ends in a proper state.
LEMMA RestoreType ==
  ASSUME NEW log \in Logs
  PROVE  Restore(log) \in Scanners /\ \A s \in Scanners : Scan(log)[s] \in Scanners
<1> DEFINE T == { s \in Scanners : Scan(log)[s] \in Scanners }
<1>1. \A s \in Scanners : ScanEnds(log, s) => s \in T BY ScanDefined
<1>2. \A s \in Scanners : ~ScanEnds(log, s) /\ ScanRecord(log, s) \in T => s \in T
  BY ScanDefined
<1> HIDE DEF T
<1>3. Scanners \subseteq T BY <1>1, <1>2, ScanInduction
<1> USE DEF T
<1>4. QED BY <1>3, StartType DEF Restore

-----------------------------------------------------------------------------
(* What the scan depends on.                                               *)

\* Cells that restore() does not tell apart: it never looks into block data.
SameCell(x, y) == x = y \/ (x[1] = "data" /\ y[1] = "data")

Alike(log, L, n) == \A p \in 1 .. n : SameCell(log[p], L[p])

\* restore() of every log that begins as L does gets to the state s.
Ready(L, s) ==
  \A log \in Logs : Len(log) >= s.offset /\ Alike(log, L, s.offset) => Restore(log) = Scan(log)[s]

\* Block data at a place of a log, in one piece.
Holds(log, pos) ==
  pos # 0 =>
    /\ pos + 2 <= Len(log)
    /\ log[pos + 1][1] = "data" /\ log[pos + 2][1] = "data"
    /\ log[pos + 1][2] = log[pos + 2][2]
    /\ log[pos + 1][2] \in Values

\* A log of complete transactions: restore() uses all of it.
Complete(log) ==
  /\ log \in Logs
  /\ Restore(log).offset = Len(log) /\ Restore(log).good = Len(log) /\ ~Restore(log).active
  /\ Ready(log, Restore(log))
  /\ \A b \in Blocks : Holds(log, Restore(log).positions[b])

\* A scan gets from s to t over the record that L has there.
LEMMA ReadyStep ==
  ASSUME NEW L, NEW s \in Scanners, NEW t, Ready(L, s), s.offset <= t.offset, t.offset \in Nat,
         \A log \in Logs : Len(log) >= t.offset /\ Alike(log, L, t.offset) =>
           ~ScanEnds(log, s) /\ ScanRecord(log, s) = t
  PROVE  Ready(L, t)
<1>1. SUFFICES ASSUME NEW log \in Logs, Len(log) >= t.offset, Alike(log, L, t.offset)
               PROVE  Restore(log) = Scan(log)[t]
  BY DEF Ready
<1>2. s.offset \in Nat /\ Len(log) \in Nat BY DEF Scanners, Logs
<1>3. Len(log) >= s.offset /\ Alike(log, L, s.offset) BY <1>1, <1>2 DEF Alike
<1>4. Restore(log) = Scan(log)[s] BY <1>3 DEF Ready
<1>5. Scan(log)[s] = Scan(log)[t] BY <1>1, ScanDefined
<1>6. QED BY <1>4, <1>5

\* The scan reads the begin record.
LEMMA ReadyBegin ==
  ASSUME NEW L, NEW s \in Scanners, Ready(L, s), ~s.active, L[s.offset + 1] = <<"begin", 0>>
  PROVE  Ready(L, [s EXCEPT !.active = TRUE, !.written = NoPositions, !.offset = @ + 1])
<1> DEFINE t == [s EXCEPT !.active = TRUE, !.written = NoPositions, !.offset = @ + 1]
<1>1. t.offset = s.offset + 1 /\ s.offset \in Nat BY DEF Scanners
<1>2. ASSUME NEW log \in Logs, Len(log) >= t.offset, Alike(log, L, t.offset)
      PROVE  ~ScanEnds(log, s) /\ ScanRecord(log, s) = t
  <2>1. Len(log) \in Nat BY DEF Logs
  <2>2. SameCell(log[s.offset + 1], L[s.offset + 1]) BY <1>1, <1>2 DEF Alike
  <2>3. Kind(log, s.offset) = "begin" BY <1>1, <1>2, <2>1, <2>2 DEF SameCell, Kind, At
  <2>4. QED BY <1>1, <1>2, <2>1, <2>3 DEF ScanEnds, ScanRecord
<1> HIDE DEF t
<1>3. Ready(L, t) BY <1>1, <1>2, ReadyStep
<1>4. QED BY <1>3 DEF t

\* The scan reads a write record.
LEMMA ReadyWrite ==
  ASSUME NEW L, NEW s \in Scanners, NEW i \in Blocks, Ready(L, s), s.active,
         L[s.offset + 1] = <<"write", 0>>, L[s.offset + 2] = <<"index", i>>
  PROVE  Ready(L, [s EXCEPT !.written[i] = s.offset + 2, !.offset = @ + 4])
<1> DEFINE t == [s EXCEPT !.written[i] = s.offset + 2, !.offset = @ + 4]
<1>1. t.offset = s.offset + 4 /\ s.offset \in Nat BY DEF Scanners
<1> HIDE DEF t
<1>2. ASSUME NEW log \in Logs, Len(log) >= t.offset, Alike(log, L, t.offset)
      PROVE  ~ScanEnds(log, s) /\ ScanRecord(log, s) = t
  <2>1. Len(log) \in Nat BY DEF Logs
  <2>2. /\ SameCell(log[s.offset + 1], L[s.offset + 1])
        /\ SameCell(log[s.offset + 2], L[s.offset + 2])
    <3>1. {s.offset + 1, s.offset + 2} \subseteq 1 .. t.offset BY <1>1
    <3>2. QED BY <1>2, <3>1 DEF Alike
  <2>3. Kind(log, s.offset) = "write" BY <1>1, <1>2, <2>1, <2>2 DEF SameCell, Kind, At
  <2>4. log[(s.offset + 1) + 1] = <<"index", i>> BY <1>1, <2>2 DEF SameCell
  <2>5. Number(log, s.offset + 1) = i BY <1>1, <1>2, <2>1, <2>4 DEF Number, At
  <2>6. ~ScanEnds(log, s) BY <1>1, <1>2, <2>1, <2>3 DEF ScanEnds
  <2>7. ScanRecord(log, s) = t BY <2>3, <2>5 DEF ScanRecord, t
  <2>8. QED BY <2>6, <2>7
<1>3. Ready(L, t) BY <1>1, <1>2, ReadyStep
<1>4. QED BY <1>3 DEF t

\* The index once a transaction that wrote W is committed with database size n.
MergedPositions(W, P, n) ==
  [b \in Blocks |-> IF b >= n THEN 0 ELSE IF W[b] # 0 THEN W[b] ELSE P[b]]

\* The scan reads a commit record.
LEMMA ReadyCommit ==
  ASSUME NEW L, NEW s \in Scanners, NEW n \in Nat, Ready(L, s), s.active,
         L[s.offset + 1] = <<"commit", 0>>, L[s.offset + 2] = <<"size", n>>
  PROVE  Ready(L, [s EXCEPT !.active = FALSE, !.offset = @ + 2, !.good = s.offset + 2, !.size = n,
                            !.positions = MergedPositions(s.written, s.positions, n)])
<1> DEFINE t == [s EXCEPT !.active = FALSE, !.offset = @ + 2, !.good = s.offset + 2, !.size = n,
                          !.positions = MergedPositions(s.written, s.positions, n)]
<1>1. t.offset = s.offset + 2 /\ s.offset \in Nat BY DEF Scanners
<1> HIDE DEF t
<1>2. ASSUME NEW log \in Logs, Len(log) >= t.offset, Alike(log, L, t.offset)
      PROVE  ~ScanEnds(log, s) /\ ScanRecord(log, s) = t
  <2>1. Len(log) \in Nat BY DEF Logs
  <2>2. /\ SameCell(log[s.offset + 1], L[s.offset + 1])
        /\ SameCell(log[s.offset + 2], L[s.offset + 2])
    <3>1. s.offset + 1 \in 1 .. t.offset /\ s.offset + 2 \in 1 .. t.offset BY <1>1
    <3>2. QED BY <1>2, <3>1 DEF Alike
  <2>3. Kind(log, s.offset) = "commit" BY <1>1, <1>2, <2>1, <2>2 DEF SameCell, Kind, At
  <2>4. log[(s.offset + 1) + 1] = <<"size", n>> BY <1>1, <2>2 DEF SameCell
  <2>5. Number(log, s.offset + 1) = n BY <1>1, <1>2, <2>1, <2>4 DEF Number, At
  <2>6. ~ScanEnds(log, s) BY <1>1, <1>2, <2>1, <2>3 DEF ScanEnds
  <2>7. ScanRecord(log, s) = t
    BY <2>3, <2>5 DEF ScanRecord, MergedPositions, Scanners, t
  <2>8. QED BY <2>6, <2>7
<1>3. Ready(L, t) BY <1>1, <1>2, ReadyStep
<1>4. QED BY <1>3 DEF t

\* Only how the log begins matters, and of that not the block data.
LEMMA ReadyAlike ==
  ASSUME NEW L, NEW M, NEW s \in Scanners, Ready(L, s), Alike(M, L, s.offset)
  PROVE  Ready(M, s)
<1>1. \A log : Alike(log, M, s.offset) => Alike(log, L, s.offset) BY DEF Alike, SameCell
<1>2. QED BY <1>1 DEF Ready

\* A log that goes on without a commit record behind complete transactions is cut
\* off there.
LEMMA CutOff ==
  ASSUME NEW c, Complete(c), NEW x \in Logs, Len(x) >= Len(c),
         \A p \in 1 .. Len(c) : x[p] = c[p],
         \A p \in Len(c) + 1 .. Len(x) : x[p][1] # "commit"
  PROVE  Restored(x) = c
<1> DEFINE r == Restore(c)
<1>1. c \in Logs /\ Len(c) \in Nat /\ Len(x) \in Nat BY DEF Complete, Logs
<1>2. r \in Scanners BY <1>1, RestoreType
<1>3. r.offset = Len(c) /\ r.good = Len(c) /\ Ready(c, r) BY DEF Complete
<1> HIDE DEF r
<1>4. Restore(x) = Scan(x)[r] BY <1>3 DEF Ready, Alike, SameCell
<1>5. \A p \in Nat : p >= r.offset /\ p < Len(x) => Kind(x, p) # "commit"
  BY <1>1, <1>3 DEF Kind, At
<1>6. Restore(x).good = Len(c) BY <1>2, <1>3, <1>4, <1>5, ScanWithoutCommit
<1>7. SubSeq(x, 1, Len(c)) = c BY <1>1 DEF Logs
<1>8. QED BY <1>6, <1>7 DEF Restored

-----------------------------------------------------------------------------
(* The invariant.                                                          *)

\* Where the committed transactions end, and the log up to there.
End == IF m_in_transaction THEN m_transaction_begin ELSE m_buffer_offset

Committed == SubSeq(logFile, 1, End)

\* The log as the journal reads it, with what is still in the buffer.
Whole == [p \in 1 .. LogSize |-> CellAt(p - 1)]

\* The scan at the end of a transaction that goes on.
TxScan ==
  [offset |-> LogSize, good |-> m_transaction_begin, active |-> TRUE,
   written |-> m_uncommitted_block_positions, positions |-> m_block_positions,
   size |-> m_database_size]

TypeOK ==
  /\ logFile \in Logs /\ logDisk \subseteq Logs /\ buffer \in Logs
  /\ m_buffer_offset \in Nat /\ m_transaction_begin \in Nat
  /\ m_in_transaction \in BOOLEAN
  /\ m_block_positions \in [Blocks -> Nat]
  /\ m_uncommitted_block_positions \in [Blocks -> Nat]
  /\ m_database_size \in Nat \cup {None}
  /\ m_sync_on_commit \in BOOLEAN
  /\ pc \in {"idle", "commit", "copy", "shrink", "closed", "dead"}
  /\ failed \subseteq Blocks \cup {None}

\* Where the parts of the log are.  Only a failed write leaves cells in the file
\* behind the place where the buffer belongs.
LayoutInv ==
  /\ m_in_transaction => pc \in {"idle", "commit", "dead"}
  /\ ~m_in_transaction => /\ pc \in {"idle", "copy", "shrink", "closed"}
                          /\ buffer = << >> /\ failed = {}
                          /\ m_uncommitted_block_positions = NoPositions
  /\ ~LogGone => End <= m_buffer_offset /\ m_buffer_offset <= Len(logFile)
  /\ ~LogGone /\ failed = {} => Len(logFile) = m_buffer_offset
  /\ LogGone => logFile = << >>
  /\ Len(buffer) <= BufferCells
  /\ pc = "commit" => failed = {} /\ buffer = << >> /\ commitSize \in Sizes

\* Committed transactions are complete in the file and on the disk, and the index
\* is what restore() makes of them.
IndexInv ==
  ~LogGone => /\ Complete(Committed)
              /\ Committed \in logDisk
              /\ Restore(Committed).positions = m_block_positions
              /\ Restore(Committed).size = m_database_size

\* Whatever the power loss leaves, restore() cuts it down to complete transactions.
DiskInv ==
  /\ \A c \in logDisk : Complete(c)
  /\ pc = "copy" => logDisk = {Committed}
  /\ LogGone => << >> \in logDisk

\* The blocks of the running transaction: where they are in the log.
PlaceOK(b) ==
  LET pos == m_uncommitted_block_positions[b]
  IN  pos # 0 =>
        /\ pos > m_transaction_begin
        /\ pos + 2 <= LogSize
        /\ CellAt(pos)[1] = "data" /\ CellAt(pos + 1)[1] = "data"
        /\ CellAt(pos)[2] \in Values /\ CellAt(pos + 1)[2] \in Values
        /\ failed = {} => CellAt(pos)[2] = CellAt(pos + 1)[2]

Apart(b, c) ==
  LET pos == m_uncommitted_block_positions
  IN  b # c /\ pos[b] # 0 /\ pos[c] # 0 => pos[b] + 2 <= pos[c] \/ pos[c] + 2 <= pos[b]

PlacesInv == m_in_transaction => \A b \in Blocks : PlaceOK(b) /\ \A c \in Blocks : Apart(b, c)

\* Without a commit record, and ready for one if nothing has failed.
NoCommitCells ==
  /\ \A p \in End + 1 .. Len(logFile) : logFile[p][1] # "commit"
  /\ \A p \in 1 .. Len(buffer) : buffer[p][1] # "commit"

RunningInv ==
  m_in_transaction /\ pc = "idle" =>
    /\ None \notin failed => NoCommitCells
    /\ failed = {} => Ready(Whole, TxScan)

\* The commit record is written, the index not yet changed.
CommittingInv ==
  pc = "commit" =>
    /\ Complete(logFile) /\ logFile \in logDisk
    /\ Restore(logFile).positions =
         MergedPositions(m_uncommitted_block_positions, m_block_positions, commitSize)
    /\ Restore(logFile).size = commitSize

Inv ==
  /\ TypeOK /\ LayoutInv /\ IndexInv /\ DiskInv
  /\ PlacesInv /\ RunningInv /\ CommittingInv

-----------------------------------------------------------------------------
(* Files and buffers.                                                      *)

\* A part of a log is a log.
LEMMA PartOfLog ==
  ASSUME NEW d \in Logs, NEW f \in Nat \ {0}, NEW n \in Nat, f <= n + 1, n <= Len(d)
  PROVE  /\ SubSeq(d, f, n) \in Logs
         /\ Len(SubSeq(d, f, n)) = n - f + 1
         /\ \A p \in 1 .. n - f + 1 : SubSeq(d, f, n)[p] = d[f + p - 1]
<1>1. Len(d) \in Nat BY DEF Logs
<1>2. \A p \in f .. n : d[p] \in Cells BY <1>1 DEF Logs
<1>3. QED BY <1>1, <1>2 DEF Logs

\* The first part of a log.
LEMMA PrefixOfLog ==
  ASSUME NEW d \in Logs, NEW n \in Nat, n <= Len(d)
  PROVE  /\ SubSeq(d, 1, n) \in Logs
         /\ Len(SubSeq(d, 1, n)) = n
         /\ \A p \in 1 .. n : SubSeq(d, 1, n)[p] = d[p]
<1>1. Len(d) \in Nat BY DEF Logs
<1>2. \A p \in 1 .. n : d[p] \in Cells BY <1>1 DEF Logs
<1>3. QED BY <1>1, <1>2 DEF Logs

\* The first part of the first part.
LEMMA PrefixOfPrefix ==
  ASSUME NEW d \in Logs, NEW k \in Nat, NEW n \in Nat, k <= n, n <= Len(d)
  PROVE  SubSeq(SubSeq(d, 1, n), 1, k) = SubSeq(d, 1, k)
<1> DEFINE e == SubSeq(d, 1, n)
<1>1. e \in Logs /\ Len(e) = n /\ \A p \in 1 .. n : e[p] = d[p] BY PrefixOfLog
<1> HIDE DEF e
<1>2. /\ SubSeq(e, 1, k) \in Logs /\ Len(SubSeq(e, 1, k)) = k
      /\ \A p \in 1 .. k : SubSeq(e, 1, k)[p] = e[p]
  BY <1>1, PrefixOfLog
<1>3. /\ SubSeq(d, 1, k) \in Logs /\ Len(SubSeq(d, 1, k)) = k
      /\ \A p \in 1 .. k : SubSeq(d, 1, k)[p] = d[p]
  BY PrefixOfLog
<1>4. SubSeq(e, 1, k) = SubSeq(d, 1, k) BY <1>1, <1>2, <1>3 DEF Logs
<1>5. QED BY <1>4 DEF e

\* What a write makes of a file.
LEMMA Overwritten ==
  ASSUME NEW f \in Logs, NEW d \in Logs, NEW off \in Nat, off <= Len(f)
  PROVE  LET o == Overwrite(f, off, d)
         IN  /\ o \in Logs
             /\ Len(o) = IF off + Len(d) > Len(f) THEN off + Len(d) ELSE Len(f)
             /\ \A p \in 1 .. Len(o) :
                  o[p] = IF p > off /\ p <= off + Len(d) THEN d[p - off] ELSE f[p]
<1> DEFINE o == Overwrite(f, off, d)
           n == IF off + Len(d) > Len(f) THEN off + Len(d) ELSE Len(f)
<1>1. Len(f) \in Nat /\ Len(d) \in Nat /\ n \in Nat BY DEF Logs
<1>2. o = [p \in 1 .. n |-> IF p > off /\ p <= off + Len(d) THEN d[p - off] ELSE At(f, p - 1)]
  BY DEF Overwrite
<1>3. ASSUME NEW p \in 1 .. n
      PROVE  o[p] \in Cells /\ o[p] = IF p > off /\ p <= off + Len(d) THEN d[p - off] ELSE f[p]
  <2>1. CASE p > off /\ p <= off + Len(d)
    <3>1. d[p - off] \in Cells BY <1>1, <2>1 DEF Logs
    <3>2. QED BY <1>2, <2>1, <3>1
  <2>2. CASE ~(p > off /\ p <= off + Len(d))
    <3>1. p - 1 < Len(f) /\ p \in 1 .. Len(f) BY <1>1, <2>2
    <3>2. o[p] = f[p] BY <1>1, <1>2, <2>2, <3>1 DEF At
    <3>3. QED BY <2>2, <3>1, <3>2 DEF Logs
  <2>3. QED BY <2>1, <2>2
<1> HIDE DEF n
<1>4. o \in [1 .. n -> Cells]
  <2>1. o = [p \in 1 .. n |-> o[p]] BY <1>2
  <2> HIDE DEF o
  <2>2. QED BY <1>3, <2>1
<1> HIDE DEF o
<1>5. o \in Logs /\ Len(o) = n BY <1>1, <1>4 DEF Logs
<1>6. QED BY <1>3, <1>5 DEF o, n

\* Two pieces one behind the other.
LEMMA Joined ==
  ASSUME NEW a \in Logs, NEW d \in Logs
  PROVE  /\ a \o d \in Logs /\ Len(a \o d) = Len(a) + Len(d)
         /\ \A p \in 1 .. Len(a) + Len(d) : (a \o d)[p] = IF p <= Len(a) THEN a[p] ELSE d[p - Len(a)]
BY DEF Logs

\* The buffers that are full fit into what is written.
LEMMA FlushedCells ==
  ASSUME NEW x \in Nat, NEW B \in Nat \ {0}
  PROVE  /\ x \div B \in Nat
         /\ (x \div B) * B \in Nat /\ (x \div B) * B <= x /\ x < (x \div B) * B + B
         /\ \A j \in Nat : j <= x \div B => j * B \in Nat /\ j * B <= x
<1>1. x \div B \in Nat /\ x % B \in 0 .. B - 1 /\ x = (x \div B) * B + (x % B) OBVIOUS
<1>2. (x \div B) * B \in Nat BY <1>1
<1>3. ASSUME NEW j \in Nat, NEW q \in Nat, j <= q PROVE j * B \in Nat /\ j * B <= q * B
  BY <1>3
<1>4. QED BY <1>1, <1>2, <1>3

\* CellAt of a file f of which the buffer b starts at off.
Cell(f, off, b, p) == IF p < off THEN At(f, p) ELSE At(b, p - off)

\* Appending to the log: the buffer a and the record d one behind the other, the file
\* with k cells of them, and the buffer with what comes behind the first n, up to number u.
Joint(a, d, p) == IF p <= Len(a) THEN a[p] ELSE d[p - Len(a)]
FileWith(f, off, a, d, k) == Overwrite(f, off, SubSeq(a \o d, 1, k))
BufferWith(a, d, n, u) == SubSeq(a \o d, n + 1, u)

AppendResult(f, off, a, d, n, k, u) ==
  LET o == FileWith(f, off, a, d, k)
      b == BufferWith(a, d, n, u)
  IN  /\ o \in Logs /\ b \in Logs /\ off + n <= Len(o) /\ Len(b) = u - n
      /\ Len(f) = off => Len(o) = off + k
      /\ \A p \in 1 .. off : o[p] = f[p]
      /\ \A p \in 1 .. u : Cell(o, off + n, b, off + p - 1) = Joint(a, d, p)
      /\ \A p \in off + 1 .. Len(o) :
           IF p <= off + k THEN o[p] = Joint(a, d, p - off)
           ELSE p <= Len(f) /\ o[p] = f[p]
      /\ \A p \in 1 .. Len(b) : b[p] = Joint(a, d, n + p)

\* What an append makes of the file and of the buffer.
LEMMA AppendCells ==
  ASSUME NEW f \in Logs, NEW a \in Logs, NEW d \in Logs, NEW off \in Nat, off <= Len(f),
         NEW n \in Nat, NEW k \in Nat, NEW u \in Nat,
         n <= k, k <= u, Len(a) <= u, u <= Len(a) + Len(d)
  PROVE  AppendResult(f, off, a, d, n, k, u)
<1> DEFINE all == a \o d
           e == SubSeq(all, 1, k)
           o == Overwrite(f, off, e)
           b == SubSeq(all, n + 1, u)
<1>1. /\ all \in Logs /\ Len(all) = Len(a) + Len(d)
      /\ \A p \in 1 .. Len(a) + Len(d) : all[p] = Joint(a, d, p)
  BY Joined DEF Joint
<1>2. Len(f) \in Nat /\ Len(a) \in Nat /\ Len(d) \in Nat BY DEF Logs
<1> HIDE DEF all
<1>3. e \in Logs /\ Len(e) = k /\ \A p \in 1 .. k : e[p] = all[p] BY <1>1, <1>2, PrefixOfLog
<1>4. /\ b \in Logs /\ Len(b) = u - (n + 1) + 1
      /\ \A p \in 1 .. u - (n + 1) + 1 : b[p] = all[(n + 1) + p - 1]
  <2>1. n + 1 \in Nat \ {0} /\ n + 1 <= u + 1 /\ u <= Len(all) BY <1>1, <1>2
  <2>2. QED BY <1>1, <2>1, PartOfLog
<1> HIDE DEF e
<1>5. /\ o \in Logs
      /\ Len(o) = IF off + Len(e) > Len(f) THEN off + Len(e) ELSE Len(f)
      /\ \A p \in 1 .. Len(o) : o[p] = IF p > off /\ p <= off + Len(e) THEN e[p - off] ELSE f[p]
  BY <1>3, Overwritten
<1> HIDE DEF o, b
<1>6. Len(b) = u - n /\ \A p \in 1 .. u - n : b[p] = all[n + p] BY <1>4
<1>7. /\ Len(o) = IF off + k > Len(f) THEN off + k ELSE Len(f)
      /\ \A p \in 1 .. Len(o) : o[p] = IF p > off /\ p <= off + k THEN all[p - off] ELSE f[p]
  BY <1>3, <1>5
<1>8. ASSUME NEW p \in 1 .. u PROVE Cell(o, off + n, b, off + p - 1) = all[p]
  <2>1. CASE p <= n
    <3>1. /\ off + p - 1 < off + n /\ off + p - 1 < Len(o) /\ off + p \in 1 .. Len(o)
          /\ off + p > off /\ off + p <= off + k
      BY <1>2, <1>7, <2>1
    <3>2. o[off + p] = all[off + p - off] BY <1>7, <3>1
    <3>3. QED BY <3>1, <3>2 DEF Cell, At
  <2>2. CASE p > n
    <3>1. /\ ~(off + p - 1 < off + n) /\ off + p - 1 - (off + n) < Len(b)
          /\ p - n \in 1 .. u - n /\ (off + p - 1 - (off + n)) + 1 = p - n /\ n + (p - n) = p
      BY <1>2, <1>6, <2>2
    <3>2. b[p - n] = all[p] BY <1>6, <3>1
    <3>3. QED BY <3>1, <3>2 DEF Cell, At
  <2>3. QED BY <2>1, <2>2
<1>9. \A p \in 1 .. u : all[p] = Joint(a, d, p) BY <1>1, <1>2
<1>10. o \in Logs /\ b \in Logs BY <1>4, <1>5
<1>11. Len(o) \in Nat /\ off + n <= Len(o) /\ (Len(f) = off => Len(o) = off + k) BY <1>2, <1>7
<1>12. \A p \in 1 .. off : o[p] = f[p]
  <2>1. ASSUME NEW p \in 1 .. off PROVE o[p] = f[p]
    <3>1. p \in 1 .. Len(o) /\ ~(p > off) BY <1>2, <1>11
    <3>2. QED BY <1>7, <3>1
  <2>2. QED BY <2>1
<1>13. ASSUME NEW p \in off + 1 .. Len(o)
       PROVE  IF p <= off + k THEN o[p] = Joint(a, d, p - off) ELSE p <= Len(f) /\ o[p] = f[p]
  <2>1. CASE p <= off + k
    <3>1. p \in 1 .. Len(o) /\ p > off /\ p - off \in 1 .. u BY <1>2, <1>11, <2>1
    <3>2. o[p] = all[p - off] BY <1>7, <2>1, <3>1
    <3>3. QED BY <1>9, <2>1, <3>1, <3>2
  <2>2. CASE ~(p <= off + k) BY <1>2, <1>7, <1>11, <2>2
  <2>3. QED BY <2>1, <2>2
<1>14. ASSUME NEW p \in 1 .. Len(b) PROVE b[p] = Joint(a, d, n + p)
  <2>1. p \in 1 .. u - n /\ n + p \in 1 .. u BY <1>6
  <2>2. QED BY <1>6, <1>9, <2>1
<1>15. \A p \in 1 .. u : Cell(o, off + n, b, off + p - 1) = Joint(a, d, p) BY <1>8, <1>9
<1>16. o = FileWith(f, off, a, d, k) /\ b = BufferWith(a, d, n, u)
  BY DEF o, b, e, all, FileWith, BufferWith
<1>17. QED BY <1>6, <1>10, <1>11, <1>12, <1>13, <1>14, <1>15, <1>16 DEF AppendResult

\* The conditions under which the journal keeps its promise: the disk keeps the order of
\* the bytes of a write, the build is a debug build, and the application rolls back after
\* an error.
Setting == TornWrites = "prefix" /\ Assertions /\ ~RetryAfterError

\* A write without a commit record behind the committed transactions adds nothing
\* to what a power loss may leave.
LEMMA LandedCut ==
  ASSUME Inv, Setting, ~LogGone, NEW off \in Nat, NEW d \in Logs, NEW n \in Nat,
         off >= End, off <= Len(logFile), n <= Len(d),
         \A p \in End + 1 .. Len(logFile) : logFile[p][1] # "commit",
         \A p \in 1 .. n : d[p][1] # "commit",
         MayLand(off, SubSeq(d, 1, n))
  PROVE  logDisk' = logDisk
<1>1. /\ logFile \in Logs /\ Len(logFile) \in Nat /\ Len(d) \in Nat
      /\ End \in Nat /\ End <= Len(logFile)
      /\ Complete(Committed) /\ Committed \in logDisk
  BY DEF Inv, TypeOK, LayoutInv, IndexInv, End, Logs
<1> DEFINE e == SubSeq(d, 1, n)
<1>2. e \in Logs /\ Len(e) = n BY <1>1, PrefixOfLog
<1>3. Len(Committed) = End /\ \A p \in 1 .. End : Committed[p] = logFile[p]
  BY <1>1, PrefixOfLog DEF Committed
<1>4. ASSUME NEW k \in 0 .. n PROVE Restored(Overwrite(logFile, off, SubSeq(e, 1, k))) = Committed
  <2> DEFINE a == SubSeq(d, 1, k)
             x == Overwrite(logFile, off, a)
  <2>1. SubSeq(e, 1, k) = a BY <1>1, PrefixOfPrefix
  <2>2. a \in Logs /\ Len(a) = k /\ \A p \in 1 .. k : a[p] = d[p] BY <1>1, PrefixOfLog
  <2> HIDE DEF a, e
  <2>3. /\ x \in Logs
        /\ Len(x) = IF off + Len(a) > Len(logFile) THEN off + Len(a) ELSE Len(logFile)
        /\ \A p \in 1 .. Len(x) :
             x[p] = IF p > off /\ p <= off + Len(a) THEN a[p - off] ELSE logFile[p]
    BY <1>1, <2>2, Overwritten
  <2> HIDE DEF x
  <2>8. Len(x) >= Len(logFile) BY <1>1, <2>2, <2>3
  <2>9. ASSUME NEW p \in 1 .. End PROVE x[p] = Committed[p]
    <3>1. p \in 1 .. Len(x) /\ ~(p > off) BY <1>1, <2>2, <2>3, <2>8
    <3>2. QED BY <1>3, <2>3, <3>1
  <2>4. Len(x) >= End /\ \A p \in 1 .. End : x[p] = Committed[p] BY <1>1, <2>3, <2>8, <2>9 DEF Logs
  <2>5. ASSUME NEW p \in End + 1 .. Len(x) PROVE x[p][1] # "commit"
    <3>1. CASE p > off /\ p <= off + k
      <4>1. p - off \in 1 .. n /\ x[p] = d[p - off] BY <1>1, <2>2, <2>3, <3>1
      <4>2. QED BY <4>1
    <3>2. CASE ~(p > off /\ p <= off + k)
      <4>1. p \in End + 1 .. Len(logFile) /\ x[p] = logFile[p] BY <1>1, <2>2, <2>3, <3>2
      <4>2. QED BY <4>1
    <3>3. QED BY <3>1, <3>2
  <2>6. Restored(x) = Committed BY <1>1, <1>3, <2>3, <2>4, <2>5, CutOff
  <2>7. QED BY <2>1, <2>6 DEF x
<1> HIDE DEF e
<1>5. \A c \in Landed(logFile, off, e) : Restored(c) = Committed
  BY <1>2, <1>4 DEF Landed, Setting
<1>6. logDisk' = logDisk \cup { Restored(c) : c \in Landed(logFile, off, e) } BY DEF MayLand, e
<1>7. QED BY <1>1, <1>5, <1>6

-----------------------------------------------------------------------------
(* Steps that append.                                                      *)

\* The cells of the log after a step.
NextCell(p) == Cell(logFile', m_buffer_offset', buffer', p)

\* A step that appends d up to cell number u of the buffer and d: n cells leave the
\* buffer, k get into the file.
Appends(d, n, k, u) ==
  /\ n <= k /\ k <= u /\ Len(buffer) <= u /\ u <= Len(buffer) + Len(d)
  /\ logFile' = FileWith(logFile, m_buffer_offset, buffer, d, k)
  /\ buffer' = BufferWith(buffer, d, n, u)
  /\ m_buffer_offset' = m_buffer_offset + n

NoCommitIn(log, first) == \A p \in first .. Len(log) : log[p][1] # "commit"

\* What such a step makes of the log.
AppendedState(d, n, k, u) ==
  /\ logFile' \in Logs /\ buffer' \in Logs
  /\ m_buffer_offset' \in Nat /\ m_buffer_offset' = m_buffer_offset + n
  /\ m_buffer_offset' <= Len(logFile')
  /\ Len(buffer') = u - n /\ LogSize' = m_buffer_offset + u
  /\ Len(logFile) = m_buffer_offset => Len(logFile') = m_buffer_offset + k
  /\ \A p \in 1 .. m_buffer_offset : logFile'[p] = logFile[p]
  /\ \A p \in Nat : p < LogSize => NextCell(p) = CellAt(p)
  /\ \A p \in 1 .. u - Len(buffer) : NextCell(LogSize + p - 1) = d[p]
  /\ \A e \in 0 .. m_buffer_offset :
       /\ NoCommitIn(logFile, e + 1) /\ NoCommitIn(buffer, 1)
       /\ \A p \in 1 .. u - Len(buffer) : d[p][1] # "commit"
       => NoCommitIn(logFile', e + 1) /\ NoCommitIn(buffer', 1)

\* Appending leaves the log in front of the new record alone.
LEMMA Appended ==
  ASSUME TypeOK, m_buffer_offset <= Len(logFile), NEW d \in Logs,
         NEW n \in Nat, NEW k \in Nat, NEW u \in Nat, Appends(d, n, k, u)
  PROVE  AppendedState(d, n, k, u)
<1> DEFINE f == logFile
           a == buffer
           off == m_buffer_offset
           o == FileWith(f, off, a, d, k)
           b == BufferWith(a, d, n, u)
<1>1. f \in Logs /\ a \in Logs /\ off \in Nat /\ Len(f) \in Nat /\ Len(a) \in Nat /\ off <= Len(f)
  BY DEF TypeOK, Logs
<1>2. n <= k /\ k <= u /\ Len(a) <= u /\ u <= Len(a) + Len(d) BY DEF Appends
<1>3. logFile' = o /\ buffer' = b /\ m_buffer_offset' = off + n BY DEF Appends
<1> HIDE DEF f, a, off
<1>4. /\ o \in Logs /\ b \in Logs /\ off + n <= Len(o) /\ Len(b) = u - n
      /\ Len(f) = off => Len(o) = off + k
      /\ \A p \in 1 .. off : o[p] = f[p]
      /\ \A p \in 1 .. u : Cell(o, off + n, b, off + p - 1) = Joint(a, d, p)
      /\ \A p \in off + 1 .. Len(o) : IF p <= off + k THEN o[p] = Joint(a, d, p - off)
                                      ELSE p <= Len(f) /\ o[p] = f[p]
      /\ \A p \in 1 .. Len(b) : b[p] = Joint(a, d, n + p)
  <2>1. AppendResult(f, off, a, d, n, k, u) BY <1>1, <1>2, AppendCells
  <2>2. QED BY <2>1 DEF AppendResult
<1> HIDE DEF o, b
<1>5. Len(o) \in Nat /\ Len(b) \in Nat /\ LogSize = off + Len(a) BY <1>4 DEF Logs, LogSize, off, a
<1>6. \A p : CellAt(p) = Cell(f, off, a, p) BY DEF CellAt, Cell, f, off, a
<1>7. \A p : NextCell(p) = Cell(o, off + n, b, p) BY <1>3 DEF NextCell
<1>8. ASSUME NEW p \in Nat, p < LogSize PROVE NextCell(p) = CellAt(p)
  <2>1. CASE p < off
    <3>1. p + 1 \in 1 .. off /\ p < Len(o) /\ p < Len(f) /\ p < off + n BY <1>1, <1>4, <1>5, <2>1
    <3>2. o[p + 1] = f[p + 1] BY <1>4, <3>1
    <3>3. Cell(o, off + n, b, p) = o[p + 1] BY <3>1 DEF Cell, At
    <3>4. Cell(f, off, a, p) = f[p + 1] BY <2>1, <3>1 DEF Cell, At
    <3>5. QED BY <1>6, <1>7, <3>2, <3>3, <3>4
  <2>2. CASE p >= off
    <3> DEFINE q == p - off + 1
    <3>1. q \in 1 .. u /\ off + q - 1 = p /\ q <= Len(a) /\ p - off < Len(a) /\ ~(p < off)
      BY <1>1, <1>2, <1>5, <1>8, <2>2
    <3>2. Cell(o, off + n, b, p) = Joint(a, d, q) BY <1>4, <3>1
    <3>3. Cell(f, off, a, p) = a[q] BY <3>1 DEF Cell, At
    <3>4. QED BY <1>6, <1>7, <3>1, <3>2, <3>3 DEF Joint
  <2>3. QED BY <1>1, <2>1, <2>2
<1>9. ASSUME NEW p \in 1 .. u - Len(a) PROVE NextCell(LogSize + p - 1) = d[p]
  <2> DEFINE q == Len(a) + p
  <2>1. q \in 1 .. u /\ off + q - 1 = LogSize + p - 1 /\ ~(q <= Len(a)) /\ q - Len(a) = p
    BY <1>1, <1>5
  <2>2. QED BY <1>4, <1>7, <2>1 DEF Joint
<1>10. ASSUME NEW e \in 0 .. off, NoCommitIn(f, e + 1), NoCommitIn(a, 1),
              \A p \in 1 .. u - Len(a) : d[p][1] # "commit"
       PROVE  NoCommitIn(o, e + 1) /\ NoCommitIn(b, 1)
  <2>1. ASSUME NEW q \in 1 .. u PROVE Joint(a, d, q)[1] # "commit"
    <3>1. CASE q <= Len(a) BY <1>1, <1>10, <3>1 DEF Joint, NoCommitIn
    <3>2. CASE ~(q <= Len(a))
      <4>1. q - Len(a) \in 1 .. u - Len(a) BY <1>1, <3>2
      <4>2. QED BY <1>10, <3>2, <4>1 DEF Joint
    <3>3. QED BY <3>1, <3>2
  <2>2. ASSUME NEW p \in e + 1 .. Len(o) PROVE o[p][1] # "commit"
    <3>1. CASE p <= off
      <4>1. o[p] = f[p] /\ p \in e + 1 .. Len(f) BY <1>1, <1>4, <3>1
      <4>2. QED BY <1>10, <4>1 DEF NoCommitIn
    <3>2. CASE p > off /\ p <= off + k
      <4>1. o[p] = Joint(a, d, p - off) /\ p - off \in 1 .. u BY <1>1, <1>2, <1>4, <1>5, <3>2
      <4>2. QED BY <2>1, <4>1
    <3>3. CASE p > off /\ ~(p <= off + k)
      <4>1. o[p] = f[p] /\ p \in e + 1 .. Len(f) BY <1>1, <1>4, <1>5, <3>3
      <4>2. QED BY <1>10, <4>1 DEF NoCommitIn
    <3>4. QED BY <1>1, <3>1, <3>2, <3>3
  <2>3. ASSUME NEW p \in 1 .. Len(b) PROVE b[p][1] # "commit"
    <3>1. n + p \in 1 .. u BY <1>2, <1>4
    <3>2. QED BY <1>4, <2>1, <3>1
  <2>4. QED BY <2>2, <2>3 DEF NoCommitIn
<1>11. LogSize' = off + u BY <1>1, <1>3, <1>4 DEF LogSize
<1>12. QED BY <1>1, <1>3, <1>4, <1>8, <1>9, <1>10, <1>11 DEF f, a, off, AppendedState

-----------------------------------------------------------------------------
(* What a step leaves alone.                                               *)

\* A step that does not touch the committed transactions.
LEMMA CommittedKept ==
  ASSUME logFile \in Logs, logFile' \in Logs, End \in Nat, End' = End,
         End <= Len(logFile), End <= Len(logFile'), \A p \in 1 .. End : logFile'[p] = logFile[p]
  PROVE  Committed' = Committed
<1> DEFINE c == SubSeq(logFile, 1, End)
           d == SubSeq(logFile', 1, End)
<1>1. c \in Logs /\ Len(c) = End /\ \A p \in 1 .. End : c[p] = logFile[p] BY PrefixOfLog
<1>2. d \in Logs /\ Len(d) = End /\ \A p \in 1 .. End : d[p] = logFile'[p] BY PrefixOfLog
<1>3. c = Committed /\ d = Committed' BY DEF Committed
<1> HIDE DEF c, d
<1>4. c = d BY <1>1, <1>2 DEF Logs
<1>5. QED BY <1>3, <1>4

\* The index stays what restore() makes of them.
LEMMA IndexKept ==
  ASSUME IndexInv, ~LogGone, Committed' = Committed, Committed \in logDisk', UNCHANGED indexVars
  PROVE  IndexInv'
BY DEF IndexInv, indexVars

\* A write of nothing.
LEMMA NothingWritten ==
  ASSUME NEW f \in Logs, NEW a \in Logs, NEW d \in Logs, NEW off \in Nat, off <= Len(f)
  PROVE  FileWith(f, off, a, d, 0) = f
<1> DEFINE all == a \o d
           e == SubSeq(all, 1, 0)
           o == Overwrite(f, off, e)
<1>1. all \in Logs /\ 0 <= Len(all) BY Joined DEF Logs
<1> HIDE DEF all
<1>2. e \in Logs /\ Len(e) = 0 BY <1>1, PrefixOfLog
<1> HIDE DEF e
<1>3. /\ o \in Logs
      /\ Len(o) = IF off + Len(e) > Len(f) THEN off + Len(e) ELSE Len(f)
      /\ \A p \in 1 .. Len(o) : o[p] = IF p > off /\ p <= off + Len(e) THEN e[p - off] ELSE f[p]
  BY <1>2, Overwritten
<1> HIDE DEF o
<1>4. Len(f) \in Nat BY DEF Logs
<1>5. Len(o) = Len(f) /\ \A p \in 1 .. Len(f) : o[p] = f[p] BY <1>2, <1>3, <1>4
<1>6. o = f BY <1>3, <1>5 DEF Logs
<1>7. QED BY <1>6 DEF FileWith, o, e, all

\* append_to_buffer with n cells in full buffers.
AppendsAll(d, n) ==
  /\ Appends(d, n, n, Len(buffer) + Len(d))
  /\ Len(buffer) + Len(d) - n <= BufferCells
  /\ logDisk' = logDisk \/ MayLand(m_buffer_offset, SubSeq(buffer \o d, 1, n))

\* append_to_buffer writes the buffers that are full and keeps the rest.
LEMMA AppendShape ==
  ASSUME Inv, ~LogGone, NEW d \in Logs, d # << >>, AppendToBuffer(d)
  PROVE  \E n \in Nat : AppendsAll(d, n)
<1> DEFINE x == Len(buffer) + Len(d) - 1
           n == Flushes(d) * BufferCells
           all == buffer \o d
<1>1. /\ buffer \in Logs /\ Len(buffer) \in Nat /\ Len(d) \in Nat /\ Len(d) > 0 /\ x \in Nat
      /\ logFile \in Logs /\ m_buffer_offset \in Nat /\ m_buffer_offset <= Len(logFile)
  BY DEF Inv, TypeOK, LayoutInv, Logs
<1>2. n \in Nat /\ n <= x /\ x < n + BufferCells
  BY <1>1, FlushedCells, JournalAssumption DEF Flushes
<1>3. Len(all) = Len(buffer) + Len(d) BY <1>1, Joined
<1>4. /\ buffer' = SubSeq(all, n + 1, Len(all)) /\ m_buffer_offset' = m_buffer_offset + n
      /\ IF n = 0 THEN UNCHANGED fileVars ELSE FileWrite(m_buffer_offset, SubSeq(all, 1, n))
  BY DEF AppendToBuffer
<1>5. buffer' = BufferWith(buffer, d, n, Len(buffer) + Len(d)) BY <1>3, <1>4 DEF BufferWith
<1>6. logFile' = FileWith(logFile, m_buffer_offset, buffer, d, n)
  <2>1. CASE n = 0 BY <1>1, <1>4, <2>1, NothingWritten DEF fileVars
  <2>2. CASE n # 0 BY <1>4, <2>2 DEF FileWrite, FileWith
  <2>3. QED BY <2>1, <2>2
<1>7. logDisk' = logDisk \/ MayLand(m_buffer_offset, SubSeq(all, 1, n))
  BY <1>4 DEF FileWrite, fileVars
<1>8. Appends(d, n, n, Len(buffer) + Len(d))
  <2> DEFINE u == Len(buffer) + Len(d)
  <2>1. n <= n /\ n <= u /\ Len(buffer) <= u /\ u <= Len(buffer) + Len(d) BY <1>1, <1>2
  <2>2. buffer' = BufferWith(buffer, d, n, u) BY <1>5
  <2> HIDE DEF n, u
  <2>3. Appends(d, n, n, u) BY <1>4, <1>6, <2>1, <2>2 DEF Appends
  <2>4. QED BY <2>3 DEF u
<1>9. Len(buffer) + Len(d) - n <= BufferCells BY <1>1, <1>2, JournalAssumption
<1> HIDE DEF n
<1>10. AppendsAll(d, n) BY <1>7, <1>8, <1>9 DEF AppendsAll
<1>11. QED BY <1>2, <1>10

\* An append that fails: part of a buffer may be in the file, which stays behind the
\* place where the buffer belongs.
LEMMA AppendFailsShape ==
  ASSUME Inv, ~LogGone, NEW d \in Logs, d # << >>, NEW j \in Nat, j <= Flushes(d),
         AppendToBufferFails(d, j)
  PROVE  \E n, k, u \in Nat : /\ Appends(d, n, k, u)
                              /\ u - n <= BufferCells
                              /\ MayLand(m_buffer_offset, SubSeq(buffer \o d, 1, u))
<1> DEFINE x == Len(buffer) + Len(d) - 1
           n == j * BufferCells
           all == buffer \o d
           upto == IF n + BufferCells < Len(all) THEN n + BufferCells ELSE Len(all)
<1>1. /\ buffer \in Logs /\ Len(buffer) \in Nat /\ Len(d) \in Nat /\ Len(d) > 0 /\ x \in Nat
      /\ logFile \in Logs /\ m_buffer_offset \in Nat /\ m_buffer_offset <= Len(logFile)
      /\ Len(buffer) <= BufferCells /\ BufferCells \in Nat \ {0}
  BY JournalAssumption DEF Inv, TypeOK, LayoutInv, Logs
<1>2. n \in Nat /\ n <= x BY <1>1, FlushedCells DEF Flushes
<1>3. Len(all) = Len(buffer) + Len(d) BY <1>1, Joined
<1>4. /\ buffer' = SubSeq(all, n + 1, upto) /\ m_buffer_offset' = m_buffer_offset + n
      /\ MayLand(m_buffer_offset, SubSeq(all, 1, upto))
  BY DEF AppendToBufferFails
<1>5. PICK k \in n .. upto - 1 : logFile' = Overwrite(logFile, m_buffer_offset, SubSeq(all, 1, k))
  BY DEF AppendToBufferFails
<1> HIDE DEF n, all
<1>6. /\ upto \in Nat /\ n <= k /\ k <= upto /\ Len(buffer) <= upto /\ k \in Nat
      /\ upto <= Len(buffer) + Len(d) /\ upto - n <= BufferCells
  BY <1>1, <1>2, <1>3
<1> HIDE DEF upto
<1>7. buffer' = BufferWith(buffer, d, n, upto) BY <1>4 DEF BufferWith, all
<1>8. logFile' = FileWith(logFile, m_buffer_offset, buffer, d, k) BY <1>5 DEF FileWith, all
<1>9. Appends(d, n, k, upto) BY <1>4, <1>6, <1>7, <1>8 DEF Appends
<1>10. MayLand(m_buffer_offset, SubSeq(buffer \o d, 1, upto)) BY <1>4 DEF all
<1>11. QED BY <1>2, <1>6, <1>9, <1>10

\* Between two operations of a transaction.
LEMMA RunningState ==
  ASSUME Inv, Setting, InTransaction
  PROVE  /\ pc = "idle" /\ m_in_transaction /\ ~LogGone /\ None \notin failed
         /\ End = m_transaction_begin /\ End \in Nat /\ End <= m_buffer_offset
         /\ logFile \in Logs /\ buffer \in Logs /\ m_buffer_offset \in Nat
         /\ Len(logFile) \in Nat /\ Len(buffer) \in Nat /\ m_buffer_offset <= Len(logFile)
         /\ LogSize \in Nat /\ LogSize = m_buffer_offset + Len(buffer)
         /\ m_uncommitted_block_positions \in [Blocks -> Nat]
         /\ NoCommitIn(logFile, End + 1) /\ NoCommitIn(buffer, 1)
         /\ TxScan \in Scanners
<1>1. pc = "idle" /\ m_in_transaction /\ ~LogGone /\ None \notin failed
  BY DEF InTransaction, Setting, LogGone
<1>2. End = m_transaction_begin BY <1>1 DEF End
<1>3. NoCommitIn(logFile, End + 1) /\ NoCommitIn(buffer, 1)
  BY <1>1 DEF Inv, RunningInv, NoCommitCells, NoCommitIn
<1>4. /\ End \in Nat /\ End <= m_buffer_offset
      /\ logFile \in Logs /\ buffer \in Logs /\ m_buffer_offset \in Nat
      /\ m_buffer_offset <= Len(logFile)
      /\ m_uncommitted_block_positions \in [Blocks -> Nat]
  BY <1>1, <1>2 DEF Inv, TypeOK, LayoutInv
<1>5. Len(logFile) \in Nat /\ Len(buffer) \in Nat BY <1>4 DEF Logs
<1>6. LogSize \in Nat /\ LogSize = m_buffer_offset + Len(buffer) BY <1>4, <1>5 DEF LogSize
<1>7. TxScan \in Scanners
  <2>1. /\ m_transaction_begin \in Nat /\ m_block_positions \in [Blocks -> Nat]
        /\ m_database_size \in Nat \cup {None}
    BY DEF Inv, TypeOK
  <2>2. QED BY <1>4, <1>6, <2>1 DEF TxScan, Scanners
<1>8. QED BY <1>1, <1>2, <1>3, <1>4, <1>5, <1>6, <1>7

\* An append in a transaction: the parts of the invariant that do not depend on the record.
LEMMA TxAppend ==
  ASSUME Inv, pc = "idle", pc' = "idle", m_in_transaction' = TRUE, m_transaction_begin' = End,
         NEW d \in Logs, NEW n \in Nat, NEW k \in Nat, NEW u \in Nat,
         Appends(d, n, k, u), u - n <= BufferCells,
         logDisk \subseteq logDisk', \A c \in logDisk' : c \in Logs /\ Complete(c),
         UNCHANGED indexVars, UNCHANGED m_sync_on_commit,
         failed' \subseteq Blocks \cup {None}, failed \subseteq failed', failed' = {} => k = n,
         m_uncommitted_block_positions' \in [Blocks -> Nat]
  PROVE  /\ TypeOK' /\ LayoutInv' /\ IndexInv' /\ DiskInv' /\ CommittingInv'
         /\ End' = End /\ Committed' = Committed
<1>1. /\ TypeOK /\ LayoutInv /\ IndexInv /\ ~LogGone /\ ~LogGone' BY DEF Inv, LogGone
<1>2. /\ End \in Nat /\ End <= m_buffer_offset /\ m_buffer_offset <= Len(logFile)
      /\ m_buffer_offset \in Nat /\ logFile \in Logs /\ Len(logFile) \in Nat
  BY <1>1 DEF TypeOK, LayoutInv, End, Logs
<1>3. /\ logFile' \in Logs /\ buffer' \in Logs
      /\ m_buffer_offset' \in Nat /\ m_buffer_offset' = m_buffer_offset + n
      /\ m_buffer_offset' <= Len(logFile') /\ Len(buffer') = u - n
      /\ Len(logFile) = m_buffer_offset => Len(logFile') = m_buffer_offset + k
      /\ \A p \in 1 .. m_buffer_offset : logFile'[p] = logFile[p]
  <2>1. AppendedState(d, n, k, u) BY <1>1, <1>2, Appended
  <2>2. QED BY <2>1 DEF AppendedState
<1>4. End' = End BY DEF End
<1>5. Len(logFile') \in Nat BY <1>3 DEF Logs
<1>6. Committed' = Committed
  <2>1. End <= Len(logFile) /\ End <= Len(logFile') BY <1>2, <1>3, <1>5
  <2>2. \A p \in 1 .. End : logFile'[p] = logFile[p] BY <1>2, <1>3
  <2>3. QED BY <1>2, <1>3, <1>4, <2>1, <2>2, CommittedKept
<1>7. TypeOK'
  <2>1. logDisk' \subseteq Logs OBVIOUS
  <2>2. /\ m_block_positions' \in [Blocks -> Nat] /\ m_database_size' \in Nat \cup {None}
        /\ m_sync_on_commit' \in BOOLEAN
    BY <1>1 DEF TypeOK, indexVars
  <2>3. QED BY <1>2, <1>3, <2>1, <2>2 DEF TypeOK
<1>8. LayoutInv'
  <2>1. failed' = {} => Len(logFile') = m_buffer_offset'
    <3>1. SUFFICES ASSUME failed' = {} PROVE Len(logFile') = m_buffer_offset' OBVIOUS
    <3>2. failed = {} /\ k = n BY <3>1
    <3>3. Len(logFile) = m_buffer_offset BY <1>1, <3>2 DEF LayoutInv
    <3>4. QED BY <1>3, <3>2, <3>3
  <2>2. End' <= m_buffer_offset' BY <1>2, <1>3, <1>4
  <2>3. Len(buffer') <= BufferCells BY <1>3
  <2>4. QED BY <1>1, <1>3, <2>1, <2>2, <2>3 DEF LayoutInv
<1>9. IndexInv'
  <2>1. Committed \in logDisk' BY <1>1 DEF IndexInv
  <2>2. QED BY <1>1, <1>6, <2>1, IndexKept
<1>10. DiskInv' BY <1>1 DEF DiskInv
<1>11. CommittingInv' BY DEF CommittingInv
<1>12. QED BY <1>4, <1>6, <1>7, <1>8, <1>9, <1>10, <1>11

\* The cells of the log, and the log as a whole, after a step.
LEMMA NextCells ==
  /\ Whole' = [q \in 1 .. LogSize' |-> NextCell(q - 1)]
  /\ Whole = [q \in 1 .. LogSize |-> CellAt(q - 1)]
BY DEF Whole, CellAt, NextCell, Cell

\* The place of a block after a step.
LEMMA PlaceNext ==
  ASSUME NEW b \in Blocks,
         LET pos == m_uncommitted_block_positions'[b]
         IN  pos # 0 =>
               /\ pos > m_transaction_begin'
               /\ pos + 2 <= LogSize'
               /\ NextCell(pos)[1] = "data" /\ NextCell(pos + 1)[1] = "data"
               /\ NextCell(pos)[2] \in Values /\ NextCell(pos + 1)[2] \in Values
               /\ failed' = {} => NextCell(pos)[2] = NextCell(pos + 1)[2]
  PROVE  PlaceOK(b)'
<1>1. /\ CellAt(m_uncommitted_block_positions[b])' = NextCell(m_uncommitted_block_positions'[b])
      /\ CellAt(m_uncommitted_block_positions[b] + 1)' =
           NextCell(m_uncommitted_block_positions'[b] + 1)
  BY DEF CellAt, NextCell, Cell
<1>2. QED BY <1>1 DEF PlaceOK

\* A step that leaves a block of the transaction alone.
LEMMA PlaceKept ==
  ASSUME NEW b \in Blocks, PlaceOK(b), m_uncommitted_block_positions[b] \in Nat,
         m_uncommitted_block_positions'[b] = m_uncommitted_block_positions[b],
         UNCHANGED m_transaction_begin, LogSize \in Nat, LogSize' \in Nat, LogSize <= LogSize',
         failed \subseteq failed',
         m_uncommitted_block_positions[b] # 0 =>
           /\ NextCell(m_uncommitted_block_positions[b]) = CellAt(m_uncommitted_block_positions[b])
           /\ NextCell(m_uncommitted_block_positions[b] + 1) =
                CellAt(m_uncommitted_block_positions[b] + 1)
  PROVE  PlaceOK(b)'
<1> DEFINE pos == m_uncommitted_block_positions[b]
<1>1. SUFFICES ASSUME pos # 0
               PROVE  /\ pos > m_transaction_begin
                      /\ pos + 2 <= LogSize'
                      /\ NextCell(pos)[1] = "data" /\ NextCell(pos + 1)[1] = "data"
                      /\ NextCell(pos)[2] \in Values /\ NextCell(pos + 1)[2] \in Values
                      /\ failed' = {} => NextCell(pos)[2] = NextCell(pos + 1)[2]
  BY PlaceNext
<1>2. /\ pos > m_transaction_begin
      /\ pos + 2 <= LogSize
      /\ CellAt(pos)[1] = "data" /\ CellAt(pos + 1)[1] = "data"
      /\ CellAt(pos)[2] \in Values /\ CellAt(pos + 1)[2] \in Values
      /\ failed = {} => CellAt(pos)[2] = CellAt(pos + 1)[2]
  BY <1>1 DEF PlaceOK
<1>3. NextCell(pos) = CellAt(pos) /\ NextCell(pos + 1) = CellAt(pos + 1) /\ pos \in Nat BY <1>1
<1> HIDE DEF pos
<1>4. pos + 2 <= LogSize' BY <1>2, <1>3
<1>5. failed' = {} => failed = {} OBVIOUS
<1>6. QED BY <1>2, <1>3, <1>4, <1>5

\* The cells of a begin and of a commit record.
LEMMA MarkCells ==
  /\ BeginRecord \in Logs /\ Len(BeginRecord) = 1 /\ BeginRecord[1] = <<"begin", 0>>
  /\ \A n \in Sizes : /\ CommitRecord(n) \in Logs /\ Len(CommitRecord(n)) = 2
                      /\ CommitRecord(n)[1] = <<"commit", 0>> /\ CommitRecord(n)[2] = <<"size", n>>
<1>1. /\ <<"begin", 0>> \in Cells /\ <<"commit", 0>> \in Cells
      /\ \A n \in Sizes : <<"size", n>> \in Cells
  BY JournalAssumption DEF Cells, Kinds
<1>2. BeginRecord \in Logs /\ Len(BeginRecord) = 1 /\ BeginRecord[1] = <<"begin", 0>>
  BY <1>1 DEF BeginRecord, Logs
<1>3. ASSUME NEW n \in Sizes
      PROVE  /\ CommitRecord(n) \in Logs /\ Len(CommitRecord(n)) = 2
             /\ CommitRecord(n)[1] = <<"commit", 0>> /\ CommitRecord(n)[2] = <<"size", n>>
  BY <1>1 DEF CommitRecord, Logs
<1>4. QED BY <1>2, <1>3

\* The cells of a block and of a write record.
LEMMA WriteCells ==
  ASSUME NEW i \in Blocks, NEW v \in Values
  PROVE  /\ BlockData(v) \in Logs /\ Len(BlockData(v)) = 2
         /\ BlockData(v)[1] = <<"data", v>> /\ BlockData(v)[2] = <<"data", v>>
         /\ WriteRecord(i, v) \in Logs /\ Len(WriteRecord(i, v)) = 4
         /\ WriteRecord(i, v)[1] = <<"write", 0>> /\ WriteRecord(i, v)[2] = <<"index", i>>
         /\ WriteRecord(i, v)[3] = <<"data", v>> /\ WriteRecord(i, v)[4] = <<"data", v>>
<1>1. i \in Nat /\ v \in Nat BY JournalAssumption
<1>2. <<"data", v>> \in Cells /\ <<"write", 0>> \in Cells /\ <<"index", i>> \in Cells
  BY <1>1 DEF Cells, Kinds
<1>5. /\ BlockData(v) \in Logs /\ Len(BlockData(v)) = 2
      /\ BlockData(v)[1] = <<"data", v>> /\ BlockData(v)[2] = <<"data", v>>
  BY <1>2 DEF BlockData, Logs
<1> DEFINE h == << <<"write", 0>>, <<"index", i>> >>
           w == h \o BlockData(v)
<1>6. h \in Logs /\ Len(h) = 2 /\ h[1] = <<"write", 0>> /\ h[2] = <<"index", i>>
  BY <1>2 DEF Logs
<1> HIDE DEF h
<1>7. w \in Logs /\ Len(w) = 4
      /\ \A p \in 1 .. 4 : w[p] = IF p <= 2 THEN h[p] ELSE BlockData(v)[p - 2]
  <2> DEFINE e == BlockData(v)
  <2>1. e \in Logs /\ Len(e) = 2 BY <1>5
  <2> HIDE DEF e
  <2>2. /\ h \o e \in Logs /\ Len(h \o e) = Len(h) + Len(e)
        /\ \A p \in 1 .. Len(h) + Len(e) : (h \o e)[p] = IF p <= Len(h) THEN h[p] ELSE e[p - Len(h)]
    BY <1>6, <2>1, Joined
  <2> DEFINE x == h \o e
  <2> HIDE DEF x
  <2>3. x \in Logs /\ Len(x) = 4 /\ \A p \in 1 .. 4 : x[p] = IF p <= 2 THEN h[p] ELSE e[p - 2]
    BY <1>6, <2>1, <2>2 DEF x
  <2>4. QED BY <2>3 DEF x, e
<1> HIDE DEF w
<1>8. w[1] = h[1] /\ w[2] = h[2] /\ w[3] = BlockData(v)[1] /\ w[4] = BlockData(v)[2] BY <1>7
<1>9. WriteRecord(i, v) = w BY DEF WriteRecord, w, h
<1>10. QED BY <1>5, <1>6, <1>7, <1>8, <1>9

\* What lands of an append without a commit record is cut off by restore().
LEMMA AppendDisk ==
  ASSUME Inv, Setting, ~LogGone, NoCommitIn(logFile, End + 1), NoCommitIn(buffer, 1),
         NEW d \in Logs, NoCommitIn(d, 1), NEW m \in Nat, m <= Len(buffer) + Len(d),
         MayLand(m_buffer_offset, SubSeq(buffer \o d, 1, m))
  PROVE  logDisk' = logDisk
<1> DEFINE all == buffer \o d
<1>1. /\ buffer \in Logs /\ Len(buffer) \in Nat /\ Len(d) \in Nat
      /\ m_buffer_offset \in Nat /\ End <= m_buffer_offset /\ m_buffer_offset <= Len(logFile)
  BY DEF Inv, TypeOK, LayoutInv, Logs
<1>2. /\ all \in Logs /\ Len(all) = Len(buffer) + Len(d)
      /\ \A p \in 1 .. Len(buffer) + Len(d) :
           all[p] = IF p <= Len(buffer) THEN buffer[p] ELSE d[p - Len(buffer)]
  BY <1>1, Joined
<1>3. MayLand(m_buffer_offset, SubSeq(all, 1, m)) OBVIOUS
<1> HIDE DEF all
<1>4. ASSUME NEW p \in 1 .. m PROVE all[p][1] # "commit"
  <2>1. CASE p <= Len(buffer) BY <1>1, <1>2, <2>1 DEF NoCommitIn
  <2>2. CASE ~(p <= Len(buffer))
    <3>1. p - Len(buffer) \in 1 .. Len(d) /\ all[p] = d[p - Len(buffer)] BY <1>1, <1>2, <2>2
    <3>2. QED BY <3>1 DEF NoCommitIn
  <2>3. QED BY <2>1, <2>2
<1>5. \A p \in End + 1 .. Len(logFile) : logFile[p][1] # "commit" BY DEF NoCommitIn
<1>6. m_buffer_offset >= End
  <2>1. End \in Nat BY DEF Inv, TypeOK, End
  <2>2. QED BY <1>1, <2>1
<1>7. QED BY <1>1, <1>2, <1>3, <1>4, <1>5, <1>6, LandedCut

\* The state of a scan behind a write record.
LEMMA ScanAfterWrite ==
  ASSUME NEW s \in Scanners, NEW i
  PROVE  [s EXCEPT !.written[i] = s.offset + 2, !.offset = @ + 4] =
           [offset |-> s.offset + 4, good |-> s.good, active |-> s.active,
            written |-> [s.written EXCEPT ![i] = s.offset + 2],
            positions |-> s.positions, size |-> s.size]
<1> DEFINE W == [s.written EXCEPT ![i] = s.offset + 2]
<1>3. PICK t : t = [s EXCEPT !.written[i] = s.offset + 2, !.offset = @ + 4] OBVIOUS
<1>1. t = [offset |-> s.offset + 4, good |-> s.good, active |-> s.active, written |-> W,
           positions |-> s.positions, size |-> s.size]
  BY <1>3 DEF Scanners
<1>2. QED BY <1>1, <1>3

\* write() appends a block.
LEMMA WriteNewInv ==
  ASSUME Inv, Setting, UNCHANGED m_sync_on_commit, NEW i \in Blocks, NEW v \in Values,
         WriteNew(i, v)
  PROVE  /\ Inv' /\ logDisk' = logDisk /\ Committed' = Committed
         /\ \A p \in Nat : p < LogSize => NextCell(p) = CellAt(p)
         /\ NextCell(LogSize + 2) = <<"data", v>> /\ NextCell(LogSize + 3) = <<"data", v>>
<1> DEFINE d == WriteRecord(i, v)
<1>1. /\ InTransaction /\ m_uncommitted_block_positions[i] = 0 /\ AppendToBuffer(d)
      /\ m_uncommitted_block_positions' = [m_uncommitted_block_positions EXCEPT ![i] = LogSize + 2]
      /\ UNCHANGED <<m_in_transaction, m_transaction_begin, pc>> /\ failed' = failed
      /\ UNCHANGED indexVars
  BY DEF WriteNew, Repaired, Setting
<1>2. /\ pc = "idle" /\ m_in_transaction /\ ~LogGone /\ None \notin failed
      /\ End = m_transaction_begin /\ End \in Nat /\ End <= m_buffer_offset
      /\ m_buffer_offset \in Nat /\ m_buffer_offset <= Len(logFile) /\ Len(buffer) \in Nat
      /\ LogSize \in Nat /\ LogSize = m_buffer_offset + Len(buffer)
      /\ m_uncommitted_block_positions \in [Blocks -> Nat]
      /\ NoCommitIn(logFile, End + 1) /\ NoCommitIn(buffer, 1)
      /\ TxScan \in Scanners
  BY <1>1, RunningState
<1>3. /\ d \in Logs /\ Len(d) = 4 /\ d[1] = <<"write", 0>> /\ d[2] = <<"index", i>>
      /\ d[3] = <<"data", v>> /\ d[4] = <<"data", v>>
  BY WriteCells
<1>4. d # << >> BY <1>3
<1> HIDE DEF d
<1> DEFINE u == Len(buffer) + Len(d)
<1>16. PICK n \in Nat : AppendsAll(d, n) BY <1>1, <1>2, <1>3, <1>4, AppendShape
<1>5. /\ Appends(d, n, n, u) /\ u - n <= BufferCells
      /\ logDisk' = logDisk \/ MayLand(m_buffer_offset, SubSeq(buffer \o d, 1, n))
  BY <1>16 DEF AppendsAll
<1>6. \A p \in 1 .. 4 : d[p][1] # "commit"
  <2>1. \A p \in 1 .. 4 : p = 1 \/ p = 2 \/ p = 3 \/ p = 4 OBVIOUS
  <2>2. QED BY <1>3, <2>1
<1>7. logDisk' = logDisk
  <2>1. n <= u BY <1>5 DEF Appends
  <2>2. NoCommitIn(d, 1) BY <1>3, <1>6 DEF NoCommitIn
  <2>3. QED BY <1>2, <1>3, <1>5, <2>1, <2>2, AppendDisk
<1>8. u = Len(buffer) + 4 /\ u \in Nat /\ u - Len(buffer) = 4 BY <1>2, <1>3
<1> HIDE DEF u
<1>9. /\ LogSize' = m_buffer_offset + u
      /\ \A p \in Nat : p < LogSize => NextCell(p) = CellAt(p)
      /\ \A p \in 1 .. 4 : NextCell(LogSize + p - 1) = d[p]
      /\ NoCommitIn(logFile', End + 1) /\ NoCommitIn(buffer', 1)
  <2>1. End \in 0 .. m_buffer_offset BY <1>2
  <2>2. TypeOK BY DEF Inv
  <2>3. /\ LogSize' = m_buffer_offset + u
        /\ \A p \in Nat : p < LogSize => NextCell(p) = CellAt(p)
        /\ \A p \in 1 .. u - Len(buffer) : NextCell(LogSize + p - 1) = d[p]
        /\ \A e \in 0 .. m_buffer_offset :
              /\ NoCommitIn(logFile, e + 1) /\ NoCommitIn(buffer, 1)
              /\ \A p \in 1 .. u - Len(buffer) : d[p][1] # "commit"
              => NoCommitIn(logFile', e + 1) /\ NoCommitIn(buffer', 1)
    <3>1. AppendedState(d, n, n, u) BY <1>2, <1>3, <1>5, <1>8, <2>2, Appended
    <3>2. QED BY <3>1 DEF AppendedState
  <2>4. QED BY <1>2, <1>6, <1>8, <2>1, <2>3
<1>10. LogSize' = LogSize + 4 BY <1>2, <1>8, <1>9
<1>11. m_uncommitted_block_positions' \in [Blocks -> Nat] BY <1>1, <1>2
<1>12. /\ TypeOK' /\ LayoutInv' /\ IndexInv' /\ DiskInv' /\ CommittingInv'
       /\ End' = End /\ Committed' = Committed
  <2>1. logDisk \subseteq logDisk' /\ \A c \in logDisk' : c \in Logs /\ Complete(c)
    BY <1>7 DEF Inv, TypeOK, DiskInv
  <2>2. failed' \subseteq Blocks \cup {None} /\ failed \subseteq failed' BY <1>1 DEF Inv, TypeOK
  <2>3. m_in_transaction' = TRUE BY <1>1, <1>2 DEF Inv, TypeOK
  <2>4. QED BY <1>1, <1>2, <1>3, <1>5, <1>8, <1>11, <2>1, <2>2, <2>3, TxAppend
<1>13. PlacesInv'
  <2>1. ASSUME NEW b \in Blocks PROVE PlaceOK(b)'
    <3>1. CASE b = i
      <4> DEFINE pos == m_uncommitted_block_positions'[b]
      <4>1. pos = LogSize + 2 BY <1>1, <1>2, <3>1
      <4>2. NextCell(LogSize + 2) = d[3] /\ NextCell(LogSize + 3) = d[4]
        <5>1. LogSize + 2 = LogSize + 3 - 1 /\ LogSize + 3 = LogSize + 4 - 1 BY <1>2
        <5>2. QED BY <1>9, <5>1
      <4>3. NextCell(pos) = <<"data", v>> /\ NextCell(pos + 1) = <<"data", v>>
        <5>1. LogSize + 2 + 1 = LogSize + 3 BY <1>2
        <5>2. QED BY <1>3, <4>1, <4>2, <5>1
      <4>4. pos > m_transaction_begin' /\ pos + 2 <= LogSize' BY <1>1, <1>2, <1>10, <4>1
      <4>5. QED BY <4>3, <4>4, PlaceNext
    <3>2. CASE b # i
      <4> DEFINE pos == m_uncommitted_block_positions[b]
      <4>1. m_uncommitted_block_positions'[b] = pos /\ pos \in Nat BY <1>1, <1>2, <3>2
      <4>2. PlaceOK(b) BY <1>2 DEF Inv, PlacesInv
      <4>3. pos # 0 => pos < LogSize /\ pos + 1 < LogSize /\ pos + 1 \in Nat
        BY <1>2, <4>1, <4>2 DEF PlaceOK
      <4>4. pos # 0 => NextCell(pos) = CellAt(pos) /\ NextCell(pos + 1) = CellAt(pos + 1)
        BY <1>9, <4>1, <4>3
      <4>5. LogSize <= LogSize' /\ LogSize' \in Nat BY <1>2, <1>10
      <4>6. QED BY <1>1, <1>2, <4>1, <4>2, <4>4, <4>5, PlaceKept
    <3>3. QED BY <3>1, <3>2
  <2>2. ASSUME NEW b \in Blocks, NEW c \in Blocks PROVE Apart(b, c)'
    <3>1. Apart(b, c) BY <1>2 DEF Inv, PlacesInv
    <3>2. \A x \in Blocks : m_uncommitted_block_positions[x] # 0 =>
                              m_uncommitted_block_positions[x] + 2 <= LogSize
      BY <1>2 DEF Inv, PlacesInv, PlaceOK
    <3>3. \A x \in Blocks : m_uncommitted_block_positions'[x] =
                              IF x = i THEN LogSize + 2 ELSE m_uncommitted_block_positions[x]
      BY <1>1, <1>2
    <3>4. m_uncommitted_block_positions[b] \in Nat /\ m_uncommitted_block_positions[c] \in Nat
      BY <1>2
    <3>5. LogSize \in Nat BY <1>2
    <3>6. CASE b # i /\ c # i BY <3>1, <3>3, <3>6 DEF Apart
    <3>7. CASE b = i \/ c = i BY <3>2, <3>3, <3>4, <3>5, <3>7 DEF Apart
    <3>8. QED BY <3>6, <3>7
  <2>3. QED BY <2>1, <2>2 DEF PlacesInv
<1>14. RunningInv'
  <2>1. NoCommitCells' BY <1>9, <1>12 DEF NoCommitCells, NoCommitIn
  <2>2. ASSUME failed' = {} PROVE Ready(Whole, TxScan)'
    <3> DEFINE W == Whole'
               s == TxScan
               t == [s EXCEPT !.written[i] = s.offset + 2, !.offset = @ + 4]
    <3>1. Ready(Whole, s) BY <1>1, <1>2, <2>2 DEF Inv, RunningInv
    <3>2. /\ \A q \in 1 .. LogSize : W[q] = Whole[q]
          /\ W[LogSize + 1] = d[1] /\ W[LogSize + 2] = d[2]
      <4>1. \A q \in 1 .. LogSize + 4 : W[q] = NextCell(q - 1) BY <1>10, NextCells
      <4>2. \A q \in 1 .. LogSize : Whole[q] = CellAt(q - 1) BY NextCells
      <4>3. ASSUME NEW q \in 1 .. LogSize PROVE W[q] = Whole[q]
        <5>1. q \in 1 .. LogSize + 4 /\ q - 1 \in Nat /\ q - 1 < LogSize BY <1>2
        <5>2. QED BY <1>9, <4>1, <4>2, <5>1
      <4>4. NextCell(LogSize + 1 - 1) = d[1] /\ NextCell(LogSize + 2 - 1) = d[2] BY <1>9
      <4>5. LogSize + 1 \in 1 .. LogSize + 4 /\ LogSize + 2 \in 1 .. LogSize + 4 BY <1>2
      <4>6. /\ W[LogSize + 1] = NextCell(LogSize + 1 - 1)
            /\ W[LogSize + 2] = NextCell(LogSize + 2 - 1)
        BY <1>2, <4>1, <4>5
      <4>7. QED BY <4>3, <4>4, <4>6
    <3> HIDE DEF W
    <3>3. s \in Scanners /\ s.offset = LogSize /\ s.active = TRUE BY <1>2 DEF TxScan
    <3>4. Ready(W, s)
      <4>1. Alike(W, Whole, s.offset) BY <3>2, <3>3 DEF Alike, SameCell
      <4>2. QED BY <3>1, <3>3, <4>1, ReadyAlike
    <3>5. TxScan' = t
      <4> DEFINE w == [m_uncommitted_block_positions EXCEPT ![i] = LogSize + 2]
      <4>1. m_uncommitted_block_positions' = w BY <1>1
      <4>2. t = [offset |-> LogSize + 4, good |-> m_transaction_begin, active |-> TRUE,
                 written |-> w, positions |-> m_block_positions, size |-> m_database_size]
        <5>1. /\ s.offset = LogSize /\ s.good = m_transaction_begin /\ s.active = TRUE
              /\ s.written = m_uncommitted_block_positions
              /\ s.positions = m_block_positions /\ s.size = m_database_size
          BY DEF TxScan
        <5> HIDE DEF s
        <5>2. t = [offset |-> s.offset + 4, good |-> s.good, active |-> s.active,
                   written |-> [s.written EXCEPT ![i] = s.offset + 2],
                   positions |-> s.positions, size |-> s.size]
          BY <3>3, ScanAfterWrite
        <5> HIDE DEF t
        <5>3. QED BY <5>1, <5>2
      <4> HIDE DEF w, t
      <4>3. QED BY <1>1, <1>10, <4>1, <4>2 DEF TxScan, indexVars
    <3> HIDE DEF s
    <3>6. Ready(W, t) BY <1>3, <3>2, <3>3, <3>4, ReadyWrite
    <3> HIDE DEF t
    <3>7. Ready(W, TxScan') BY <3>5, <3>6
    <3>8. QED BY <3>7 DEF W
  <2>3. QED BY <2>1, <2>2 DEF RunningInv
<1>15. NextCell(LogSize + 2) = <<"data", v>> /\ NextCell(LogSize + 3) = <<"data", v>>
  <2>1. LogSize + 2 = LogSize + 3 - 1 /\ LogSize + 3 = LogSize + 4 - 1 BY <1>2
  <2>2. QED BY <1>3, <1>9, <2>1
<1>17. QED BY <1>7, <1>9, <1>12, <1>13, <1>14, <1>15 DEF Inv

\* Between two transactions, as long as the log is not about to be dropped: the file
\* is the committed log.
LEMMA IdleState ==
  ASSUME Inv, ~m_in_transaction, ~LogGone
  PROVE  /\ buffer = << >> /\ failed = {} /\ m_uncommitted_block_positions = NoPositions
         /\ End = m_buffer_offset /\ Len(logFile) = End /\ LogSize = End /\ End \in Nat
         /\ Committed = logFile /\ Complete(logFile) /\ logFile \in logDisk /\ logFile \in Logs
         /\ Restore(logFile).positions = m_block_positions
         /\ Restore(logFile).size = m_database_size
<1>1. /\ buffer = << >> /\ failed = {} /\ m_uncommitted_block_positions = NoPositions
      /\ Len(logFile) = m_buffer_offset
  BY DEF Inv, LayoutInv
<1>2. End = m_buffer_offset /\ m_buffer_offset \in Nat /\ logFile \in Logs
  BY DEF End, Inv, TypeOK
<1>3. LogSize = m_buffer_offset BY <1>1, <1>2 DEF LogSize
<1>4. Committed = logFile BY <1>1, <1>2 DEF Committed, Logs
<1>5. QED BY <1>1, <1>2, <1>3, <1>4 DEF Inv, IndexInv

\* The state of a scan behind a begin record.
LEMMA ScanAfterBegin ==
  ASSUME NEW s \in Scanners
  PROVE  [s EXCEPT !.active = TRUE, !.written = NoPositions, !.offset = @ + 1] =
           [offset |-> s.offset + 1, good |-> s.good, active |-> TRUE, written |-> NoPositions,
            positions |-> s.positions, size |-> s.size]
<1>1. PICK t : t = [s EXCEPT !.active = TRUE, !.written = NoPositions, !.offset = @ + 1] OBVIOUS
<1>2. t = [offset |-> s.offset + 1, good |-> s.good, active |-> TRUE, written |-> NoPositions,
           positions |-> s.positions, size |-> s.size]
  BY <1>1 DEF Scanners
<1>3. QED BY <1>1, <1>2

\* begin() appends its record.
LEMMA BeginInv ==
  ASSUME Inv, Setting, UNCHANGED m_sync_on_commit, Begin
  PROVE  Inv' /\ logDisk' = logDisk /\ Committed' = Committed
<1> DEFINE d == BeginRecord
<1>1. /\ pc = "idle" /\ ~m_in_transaction /\ AppendToBuffer(d)
      /\ m_in_transaction' = TRUE /\ m_transaction_begin' = LogSize
      /\ UNCHANGED <<m_uncommitted_block_positions, pc, failed>> /\ UNCHANGED indexVars
  BY DEF Begin
<1>2. ~LogGone BY <1>1 DEF LogGone
<1>3. /\ buffer = << >> /\ failed = {} /\ m_uncommitted_block_positions = NoPositions
      /\ End = m_buffer_offset /\ Len(logFile) = End /\ LogSize = End /\ End \in Nat
      /\ Complete(logFile) /\ logFile \in Logs
      /\ Restore(logFile).positions = m_block_positions
      /\ Restore(logFile).size = m_database_size
  BY <1>1, <1>2, IdleState
<1>4. d \in Logs /\ Len(d) = 1 /\ d[1] = <<"begin", 0>> BY MarkCells
<1>5. d # << >> BY <1>4
<1> HIDE DEF d
<1> DEFINE u == Len(buffer) + Len(d)
<1>6. PICK n \in Nat : AppendsAll(d, n) BY <1>1, <1>2, <1>4, <1>5, AppendShape
<1>7. /\ Appends(d, n, n, u) /\ u - n <= BufferCells
      /\ logDisk' = logDisk \/ MayLand(m_buffer_offset, SubSeq(buffer \o d, 1, n))
  BY <1>6 DEF AppendsAll
<1>8. Len(buffer) = 0 BY <1>3
<1>9. NoCommitIn(logFile, End + 1) /\ NoCommitIn(buffer, 1) BY <1>3, <1>8 DEF NoCommitIn
<1>10. \A p \in 1 .. 1 : d[p][1] # "commit" BY <1>4
<1>11. logDisk' = logDisk
  <2>1. n <= u BY <1>7 DEF Appends
  <2>2. NoCommitIn(d, 1) BY <1>4, <1>10 DEF NoCommitIn
  <2>3. QED BY <1>2, <1>4, <1>7, <1>9, <2>1, <2>2, AppendDisk
<1>12. u = 1 /\ u - Len(buffer) = 1 BY <1>4, <1>8
<1> HIDE DEF u
<1>13. /\ LogSize' = m_buffer_offset + u
       /\ \A p \in Nat : p < LogSize => NextCell(p) = CellAt(p)
       /\ \A p \in 1 .. u - Len(buffer) : NextCell(LogSize + p - 1) = d[p]
       /\ \A e \in 0 .. m_buffer_offset :
            /\ NoCommitIn(logFile, e + 1) /\ NoCommitIn(buffer, 1)
            /\ \A p \in 1 .. u - Len(buffer) : d[p][1] # "commit"
            => NoCommitIn(logFile', e + 1) /\ NoCommitIn(buffer', 1)
  <2>1. TypeOK /\ m_buffer_offset <= Len(logFile) /\ u \in Nat BY <1>3, <1>12 DEF Inv
  <2>2. AppendedState(d, n, n, u) BY <1>4, <1>7, <2>1, Appended
  <2>3. QED BY <2>2 DEF AppendedState
<1>14. LogSize' = LogSize + 1 /\ NextCell(LogSize) = d[1]
  <2>1. 1 \in 1 .. u - Len(buffer) /\ LogSize + 1 - 1 = LogSize BY <1>3, <1>12
  <2>2. QED BY <1>3, <1>12, <1>13, <2>1
<1>15. NoCommitIn(logFile', End + 1) /\ NoCommitIn(buffer', 1)
  <2>1. End \in 0 .. m_buffer_offset BY <1>3
  <2>2. QED BY <1>9, <1>10, <1>12, <1>13, <2>1
<1>16. /\ TypeOK' /\ LayoutInv' /\ IndexInv' /\ DiskInv' /\ CommittingInv'
       /\ End' = End /\ Committed' = Committed
  <2>1. logDisk \subseteq logDisk' /\ \A c \in logDisk' : c \in Logs /\ Complete(c)
    BY <1>11 DEF Inv, TypeOK, DiskInv
  <2>2. /\ failed' \subseteq Blocks \cup {None} /\ failed \subseteq failed' /\ u \in Nat
        /\ m_transaction_begin' = End
    BY <1>1, <1>3, <1>12
  <2>3. m_uncommitted_block_positions' \in [Blocks -> Nat] BY <1>1 DEF Inv, TypeOK
  <2>4. QED BY <1>1, <1>4, <1>7, <2>1, <2>2, <2>3, TxAppend
<1>17. PlacesInv'
  <2>1. \A b \in Blocks : m_uncommitted_block_positions'[b] = 0 BY <1>1, <1>3 DEF NoPositions
  <2>2. QED BY <2>1 DEF PlacesInv, PlaceOK, Apart
<1>18. RunningInv'
  <2>1. NoCommitCells' BY <1>15, <1>16 DEF NoCommitCells, NoCommitIn
  <2>2. Ready(Whole, TxScan)'
    <3> DEFINE W == Whole'
               s == Restore(logFile)
               t == [s EXCEPT !.active = TRUE, !.written = NoPositions, !.offset = @ + 1]
    <3>1. /\ Ready(logFile, s) /\ s \in Scanners /\ s.offset = LogSize /\ s.good = LogSize
          /\ ~s.active /\ s.positions = m_block_positions /\ s.size = m_database_size
      BY <1>3, RestoreType DEF Complete
    <3> HIDE DEF s
    <3>2. /\ \A q \in 1 .. LogSize : W[q] = logFile[q]
          /\ W[LogSize + 1] = d[1]
      <4>1. \A q \in 1 .. LogSize + 1 : W[q] = NextCell(q - 1) BY <1>14, NextCells
      <4>2. ASSUME NEW q \in 1 .. LogSize PROVE W[q] = logFile[q]
        <5>1. /\ q \in 1 .. LogSize + 1 /\ q - 1 \in Nat /\ q - 1 < LogSize
              /\ q - 1 < m_buffer_offset /\ q - 1 < Len(logFile) /\ q - 1 + 1 = q
          BY <1>3
        <5>2. CellAt(q - 1) = logFile[q] BY <5>1 DEF CellAt, At
        <5>3. QED BY <1>13, <4>1, <5>1, <5>2
      <4>3. LogSize + 1 \in 1 .. LogSize + 1 /\ LogSize + 1 - 1 = LogSize BY <1>3
      <4>4. W[LogSize + 1] = NextCell(LogSize + 1 - 1) BY <1>3, <4>1, <4>3
      <4>5. QED BY <1>14, <4>2, <4>3, <4>4
    <3> HIDE DEF W
    <3>3. Ready(W, s)
      <4>1. Alike(W, logFile, s.offset) BY <3>1, <3>2 DEF Alike, SameCell
      <4>2. QED BY <3>1, <4>1, ReadyAlike
    <3>4. TxScan' = t
      <4>1. t = [offset |-> s.offset + 1, good |-> s.good, active |-> TRUE,
                 written |-> NoPositions, positions |-> s.positions, size |-> s.size]
        BY <3>1, ScanAfterBegin
      <4> HIDE DEF t
      <4>2. QED BY <1>1, <1>3, <1>14, <3>1, <4>1 DEF TxScan, indexVars
    <3>5. Ready(W, t) BY <1>4, <3>1, <3>2, <3>3, ReadyBegin
    <3> HIDE DEF t
    <3>6. Ready(W, TxScan') BY <3>4, <3>5
    <3>7. QED BY <3>6 DEF W
  <2>3. QED BY <2>1, <2>2 DEF RunningInv
<1>19. QED BY <1>11, <1>16, <1>17, <1>18 DEF Inv

\* A write() that fails in the middle of an append.
LEMMA WriteNewFailsInv ==
  ASSUME Inv, Setting, UNCHANGED m_sync_on_commit, NEW i \in Blocks, NEW v \in Values,
         NEW j \in Nat, WriteNewFails(i, v, j)
  PROVE  /\ Inv' /\ logDisk' = logDisk /\ Committed' = Committed
         /\ \A p \in Nat : p < LogSize => NextCell(p) = CellAt(p)
<1> DEFINE d == WriteRecord(i, v)
<1>1. /\ InTransaction /\ j < Flushes(d) /\ AppendToBufferFails(d, j)
      /\ failed' = failed \cup {i} /\ UNCHANGED pc /\ UNCHANGED txVars /\ UNCHANGED indexVars
  BY DEF WriteNewFails
<1>2. /\ pc = "idle" /\ m_in_transaction /\ ~LogGone /\ None \notin failed
      /\ End = m_transaction_begin /\ End \in Nat /\ End <= m_buffer_offset
      /\ m_buffer_offset \in Nat /\ m_buffer_offset <= Len(logFile)
      /\ buffer \in Logs /\ Len(buffer) \in Nat
      /\ LogSize \in Nat /\ LogSize = m_buffer_offset + Len(buffer)
      /\ m_uncommitted_block_positions \in [Blocks -> Nat]
      /\ NoCommitIn(logFile, End + 1) /\ NoCommitIn(buffer, 1)
  BY <1>1, RunningState
<1>3. /\ d \in Logs /\ Len(d) = 4 /\ d[1] = <<"write", 0>> /\ d[2] = <<"index", i>>
      /\ d[3] = <<"data", v>> /\ d[4] = <<"data", v>>
  BY WriteCells
<1> HIDE DEF d
<1>4. d # << >>
  <2>1. Len(d) # 0 BY <1>3
  <2>2. QED BY <2>1
<1>5. j <= Flushes(d)
  <2>1. Len(buffer) + Len(d) - 1 \in Nat BY <1>2, <1>3
  <2>2. Flushes(d) \in Nat BY <2>1, FlushedCells, JournalAssumption DEF Flushes
  <2>3. QED BY <1>1, <2>2
<1>6. PICK n, k, u \in Nat : /\ Appends(d, n, k, u)
                             /\ u - n <= BufferCells
                             /\ MayLand(m_buffer_offset, SubSeq(buffer \o d, 1, u))
  BY <1>1, <1>2, <1>3, <1>4, <1>5, AppendFailsShape
<1>7. \A p \in 1 .. 4 : d[p][1] # "commit"
  <2>1. \A p \in 1 .. 4 : p = 1 \/ p = 2 \/ p = 3 \/ p = 4 OBVIOUS
  <2>2. QED BY <1>3, <2>1
<1>8. u <= Len(buffer) + Len(d) /\ Len(buffer) <= u BY <1>6 DEF Appends
<1>9. logDisk' = logDisk
  <2>1. NoCommitIn(d, 1) BY <1>3, <1>7 DEF NoCommitIn
  <2>2. QED BY <1>2, <1>3, <1>6, <1>8, <2>1, AppendDisk
<1>10. /\ LogSize' = m_buffer_offset + u
       /\ \A p \in Nat : p < LogSize => NextCell(p) = CellAt(p)
       /\ \A e \in 0 .. m_buffer_offset :
            /\ NoCommitIn(logFile, e + 1) /\ NoCommitIn(buffer, 1)
            /\ \A p \in 1 .. u - Len(buffer) : d[p][1] # "commit"
            => NoCommitIn(logFile', e + 1) /\ NoCommitIn(buffer', 1)
  <2>1. AppendedState(d, n, k, u) BY <1>2, <1>3, <1>6, Appended DEF Inv
  <2>2. QED BY <2>1 DEF AppendedState
<1>11. NoCommitIn(logFile', End + 1) /\ NoCommitIn(buffer', 1)
  <2>1. \A p \in 1 .. u - Len(buffer) : p \in 1 .. 4 BY <1>2, <1>3, <1>8
  <2>2. End \in 0 .. m_buffer_offset BY <1>2
  <2>3. QED BY <1>2, <1>7, <1>10, <2>1, <2>2
<1>12. /\ TypeOK' /\ LayoutInv' /\ IndexInv' /\ DiskInv' /\ CommittingInv'
       /\ End' = End /\ Committed' = Committed
  <2>1. logDisk \subseteq logDisk' /\ \A c \in logDisk' : c \in Logs /\ Complete(c)
    BY <1>9 DEF Inv, TypeOK, DiskInv
  <2>2. failed' \subseteq Blocks \cup {None} /\ failed \subseteq failed' /\ failed' # {}
    BY <1>1 DEF Inv, TypeOK
  <2>3. /\ m_in_transaction' = TRUE /\ m_transaction_begin' = End /\ pc' = "idle"
        /\ m_uncommitted_block_positions' \in [Blocks -> Nat]
    BY <1>1, <1>2 DEF Inv, TypeOK, txVars
  <2>4. QED BY <1>1, <1>2, <1>3, <1>6, <2>1, <2>2, <2>3, TxAppend
<1>13. PlacesInv'
  <2>1. ASSUME NEW b \in Blocks PROVE PlaceOK(b)'
    <3> DEFINE pos == m_uncommitted_block_positions[b]
    <3>1. m_uncommitted_block_positions'[b] = pos /\ pos \in Nat BY <1>1, <1>2 DEF txVars
    <3>2. PlaceOK(b) BY <1>2 DEF Inv, PlacesInv
    <3>3. pos # 0 => pos < LogSize /\ pos + 1 < LogSize /\ pos + 1 \in Nat
      BY <1>2, <3>1, <3>2 DEF PlaceOK
    <3>4. pos # 0 => NextCell(pos) = CellAt(pos) /\ NextCell(pos + 1) = CellAt(pos + 1)
      BY <1>10, <3>1, <3>3
    <3>5. LogSize <= LogSize' /\ LogSize' \in Nat BY <1>2, <1>8, <1>10
    <3>6. failed \subseteq failed' /\ UNCHANGED m_transaction_begin BY <1>1 DEF txVars
    <3>7. QED BY <1>2, <3>1, <3>2, <3>4, <3>5, <3>6, PlaceKept
  <2>2. \A b, c \in Blocks : Apart(b, c)' BY <1>1, <1>2 DEF Inv, PlacesInv, Apart, txVars
  <2>3. QED BY <2>1, <2>2 DEF PlacesInv
<1>14. RunningInv'
  <2>1. NoCommitCells' BY <1>11, <1>12 DEF NoCommitCells, NoCommitIn
  <2>2. failed' # {} BY <1>1
  <2>3. QED BY <2>1, <2>2 DEF RunningInv
<1>15. QED BY <1>9, <1>10, <1>12, <1>13, <1>14 DEF Inv

-----------------------------------------------------------------------------
(* Steps that write a block in place.                                      *)

\* m cells of the log f behind the first off are overwritten by the same cell x.
OverwrittenAs(o, f, off, m, x) ==
  /\ o \in Logs /\ Len(o) = Len(f)
  /\ \A p \in 1 .. Len(f) : o[p] = IF p > off /\ p <= off + m THEN x ELSE f[p]

\* A write of equal cells inside a file.
LEMMA OverwrittenBy ==
  ASSUME NEW f \in Logs, NEW d \in Logs, NEW off \in Nat, off + Len(d) <= Len(f),
         NEW x, \A p \in 1 .. Len(d) : d[p] = x
  PROVE  OverwrittenAs(Overwrite(f, off, d), f, off, Len(d), x)
<1> DEFINE o == Overwrite(f, off, d)
<1>1. Len(f) \in Nat /\ Len(d) \in Nat BY DEF Logs
<1>2. /\ o \in Logs
      /\ Len(o) = IF off + Len(d) > Len(f) THEN off + Len(d) ELSE Len(f)
      /\ \A p \in 1 .. Len(o) : o[p] = IF p > off /\ p <= off + Len(d) THEN d[p - off] ELSE f[p]
  <2>1. off <= Len(f) BY <1>1
  <2>2. QED BY <2>1, Overwritten
<1> HIDE DEF o
<1>3. Len(o) = Len(f) BY <1>1, <1>2
<1>4. ASSUME NEW p \in 1 .. Len(f)
      PROVE  o[p] = IF p > off /\ p <= off + Len(d) THEN x ELSE f[p]
  <2>1. p > off /\ p <= off + Len(d) => p - off \in 1 .. Len(d) BY <1>1
  <2>2. QED BY <1>2, <1>3, <2>1
<1>5. OverwrittenAs(o, f, off, Len(d), x) BY <1>2, <1>3, <1>4 DEF OverwrittenAs
<1>6. QED BY <1>5 DEF o

\* Part of a block's data.
LEMMA DataPart ==
  ASSUME NEW v \in Values, NEW f \in 1 .. 3, NEW n \in 0 .. 2, f <= n + 1
  PROVE  /\ SubSeq(BlockData(v), f, n) \in Logs /\ Len(SubSeq(BlockData(v), f, n)) = n - f + 1
         /\ \A p \in 1 .. n - f + 1 : SubSeq(BlockData(v), f, n)[p] = <<"data", v>>
<1> DEFINE d == BlockData(v)
           e == SubSeq(d, f, n)
<1>1. d \in Logs /\ Len(d) = 2 /\ d[1] = <<"data", v>> /\ d[2] = <<"data", v>>
  <2>1. <<"data", v>> \in Cells BY JournalAssumption DEF Cells, Kinds
  <2>2. QED BY <2>1 DEF BlockData, Logs
<1> HIDE DEF d
<1>2. e \in Logs /\ Len(e) = n - f + 1 /\ \A p \in 1 .. n - f + 1 : e[p] = d[f + p - 1]
  <2>1. f \in Nat \ {0} /\ n \in Nat /\ n <= Len(d) BY <1>1
  <2>2. QED BY <1>1, <2>1, PartOfLog
<1>3. ASSUME NEW p \in 1 .. n - f + 1 PROVE d[f + p - 1] = <<"data", v>>
  <2>1. f + p - 1 = 1 \/ f + p - 1 = 2 OBVIOUS
  <2>2. QED BY <1>1, <2>1
<1> HIDE DEF e
<1>4. e \in Logs /\ Len(e) = n - f + 1 /\ \A p \in 1 .. n - f + 1 : e[p] = <<"data", v>>
  BY <1>2, <1>3
<1>5. QED BY <1>4 DEF e, d

\* The block at pos may have the new data in any of its cells, nothing else changes.
Rewritten(pos, v) ==
  /\ logFile' \in Logs /\ Len(logFile') = Len(logFile)
  /\ buffer' \in Logs /\ Len(buffer') = Len(buffer)
  /\ \A p \in 1 .. Len(logFile) :
       logFile'[p] = logFile[p] \/ (p > pos /\ logFile'[p] = <<"data", v>>)
  /\ \A p \in 1 .. Len(buffer) : buffer'[p] = buffer[p] \/ buffer'[p] = <<"data", v>>
  /\ \A p \in Nat : p < LogSize => \/ NextCell(p) = CellAt(p)
                                   \/ (p = pos \/ p = pos + 1) /\ NextCell(p) = <<"data", v>>

\* The first k cells of the block are written to the file, and those behind the first
\* n to the buffer if w.
LEMMA RewrittenCells ==
  ASSUME TypeOK, m_buffer_offset <= Len(logFile), UNCHANGED m_buffer_offset,
         NEW pos \in Nat, NEW v, NEW k \in 0 .. 2, NEW n \in 0 .. 2, NEW w \in BOOLEAN,
         logFile' \in Logs, Len(logFile') = Len(logFile),
         buffer' \in Logs, Len(buffer') = Len(buffer),
         k > 0 => pos + k <= m_buffer_offset,
         w => pos + n >= m_buffer_offset /\ pos + 2 <= LogSize,
         \A p \in 1 .. Len(logFile) :
           logFile'[p] = IF p > pos /\ p <= pos + k THEN <<"data", v>> ELSE logFile[p],
         \A p \in 1 .. Len(buffer) :
           buffer'[p] = IF w /\ p > pos + n - m_buffer_offset /\ p <= pos + 2 - m_buffer_offset
                        THEN <<"data", v>> ELSE buffer[p]
  PROVE  /\ Rewritten(pos, v)
         /\ k > 0 => NextCell(pos) = <<"data", v>>
         /\ k = 2 => NextCell(pos + 1) = <<"data", v>>
         /\ w /\ n = 0 => NextCell(pos) = <<"data", v>>
         /\ w /\ n <= 1 => NextCell(pos + 1) = <<"data", v>>
<1> DEFINE off == m_buffer_offset
           x == <<"data", v>>
<1>1. /\ off \in Nat /\ Len(logFile) \in Nat /\ Len(buffer) \in Nat /\ LogSize = off + Len(buffer)
      /\ m_buffer_offset' = off
  BY DEF TypeOK, Logs, LogSize
<1>2. \A p \in Nat : p < off =>
        /\ CellAt(p) = logFile[p + 1] /\ NextCell(p) = logFile'[p + 1]
        /\ p + 1 \in 1 .. Len(logFile)
  BY <1>1 DEF CellAt, NextCell, Cell, At
<1>3. \A p \in Nat : p >= off /\ p < LogSize =>
        /\ CellAt(p) = buffer[p - off + 1] /\ NextCell(p) = buffer'[p - off + 1]
        /\ p - off + 1 \in 1 .. Len(buffer)
  BY <1>1 DEF CellAt, NextCell, Cell, At
<1> HIDE DEF x
<1>4. \A p \in Nat : p < off => NextCell(p) = IF p >= pos /\ p < pos + k THEN x ELSE CellAt(p)
  <2>1. SUFFICES ASSUME NEW p \in Nat, p < off
                 PROVE  NextCell(p) = IF p >= pos /\ p < pos + k THEN x ELSE CellAt(p)
    OBVIOUS
  <2>2. logFile'[p + 1] = IF p + 1 > pos /\ p + 1 <= pos + k THEN x ELSE logFile[p + 1]
    BY <1>2, <2>1 DEF x
  <2>3. (p + 1 > pos /\ p + 1 <= pos + k) <=> (p >= pos /\ p < pos + k) OBVIOUS
  <2>4. QED BY <1>2, <2>1, <2>2, <2>3
<1>5. \A p \in Nat : p >= off /\ p < LogSize =>
        NextCell(p) = IF w /\ p >= pos + n /\ p < pos + 2 THEN x ELSE CellAt(p)
  <2>1. SUFFICES ASSUME NEW p \in Nat, p >= off, p < LogSize
                 PROVE  NextCell(p) = IF w /\ p >= pos + n /\ p < pos + 2 THEN x ELSE CellAt(p)
    OBVIOUS
  <2> DEFINE q == p - off + 1
  <2>2. q \in 1 .. Len(buffer) /\ CellAt(p) = buffer[q] /\ NextCell(p) = buffer'[q]
    BY <1>3, <2>1
  <2>3. (q > pos + n - off /\ q <= pos + 2 - off) <=> (p >= pos + n /\ p < pos + 2) BY <1>1
  <2> HIDE DEF q
  <2>4. buffer'[q] = IF w /\ q > pos + n - off /\ q <= pos + 2 - off THEN x ELSE buffer[q]
    BY <2>2 DEF x
  <2>5. QED BY <2>2, <2>3, <2>4
<1>6. ASSUME NEW p \in Nat, p < LogSize
      PROVE  NextCell(p) = CellAt(p) \/ ((p = pos \/ p = pos + 1) /\ NextCell(p) = x)
  <2>1. CASE p < off
    <3>1. p >= pos /\ p < pos + k => p = pos \/ p = pos + 1 OBVIOUS
    <3>2. QED BY <1>4, <2>1, <3>1
  <2>2. CASE p >= off
    <3>1. p >= pos + n /\ p < pos + 2 => p = pos \/ p = pos + 1 OBVIOUS
    <3>2. QED BY <1>5, <1>6, <2>2, <3>1
  <2>3. QED BY <1>1, <2>1, <2>2
<1>7. \A p \in 1 .. Len(logFile) : logFile'[p] = logFile[p] \/ (p > pos /\ logFile'[p] = x)
  BY DEF x
<1>8. \A p \in 1 .. Len(buffer) : buffer'[p] = buffer[p] \/ buffer'[p] = x BY DEF x
<1>9. Rewritten(pos, v) BY <1>6, <1>7, <1>8 DEF Rewritten, x
<1>10. k > 0 => NextCell(pos) = x
  <2>1. k > 0 => pos < off /\ pos >= pos /\ pos < pos + k BY <1>1
  <2>2. QED BY <1>4, <2>1
<1>11. k = 2 => NextCell(pos + 1) = x
  <2>1. k = 2 => pos + 1 < off /\ pos + 1 >= pos /\ pos + 1 < pos + k /\ pos + 1 \in Nat BY <1>1
  <2>2. QED BY <1>4, <2>1
<1>12. w /\ n = 0 => NextCell(pos) = x
  <2>1. w /\ n = 0 => pos >= off /\ pos < LogSize /\ pos >= pos + n /\ pos < pos + 2 BY <1>1
  <2>2. QED BY <1>5, <2>1
<1>13. w /\ n <= 1 => NextCell(pos + 1) = x
  <2>1. w /\ n <= 1 => /\ pos + 1 >= off /\ pos + 1 < LogSize /\ pos + 1 >= pos + n
                       /\ pos + 1 < pos + 2 /\ pos + 1 \in Nat
    BY <1>1
  <2>2. QED BY <1>5, <2>1
<1>14. QED BY <1>9, <1>10, <1>11, <1>12, <1>13 DEF x

\* A block of the transaction is rewritten, in part if that fails.
LEMMA RewrittenInv ==
  ASSUME Inv, Setting, InTransaction, UNCHANGED m_sync_on_commit, NEW i \in Blocks, NEW v \in Values,
         m_uncommitted_block_positions[i] # 0, Rewritten(m_uncommitted_block_positions[i], v),
         logDisk' = logDisk, UNCHANGED <<m_buffer_offset, pc>>, UNCHANGED txVars, UNCHANGED indexVars,
         failed \subseteq failed', failed' \subseteq Blocks \cup {None}, None \notin failed',
         failed' = {} => /\ NextCell(m_uncommitted_block_positions[i]) = <<"data", v>>
                         /\ NextCell(m_uncommitted_block_positions[i] + 1) = <<"data", v>>
  PROVE  Inv' /\ Committed' = Committed
<1> DEFINE pos == m_uncommitted_block_positions[i]
<1>1. /\ pc = "idle" /\ m_in_transaction /\ ~LogGone /\ None \notin failed
      /\ End = m_transaction_begin /\ End \in Nat /\ End <= m_buffer_offset
      /\ logFile \in Logs /\ buffer \in Logs /\ m_buffer_offset \in Nat
      /\ Len(logFile) \in Nat /\ Len(buffer) \in Nat /\ m_buffer_offset <= Len(logFile)
      /\ LogSize \in Nat /\ LogSize = m_buffer_offset + Len(buffer)
      /\ m_uncommitted_block_positions \in [Blocks -> Nat]
      /\ NoCommitIn(logFile, End + 1) /\ NoCommitIn(buffer, 1)
      /\ TxScan \in Scanners
  BY RunningState
<1>2. /\ logFile' \in Logs /\ Len(logFile') = Len(logFile)
      /\ buffer' \in Logs /\ Len(buffer') = Len(buffer)
      /\ \A p \in 1 .. Len(logFile) :
           logFile'[p] = logFile[p] \/ (p > pos /\ logFile'[p] = <<"data", v>>)
      /\ \A p \in 1 .. Len(buffer) : buffer'[p] = buffer[p] \/ buffer'[p] = <<"data", v>>
      /\ \A p \in Nat : p < LogSize => \/ NextCell(p) = CellAt(p)
                                       \/ (p = pos \/ p = pos + 1) /\ NextCell(p) = <<"data", v>>
  BY DEF Rewritten
<1>3. /\ pos \in Nat /\ pos # 0 /\ pos > End /\ pos + 2 <= LogSize /\ PlaceOK(i)
      /\ CellAt(pos)[1] = "data" /\ CellAt(pos + 1)[1] = "data"
  BY <1>1 DEF Inv, PlacesInv, PlaceOK
<1>4. LogSize' = LogSize BY <1>1, <1>2 DEF LogSize
<1>5. End' = End /\ m_in_transaction' = m_in_transaction /\ m_transaction_begin' = End
  BY <1>1 DEF txVars, End
<1>6. v \in Nat BY JournalAssumption
<1>7. ~LogGone' BY <1>1 DEF LogGone
<1>8. TypeOK' BY <1>2 DEF Inv, TypeOK, txVars, indexVars
<1>9. LayoutInv'
  <2>1. failed' = {} => Len(logFile') = m_buffer_offset'
    <3>1. failed' = {} => failed = {} OBVIOUS
    <3>2. QED BY <1>1, <1>2, <3>1 DEF Inv, LayoutInv
  <2>2. Len(buffer) <= BufferCells BY DEF Inv, LayoutInv
  <2>3. QED BY <1>1, <1>2, <1>5, <1>7, <2>1, <2>2 DEF LayoutInv
<1>16. Committed' = Committed
  <2>1. \A p \in 1 .. End : logFile'[p] = logFile[p] BY <1>1, <1>2, <1>3
  <2>2. End <= Len(logFile) /\ End <= Len(logFile') BY <1>1, <1>2
  <2>3. QED BY <1>1, <1>2, <1>5, <2>1, <2>2, CommittedKept
<1>10. IndexInv'
  <2>1. Committed \in logDisk' BY <1>1 DEF Inv, IndexInv
  <2>2. QED BY <1>1, <1>16, <2>1, IndexKept DEF Inv
<1>11. DiskInv' BY <1>1, <1>7 DEF Inv, DiskInv
<1>12. CommittingInv' BY <1>1 DEF CommittingInv
<1>13. PlacesInv'
  <2>1. ASSUME NEW b \in Blocks PROVE PlaceOK(b)'
    <3> DEFINE q == m_uncommitted_block_positions[b]
    <3>1. m_uncommitted_block_positions'[b] = q /\ q \in Nat BY <1>1 DEF txVars
    <3>2. /\ PlaceOK(b) /\ Apart(b, i)
          /\ q # 0 => q + 2 <= LogSize
      BY <1>1 DEF Inv, PlacesInv, PlaceOK
    <3>3. CASE b = i
      <4>1. /\ NextCell(pos)[1] = "data" /\ NextCell(pos + 1)[1] = "data"
            /\ NextCell(pos)[2] \in Values /\ NextCell(pos + 1)[2] \in Values
        <5>1. CellAt(pos)[2] \in Values /\ CellAt(pos + 1)[2] \in Values
          BY <1>3 DEF PlaceOK
        <5>2. pos < LogSize /\ pos + 1 < LogSize /\ pos + 1 \in Nat BY <1>1, <1>3
        <5>3. /\ NextCell(pos) = CellAt(pos) \/ NextCell(pos) = <<"data", v>>
              /\ NextCell(pos + 1) = CellAt(pos + 1) \/ NextCell(pos + 1) = <<"data", v>>
          BY <1>2, <1>3, <5>2
        <5>4. QED BY <1>3, <5>1, <5>3
      <4>2. failed' = {} => NextCell(pos)[2] = NextCell(pos + 1)[2] OBVIOUS
      <4>3. pos > m_transaction_begin' /\ pos + 2 <= LogSize' BY <1>3, <1>4, <1>5
      <4>4. QED BY <3>1, <3>3, <4>1, <4>2, <4>3, PlaceNext
    <3>4. CASE b # i
      <4>1. ASSUME q # 0 PROVE NextCell(q) = CellAt(q) /\ NextCell(q + 1) = CellAt(q + 1)
        <5>1. q + 2 <= pos \/ pos + 2 <= q BY <1>3, <3>2, <3>4, <4>1 DEF Apart
        <5>2. q # pos /\ q # pos + 1 /\ q + 1 # pos /\ q + 1 # pos + 1 BY <1>3, <3>1, <5>1
        <5>3. q < LogSize /\ q + 1 < LogSize /\ q + 1 \in Nat BY <1>1, <3>1, <3>2, <4>1
        <5>4. QED BY <1>2, <3>1, <5>2, <5>3
      <4>2. LogSize <= LogSize' /\ LogSize' \in Nat /\ UNCHANGED m_transaction_begin
        BY <1>1, <1>4 DEF txVars
      <4>3. QED BY <1>1, <3>1, <3>2, <4>1, <4>2, PlaceKept
    <3>5. QED BY <3>3, <3>4
  <2>2. \A b, c \in Blocks : Apart(b, c)' BY <1>1 DEF Inv, PlacesInv, Apart, txVars
  <2>3. QED BY <2>1, <2>2 DEF PlacesInv
<1>14. RunningInv'
  <2>1. NoCommitCells'
    <3>1. \A p \in End + 1 .. Len(logFile) : logFile'[p][1] # "commit"
      <4>1. \A p \in End + 1 .. Len(logFile) : p \in 1 .. Len(logFile) BY <1>1
      <4>2. <<"data", v>>[1] # "commit" OBVIOUS
      <4>3. QED BY <1>1, <1>2, <4>1, <4>2 DEF NoCommitIn
    <3>2. \A p \in 1 .. Len(buffer) : buffer'[p][1] # "commit"
      <4>1. <<"data", v>>[1] # "commit" OBVIOUS
      <4>2. QED BY <1>1, <1>2, <4>1 DEF NoCommitIn
    <3>3. QED BY <1>2, <1>5, <3>1, <3>2 DEF NoCommitCells
  <2>2. ASSUME failed' = {} PROVE Ready(Whole, TxScan)'
    <3> DEFINE W == Whole'
    <3>1. Ready(Whole, TxScan) BY <1>1, <2>2 DEF Inv, RunningInv
    <3>2. TxScan' = TxScan BY <1>4 DEF TxScan, txVars, indexVars
    <3>3. TxScan.offset = LogSize BY DEF TxScan
    <3>4. ASSUME NEW q \in 1 .. LogSize PROVE SameCell(W[q], Whole[q])
      <4>1. W[q] = NextCell(q - 1) /\ Whole[q] = CellAt(q - 1) BY <1>4, NextCells
      <4>2. q - 1 \in Nat /\ q - 1 < LogSize BY <1>1
      <4>3. NextCell(q - 1) = CellAt(q - 1)
            \/ ((q - 1 = pos \/ q - 1 = pos + 1) /\ NextCell(q - 1) = <<"data", v>>)
        BY <1>2, <4>2
      <4>4. QED BY <1>3, <4>1, <4>3 DEF SameCell
    <3> HIDE DEF W
    <3>5. Ready(W, TxScan)
      <4>1. Alike(W, Whole, TxScan.offset) BY <3>3, <3>4 DEF Alike
      <4>2. QED BY <1>1, <3>1, <4>1, ReadyAlike
    <3>6. Ready(W, TxScan') BY <3>2, <3>5
    <3>7. QED BY <3>6 DEF W
  <2>3. QED BY <2>1, <2>2 DEF RunningInv
<1>15. QED BY <1>8, <1>9, <1>10, <1>11, <1>12, <1>13, <1>14, <1>16 DEF Inv

\* write() overwrites the block where it is in the log.
LEMMA RewriteInv ==
  ASSUME Inv, Setting, UNCHANGED m_sync_on_commit, NEW i \in Blocks, NEW v \in Values,
         Rewrite(i, v)
  PROVE  /\ Inv' /\ Committed' = Committed
         /\ Rewritten(m_uncommitted_block_positions[i], v) /\ UNCHANGED m_buffer_offset
         /\ NextCell(m_uncommitted_block_positions[i]) = <<"data", v>>
         /\ NextCell(m_uncommitted_block_positions[i] + 1) = <<"data", v>>
         /\ logDisk' = logDisk
<1> DEFINE pos == m_uncommitted_block_positions[i]
           off == m_buffer_offset
           d == BlockData(v)
           n == IF pos >= off THEN 0 ELSE IF pos + 2 > off THEN off - pos ELSE 2
           x == <<"data", v>>
<1>1. d \in Logs /\ Len(d) = 2 /\ d[1] = x /\ d[2] = x BY WriteCells
<1>2. /\ InTransaction /\ pos # 0
      /\ IF n = 0 THEN UNCHANGED fileVars ELSE FileWrite(pos, SubSeq(d, 1, n))
      /\ buffer' = IF n = 2 THEN buffer ELSE Overwrite(buffer, pos + n - off, SubSeq(d, n + 1, 2))
      /\ UNCHANGED <<m_buffer_offset, pc>> /\ failed' = failed
      /\ UNCHANGED txVars /\ UNCHANGED indexVars
  BY <1>1 DEF Rewrite, Repaired, Setting
<1> HIDE DEF d
<1>3. /\ End \in Nat /\ End <= off /\ logFile \in Logs /\ buffer \in Logs /\ off \in Nat /\ ~LogGone
      /\ Len(logFile) \in Nat /\ Len(buffer) \in Nat /\ off <= Len(logFile)
      /\ LogSize \in Nat /\ LogSize = off + Len(buffer) /\ None \notin failed
      /\ NoCommitIn(logFile, End + 1) /\ m_in_transaction /\ End = m_transaction_begin
      /\ pos \in Nat
  BY <1>2, RunningState
<1>4. pos > End /\ pos + 2 <= LogSize BY <1>2, <1>3 DEF Inv, PlacesInv, PlaceOK
<1>5. /\ n \in 0 .. 2 /\ pos + n <= LogSize
      /\ n > 0 => pos + n <= off /\ pos <= Len(logFile) /\ pos + n <= Len(logFile)
      /\ n < 2 => pos + n >= off
  BY <1>3, <1>4
<1> HIDE DEF n
<1>6. logDisk' = logDisk
  <2>1. CASE n = 0 BY <1>2, <2>1 DEF fileVars
  <2>2. CASE n # 0
    <3>1. MayLand(pos, SubSeq(d, 1, n)) BY <1>2, <2>2 DEF FileWrite
    <3>2. \A p \in 1 .. n : d[p][1] # "commit"
      <4>1. \A p \in 1 .. n : p = 1 \/ p = 2 BY <1>5
      <4>2. x[1] # "commit" OBVIOUS
      <4>3. QED BY <1>1, <4>1, <4>2
    <3>3. \A p \in End + 1 .. Len(logFile) : logFile[p][1] # "commit" BY <1>3 DEF NoCommitIn
    <3>4. n \in Nat /\ n <= Len(d) /\ pos >= End /\ pos <= Len(logFile) BY <1>1, <1>3, <1>4, <1>5, <2>2
    <3>5. QED BY <1>1, <1>3, <3>1, <3>2, <3>3, <3>4, LandedCut
  <2>3. QED BY <2>1, <2>2
<1>7. /\ logFile' \in Logs /\ Len(logFile') = Len(logFile)
      /\ \A p \in 1 .. Len(logFile) :
           logFile'[p] = IF p > pos /\ p <= pos + n THEN x ELSE logFile[p]
  <2>1. CASE n = 0 BY <1>2, <1>3, <2>1 DEF fileVars
  <2>2. CASE n # 0
    <3> DEFINE e == SubSeq(d, 1, n)
    <3>1. e \in Logs /\ Len(e) = n /\ \A p \in 1 .. Len(e) : e[p] = x
      <4>1. e \in Logs /\ Len(e) = n - 1 + 1 /\ \A p \in 1 .. n - 1 + 1 : e[p] = x
        <5>1. 1 \in 1 .. 3 /\ n \in 0 .. 2 /\ 1 <= n + 1 BY <1>5
        <5>2. QED BY <5>1, DataPart DEF d
      <4>2. n - 1 + 1 = n BY <1>5
      <4>3. QED BY <4>1, <4>2
    <3>2. logFile' = Overwrite(logFile, pos, e) BY <1>2, <2>2 DEF FileWrite
    <3> HIDE DEF e, x
    <3>3. pos + Len(e) <= Len(logFile) BY <1>5, <2>2, <3>1
    <3>4. OverwrittenAs(Overwrite(logFile, pos, e), logFile, pos, Len(e), x)
      BY <1>3, <3>1, <3>3, OverwrittenBy
    <3>5. OverwrittenAs(logFile', logFile, pos, n, x) BY <3>1, <3>2, <3>4
    <3>6. QED BY <3>5 DEF OverwrittenAs
  <2>3. QED BY <2>1, <2>2
<1>8. /\ buffer' \in Logs /\ Len(buffer') = Len(buffer)
      /\ \A p \in 1 .. Len(buffer) :
           buffer'[p] = IF n < 2 /\ p > pos + n - off /\ p <= pos + 2 - off THEN x ELSE buffer[p]
  <2>1. CASE n = 2 BY <1>2, <1>3, <2>1
  <2>2. CASE n # 2
    <3> DEFINE e == SubSeq(d, n + 1, 2)
               q == pos + n - off
    <3>1. e \in Logs /\ Len(e) = 2 - n /\ \A p \in 1 .. Len(e) : e[p] = x
      <4>1. e \in Logs /\ Len(e) = 2 - (n + 1) + 1 /\ \A p \in 1 .. 2 - (n + 1) + 1 : e[p] = x
        <5>1. n + 1 \in 1 .. 3 /\ 2 \in 0 .. 2 /\ n + 1 <= 2 + 1 BY <1>5
        <5>2. QED BY <5>1, DataPart DEF d
      <4>2. 2 - (n + 1) + 1 = 2 - n BY <1>5
      <4>3. QED BY <4>1, <4>2
    <3>2. buffer' = Overwrite(buffer, q, e) BY <1>2, <2>2
    <3>3. q \in Nat /\ n < 2 /\ q + (2 - n) <= Len(buffer) /\ q + (2 - n) = pos + 2 - off
      <4>1. n = 0 \/ n = 1 BY <1>5, <2>2
      <4>2. pos + n >= off BY <1>5, <4>1
      <4>3. q \in Nat BY <1>3, <4>1, <4>2
      <4>4. q + (2 - n) = pos + 2 - off /\ pos + 2 - off <= Len(buffer)
        <5>1. pos + 2 <= off + Len(buffer) BY <1>3, <1>4
        <5>2. pos + 2 - off <= Len(buffer) BY <1>3, <5>1
        <5>3. pos \in Int /\ n \in Int /\ off \in Int BY <1>3, <4>1
        <5>4. q + (2 - n) = pos + 2 - off BY <5>3
        <5>5. QED BY <5>2, <5>4
      <4>5. QED BY <4>1, <4>3, <4>4
    <3> HIDE DEF e, x, q
    <3>4. /\ buffer' \in Logs /\ Len(buffer') = Len(buffer)
          /\ \A p \in 1 .. Len(buffer) : buffer'[p] = IF p > q /\ p <= q + Len(e) THEN x ELSE buffer[p]
      <4>1. q + Len(e) <= Len(buffer) BY <3>1, <3>3
      <4>2. OverwrittenAs(Overwrite(buffer, q, e), buffer, q, Len(e), x)
        BY <1>3, <3>1, <3>3, <4>1, OverwrittenBy
      <4>3. OverwrittenAs(buffer', buffer, q, Len(e), x) BY <3>2, <4>2
      <4>4. QED BY <4>3 DEF OverwrittenAs
    <3>5. q + Len(e) = pos + 2 - off BY <3>1, <3>3
    <3>6. QED BY <3>3, <3>4, <3>5 DEF q
  <2>3. QED BY <2>1, <2>2
<1>9. /\ Rewritten(pos, v)
      /\ n > 0 => NextCell(pos) = <<"data", v>>
      /\ n = 2 => NextCell(pos + 1) = <<"data", v>>
      /\ (n < 2) /\ n = 0 => NextCell(pos) = <<"data", v>>
      /\ (n < 2) /\ n <= 1 => NextCell(pos + 1) = <<"data", v>>
  <2>1. PICK w \in BOOLEAN : w <=> n < 2 OBVIOUS
  <2>2. \A p \in 1 .. Len(buffer) :
          buffer'[p] = IF w /\ p > pos + n - off /\ p <= pos + 2 - off THEN x ELSE buffer[p]
    BY <1>8, <2>1
  <2>3. w => pos + n >= off /\ pos + 2 <= LogSize BY <1>4, <1>5, <2>1
  <2>4. n > 0 => pos + n <= off BY <1>5
  <2>5. TypeOK BY DEF Inv
  <2>6. /\ Rewritten(pos, v)
        /\ n > 0 => NextCell(pos) = <<"data", v>>
        /\ n = 2 => NextCell(pos + 1) = <<"data", v>>
        /\ w /\ n = 0 => NextCell(pos) = <<"data", v>>
        /\ w /\ n <= 1 => NextCell(pos + 1) = <<"data", v>>
    BY <1>2, <1>3, <1>5, <1>7, <1>8, <2>2, <2>3, <2>4, <2>5, RewrittenCells
  <2>7. QED BY <2>1, <2>6
<1>10. NextCell(pos) = x /\ NextCell(pos + 1) = x
  <2>1. n = 0 \/ n = 1 \/ n = 2 BY <1>5
  <2>2. QED BY <1>9, <2>1
<1>11. Inv' /\ Committed' = Committed
  <2>1. failed \subseteq failed' /\ failed' \subseteq Blocks \cup {None} /\ None \notin failed'
    BY <1>2, <1>3 DEF Inv, TypeOK
  <2>2. QED BY <1>2, <1>6, <1>9, <1>10, <2>1, RewrittenInv
<1>12. QED BY <1>2, <1>6, <1>9, <1>10, <1>11

\* An overwrite that fails.
LEMMA RewriteFailsInv ==
  ASSUME Inv, Setting, UNCHANGED m_sync_on_commit, NEW i \in Blocks, NEW v \in Values,
         RewriteFails(i, v)
  PROVE  /\ Inv' /\ Committed' = Committed
         /\ Rewritten(m_uncommitted_block_positions[i], v) /\ UNCHANGED m_buffer_offset
         /\ logDisk' = logDisk
<1> DEFINE pos == m_uncommitted_block_positions[i]
           off == m_buffer_offset
           d == BlockData(v)
           n == IF pos + 2 > off THEN off - pos ELSE 2
           x == <<"data", v>>
<1>1. d \in Logs /\ Len(d) = 2 /\ d[1] = x /\ d[2] = x BY WriteCells
<1>2. /\ InTransaction /\ pos # 0 /\ pos < off
      /\ FileWriteFails(pos, SubSeq(d, 1, n))
      /\ failed' = failed \cup {i}
      /\ UNCHANGED pc /\ UNCHANGED bufferVars /\ UNCHANGED txVars /\ UNCHANGED indexVars
  BY <1>1 DEF RewriteFails
<1> HIDE DEF d
<1>3. /\ End \in Nat /\ End <= off /\ logFile \in Logs /\ buffer \in Logs /\ off \in Nat /\ ~LogGone
      /\ Len(logFile) \in Nat /\ Len(buffer) \in Nat /\ off <= Len(logFile)
      /\ LogSize \in Nat /\ LogSize = off + Len(buffer) /\ None \notin failed
      /\ NoCommitIn(logFile, End + 1) /\ m_in_transaction /\ End = m_transaction_begin
      /\ pos \in Nat
  BY <1>2, RunningState
<1>4. pos > End /\ pos + 2 <= LogSize BY <1>2, <1>3 DEF Inv, PlacesInv, PlaceOK
<1>5. n \in 1 .. 2 /\ pos + n <= off /\ pos <= Len(logFile) /\ n <= Len(d) BY <1>1, <1>2, <1>3
<1> HIDE DEF n
<1>6. logDisk' = logDisk
  <2>1. MayLand(pos, SubSeq(d, 1, n)) BY <1>2 DEF FileWriteFails
  <2>2. \A p \in 1 .. n : d[p][1] # "commit"
    <3>1. \A p \in 1 .. n : p = 1 \/ p = 2 BY <1>5
    <3>2. x[1] # "commit" OBVIOUS
    <3>3. QED BY <1>1, <3>1, <3>2
  <2>3. \A p \in End + 1 .. Len(logFile) : logFile[p][1] # "commit" BY <1>3 DEF NoCommitIn
  <2>4. n \in Nat /\ pos >= End BY <1>3, <1>4, <1>5
  <2>5. QED BY <1>1, <1>3, <1>5, <2>1, <2>2, <2>3, <2>4, LandedCut
<1>7. PICK k \in 0 .. n : logFile' = Overwrite(logFile, pos, SubSeq(d, 1, k))
  <2> DEFINE e == SubSeq(d, 1, n)
  <2>1. Len(e) = n BY <1>1, <1>5, PrefixOfLog
  <2>2. PICK k \in 0 .. Len(e) - 1 : logFile' = Overwrite(logFile, pos, SubSeq(e, 1, k))
    BY <1>2 DEF FileWriteFails
  <2>3. k \in 0 .. n /\ k \in Nat /\ n \in Nat /\ k <= n BY <1>5, <2>1
  <2>4. SubSeq(e, 1, k) = SubSeq(d, 1, k) BY <1>1, <1>5, <2>3, PrefixOfPrefix
  <2>5. QED BY <2>2, <2>3, <2>4
<1>8. /\ logFile' \in Logs /\ Len(logFile') = Len(logFile)
      /\ \A p \in 1 .. Len(logFile) :
           logFile'[p] = IF p > pos /\ p <= pos + k THEN x ELSE logFile[p]
  <2> DEFINE e == SubSeq(d, 1, k)
  <2>1. e \in Logs /\ Len(e) = k /\ \A p \in 1 .. Len(e) : e[p] = x
    <3>1. e \in Logs /\ Len(e) = k - 1 + 1 /\ \A p \in 1 .. k - 1 + 1 : e[p] = x
      <4>1. 1 \in 1 .. 3 /\ k \in 0 .. 2 /\ 1 <= k + 1 BY <1>5
      <4>2. QED BY <4>1, DataPart DEF d
    <3>2. k - 1 + 1 = k BY <1>5
    <3>3. QED BY <3>1, <3>2
  <2>2. logFile' = Overwrite(logFile, pos, e) BY <1>7
  <2> HIDE DEF e, x
  <2>3. pos + Len(e) <= Len(logFile) BY <1>3, <1>5, <2>1
  <2>4. OverwrittenAs(Overwrite(logFile, pos, e), logFile, pos, Len(e), x)
    BY <1>3, <2>1, <2>3, OverwrittenBy
  <2>5. OverwrittenAs(logFile', logFile, pos, k, x) BY <2>1, <2>2, <2>4
  <2>6. QED BY <2>5 DEF OverwrittenAs
<1>9. Rewritten(pos, v)
  <2>1. buffer' = buffer /\ m_buffer_offset' = m_buffer_offset BY <1>2 DEF bufferVars
  <2>2. k \in 0 .. 2 /\ (k > 0 => pos + k <= off) BY <1>3, <1>5
  <2>3. TypeOK BY DEF Inv
  <2>4. \A p \in 1 .. Len(buffer) :
          buffer'[p] = IF FALSE /\ p > pos + 0 - off /\ p <= pos + 2 - off THEN x ELSE buffer[p]
    BY <2>1
  <2>5. QED BY <1>3, <1>8, <2>1, <2>2, <2>3, <2>4, RewrittenCells
<1>10. Inv' /\ Committed' = Committed
  <2>1. failed \subseteq failed' /\ failed' \subseteq Blocks \cup {None} /\ failed' # {}
    BY <1>2 DEF Inv, TypeOK
  <2>2. None \notin failed' BY <1>2, <1>3, JournalAssumption
  <2>3. UNCHANGED <<m_buffer_offset, pc>> BY <1>2 DEF bufferVars
  <2>4. QED BY <1>2, <1>6, <1>9, <2>1, <2>2, <2>3, RewrittenInv
<1>11. QED BY <1>2, <1>6, <1>9, <1>10 DEF bufferVars

-----------------------------------------------------------------------------
(* Commit.                                                                 *)

\* The file with the first k cells of the buffer and a commit record.
CommitFile(n, k) == FileWith(logFile, m_buffer_offset, buffer, CommitRecord(n), k)

FullLog(n) == CommitFile(n, Len(buffer) + 2)

\* A transaction that may commit.
LEMMA CommitState ==
  ASSUME Inv, Setting, MayCommit
  PROVE  /\ InTransaction /\ failed = {} /\ Len(logFile) = m_buffer_offset
         /\ Ready(Whole, TxScan)
<1>1. InTransaction /\ failed = {} BY DEF MayCommit, Setting
<1>2. pc = "idle" /\ m_in_transaction /\ ~LogGone BY <1>1, RunningState
<1>3. QED BY <1>1, <1>2 DEF Inv, LayoutInv, RunningInv

\* It is the transaction's log and then the record.
LEMMA CommitFileCells ==
  ASSUME Inv, Setting, MayCommit, NEW n \in Sizes, NEW k \in Nat, k <= Len(buffer) + 2
  PROVE  /\ CommitFile(n, k) \in Logs /\ Len(CommitFile(n, k)) = m_buffer_offset + k
         /\ \A p \in 1 .. m_buffer_offset + k :
              CommitFile(n, k)[p] = IF p <= LogSize THEN Whole[p] ELSE CommitRecord(n)[p - LogSize]
<1> DEFINE d == CommitRecord(n)
           a == buffer
           f == logFile
           off == m_buffer_offset
           u == Len(a) + 2
           o == FileWith(f, off, a, d, k)
<1>1. d \in Logs /\ Len(d) = 2 BY MarkCells
<1>2. /\ f \in Logs /\ a \in Logs /\ off \in Nat /\ Len(a) \in Nat /\ Len(f) = off
      /\ LogSize = off + Len(a) /\ LogSize \in Nat /\ k <= Len(a) + 2
  BY CommitState, RunningState
<1>3. \A p \in 1 .. off : Whole[p] = f[p]
  <2>1. ASSUME NEW p \in 1 .. off PROVE Whole[p] = f[p]
    <3>1. p \in 1 .. LogSize /\ p - 1 < off /\ p - 1 < Len(f) /\ p - 1 + 1 = p BY <1>2
    <3>2. Whole[p] = CellAt(p - 1) BY <3>1, NextCells
    <3>3. QED BY <3>1, <3>2 DEF CellAt, At
  <2>2. QED BY <2>1
<1>4. \A p \in off + 1 .. LogSize : Whole[p] = a[p - off]
  <2>1. ASSUME NEW p \in off + 1 .. LogSize PROVE Whole[p] = a[p - off]
    <3>1. /\ p \in 1 .. LogSize /\ ~(p - 1 < off) /\ p - 1 - off < Len(a) /\ p - 1 - off + 1 = p - off
      BY <1>2
    <3>2. Whole[p] = CellAt(p - 1) BY <3>1, NextCells
    <3>3. QED BY <3>1, <3>2 DEF CellAt, At
  <2>2. QED BY <2>1
<1> HIDE DEF d, f, a, off
<1>5. /\ o \in Logs /\ Len(o) = off + k
      /\ \A p \in 1 .. off : o[p] = f[p]
      /\ \A p \in off + 1 .. Len(o) : IF p <= off + k THEN o[p] = Joint(a, d, p - off)
                                      ELSE p <= Len(f) /\ o[p] = f[p]
  <2>1. /\ off <= Len(f) /\ 0 <= k /\ k <= u /\ Len(a) <= u /\ u <= Len(a) + Len(d) /\ u \in Nat
    BY <1>1, <1>2
  <2> HIDE DEF u
  <2>2. AppendResult(f, off, a, d, 0, k, u) BY <1>1, <1>2, <2>1, AppendCells
  <2>3. QED BY <1>2, <2>2 DEF AppendResult
<1> HIDE DEF o
<1>6. ASSUME NEW p \in 1 .. off + k
      PROVE  o[p] = IF p <= LogSize THEN Whole[p] ELSE d[p - LogSize]
  <2>1. CASE p <= off
    <3>1. p \in 1 .. off /\ p <= LogSize BY <1>2, <2>1
    <3>2. QED BY <1>3, <1>5, <3>1
  <2>2. CASE p > off
    <3>1. p \in off + 1 .. Len(o) /\ p <= off + k BY <1>2, <1>5, <2>2
    <3>2. o[p] = Joint(a, d, p - off) BY <1>5, <3>1
    <3>3. CASE p <= LogSize
      <4>1. p \in off + 1 .. LogSize /\ p - off <= Len(a) BY <1>2, <2>2, <3>3
      <4>2. QED BY <1>4, <3>2, <3>3, <4>1 DEF Joint
    <3>4. CASE ~(p <= LogSize)
      <4>1. ~(p - off <= Len(a)) /\ p - off - Len(a) = p - LogSize BY <1>2, <3>4
      <4>2. QED BY <3>2, <3>4, <4>1 DEF Joint
    <3>5. QED BY <3>3, <3>4
  <2>3. QED BY <1>2, <2>1, <2>2
<1>7. o = CommitFile(n, k) BY DEF CommitFile, o, f, off, a, d
<1>8. QED BY <1>5, <1>6, <1>7 DEF off, d

\* The state of a scan behind a commit record.
LEMMA ScanAfterCommit ==
  ASSUME NEW s \in Scanners, NEW n, NEW P
  PROVE  [s EXCEPT !.active = FALSE, !.offset = @ + 2, !.good = s.offset + 2, !.size = n,
                   !.positions = P] =
           [offset |-> s.offset + 2, good |-> s.offset + 2, active |-> FALSE,
            written |-> s.written, positions |-> P, size |-> n]
<1>1. PICK t : t = [s EXCEPT !.active = FALSE, !.offset = @ + 2, !.good = s.offset + 2,
                             !.size = n, !.positions = P]
  OBVIOUS
<1>2. t = [offset |-> s.offset + 2, good |-> s.offset + 2, active |-> FALSE,
           written |-> s.written, positions |-> P, size |-> n]
  BY <1>1 DEF Scanners
<1>3. QED BY <1>1, <1>2

\* A log that holds all of a committed block's data keeps it when it grows.
LEMMA HoldsLonger ==
  ASSUME NEW c \in Logs, NEW x \in Logs, Len(c) <= Len(x), \A p \in 1 .. Len(c) : x[p] = c[p],
         NEW pos \in Nat, Holds(c, pos)
  PROVE  Holds(x, pos)
<1>1. Len(c) \in Nat /\ Len(x) \in Nat BY DEF Logs
<1>2. SUFFICES ASSUME pos # 0
               PROVE  /\ pos + 2 <= Len(x)
                      /\ x[pos + 1][1] = "data" /\ x[pos + 2][1] = "data"
                      /\ x[pos + 1][2] = x[pos + 2][2] /\ x[pos + 1][2] \in Values
  BY DEF Holds
<1>3. pos + 2 <= Len(c) BY <1>2 DEF Holds
<1>4. x[pos + 1] = c[pos + 1] /\ x[pos + 2] = c[pos + 2] /\ pos + 2 <= Len(x) BY <1>1, <1>3
<1>5. QED BY <1>2, <1>4 DEF Holds

\* With its commit record the transaction is complete.
LEMMA FullLogComplete ==
  ASSUME Inv, Setting, MayCommit, NEW n \in Sizes
  PROVE  /\ FullLog(n) \in Logs /\ Len(FullLog(n)) = LogSize + 2
         /\ Complete(FullLog(n)) /\ Restored(FullLog(n)) = FullLog(n)
         /\ Restore(FullLog(n)).positions =
              MergedPositions(m_uncommitted_block_positions, m_block_positions, n)
         /\ Restore(FullLog(n)).size = n
         /\ \A p \in 1 .. LogSize : FullLog(n)[p] = Whole[p]
<1> DEFINE F == FullLog(n)
           P == MergedPositions(m_uncommitted_block_positions, m_block_positions, n)
           s == TxScan
           t == [offset |-> LogSize + 2, good |-> LogSize + 2, active |-> FALSE,
                 written |-> m_uncommitted_block_positions, positions |-> P, size |-> n]
<1>1. /\ LogSize \in Nat /\ LogSize = m_buffer_offset + Len(buffer) /\ Len(buffer) \in Nat
      /\ s \in Scanners /\ Ready(Whole, s) /\ Len(logFile) = m_buffer_offset /\ failed = {}
      /\ m_in_transaction /\ ~LogGone /\ End \in Nat /\ End <= m_buffer_offset
      /\ m_buffer_offset \in Nat /\ logFile \in Logs
      /\ m_uncommitted_block_positions \in [Blocks -> Nat]
  BY CommitState, RunningState
<1>2. CommitRecord(n)[1] = <<"commit", 0>> /\ CommitRecord(n)[2] = <<"size", n>> BY MarkCells
<1>3. /\ F \in Logs /\ Len(F) = LogSize + 2
      /\ \A p \in 1 .. LogSize + 2 : F[p] = IF p <= LogSize THEN Whole[p]
                                            ELSE CommitRecord(n)[p - LogSize]
  <2> DEFINE k == Len(buffer) + 2
  <2>1. k \in Nat /\ k <= Len(buffer) + 2 /\ m_buffer_offset + k = LogSize + 2 BY <1>1
  <2>2. F = CommitFile(n, k) BY DEF FullLog
  <2> HIDE DEF k, F
  <2>3. /\ CommitFile(n, k) \in Logs /\ Len(CommitFile(n, k)) = m_buffer_offset + k
        /\ \A p \in 1 .. m_buffer_offset + k :
             CommitFile(n, k)[p] = IF p <= LogSize THEN Whole[p] ELSE CommitRecord(n)[p - LogSize]
    BY <2>1, CommitFileCells
  <2>4. QED BY <2>1, <2>2, <2>3
<1> HIDE DEF F
<1>4. F[LogSize + 1] = <<"commit", 0>> /\ F[LogSize + 2] = <<"size", n>>
  <2>1. /\ LogSize + 1 \in 1 .. LogSize + 2 /\ LogSize + 2 \in 1 .. LogSize + 2
        /\ ~(LogSize + 1 <= LogSize) /\ ~(LogSize + 2 <= LogSize)
        /\ LogSize + 1 - LogSize = 1 /\ LogSize + 2 - LogSize = 2
    BY <1>1
  <2>2. /\ F[LogSize + 1] = CommitRecord(n)[LogSize + 1 - LogSize]
        /\ F[LogSize + 2] = CommitRecord(n)[LogSize + 2 - LogSize]
    BY <1>1, <1>3, <2>1
  <2>3. QED BY <1>2, <2>1, <2>2
<1>5. \A p \in 1 .. LogSize : F[p] = Whole[p] BY <1>1, <1>3
<1>6. /\ s.offset = LogSize /\ s.active = TRUE /\ s.written = m_uncommitted_block_positions
      /\ s.positions = m_block_positions
  BY DEF TxScan
<1> HIDE DEF s
<1>7. n \in Nat BY JournalAssumption
<1>8. Ready(F, t)
  <2>1. Alike(F, Whole, s.offset) BY <1>5, <1>6 DEF Alike, SameCell
  <2>2. Ready(F, s) BY <1>1, <2>1, ReadyAlike
  <2> DEFINE y == [s EXCEPT !.active = FALSE, !.offset = @ + 2, !.good = s.offset + 2, !.size = n,
                            !.positions = MergedPositions(s.written, s.positions, n)]
  <2>3. Ready(F, y) BY <1>1, <1>4, <1>6, <1>7, <2>2, ReadyCommit
  <2>4. y = [offset |-> s.offset + 2, good |-> s.offset + 2, active |-> FALSE,
             written |-> s.written, positions |-> MergedPositions(s.written, s.positions, n), size |-> n]
    BY <1>1, ScanAfterCommit
  <2> HIDE DEF y, P
  <2>5. y = t BY <1>6, <2>4 DEF P
  <2>6. QED BY <2>3, <2>5
<1>9. P \in [Blocks -> Nat]
  BY <1>1 DEF MergedPositions, Inv, TypeOK
<1> HIDE DEF P
<1>10. t \in Scanners BY <1>1, <1>7, <1>9 DEF Scanners
<1>11. t.offset = LogSize + 2 /\ t.good = LogSize + 2 /\ t.active = FALSE /\ t.positions = P /\ t.size = n
  OBVIOUS
<1> HIDE DEF t
<1>12. Restore(F) = t
  <2>1. Restore(F) = Scan(F)[t] BY <1>3, <1>8, <1>11, <1>1 DEF Ready, Alike, SameCell
  <2>2. ScanEnds(F, t) BY <1>1, <1>3, <1>11 DEF ScanEnds
  <2>3. QED BY <1>3, <1>10, <2>1, <2>2, ScanDefined
<1>13. ASSUME NEW b \in Blocks PROVE Holds(F, P[b])
  <2> DEFINE w == m_uncommitted_block_positions[b]
  <2>1. P[b] = IF b >= n THEN 0 ELSE IF w # 0 THEN w ELSE m_block_positions[b]
    BY DEF P, MergedPositions
  <2>2. CASE P[b] = 0 BY <2>2 DEF Holds
  <2>3. CASE P[b] = w /\ w # 0
    <3>1. /\ w \in Nat /\ w + 2 <= LogSize
          /\ CellAt(w)[1] = "data" /\ CellAt(w + 1)[1] = "data"
          /\ CellAt(w)[2] \in Values /\ CellAt(w)[2] = CellAt(w + 1)[2]
      BY <1>1, <2>3 DEF Inv, PlacesInv, PlaceOK
    <3>2. w + 1 \in 1 .. LogSize /\ w + 2 \in 1 .. LogSize /\ w + 2 - 1 = w + 1 /\ w + 1 - 1 = w
      BY <1>1, <3>1
    <3> HIDE DEF w
    <3>3. Whole[w + 1] = CellAt(w + 1 - 1) /\ Whole[w + 2] = CellAt(w + 2 - 1) BY <3>1, <3>2, NextCells
    <3>4. F[w + 1] = CellAt(w) /\ F[w + 2] = CellAt(w + 1) BY <1>5, <3>2, <3>3
    <3>5. w + 2 <= Len(F) BY <1>1, <1>3, <3>1
    <3>6. Holds(F, w) BY <3>1, <3>4, <3>5 DEF Holds
    <3>7. QED BY <2>3, <3>6
  <2>4. CASE P[b] = m_block_positions[b]
    <3>1. Complete(Committed) /\ Restore(Committed).positions = m_block_positions
      BY <1>1 DEF Inv, IndexInv
    <3>2. Committed \in Logs /\ Holds(Committed, m_block_positions[b]) BY <3>1 DEF Complete
    <3>3. Len(Committed) = End /\ \A p \in 1 .. End : Committed[p] = logFile[p]
      BY <1>1, PrefixOfLog DEF Committed
    <3>4. ASSUME NEW p \in 1 .. End PROVE F[p] = Committed[p]
      <4>1. p \in 1 .. LogSize /\ p - 1 < m_buffer_offset /\ p - 1 < Len(logFile) /\ p - 1 + 1 = p
        BY <1>1
      <4>2. F[p] = CellAt(p - 1) BY <1>5, <4>1, NextCells
      <4>3. CellAt(p - 1) = logFile[p] BY <4>1 DEF CellAt, At
      <4>4. QED BY <3>3, <4>2, <4>3
    <3>5. m_block_positions[b] \in Nat BY DEF Inv, TypeOK
    <3>6. Len(Committed) <= Len(F) BY <1>1, <1>3, <3>3
    <3>7. QED BY <1>3, <2>4, <3>2, <3>3, <3>4, <3>5, <3>6, HoldsLonger
  <2>5. QED BY <2>1, <2>2, <2>3, <2>4
<1>14. Complete(F) BY <1>3, <1>8, <1>11, <1>12, <1>13 DEF Complete
<1>15. Restored(F) = F
  <2>1. SubSeq(F, 1, LogSize + 2) = F BY <1>1, <1>3 DEF Logs
  <2>2. QED BY <1>11, <1>12, <2>1 DEF Restored
<1>16. QED BY <1>3, <1>5, <1>11, <1>12, <1>14, <1>15 DEF F, P

\* Without the last cell of the commit record the transaction is cut off.
LEMMA CommitCut ==
  ASSUME Inv, Setting, MayCommit, NEW n \in Sizes, NEW k \in Nat, k <= Len(buffer) + 1
  PROVE  Restored(CommitFile(n, k)) = Committed
<1> DEFINE x == CommitFile(n, k)
           s == TxScan
<1>1. /\ LogSize \in Nat /\ LogSize = m_buffer_offset + Len(buffer) /\ Len(buffer) \in Nat
      /\ s \in Scanners /\ Ready(Whole, s) /\ Len(logFile) = m_buffer_offset
      /\ ~LogGone /\ End \in Nat /\ End <= m_buffer_offset /\ End = m_transaction_begin
      /\ m_buffer_offset \in Nat /\ logFile \in Logs /\ buffer \in Logs
      /\ NoCommitIn(logFile, End + 1) /\ NoCommitIn(buffer, 1)
  BY CommitState, RunningState
<1>2. /\ x \in Logs /\ Len(x) = m_buffer_offset + k
      /\ \A p \in 1 .. m_buffer_offset + k :
           x[p] = IF p <= LogSize THEN Whole[p] ELSE CommitRecord(n)[p - LogSize]
  <2>1. k <= Len(buffer) + 2 BY <1>1
  <2>2. QED BY <2>1, CommitFileCells
<1> HIDE DEF x
<1>3. \A p \in 1 .. m_buffer_offset : x[p] = logFile[p]
  <2>1. ASSUME NEW p \in 1 .. m_buffer_offset PROVE x[p] = logFile[p]
    <3>1. /\ p \in 1 .. LogSize /\ p \in 1 .. m_buffer_offset + k /\ p <= LogSize
          /\ p - 1 < m_buffer_offset /\ p - 1 < Len(logFile) /\ p - 1 + 1 = p
      BY <1>1
    <3>2. x[p] = CellAt(p - 1) BY <1>2, <3>1, NextCells
    <3>3. QED BY <3>1, <3>2 DEF CellAt, At
  <2>2. QED BY <2>1
<1>4. /\ Complete(Committed) /\ Len(Committed) = End
      /\ \A p \in 1 .. End : Committed[p] = logFile[p] /\ x[p] = Committed[p]
  <2>1. Complete(Committed) BY <1>1 DEF Inv, IndexInv
  <2>2. Len(Committed) = End /\ \A p \in 1 .. End : Committed[p] = logFile[p]
    BY <1>1, PrefixOfLog DEF Committed
  <2>3. \A p \in 1 .. End : x[p] = logFile[p] BY <1>1, <1>3
  <2>4. QED BY <2>1, <2>2, <2>3
<1>5. CASE k <= Len(buffer)
  <2>1. ASSUME NEW p \in End + 1 .. Len(x) PROVE x[p][1] # "commit"
    <3>1. CASE p <= m_buffer_offset
      <4>1. p \in End + 1 .. Len(logFile) /\ x[p] = logFile[p] BY <1>1, <1>3, <3>1
      <4>2. QED BY <1>1, <4>1 DEF NoCommitIn
    <3>2. CASE p > m_buffer_offset
      <4> DEFINE q == p - m_buffer_offset
      <4>1. /\ p \in 1 .. LogSize /\ p \in 1 .. m_buffer_offset + k /\ p <= LogSize
            /\ ~(p - 1 < m_buffer_offset) /\ p - 1 - m_buffer_offset < Len(buffer)
            /\ p - 1 - m_buffer_offset + 1 = q /\ q \in 1 .. Len(buffer)
        BY <1>1, <1>2, <1>5, <3>2
      <4>2. x[p] = CellAt(p - 1) BY <1>2, <4>1, NextCells
      <4>3. CellAt(p - 1) = buffer[q] BY <4>1 DEF CellAt, At
      <4>4. QED BY <1>1, <4>1, <4>2, <4>3 DEF NoCommitIn
    <3>3. QED BY <1>1, <3>1, <3>2
  <2>2. Len(x) >= End BY <1>1, <1>2
  <2>3. QED BY <1>2, <1>4, <2>1, <2>2, CutOff DEF x
<1>6. CASE k = Len(buffer) + 1
  <2>1. Len(x) = LogSize + 1 BY <1>1, <1>2, <1>6
  <2>2. \A p \in 1 .. LogSize : x[p] = Whole[p] BY <1>1, <1>2, <1>6
  <2>3. s.offset = LogSize /\ s.active = TRUE /\ s.good = End BY <1>1 DEF TxScan
  <2> HIDE DEF s
  <2>4. Alike(x, Whole, s.offset) /\ Len(x) >= s.offset
    BY <1>1, <2>1, <2>2, <2>3 DEF Alike, SameCell
  <2>5. Restore(x) = Scan(x)[s] BY <1>1, <1>2, <2>4 DEF Ready
  <2>6. Kind(x, s.offset) = "commit"
    <3>1. /\ LogSize + 1 \in 1 .. m_buffer_offset + k /\ ~(LogSize + 1 <= LogSize)
          /\ LogSize + 1 - LogSize = 1 /\ LogSize < Len(x)
      BY <1>1, <1>6, <2>1
    <3>2. x[LogSize + 1] = CommitRecord(n)[LogSize + 1 - LogSize] BY <1>1, <1>2, <3>1
    <3>3. CommitRecord(n)[1] = <<"commit", 0>> BY MarkCells
    <3>4. QED BY <2>3, <3>1, <3>2, <3>3 DEF Kind, At
  <2>7. ScanEnds(x, s)
    <3>1. ~(s.offset + 2 <= Len(x)) BY <1>1, <2>1, <2>3
    <3>2. QED BY <2>3, <2>6, <3>1 DEF ScanEnds
  <2>8. Restore(x).good = End BY <1>1, <1>2, <2>3, <2>5, <2>7, ScanDefined
  <2>9. SubSeq(x, 1, End) = Committed
    <3>1. /\ SubSeq(x, 1, End) \in Logs /\ Len(SubSeq(x, 1, End)) = End
          /\ \A p \in 1 .. End : SubSeq(x, 1, End)[p] = x[p]
      <4>1. End <= Len(x) BY <1>1, <2>1
      <4>2. QED BY <1>1, <1>2, <4>1, PrefixOfLog
    <3>2. Committed \in Logs BY <1>4 DEF Complete
    <3>3. QED BY <1>4, <3>1, <3>2 DEF Logs
  <2>10. QED BY <2>8, <2>9 DEF Restored, x
<1>7. QED BY <1>1, <1>5, <1>6

\* What a power loss may leave of a commit.
LEMMA CommitDisk ==
  ASSUME Inv, Setting, MayCommit, NEW n \in Sizes, NEW m \in Nat, m <= Len(buffer) + 2,
         MayLand(m_buffer_offset, SubSeq(buffer \o CommitRecord(n), 1, m))
  PROVE  logDisk' = IF m = Len(buffer) + 2 THEN logDisk \cup {FullLog(n)} ELSE logDisk
<1> DEFINE d == CommitRecord(n)
           all == buffer \o d
           e == SubSeq(all, 1, m)
<1>1. /\ Len(buffer) \in Nat /\ buffer \in Logs /\ Committed \in logDisk
  <2>1. ~LogGone BY CommitState, RunningState
  <2>2. QED BY <2>1, CommitState, RunningState DEF Inv, IndexInv
<1>2. d \in Logs /\ Len(d) = 2 BY MarkCells
<1> HIDE DEF d
<1>3. all \in Logs /\ Len(all) = Len(buffer) + 2
  <2>1. all \in Logs /\ Len(all) = Len(buffer) + Len(d) BY <1>1, <1>2, Joined
  <2> HIDE DEF all
  <2>2. QED BY <1>2, <2>1
<1>4. Len(e) = m BY <1>3, PrefixOfLog
<1>5. \A k \in 0 .. m : Overwrite(logFile, m_buffer_offset, SubSeq(e, 1, k)) = CommitFile(n, k)
  <2>1. ASSUME NEW k \in 0 .. m
        PROVE  Overwrite(logFile, m_buffer_offset, SubSeq(e, 1, k)) = CommitFile(n, k)
    <3>1. SubSeq(e, 1, k) = SubSeq(all, 1, k) BY <1>3, PrefixOfPrefix
    <3>2. QED BY <3>1 DEF CommitFile, FileWith, d
  <2>2. QED BY <2>1
<1>6. logDisk' = logDisk \cup { Restored(c) : c \in Landed(logFile, m_buffer_offset, e) }
  BY DEF MayLand, d
<1> HIDE DEF e
<1>7. logDisk' = logDisk \cup { Restored(CommitFile(n, k)) : k \in 0 .. m }
  BY <1>4, <1>5, <1>6 DEF Landed, Setting
<1>8. \A k \in 0 .. m : k <= Len(buffer) + 1 => Restored(CommitFile(n, k)) = Committed
  BY CommitCut
<1>9. CASE m = Len(buffer) + 2
  <2>1. \A k \in 0 .. m : k <= Len(buffer) + 1 \/ k = m BY <1>1, <1>9
  <2>2. Restored(CommitFile(n, m)) = FullLog(n) BY <1>9, FullLogComplete DEF FullLog
  <2>3. m \in 0 .. m OBVIOUS
  <2>4. QED BY <1>1, <1>7, <1>8, <1>9, <2>1, <2>2, <2>3
<1>10. CASE m # Len(buffer) + 2
  <2>1. \A k \in 0 .. m : k <= Len(buffer) + 1 BY <1>1, <1>10
  <2>2. QED BY <1>1, <1>7, <1>8, <1>10, <2>1
<1>11. QED BY <1>9, <1>10

\* commit() writes its record and the rest of the buffer.
LEMMA CommitFlushInv ==
  ASSUME Inv, Setting, UNCHANGED m_sync_on_commit, NEW n \in Sizes, CommitFlush(n)
  PROVE  /\ Inv' /\ Committed' = Committed
         /\ \A p \in Nat : p < LogSize => NextCell(p) = CellAt(p)
         /\ logFile' = FullLog(n) /\ logDisk' = logDisk \cup {FullLog(n)}
         /\ m_buffer_offset' = LogSize + 2 /\ buffer' = << >>
<1> DEFINE d == CommitRecord(n)
           F == FullLog(n)
<1>1. /\ MayCommit /\ FileWrite(m_buffer_offset, buffer \o d)
      /\ m_buffer_offset' = LogSize + Len(d) /\ buffer' = << >>
      /\ pc' = "commit" /\ commitSize' = n /\ UNCHANGED failed
      /\ UNCHANGED txVars /\ UNCHANGED indexVars
  BY DEF CommitFlush, AppendAndFlush
<1>2. /\ LogSize \in Nat /\ LogSize = m_buffer_offset + Len(buffer) /\ Len(buffer) \in Nat
      /\ failed = {} /\ m_in_transaction /\ ~LogGone /\ pc = "idle"
      /\ End \in Nat /\ End <= m_buffer_offset /\ End = m_transaction_begin
      /\ m_buffer_offset \in Nat /\ logFile \in Logs /\ buffer \in Logs
      /\ Len(logFile) = m_buffer_offset
  BY <1>1, CommitState, RunningState
<1>3. d \in Logs /\ Len(d) = 2 BY MarkCells
<1>4. /\ F \in Logs /\ Len(F) = LogSize + 2 /\ Complete(F)
      /\ Restore(F).positions =
           MergedPositions(m_uncommitted_block_positions, m_block_positions, n)
      /\ Restore(F).size = n
      /\ \A p \in 1 .. LogSize : F[p] = Whole[p]
  BY <1>1, FullLogComplete
<1> HIDE DEF F
<1>5. buffer \o d = SubSeq(buffer \o d, 1, Len(buffer) + 2)
  <2> DEFINE all == buffer \o d
  <2>1. all \in Logs /\ Len(all) = Len(buffer) + Len(d) BY <1>2, <1>3, Joined
  <2> HIDE DEF all
  <2>2. Len(all) = Len(buffer) + 2 BY <1>3, <2>1
  <2>3. SubSeq(all, 1, Len(all)) = all BY <2>1 DEF Logs
  <2>4. QED BY <2>2, <2>3 DEF all
<1>6. logFile' = F BY <1>1, <1>5 DEF FileWrite, F, FullLog, CommitFile, FileWith
<1>7. logDisk' = logDisk \cup {F}
  <2> DEFINE m == Len(buffer) + 2
  <2>1. MayLand(m_buffer_offset, SubSeq(buffer \o d, 1, m)) BY <1>1, <1>5 DEF FileWrite
  <2>2. m \in Nat /\ m <= Len(buffer) + 2 BY <1>2
  <2>3. logDisk' = IF m = Len(buffer) + 2 THEN logDisk \cup {FullLog(n)} ELSE logDisk
    <3> HIDE DEF m
    <3>1. QED BY <1>1, <2>1, <2>2, CommitDisk
  <2>4. QED BY <2>3 DEF F
<1>8. m_buffer_offset' = LogSize + 2 /\ m_buffer_offset' \in Nat BY <1>1, <1>2, <1>3
<1>9. End' = End /\ m_in_transaction' /\ ~LogGone' BY <1>1, <1>2 DEF txVars, End, LogGone
<1>10. \A p \in 1 .. m_buffer_offset : F[p] = logFile[p]
  <2>1. ASSUME NEW p \in 1 .. m_buffer_offset PROVE F[p] = logFile[p]
    <3>1. /\ p \in 1 .. LogSize /\ p - 1 < m_buffer_offset /\ p - 1 < Len(logFile) /\ p - 1 + 1 = p
      BY <1>2
    <3>2. F[p] = CellAt(p - 1) BY <1>4, <3>1, NextCells
    <3>3. QED BY <3>1, <3>2 DEF CellAt, At
  <2>2. QED BY <2>1
<1>11. TypeOK'
  <2>1. buffer' \in Logs BY <1>1 DEF Logs
  <2>2. logDisk' \subseteq Logs BY <1>4, <1>7 DEF Inv, TypeOK
  <2>3. QED BY <1>1, <1>4, <1>6, <1>8, <2>1, <2>2 DEF Inv, TypeOK, txVars, indexVars
<1>12. LayoutInv'
  <2>1. Len(logFile') = m_buffer_offset' BY <1>4, <1>6, <1>8
  <2>2. End' <= m_buffer_offset' /\ m_buffer_offset' <= Len(logFile') BY <1>2, <1>8, <1>9, <2>1
  <2>3. Len(buffer') <= BufferCells BY <1>1, JournalAssumption
  <2>4. QED BY <1>1, <1>2, <1>9, <2>1, <2>2, <2>3 DEF LayoutInv
<1>21. Committed' = Committed
  <2>1. \A p \in 1 .. End : logFile'[p] = logFile[p] BY <1>2, <1>6, <1>10
  <2>2. End <= Len(logFile) /\ End <= Len(logFile') /\ logFile' \in Logs BY <1>2, <1>4, <1>6
  <2>3. QED BY <1>2, <1>9, <2>1, <2>2, CommittedKept
<1>13. IndexInv'
  <2>1. Committed \in logDisk' BY <1>2, <1>7 DEF Inv, IndexInv
  <2>2. QED BY <1>1, <1>2, <1>21, <2>1, IndexKept DEF Inv
<1>14. DiskInv' BY <1>1, <1>4, <1>7, <1>9 DEF Inv, DiskInv
<1>15. CommittingInv' BY <1>1, <1>4, <1>6, <1>7 DEF CommittingInv, txVars, indexVars
<1>16. \A p \in Nat : p < LogSize => NextCell(p) = CellAt(p)
  <2>1. SUFFICES ASSUME NEW p \in Nat, p < LogSize PROVE NextCell(p) = CellAt(p) OBVIOUS
  <2>2. p < m_buffer_offset' /\ p < Len(F) /\ p + 1 \in 1 .. LogSize /\ p + 1 - 1 = p
    BY <1>2, <1>4, <1>8, <2>1
  <2>3. NextCell(p) = F[p + 1] BY <1>6, <2>2 DEF NextCell, Cell, At
  <2>4. F[p + 1] = CellAt(p + 1 - 1) BY <1>4, <2>2, NextCells
  <2>5. QED BY <2>2, <2>3, <2>4
<1>17. PlacesInv'
  <2>1. ASSUME NEW b \in Blocks PROVE PlaceOK(b)'
    <3> DEFINE pos == m_uncommitted_block_positions[b]
    <3>1. m_uncommitted_block_positions'[b] = pos /\ pos \in Nat
      BY <1>1 DEF txVars, Inv, TypeOK
    <3>2. PlaceOK(b) BY <1>2 DEF Inv, PlacesInv
    <3>3. pos # 0 => pos < LogSize /\ pos + 1 < LogSize /\ pos + 1 \in Nat
      BY <1>2, <3>1, <3>2 DEF PlaceOK
    <3>4. pos # 0 => NextCell(pos) = CellAt(pos) /\ NextCell(pos + 1) = CellAt(pos + 1)
      BY <1>16, <3>1, <3>3
    <3>5. LogSize' = LogSize + 2 BY <1>1, <1>8, <1>2 DEF LogSize
    <3>6. LogSize <= LogSize' /\ LogSize' \in Nat BY <1>2, <3>5
    <3>7. failed \subseteq failed' /\ UNCHANGED m_transaction_begin BY <1>1 DEF txVars
    <3>8. QED BY <1>2, <3>1, <3>2, <3>4, <3>6, <3>7, PlaceKept
  <2>2. \A b, c \in Blocks : Apart(b, c)' BY <1>1, <1>2 DEF Inv, PlacesInv, Apart, txVars
  <2>3. QED BY <2>1, <2>2 DEF PlacesInv
<1>18. RunningInv' BY <1>1 DEF RunningInv
<1>19. Inv' BY <1>11, <1>12, <1>13, <1>14, <1>15, <1>17, <1>18 DEF Inv
<1>20. QED BY <1>1, <1>6, <1>7, <1>8, <1>16, <1>19, <1>21 DEF F

\* A commit() that fails: its record may be on the disk or not.
LEMMA CommitFlushFailsInv ==
  ASSUME Inv, Setting, UNCHANGED m_sync_on_commit, NEW n \in Sizes, NEW j \in Nat,
         CommitFlushFails(n, j)
  PROVE  /\ Inv' /\ Committed' = Committed
         /\ logDisk' = logDisk \/ logDisk' = logDisk \cup {FullLog(n)}
         /\ \A p \in Nat : p < LogSize => NextCell(p) = CellAt(p)
<1> DEFINE d == CommitRecord(n)
<1>1. /\ MayCommit /\ j <= Flushes(d) /\ AppendToBufferFails(d, j)
      /\ failed' = failed \cup {None} /\ UNCHANGED pc /\ UNCHANGED txVars /\ UNCHANGED indexVars
  BY DEF CommitFlushFails
<1>2. /\ pc = "idle" /\ m_in_transaction /\ ~LogGone
      /\ End = m_transaction_begin /\ End \in Nat /\ End <= m_buffer_offset
      /\ m_buffer_offset \in Nat /\ m_buffer_offset <= Len(logFile)
      /\ buffer \in Logs /\ Len(buffer) \in Nat
      /\ LogSize \in Nat /\ LogSize = m_buffer_offset + Len(buffer)
      /\ m_uncommitted_block_positions \in [Blocks -> Nat]
  BY <1>1, CommitState, RunningState
<1>3. d \in Logs /\ Len(d) = 2 BY MarkCells
<1>4. d # << >>
  <2> HIDE DEF d
  <2>1. QED BY <1>3
<1>5. PICK l, k, u \in Nat : /\ Appends(d, l, k, u)
                             /\ u - l <= BufferCells
                             /\ MayLand(m_buffer_offset, SubSeq(buffer \o d, 1, u))
  BY <1>1, <1>2, <1>3, <1>4, AppendFailsShape
<1>6. u <= Len(buffer) + 2 /\ Len(buffer) <= u BY <1>3, <1>5 DEF Appends
<1>7. logDisk' = IF u = Len(buffer) + 2 THEN logDisk \cup {FullLog(n)} ELSE logDisk
  BY <1>1, <1>5, <1>6, CommitDisk
<1> HIDE DEF d
<1>8. /\ LogSize' = m_buffer_offset + u
      /\ \A p \in 1 .. m_buffer_offset : logFile'[p] = logFile[p]
      /\ \A p \in Nat : p < LogSize => NextCell(p) = CellAt(p)
  <2>1. AppendedState(d, l, k, u) BY <1>2, <1>3, <1>5, Appended DEF Inv
  <2>2. QED BY <2>1 DEF AppendedState
<1>9. /\ TypeOK' /\ LayoutInv' /\ IndexInv' /\ DiskInv' /\ CommittingInv'
       /\ End' = End /\ Committed' = Committed
  <2>1. FullLog(n) \in Logs /\ Complete(FullLog(n)) BY <1>1, FullLogComplete
  <2>2. logDisk \subseteq logDisk' /\ \A c \in logDisk' : c \in Logs /\ Complete(c)
    BY <1>7, <2>1 DEF Inv, TypeOK, DiskInv
  <2>3. failed' \subseteq Blocks \cup {None} /\ failed \subseteq failed' /\ failed' # {}
    BY <1>1 DEF Inv, TypeOK
  <2>4. /\ m_in_transaction' = TRUE /\ m_transaction_begin' = End /\ pc' = "idle"
        /\ m_uncommitted_block_positions' \in [Blocks -> Nat]
    BY <1>1, <1>2 DEF Inv, TypeOK, txVars
  <2>5. QED BY <1>1, <1>2, <1>3, <1>5, <2>2, <2>3, <2>4, TxAppend
<1>10. PlacesInv'
  <2>1. ASSUME NEW b \in Blocks PROVE PlaceOK(b)'
    <3> DEFINE pos == m_uncommitted_block_positions[b]
    <3>1. m_uncommitted_block_positions'[b] = pos /\ pos \in Nat BY <1>1, <1>2 DEF txVars
    <3>2. PlaceOK(b) BY <1>2 DEF Inv, PlacesInv
    <3>3. pos # 0 => pos < LogSize /\ pos + 1 < LogSize /\ pos + 1 \in Nat
      BY <1>2, <3>1, <3>2 DEF PlaceOK
    <3>4. pos # 0 => NextCell(pos) = CellAt(pos) /\ NextCell(pos + 1) = CellAt(pos + 1)
      BY <1>8, <3>1, <3>3
    <3>5. LogSize <= LogSize' /\ LogSize' \in Nat BY <1>2, <1>6, <1>8
    <3>6. failed \subseteq failed' /\ UNCHANGED m_transaction_begin BY <1>1 DEF txVars
    <3>7. QED BY <1>2, <3>1, <3>2, <3>4, <3>5, <3>6, PlaceKept
  <2>2. \A b, c \in Blocks : Apart(b, c)' BY <1>1, <1>2 DEF Inv, PlacesInv, Apart, txVars
  <2>3. QED BY <2>1, <2>2 DEF PlacesInv
<1>11. RunningInv' BY <1>1 DEF RunningInv
<1>12. QED BY <1>7, <1>8, <1>9, <1>10, <1>11 DEF Inv

\* The log file is synced, the commit is certain, the index takes it over.
LEMMA CommitSyncInv ==
  ASSUME Inv, Setting, UNCHANGED m_sync_on_commit, CommitSync
  PROVE  /\ Inv' /\ Committed' = logFile /\ ~LogGone'
         /\ logFile' = logFile /\ logFile \in logDisk
         /\ logDisk' = IF m_sync_on_commit THEN {logFile} ELSE logDisk
<1>1. /\ pc = "commit" /\ pc' = "idle"
      /\ IF m_sync_on_commit THEN SyncLog ELSE UNCHANGED fileVars
      /\ m_block_positions' =
           MergedPositions(m_uncommitted_block_positions, m_block_positions, commitSize)
      /\ m_database_size' = commitSize /\ UNCHANGED bufferVars
      /\ m_in_transaction' = FALSE /\ m_transaction_begin' = 0
      /\ m_uncommitted_block_positions' = NoPositions /\ failed' = {}
  BY DEF CommitSync, EndTransaction, MergedPositions
<1>2. /\ Complete(logFile) /\ logFile \in logDisk
      /\ Restore(logFile).positions =
           MergedPositions(m_uncommitted_block_positions, m_block_positions, commitSize)
      /\ Restore(logFile).size = commitSize
  BY <1>1 DEF Inv, CommittingInv
<1>3. /\ buffer = << >> /\ commitSize \in Sizes /\ failed = {} /\ logFile \in Logs
      /\ Len(logFile) = m_buffer_offset /\ m_buffer_offset \in Nat
  BY <1>1 DEF Inv, TypeOK, LayoutInv, LogGone
<1>4. Restored(logFile) = logFile
  <2>1. SubSeq(logFile, 1, Len(logFile)) = logFile BY <1>3 DEF Logs
  <2>2. QED BY <1>2, <2>1 DEF Restored, Complete
<1>5. logFile' = logFile /\ logDisk' = IF m_sync_on_commit THEN {logFile} ELSE logDisk
  BY <1>1, <1>4 DEF SyncLog, fileVars
<1>6. m_buffer_offset' = m_buffer_offset /\ buffer' = << >> BY <1>1, <1>3 DEF bufferVars
<1>7. End' = m_buffer_offset /\ ~LogGone' BY <1>1, <1>6 DEF End, LogGone
<1>8. Committed' = logFile
  <2>1. SubSeq(logFile, 1, m_buffer_offset) = logFile BY <1>3 DEF Logs
  <2>2. QED BY <1>5, <1>7, <2>1 DEF Committed
<1>9. TypeOK'
  <2>1. m_block_positions' \in [Blocks -> Nat] BY <1>1 DEF MergedPositions, Inv, TypeOK
  <2>2. m_database_size' \in Nat \cup {None} BY <1>1, <1>3, JournalAssumption
  <2>3. NoPositions \in [Blocks -> Nat] BY DEF NoPositions
  <2>4. buffer' \in Logs BY <1>6 DEF Logs
  <2>5. logDisk' \subseteq Logs BY <1>3, <1>5 DEF Inv, TypeOK
  <2>6. m_sync_on_commit' \in BOOLEAN BY DEF Inv, TypeOK
  <2>7. QED BY <1>1, <1>3, <1>5, <1>6, <2>1, <2>2, <2>3, <2>4, <2>5, <2>6 DEF TypeOK
<1>10. LayoutInv'
  <2>1. Len(buffer') <= BufferCells BY <1>6, JournalAssumption
  <2>2. End' <= m_buffer_offset' /\ m_buffer_offset' <= Len(logFile') BY <1>3, <1>5, <1>6, <1>7
  <2>3. QED BY <1>1, <1>3, <1>5, <1>6, <1>7, <2>1, <2>2 DEF LayoutInv
<1>11. IndexInv' BY <1>1, <1>2, <1>5, <1>8 DEF IndexInv
<1>12. DiskInv' BY <1>1, <1>2, <1>5, <1>7 DEF Inv, DiskInv
<1>13. PlacesInv' /\ RunningInv' /\ CommittingInv'
  BY <1>1 DEF PlacesInv, RunningInv, CommittingInv
<1>14. Inv' BY <1>9, <1>10, <1>11, <1>12, <1>13 DEF Inv
<1>15. QED BY <1>2, <1>5, <1>7, <1>8, <1>14

\* A step that changes pc, failed and errors only.
LEMMA ControlStep ==
  ASSUME Inv, UNCHANGED fileVars, UNCHANGED bufferVars, UNCHANGED txVars, UNCHANGED indexVars
  PROVE  /\ UNCHANGED <<End, Committed, LogSize, Whole, TxScan>>
         /\ \A p : NextCell(p) = CellAt(p)
<1>1. /\ logFile' = logFile /\ logDisk' = logDisk /\ buffer' = buffer
      /\ m_buffer_offset' = m_buffer_offset /\ m_in_transaction' = m_in_transaction
      /\ m_transaction_begin' = m_transaction_begin
      /\ m_uncommitted_block_positions' = m_uncommitted_block_positions
      /\ m_block_positions' = m_block_positions /\ m_database_size' = m_database_size
  BY DEF fileVars, bufferVars, txVars, indexVars
<1>2. UNCHANGED <<End, LogSize>> BY <1>1 DEF End, LogSize
<1>3. \A p : NextCell(p) = CellAt(p) BY <1>1 DEF NextCell, CellAt, Cell
<1>4. UNCHANGED Committed BY <1>1, <1>2 DEF Committed
<1>5. UNCHANGED Whole BY <1>2, <1>3, NextCells
<1>6. UNCHANGED TxScan BY <1>1, <1>2 DEF TxScan
<1>7. QED BY <1>2, <1>3, <1>4, <1>5, <1>6

\* The blocks of the transaction are where they were.
LEMMA PlacesStay ==
  ASSUME Inv, UNCHANGED fileVars, UNCHANGED bufferVars, UNCHANGED txVars, UNCHANGED indexVars,
         failed \subseteq failed'
  PROVE  PlacesInv'
<1>1. CASE ~m_in_transaction BY <1>1 DEF PlacesInv, txVars
<1>2. CASE m_in_transaction
  <2>1. LogSize' = LogSize /\ \A p : NextCell(p) = CellAt(p) BY ControlStep
  <2>2. LogSize \in Nat BY DEF Inv, TypeOK, LogSize, Logs
  <2>3. ASSUME NEW b \in Blocks PROVE PlaceOK(b)'
    <3>1. PlaceOK(b) BY <1>2 DEF Inv, PlacesInv
    <3>2. /\ m_uncommitted_block_positions'[b] = m_uncommitted_block_positions[b]
          /\ m_uncommitted_block_positions[b] \in Nat /\ UNCHANGED m_transaction_begin
      BY DEF txVars, Inv, TypeOK
    <3>3. LogSize <= LogSize' /\ LogSize' \in Nat BY <2>1, <2>2
    <3>4. QED BY <2>1, <2>2, <3>1, <3>2, <3>3, PlaceKept
  <2>4. \A b, c \in Blocks : Apart(b, c)' BY <1>2 DEF Inv, PlacesInv, Apart, txVars
  <2>5. QED BY <2>3, <2>4 DEF PlacesInv
<1>3. QED BY <1>1, <1>2

\* The steps that only move on or fail.
LEMMA ControlInv ==
  ASSUME Inv, Setting, UNCHANGED m_sync_on_commit,
         \/ CommitSyncFails \/ AbortAsserts \/ CheckpointCopyFails \/ CheckpointShrinkFails
  PROVE  /\ Inv' /\ UNCHANGED fileVars /\ UNCHANGED bufferVars /\ UNCHANGED txVars
         /\ UNCHANGED indexVars /\ LogGone' = LogGone
<1>1. UNCHANGED fileVars /\ UNCHANGED bufferVars /\ UNCHANGED txVars /\ UNCHANGED indexVars
  BY DEF CommitSyncFails, AbortAsserts, CheckpointCopyFails, CheckpointShrinkFails
<1>2. UNCHANGED <<End, Committed, LogSize, Whole, TxScan>> BY <1>1, ControlStep
<1>3. /\ failed \subseteq failed' /\ failed' \subseteq failed \cup {None}
      /\ failed' # failed => None \in failed'
  BY DEF CommitSyncFails, AbortAsserts, CheckpointCopyFails, CheckpointShrinkFails
<1>4. \/ pc = "commit" /\ pc' = "idle" /\ None \in failed'
      \/ pc = "idle" /\ m_in_transaction /\ pc' = "dead" /\ failed' = failed
      \/ pc = "copy" /\ pc' = "idle" /\ failed' = failed
      \/ pc = "shrink" /\ pc' = "closed" /\ failed' = failed
  BY DEF CommitSyncFails, AbortAsserts, CheckpointCopyFails, CheckpointShrinkFails, Setting
<1>5. LogGone' = LogGone BY <1>4 DEF LogGone
<1>6. TypeOK' BY <1>1, <1>3, <1>4 DEF Inv, TypeOK, fileVars, bufferVars, txVars, indexVars
<1>7. m_in_transaction' = m_in_transaction BY <1>1 DEF txVars
<1>8. pc = "commit" => m_in_transaction BY DEF Inv, LayoutInv
<1>9. pc \in {"copy", "shrink"} => ~m_in_transaction BY DEF Inv, LayoutInv
<1>10. LayoutInv'
  <2>1. ~m_in_transaction => failed' = failed BY <1>4, <1>8
  <2>2. ~LogGone /\ failed' = {} => Len(logFile) = m_buffer_offset BY <1>3 DEF Inv, LayoutInv
  <2>3. /\ logFile' = logFile /\ buffer' = buffer /\ m_buffer_offset' = m_buffer_offset
        /\ m_uncommitted_block_positions' = m_uncommitted_block_positions
    BY <1>1 DEF fileVars, bufferVars, txVars
  <2>4. /\ m_in_transaction => pc' \in {"idle", "dead"}
        /\ ~m_in_transaction => pc' \in {"idle", "closed"}
    BY <1>4, <1>8, <1>9
  <2>5. LayoutInv BY DEF Inv
  <2>6. pc' # "commit" BY <1>4
  <2>7. QED BY <1>2, <1>5, <1>7, <2>1, <2>2, <2>3, <2>4, <2>5, <2>6 DEF LayoutInv
<1>11. IndexInv'
  BY <1>1, <1>2, <1>5 DEF Inv, IndexInv, fileVars, indexVars
<1>12. DiskInv'
  BY <1>1, <1>2, <1>4, <1>5 DEF Inv, DiskInv, fileVars
<1>13. PlacesInv' BY <1>1, <1>3, PlacesStay
<1>14. RunningInv'
  <2>1. m_in_transaction' /\ pc' = "idle" => None \in failed' BY <1>4, <1>7, <1>9
  <2>2. QED BY <2>1 DEF RunningInv
<1>15. CommittingInv' BY <1>4 DEF CommittingInv
<1>16. QED BY <1>1, <1>5, <1>6, <1>10, <1>11, <1>12, <1>13, <1>14, <1>15 DEF Inv

-----------------------------------------------------------------------------
(* The end of a transaction, checkpoints and restarts.                     *)

\* restore() of an empty log.
LEMMA EmptyLog == Complete(<< >>) /\ Restore(<< >>) = ScanStart /\ Restored(<< >>) = << >>
<1> DEFINE e == << >>
<1>1. e \in Logs /\ Len(e) = 0 BY DEF Logs
<1>2. ScanEnds(e, ScanStart) BY <1>1 DEF ScanEnds, ScanStart
<1>3. Restore(e) = ScanStart
  <2> HIDE DEF e
  <2>1. QED BY <1>1, <1>2, StartType, ScanDefined DEF Restore
<1>4. Ready(e, ScanStart) BY DEF Ready, Restore
<1>5. /\ ScanStart.offset = 0 /\ ScanStart.good = 0 /\ ScanStart.active = FALSE
      /\ ScanStart.positions = NoPositions
  BY DEF ScanStart
<1>6. \A b \in Blocks : Holds(e, NoPositions[b]) BY DEF Holds, NoPositions
<1>7. Complete(e) BY <1>1, <1>3, <1>4, <1>5, <1>6 DEF Complete
<1>8. SubSeq(e, 1, 0) = e OBVIOUS
<1>9. Restored(e) = e BY <1>3, <1>5, <1>8 DEF Restored
<1>10. QED BY <1>3, <1>7, <1>9

\* restore() takes all of a complete log.
LEMMA CompleteStays ==
  ASSUME NEW c, Complete(c)
  PROVE  /\ Restored(c) = c /\ c \in Logs /\ Len(c) \in Nat
         /\ Restore(c).positions \in [Blocks -> Nat] /\ Restore(c).size \in Nat \cup {None}
<1>1. c \in Logs /\ Restore(c).good = Len(c) BY DEF Complete
<1>2. SubSeq(c, 1, Len(c)) = c /\ Len(c) \in Nat BY <1>1 DEF Logs
<1>3. Restore(c) \in Scanners BY <1>1, RestoreType
<1>4. QED BY <1>1, <1>2, <1>3 DEF Restored, Scanners

\* A step that leaves the journal without a transaction, with c as its log.
LEMMA CleanInv ==
  ASSUME NEW c, Complete(c), logFile' = c, c \in logDisk', \A x \in logDisk' : Complete(x),
         m_buffer_offset' = Len(c), buffer' = << >>, m_in_transaction' = FALSE,
         m_transaction_begin' \in Nat, m_uncommitted_block_positions' = NoPositions,
         m_block_positions' = Restore(c).positions, m_database_size' = Restore(c).size,
         failed' = {}, pc' = "idle" \/ (pc' = "copy" /\ logDisk' = {c}),
         m_sync_on_commit' \in BOOLEAN
  PROVE  Inv' /\ Committed' = c /\ ~LogGone'
<1>1. /\ c \in Logs /\ Len(c) \in Nat /\ Restore(c).positions \in [Blocks -> Nat]
      /\ Restore(c).size \in Nat \cup {None}
  BY CompleteStays
<1>2. End' = Len(c) /\ ~LogGone' BY DEF End, LogGone
<1>3. Committed' = c
  <2>1. SubSeq(c, 1, Len(c)) = c BY <1>1 DEF Logs
  <2>2. QED BY <1>2, <2>1 DEF Committed
<1>4. TypeOK'
  <2>1. logDisk' \subseteq Logs BY CompleteStays
  <2>2. buffer' \in Logs /\ NoPositions \in [Blocks -> Nat] BY DEF Logs, NoPositions
  <2>3. QED BY <1>1, <2>1, <2>2 DEF TypeOK
<1>5. LayoutInv'
  <2>1. Len(buffer') <= BufferCells BY JournalAssumption
  <2>2. Len(c) <= Len(c) BY <1>1
  <2>3. QED BY <1>2, <2>1, <2>2 DEF LayoutInv
<1>6. IndexInv' BY <1>3 DEF IndexInv
<1>7. DiskInv' BY <1>2, <1>3 DEF DiskInv
<1>8. PlacesInv' /\ RunningInv' /\ CommittingInv' BY DEF PlacesInv, RunningInv, CommittingInv
<1>9. QED BY <1>2, <1>3, <1>4, <1>5, <1>6, <1>7, <1>8 DEF Inv

\* abort() cuts the transaction off the file or off the buffer.
LEMMA AbortInv ==
  ASSUME Inv, Setting, UNCHANGED m_sync_on_commit, Abort
  PROVE  Inv' /\ logDisk' = logDisk /\ Committed' = Committed /\ ~LogGone'
<1>1. /\ pc = "idle" /\ m_in_transaction /\ NothingFlushed
      /\ m_in_transaction' = FALSE /\ m_transaction_begin' = 0
      /\ m_uncommitted_block_positions' = NoPositions /\ failed' = {}
      /\ UNCHANGED pc /\ UNCHANGED indexVars
  BY DEF Abort, EndTransaction, Setting
<1>2. ~LogGone /\ End = m_transaction_begin BY <1>1 DEF LogGone, End
<1>3. /\ Complete(Committed) /\ Committed \in logDisk
      /\ Restore(Committed).positions = m_block_positions
      /\ Restore(Committed).size = m_database_size
  BY <1>2 DEF Inv, IndexInv
<1>4. /\ logFile \in Logs /\ End \in Nat /\ m_buffer_offset \in Nat /\ Len(logFile) \in Nat
      /\ End <= m_buffer_offset /\ m_buffer_offset <= Len(logFile) /\ buffer \in Logs
  BY <1>2 DEF Inv, TypeOK, LayoutInv, Logs
<1>5. Len(Committed) = End
  <2>1. End <= Len(logFile) BY <1>4
  <2>2. QED BY <1>4, <2>1, PrefixOfLog DEF Committed
<1>6. /\ logFile' = Committed /\ logDisk' = logDisk /\ m_buffer_offset' = End /\ buffer' = << >>
  <2>1. CASE m_transaction_begin < m_buffer_offset
    <3>1. Truncate(m_transaction_begin) /\ m_buffer_offset' = m_transaction_begin /\ buffer' = << >>
      BY <2>1 DEF Abort
    <3>2. Restored(Committed) = Committed BY <1>3, CompleteStays
    <3>3. SubSeq(logFile, 1, m_transaction_begin) = Committed BY <1>2 DEF Committed
    <3>4. logFile' = Committed /\ logDisk' = logDisk \cup {Restored(Committed)}
      BY <3>1, <3>3 DEF Truncate
    <3>5. QED BY <1>2, <1>3, <3>1, <3>2, <3>4
  <2>2. CASE ~(m_transaction_begin < m_buffer_offset)
    <3>1. /\ buffer' = SubSeq(buffer, 1, m_transaction_begin - m_buffer_offset)
          /\ UNCHANGED m_buffer_offset /\ UNCHANGED fileVars
      BY <2>2 DEF Abort
    <3>2. m_transaction_begin = m_buffer_offset /\ Len(logFile) = m_buffer_offset
      BY <1>1, <1>2, <1>4, <2>2 DEF NothingFlushed
    <3>3. buffer' = << >>
      <4>1. m_transaction_begin - m_buffer_offset = 0 BY <1>4, <3>2
      <4>2. SubSeq(buffer, 1, 0) = << >> BY <1>4 DEF Logs
      <4>3. QED BY <3>1, <4>1, <4>2
    <3>4. Committed = logFile BY <1>2, <1>4, <3>2 DEF Committed, Logs
    <3>5. QED BY <1>2, <3>1, <3>2, <3>3, <3>4 DEF fileVars
  <2>3. QED BY <2>1, <2>2
<1>7. m_sync_on_commit' \in BOOLEAN /\ \A x \in logDisk' : Complete(x)
  BY <1>6 DEF Inv, TypeOK, DiskInv
<1>8. Inv' /\ Committed' = Committed /\ ~LogGone'
  <2> DEFINE c == Committed
  <2>1. Complete(c) /\ logFile' = c /\ c \in logDisk' /\ m_buffer_offset' = Len(c)
    BY <1>3, <1>5, <1>6
  <2>2. /\ m_block_positions' = Restore(c).positions /\ m_database_size' = Restore(c).size
    BY <1>1, <1>3 DEF indexVars
  <2> HIDE DEF c
  <2>3. Inv' /\ Committed' = c /\ ~LogGone' BY <1>1, <1>6, <1>7, <2>1, <2>2, CleanInv
  <2>4. QED BY <2>3 DEF c
<1>9. QED BY <1>6, <1>8

\* checkpoint() syncs the log before it copies.
LEMMA CheckpointSyncInv ==
  ASSUME Inv, Setting, UNCHANGED m_sync_on_commit, CheckpointSync
  PROVE  /\ Inv' /\ logDisk' = {Committed} /\ Committed' = Committed
         /\ ~LogGone /\ ~LogGone' /\ ~m_in_transaction
<1>1. /\ pc = "idle" /\ ~m_in_transaction /\ SyncLog /\ pc' = "copy" /\ UNCHANGED failed
      /\ UNCHANGED bufferVars /\ UNCHANGED txVars /\ UNCHANGED indexVars
  BY DEF CheckpointSync
<1>2. ~LogGone BY <1>1 DEF LogGone
<1>3. /\ buffer = << >> /\ failed = {} /\ m_uncommitted_block_positions = NoPositions
      /\ End = m_buffer_offset /\ Len(logFile) = End
      /\ Committed = logFile /\ Complete(logFile)
      /\ Restore(logFile).positions = m_block_positions
      /\ Restore(logFile).size = m_database_size
  BY <1>1, <1>2, IdleState
<1>4. logDisk' = {logFile} /\ logFile' = logFile BY <1>1, <1>3, CompleteStays DEF SyncLog
<1>5. m_in_transaction' = FALSE /\ m_transaction_begin' \in Nat /\ m_sync_on_commit' \in BOOLEAN
  BY <1>1 DEF Inv, TypeOK, txVars
<1>6. Inv' /\ Committed' = logFile /\ ~LogGone'
  <2> DEFINE c == logFile
  <2>1. /\ Complete(c) /\ logFile' = c /\ c \in logDisk' /\ \A x \in logDisk' : Complete(x)
        /\ logDisk' = {c}
    BY <1>3, <1>4
  <2>2. m_buffer_offset' = Len(c) /\ buffer' = << >> BY <1>1, <1>3 DEF bufferVars
  <2>3. m_block_positions' = Restore(c).positions /\ m_database_size' = Restore(c).size
    BY <1>1, <1>3 DEF indexVars
  <2>4. m_uncommitted_block_positions' = NoPositions /\ failed' = {} BY <1>1, <1>3 DEF txVars
  <2> HIDE DEF c
  <2>5. Inv' /\ Committed' = c /\ ~LogGone' BY <1>1, <1>5, <2>1, <2>2, <2>3, <2>4, CleanInv
  <2>6. QED BY <2>5 DEF c
<1>7. QED BY <1>1, <1>2, <1>3, <1>4, <1>6

\* The log is truncated; the index is still there but about to be dropped.
LEMMA CheckpointShrinkInv ==
  ASSUME Inv, Setting, UNCHANGED m_sync_on_commit, CheckpointShrink
  PROVE  /\ Inv' /\ logDisk = {Committed} /\ logDisk' = logDisk \cup {<< >>}
         /\ ~LogGone /\ LogGone' /\ ~m_in_transaction
<1>1. /\ pc = "copy" /\ Truncate(0) /\ pc' = "shrink" /\ UNCHANGED failed
      /\ UNCHANGED bufferVars /\ UNCHANGED txVars /\ UNCHANGED indexVars
  BY DEF CheckpointShrink
<1>2. ~m_in_transaction /\ ~LogGone BY <1>1 DEF Inv, LayoutInv, LogGone
<1>3. /\ buffer = << >> /\ failed = {} /\ m_uncommitted_block_positions = NoPositions
      /\ Committed = logFile /\ logFile \in Logs
  BY <1>2, IdleState
<1>4. logDisk = {logFile} BY <1>1, <1>3 DEF Inv, DiskInv
<1>5. SubSeq(logFile, 1, 0) = << >> BY <1>3 DEF Logs
<1>6. logFile' = << >> /\ logDisk' = logDisk \cup {<< >>} BY <1>1, <1>5, EmptyLog DEF Truncate
<1>7. LogGone' /\ m_in_transaction' = m_in_transaction BY <1>1 DEF LogGone, txVars
<1>8. TypeOK'
  <2>1. << >> \in Logs BY DEF Logs
  <2>2. logDisk' \subseteq Logs BY <1>6, <2>1 DEF Inv, TypeOK
  <2>3. QED BY <1>1, <1>6, <2>1, <2>2 DEF Inv, TypeOK, bufferVars, txVars, indexVars
<1>9. LayoutInv'
  <2>1. buffer' = << >> /\ Len(buffer') <= BufferCells
    BY <1>1, <1>3, JournalAssumption DEF bufferVars
  <2>2. m_uncommitted_block_positions' = NoPositions BY <1>1, <1>3 DEF txVars
  <2>3. QED BY <1>1, <1>2, <1>3, <1>6, <1>7, <2>1, <2>2 DEF LayoutInv
<1>10. IndexInv' BY <1>7 DEF IndexInv
<1>11. DiskInv' BY <1>1, <1>6, EmptyLog DEF Inv, DiskInv
<1>12. PlacesInv' /\ RunningInv' /\ CommittingInv'
  BY <1>1, <1>2, <1>7 DEF PlacesInv, RunningInv, CommittingInv
<1>13. QED BY <1>2, <1>3, <1>4, <1>6, <1>7, <1>8, <1>9, <1>10, <1>11, <1>12 DEF Inv

\* The checkpoint is done: the journal starts again with an empty log.
LEMMA CheckpointDoneInv ==
  ASSUME Inv, Setting, UNCHANGED m_sync_on_commit, CheckpointDone
  PROVE  /\ Inv' /\ logDisk' = {<< >>} /\ << >> \in logDisk /\ ~m_in_transaction
         /\ LogGone /\ ~LogGone' /\ Committed' = << >>
<1>1. /\ pc = "shrink" /\ SyncLog /\ m_buffer_offset' = 0 /\ buffer' = << >>
      /\ m_block_positions' = NoPositions /\ m_database_size' = None /\ pc' = "idle"
      /\ UNCHANGED failed /\ UNCHANGED txVars
  BY DEF CheckpointDone
<1>2. LogGone /\ logFile = << >> /\ << >> \in logDisk /\ ~m_in_transaction
  BY <1>1 DEF Inv, LayoutInv, DiskInv, LogGone
<1>3. failed = {} /\ m_uncommitted_block_positions = NoPositions BY <1>2 DEF Inv, LayoutInv
<1>4. logFile' = << >> /\ logDisk' = {<< >>} BY <1>1, <1>2, EmptyLog DEF SyncLog
<1>5. /\ m_in_transaction' = FALSE /\ m_transaction_begin' \in Nat /\ m_sync_on_commit' \in BOOLEAN
      /\ m_uncommitted_block_positions' = NoPositions /\ failed' = {}
  BY <1>1, <1>2, <1>3 DEF Inv, TypeOK, txVars
<1>6. Inv' /\ Committed' = << >> /\ ~LogGone'
  <2> DEFINE c == << >>
  <2>1. /\ Complete(c) /\ logFile' = c /\ c \in logDisk' /\ \A x \in logDisk' : Complete(x)
        /\ m_buffer_offset' = Len(c)
    BY <1>1, <1>4, EmptyLog
  <2>2. m_block_positions' = Restore(c).positions /\ m_database_size' = Restore(c).size
    BY <1>1, EmptyLog DEF ScanStart
  <2> HIDE DEF c
  <2>3. Inv' /\ Committed' = c /\ ~LogGone' BY <1>1, <1>5, <2>1, <2>2, CleanInv
  <2>4. QED BY <2>3 DEF c
<1>7. QED BY <1>2, <1>4, <1>6

\* A restart restores what the power loss left.
LEMMA RestartInv ==
  ASSUME Inv, Setting, NEW c \in logDisk,
         logFile' = c, logDisk' = {c}, m_buffer_offset' = Len(c), buffer' = << >>,
         m_block_positions' = Restore(c).positions, m_database_size' = Restore(c).size,
         m_sync_on_commit' = TRUE, EndTransaction, pc' = "idle"
  PROVE  Inv' /\ Committed' = c /\ ~LogGone'
<1>1. Complete(c) BY DEF Inv, DiskInv
<1>2. /\ m_in_transaction' = FALSE /\ m_transaction_begin' \in Nat /\ failed' = {}
      /\ m_uncommitted_block_positions' = NoPositions
  BY DEF EndTransaction
<1>3. c \in logDisk' /\ \A x \in logDisk' : Complete(x) BY <1>1
<1>4. m_sync_on_commit' \in BOOLEAN OBVIOUS
<1>5. QED BY <1>1, <1>2, <1>3, <1>4, CleanInv

-----------------------------------------------------------------------------
(* The theorems about the journal's own state.                             *)

\* A new journal.
LEMMA InitInv ==
  ASSUME Init
  PROVE  Inv
<1> USE DEF Init
<1>1. Complete(<< >>) /\ Restore(<< >>) = ScanStart BY EmptyLog
<1>2. << >> \in Logs /\ NoPositions \in [Blocks -> Nat] BY DEF Logs, NoPositions
<1>3. End = 0 /\ ~LogGone BY DEF End, LogGone
<1>4. Committed = << >> BY <1>3 DEF Committed
<1>5. TypeOK BY <1>2 DEF TypeOK
<1>6. LayoutInv BY <1>3, JournalAssumption DEF LayoutInv
<1>7. IndexInv BY <1>1, <1>4 DEF IndexInv, ScanStart
<1>8. DiskInv BY <1>1, <1>3 DEF DiskInv
<1>9. PlacesInv /\ RunningInv /\ CommittingInv BY DEF PlacesInv, RunningInv, CommittingInv
<1>10. QED BY <1>5, <1>6, <1>7, <1>8, <1>9 DEF Inv

\* sync_on_commit(), or nothing at all.
LEMMA QuietInv ==
  ASSUME Inv, UNCHANGED fileVars, UNCHANGED bufferVars, UNCHANGED txVars, UNCHANGED indexVars,
         UNCHANGED <<pc, commitSize, failed>>, m_sync_on_commit' \in BOOLEAN
  PROVE  Inv'
<1>1. UNCHANGED <<End, Committed, LogSize, Whole, TxScan>> BY ControlStep
<1>2. LogGone' = LogGone BY DEF LogGone
<1>3. TypeOK' BY DEF Inv, TypeOK, fileVars, bufferVars, txVars, indexVars
<1>4. LayoutInv' BY <1>1, <1>2 DEF Inv, LayoutInv, fileVars, bufferVars, txVars
<1>5. IndexInv' BY <1>1, <1>2 DEF Inv, IndexInv, fileVars, indexVars
<1>6. DiskInv' BY <1>1, <1>2 DEF Inv, DiskInv, fileVars
<1>7. PlacesInv' BY PlacesStay
<1>8. RunningInv' BY <1>1 DEF Inv, RunningInv, NoCommitCells, fileVars, bufferVars, txVars
<1>9. CommittingInv' BY DEF Inv, CommittingInv, fileVars, txVars, indexVars
<1>10. QED BY <1>3, <1>4, <1>5, <1>6, <1>7, <1>8, <1>9 DEF Inv

\* Every step keeps the invariant.
LEMMA StepInv ==
  ASSUME Inv, Setting, [Next]_vars
  PROVE  Inv'
<1>1. CASE Operation /\ UNCHANGED m_sync_on_commit
  <2>1. CASE Begin BY <1>1, <2>1, BeginInv
  <2>2. CASE \E i \in Blocks, v \in Values : WriteNew(i, v) \/ Rewrite(i, v) \/ RewriteFails(i, v)
    BY <1>1, <2>2, WriteNewInv, RewriteInv, RewriteFailsInv
  <2>3. CASE \E i \in Blocks, v \in Values, j \in 0 .. MaxCells : WriteNewFails(i, v, j)
    BY <1>1, <2>3, WriteNewFailsInv, JournalAssumption
  <2>4. CASE \E n \in Sizes : CommitFlush(n) BY <1>1, <2>4, CommitFlushInv
  <2>5. CASE \E n \in Sizes, j \in 0 .. MaxCells : CommitFlushFails(n, j)
    BY <1>1, <2>5, CommitFlushFailsInv, JournalAssumption
  <2>6. CASE CommitSync BY <1>1, <2>6, CommitSyncInv
  <2>7. CASE Abort BY <1>1, <2>7, AbortInv
  <2>8. CASE CommitSyncFails \/ AbortAsserts \/ CheckpointCopyFails \/ CheckpointShrinkFails
    BY <1>1, <2>8, ControlInv
  <2>9. CASE CheckpointSync BY <1>1, <2>9, CheckpointSyncInv
  <2>10. CASE CheckpointShrink BY <1>1, <2>10, CheckpointShrinkInv
  <2>11. CASE CheckpointDone BY <1>1, <2>11, CheckpointDoneInv
  <2>12. QED
    BY <1>1, <2>1, <2>2, <2>3, <2>4, <2>5, <2>6, <2>7, <2>8, <2>9, <2>10, <2>11 DEF Operation
<1>2. CASE SetSyncOnCommit
  <2>1. m_sync_on_commit' \in BOOLEAN BY <1>2 DEF SetSyncOnCommit
  <2>2. QED BY <1>2, <2>1, QuietInv DEF SetSyncOnCommit
<1>3. CASE Restart BY <1>3, RestartInv DEF Restart
<1>4. CASE UNCHANGED vars
  <2>1. /\ UNCHANGED fileVars /\ UNCHANGED bufferVars /\ UNCHANGED txVars /\ UNCHANGED indexVars
        /\ UNCHANGED <<pc, commitSize, failed>> /\ m_sync_on_commit' \in BOOLEAN
    BY <1>4 DEF vars, fileVars, bufferVars, txVars, indexVars, Inv, TypeOK
  <2>2. QED BY <2>1, QuietInv
<1>5. QED BY <1>1, <1>2, <1>3, <1>4 DEF Next

\* The log consists of complete transactions up to the running one, restore() finds
\* what the index says, and every log a power loss may leave is complete.
THEOREM JournalWellFormed ==
  ASSUME Setting
  PROVE  Spec => []Inv
<1>1. Init => Inv BY InitInv
<1>2. Inv /\ [Next]_vars => Inv' BY StepInv
<1>3. QED BY <1>1, <1>2, PTL DEF Spec

-----------------------------------------------------------------------------
(* The size of the log, in every build and for every kind of power loss.   *)

\* restore() cuts a log off inside it.
LEMMA RestoredType ==
  ASSUME NEW log \in Logs
  PROVE  Restored(log) \in Logs
<1> DEFINE T == { s \in Scanners : s.good <= Len(log) => Scan(log)[s].good <= Len(log) }
<1>1. Len(log) \in Nat BY DEF Logs
<1>2. \A s \in Scanners : ScanEnds(log, s) => s \in T BY ScanDefined
<1>3. ASSUME NEW s \in Scanners, ~ScanEnds(log, s), ScanRecord(log, s) \in T PROVE s \in T
  <2>1. Scan(log)[s] = Scan(log)[ScanRecord(log, s)] BY <1>3, ScanDefined
  <2>2. s.good \in Nat /\ s.offset \in Nat BY DEF Scanners
  <2>3. s.good <= Len(log) => ScanRecord(log, s).good <= Len(log)
    <3>1. CASE ~s.active BY <3>1 DEF ScanRecord, Scanners
    <3>2. CASE s.active /\ Kind(log, s.offset) = "write" BY <3>2 DEF ScanRecord, Scanners
    <3>3. CASE s.active /\ Kind(log, s.offset) # "write"
      <4>1. s.offset + 2 <= Len(log) BY <1>3, <3>3 DEF ScanEnds
      <4>2. ScanRecord(log, s).good = s.offset + 2 BY <3>3 DEF ScanRecord, Scanners
      <4>3. QED BY <4>1, <4>2
    <3>4. QED BY <3>1, <3>2, <3>3
  <2>4. QED BY <1>3, <2>1, <2>3
<1> HIDE DEF T
<1>4. Scanners \subseteq T BY <1>2, <1>3, ScanInduction
<1> USE DEF T
<1>5. Restore(log).good <= Len(log)
  <2>1. ScanStart.good <= Len(log) BY <1>1 DEF ScanStart
  <2>2. QED BY <1>4, <2>1, StartType DEF Restore
<1>6. Restore(log).good \in Nat BY RestoreType DEF Scanners
<1>7. QED BY <1>5, <1>6, PrefixOfLog DEF Restored

\* What a power loss leaves of a write is a log, in whatever order its cells land.
LEMMA LandedType ==
  ASSUME NEW f \in Logs, NEW d \in Logs, NEW off \in Nat, off <= Len(f)
  PROVE  \A c \in Landed(f, off, d) : c \in Logs /\ Restored(c) \in Logs
<1>1. Len(d) \in Nat /\ Len(f) \in Nat BY DEF Logs
<1>2. SUFFICES ASSUME NEW c \in Landed(f, off, d) PROVE c \in Logs BY RestoredType
<1>3. CASE TornWrites = "prefix"
  <2>1. PICK k \in 0 .. Len(d) : c = Overwrite(f, off, SubSeq(d, 1, k)) BY <1>3 DEF Landed
  <2>2. SubSeq(d, 1, k) \in Logs BY <1>1, PrefixOfLog
  <2>3. QED BY <2>1, <2>2, Overwritten
<1>4. CASE TornWrites # "prefix"
  <2>1. PICK K \in SUBSET (1 .. Len(d)) :
          c = Overwrite(f, off, [k \in 1 .. Len(d) |-> IF k \in K THEN d[k] ELSE At(f, off + k - 1)])
    BY <1>4 DEF Landed
  <2> DEFINE e == [k \in 1 .. Len(d) |-> IF k \in K THEN d[k] ELSE At(f, off + k - 1)]
  <2>2. ASSUME NEW k \in 1 .. Len(d) PROVE e[k] \in Cells
    <3>1. d[k] \in Cells /\ off + k - 1 \in Nat BY <1>1 DEF Logs
    <3>2. At(f, off + k - 1) \in Cells BY <3>1, AtType
    <3>3. QED BY <3>1, <3>2
  <2>3. e = [k \in 1 .. Len(d) |-> e[k]] OBVIOUS
  <2>4. c = Overwrite(f, off, e) BY <2>1
  <2> HIDE DEF e
  <2>5. e \in Logs BY <1>1, <2>2, <2>3 DEF Logs
  <2>6. QED BY <2>4, <2>5, Overwritten
<1>5. QED BY <1>3, <1>4

\* The state while no I/O call has failed.
SoundInv ==
  /\ logFile \in Logs /\ logDisk \subseteq Logs /\ buffer \in Logs
  /\ m_buffer_offset \in Nat /\ m_transaction_begin \in Nat /\ m_in_transaction \in BOOLEAN
  /\ m_uncommitted_block_positions \in [Blocks -> Nat]
  /\ pc \in {"idle", "commit", "copy", "shrink"}
  /\ Len(logFile) = IF pc = "shrink" THEN 0 ELSE m_buffer_offset
  /\ m_in_transaction => pc \in {"idle", "commit"} /\ m_transaction_begin <= LogSize
  /\ ~m_in_transaction => m_uncommitted_block_positions = NoPositions
  /\ \A b \in Blocks : m_uncommitted_block_positions[b] # 0 =>
                         m_uncommitted_block_positions[b] + 2 <= LogSize

ErrorInv == errors \in Nat /\ (errors = 0 => SoundInv)

\* A write at or in front of the file's end.
LEMMA SoundWrite ==
  ASSUME SoundInv, NEW d \in Logs, NEW off \in Nat, off <= Len(logFile), FileWrite(off, d)
  PROVE  /\ logFile' \in Logs /\ logDisk' \subseteq Logs
         /\ Len(logFile') = IF off + Len(d) > Len(logFile) THEN off + Len(d) ELSE Len(logFile)
<1>1. logFile \in Logs /\ logDisk \subseteq Logs BY DEF SoundInv
<1>2. \A c \in Landed(logFile, off, d) : Restored(c) \in Logs BY <1>1, LandedType
<1>3. logDisk' = logDisk \cup { Restored(c) : c \in Landed(logFile, off, d) }
  BY DEF FileWrite, MayLand
<1>4. logFile' = Overwrite(logFile, off, d) BY DEF FileWrite
<1>5. QED BY <1>1, <1>2, <1>3, <1>4, Overwritten

\* append_to_buffer keeps the file's end at the buffer's place.
LEMMA SoundAppend ==
  ASSUME SoundInv, pc # "shrink", NEW d \in Logs, d # << >>, AppendToBuffer(d)
  PROVE  /\ logFile' \in Logs /\ logDisk' \subseteq Logs /\ buffer' \in Logs
         /\ m_buffer_offset' \in Nat /\ Len(logFile') = m_buffer_offset'
         /\ LogSize' = LogSize + Len(d) /\ LogSize \in Nat /\ Len(d) \in Nat
<1> DEFINE x == Len(buffer) + Len(d) - 1
           n == Flushes(d) * BufferCells
           all == buffer \o d
<1>1. /\ buffer \in Logs /\ Len(buffer) \in Nat /\ Len(d) \in Nat /\ Len(d) > 0 /\ x \in Nat
      /\ logFile \in Logs /\ logDisk \subseteq Logs /\ m_buffer_offset \in Nat
      /\ Len(logFile) = m_buffer_offset
  BY DEF SoundInv, Logs
<1>2. n \in Nat /\ n <= x BY <1>1, FlushedCells, JournalAssumption DEF Flushes
<1>3. all \in Logs /\ Len(all) = Len(buffer) + Len(d) BY <1>1, Joined
<1>4. /\ buffer' = SubSeq(all, n + 1, Len(all)) /\ m_buffer_offset' = m_buffer_offset + n
      /\ IF n = 0 THEN UNCHANGED fileVars ELSE FileWrite(m_buffer_offset, SubSeq(all, 1, n))
  BY DEF AppendToBuffer
<1> HIDE DEF n, all
<1>5. /\ n + 1 \in Nat \ {0} /\ Len(all) \in Nat /\ n + 1 <= Len(all) + 1 /\ n <= Len(all)
      /\ Len(all) <= Len(all)
  BY <1>1, <1>2, <1>3
<1>6. buffer' \in Logs /\ Len(buffer') = Len(all) - n
  <2>1. buffer' \in Logs /\ Len(buffer') = Len(all) - (n + 1) + 1 BY <1>3, <1>4, <1>5, PartOfLog
  <2>2. QED BY <1>2, <1>5, <2>1
<1>7. SubSeq(all, 1, n) \in Logs /\ Len(SubSeq(all, 1, n)) = n BY <1>2, <1>3, <1>5, PrefixOfLog
<1>8. logFile' \in Logs /\ logDisk' \subseteq Logs /\ Len(logFile') = m_buffer_offset + n
  <2>1. CASE n = 0 BY <1>1, <1>4, <2>1 DEF fileVars
  <2>2. CASE n # 0
    <3>1. FileWrite(m_buffer_offset, SubSeq(all, 1, n)) /\ m_buffer_offset <= Len(logFile)
      BY <1>1, <1>4, <2>2
    <3> DEFINE e == SubSeq(all, 1, n)
    <3> HIDE DEF e
    <3>2. e \in Logs /\ Len(e) = n /\ FileWrite(m_buffer_offset, e) BY <1>7, <3>1 DEF e
    <3>3. QED BY <1>1, <1>2, <3>1, <3>2, SoundWrite
  <2>3. QED BY <2>1, <2>2
<1>9. LogSize' = LogSize + Len(d) /\ LogSize \in Nat
  BY <1>1, <1>2, <1>3, <1>4, <1>6 DEF LogSize
<1>10. QED BY <1>1, <1>2, <1>4, <1>6, <1>8, <1>9

\* begin(), and the first version of a block.
LEMMA SoundBegin ==
  ASSUME SoundInv, Begin
  PROVE  SoundInv'
<1>1. BeginRecord \in Logs /\ BeginRecord # << >> BY DEF BeginRecord, Logs, Cells, Kinds
<1>2. pc = "idle" /\ pc' = "idle" /\ ~m_in_transaction BY DEF Begin
<1>3. /\ logFile' \in Logs /\ logDisk' \subseteq Logs /\ buffer' \in Logs
      /\ m_buffer_offset' \in Nat /\ Len(logFile') = m_buffer_offset'
      /\ LogSize' = LogSize + Len(BeginRecord) /\ LogSize \in Nat /\ Len(BeginRecord) \in Nat
  BY <1>1, <1>2, SoundAppend DEF Begin
<1>4. m_in_transaction' = TRUE /\ m_transaction_begin' = LogSize BY DEF Begin
<1>5. m_uncommitted_block_positions' = NoPositions /\ NoPositions \in [Blocks -> Nat]
  BY <1>2 DEF Begin, SoundInv, NoPositions
<1>6. \A b \in Blocks : m_uncommitted_block_positions'[b] = 0 BY <1>5 DEF NoPositions
<1>7. m_transaction_begin' \in Nat /\ m_transaction_begin' <= LogSize' BY <1>3, <1>4
<1>8. QED BY <1>2, <1>3, <1>4, <1>5, <1>6, <1>7 DEF SoundInv

LEMMA SoundWriteNew ==
  ASSUME SoundInv, NEW i \in Blocks, NEW v \in Values, WriteNew(i, v)
  PROVE  SoundInv'
<1> DEFINE d == WriteRecord(i, v)
           pos == m_uncommitted_block_positions
<1>1. i \in Nat /\ v \in Nat BY JournalAssumption
<1>2. d \in Logs /\ d # << >> /\ Len(d) = 4
  BY <1>1 DEF WriteRecord, BlockData, Logs, Cells, Kinds
<1>3. pc = "idle" /\ pc' = "idle" /\ m_in_transaction BY DEF WriteNew, InTransaction
<1>4. AppendToBuffer(d) BY DEF WriteNew
<1> HIDE DEF d
<1>5. /\ logFile' \in Logs /\ logDisk' \subseteq Logs /\ buffer' \in Logs
      /\ m_buffer_offset' \in Nat /\ Len(logFile') = m_buffer_offset'
      /\ LogSize' = LogSize + 4 /\ LogSize \in Nat
  BY <1>2, <1>3, <1>4, SoundAppend
<1>6. /\ m_in_transaction' = m_in_transaction /\ m_transaction_begin' = m_transaction_begin
      /\ pos' = [pos EXCEPT ![i] = LogSize + 2] /\ pos \in [Blocks -> Nat]
  BY DEF WriteNew, SoundInv
<1>7. pos' \in [Blocks -> Nat] /\ \A b \in Blocks : pos'[b] = IF b = i THEN LogSize + 2 ELSE pos[b]
  BY <1>5, <1>6
<1>8. \A b \in Blocks : pos'[b] # 0 => pos'[b] + 2 <= LogSize'
  <2>1. \A b \in Blocks : pos[b] \in Nat /\ (pos[b] # 0 => pos[b] + 2 <= LogSize)
    BY <1>6 DEF SoundInv
  <2>2. QED BY <1>5, <1>7, <2>1
<1>9. m_transaction_begin' \in Nat /\ m_transaction_begin' <= LogSize'
  BY <1>3, <1>5, <1>6 DEF SoundInv
<1>10. QED BY <1>3, <1>5, <1>6, <1>7, <1>8, <1>9 DEF SoundInv

\* A later version: neither the file nor the buffer gets longer.
LEMMA SoundRewrite ==
  ASSUME SoundInv, NEW i \in Blocks, NEW v \in Values, Rewrite(i, v)
  PROVE  SoundInv'
<1> DEFINE pos == m_uncommitted_block_positions[i]
           d == BlockData(v)
           n == IF pos >= m_buffer_offset THEN 0
                ELSE IF pos + Len(d) > m_buffer_offset THEN m_buffer_offset - pos ELSE Len(d)
           at == pos + n - m_buffer_offset
           rest == SubSeq(d, n + 1, Len(d))
<1>1. v \in Nat BY JournalAssumption
<1>2. d \in Logs /\ Len(d) = 2 BY <1>1 DEF BlockData, Logs, Cells, Kinds
<1>3. /\ pc = "idle" /\ pc' = "idle" /\ m_in_transaction /\ pos # 0
      /\ IF n = 0 THEN UNCHANGED fileVars ELSE FileWrite(pos, SubSeq(d, 1, n))
      /\ buffer' = IF n = Len(d) THEN buffer ELSE Overwrite(buffer, at, rest)
      /\ m_buffer_offset' = m_buffer_offset
      /\ UNCHANGED txVars
  BY DEF Rewrite, InTransaction
<1>4. /\ logFile \in Logs /\ logDisk \subseteq Logs /\ buffer \in Logs /\ m_buffer_offset \in Nat
      /\ Len(logFile) = m_buffer_offset /\ pos \in Nat /\ Len(buffer) \in Nat
      /\ pos + 2 <= m_buffer_offset + Len(buffer)
  BY <1>3 DEF SoundInv, LogSize, Logs
<1> HIDE DEF d
<1>5. n \in 0 .. 2 /\ (n # 0 => pos + n <= m_buffer_offset /\ pos <= Len(logFile)) BY <1>2, <1>4
<1>6. n # 2 => at \in Nat /\ at <= Len(buffer) /\ at + (2 - n) <= Len(buffer) BY <1>2, <1>4
<1> HIDE DEF pos, n
<1>7. logFile' \in Logs /\ logDisk' \subseteq Logs /\ Len(logFile') = m_buffer_offset
  <2>1. CASE n = 0 BY <1>3, <1>4, <2>1 DEF fileVars
  <2>2. CASE n # 0
    <3> DEFINE e == SubSeq(d, 1, n)
    <3>1. n \in Nat /\ n <= Len(d) BY <1>2, <1>5
    <3>2. e \in Logs /\ Len(e) = n BY <1>2, <3>1, PrefixOfLog
    <3>3. FileWrite(pos, e) BY <1>3, <2>2
    <3> HIDE DEF e
    <3>4. QED BY <1>4, <1>5, <2>2, <3>2, <3>3, SoundWrite
  <2>3. QED BY <2>1, <2>2
<1>8. buffer' \in Logs /\ Len(buffer') = Len(buffer)
  <2>1. CASE n = 2 BY <1>2, <1>3, <1>4, <2>1
  <2>2. CASE n # 2
    <3>1. n + 1 \in Nat \ {0} /\ n + 1 <= 2 + 1 /\ 2 \in Nat /\ 2 <= Len(d) BY <1>2, <1>5, <2>2
    <3>2. rest \in Logs /\ Len(rest) = 2 - (n + 1) + 1
      <4>1. rest = SubSeq(d, n + 1, 2) BY <1>2
      <4> HIDE DEF rest
      <4>2. QED BY <1>2, <3>1, <4>1, PartOfLog
    <3>3. Len(rest) = 2 - n BY <1>5, <3>2
    <3>4. buffer' = Overwrite(buffer, at, rest) BY <1>2, <1>3, <2>2
    <3> HIDE DEF at, rest
    <3>5. QED BY <1>4, <1>6, <2>2, <3>2, <3>3, <3>4, Overwritten
  <2>3. QED BY <2>1, <2>2
<1>9. LogSize' = LogSize BY <1>3, <1>8 DEF LogSize
<1>10. QED BY <1>3, <1>7, <1>8, <1>9 DEF SoundInv, txVars

\* commit(): everything is flushed.
LEMMA SoundCommitFlush ==
  ASSUME SoundInv, NEW n \in Sizes, CommitFlush(n)
  PROVE  SoundInv'
<1> DEFINE d == CommitRecord(n)
           all == buffer \o d
<1>1. n \in Nat BY JournalAssumption
<1>2. d \in Logs /\ Len(d) = 2 BY <1>1 DEF CommitRecord, Logs, Cells, Kinds
<1>3. /\ pc = "idle" /\ pc' = "commit" /\ m_in_transaction
      /\ FileWrite(m_buffer_offset, all) /\ m_buffer_offset' = LogSize + Len(d) /\ buffer' = << >>
      /\ UNCHANGED txVars
  BY DEF CommitFlush, MayCommit, InTransaction, AppendAndFlush
<1> HIDE DEF d
<1>4. /\ buffer \in Logs /\ Len(buffer) \in Nat /\ m_buffer_offset \in Nat
      /\ Len(logFile) = m_buffer_offset
  BY <1>3 DEF SoundInv, Logs
<1>5. all \in Logs /\ Len(all) = Len(buffer) + 2 BY <1>2, <1>4, Joined
<1> HIDE DEF all
<1>6. logFile' \in Logs /\ logDisk' \subseteq Logs /\ Len(logFile') = m_buffer_offset + Len(buffer) + 2
  BY <1>3, <1>4, <1>5, SoundWrite
<1>7. buffer' \in Logs /\ m_buffer_offset' \in Nat /\ m_buffer_offset' = LogSize + 2
  BY <1>2, <1>3, <1>4 DEF LogSize, Logs
<1>8. LogSize \in Nat /\ LogSize' = LogSize + 2 /\ Len(logFile') = m_buffer_offset'
  BY <1>3, <1>4, <1>6, <1>7 DEF LogSize
<1>9. /\ UNCHANGED <<m_in_transaction, m_transaction_begin, m_uncommitted_block_positions>>
      /\ m_transaction_begin \in Nat /\ m_transaction_begin <= LogSize
      /\ m_uncommitted_block_positions \in [Blocks -> Nat]
      /\ \A b \in Blocks : m_uncommitted_block_positions[b] # 0 =>
                             m_uncommitted_block_positions[b] + 2 <= LogSize
  BY <1>3 DEF SoundInv, txVars
<1>10. \A b \in Blocks : m_uncommitted_block_positions'[b] # 0 =>
                           m_uncommitted_block_positions'[b] + 2 <= LogSize'
  BY <1>8, <1>9
<1>11. m_transaction_begin' <= LogSize' BY <1>8, <1>9
<1>12. QED BY <1>3, <1>6, <1>7, <1>8, <1>9, <1>10, <1>11 DEF SoundInv

\* A transaction is over, or a checkpoint, or the journal is opened again.
LEMMA SoundIdle ==
  ASSUME logFile' \in Logs, logDisk' \subseteq Logs, buffer' \in Logs, m_buffer_offset' \in Nat,
         pc' \in {"idle", "copy", "shrink"},
         Len(logFile') = IF pc' = "shrink" THEN 0 ELSE m_buffer_offset',
         m_in_transaction' = FALSE, m_transaction_begin' \in Nat,
         m_uncommitted_block_positions' = NoPositions
  PROVE  SoundInv'
<1>1. NoPositions \in [Blocks -> Nat] /\ \A b \in Blocks : NoPositions[b] = 0 BY DEF NoPositions
<1>2. QED BY <1>1 DEF SoundInv

\* abort() cuts the file, which is longer than the log then, or the buffer.
LEMMA SoundAbort ==
  ASSUME SoundInv, Abort
  PROVE  SoundInv'
<1>1. /\ pc = "idle" /\ pc' = "idle" /\ m_in_transaction' = FALSE /\ m_transaction_begin' \in Nat
      /\ m_uncommitted_block_positions' = NoPositions
  BY DEF Abort, EndTransaction
<1>2. /\ logFile \in Logs /\ logDisk \subseteq Logs /\ buffer \in Logs /\ m_buffer_offset \in Nat
      /\ Len(logFile) = m_buffer_offset /\ m_transaction_begin \in Nat /\ Len(buffer) \in Nat
      /\ m_transaction_begin <= m_buffer_offset + Len(buffer)
  BY DEF Abort, SoundInv, LogSize, Logs
<1>3. CASE m_transaction_begin < m_buffer_offset
  <2> DEFINE c == SubSeq(logFile, 1, m_transaction_begin)
  <2>1. /\ logFile' = c /\ logDisk' = logDisk \cup {Restored(c)}
        /\ m_buffer_offset' = m_transaction_begin /\ buffer' = << >>
    BY <1>3 DEF Abort, Truncate
  <2>2. c \in Logs /\ Len(c) = m_transaction_begin BY <1>2, <1>3, PrefixOfLog
  <2> HIDE DEF c
  <2>3. Restored(c) \in Logs /\ << >> \in Logs BY <2>2, RestoredType DEF Logs
  <2>4. QED BY <1>1, <1>2, <2>1, <2>2, <2>3, SoundIdle
<1>4. CASE ~(m_transaction_begin < m_buffer_offset)
  <2>1. /\ logFile' = logFile /\ logDisk' = logDisk /\ m_buffer_offset' = m_buffer_offset
        /\ buffer' = SubSeq(buffer, 1, m_transaction_begin - m_buffer_offset)
    BY <1>4 DEF Abort, fileVars
  <2>2. /\ m_transaction_begin - m_buffer_offset \in Nat
        /\ m_transaction_begin - m_buffer_offset <= Len(buffer)
    BY <1>2, <1>4
  <2>3. buffer' \in Logs BY <1>2, <2>1, <2>2, PrefixOfLog
  <2>4. QED BY <1>1, <1>2, <2>1, <2>3, SoundIdle
<1>5. QED BY <1>3, <1>4

\* A step in which no I/O call fails.
LEMMA SoundStep ==
  ASSUME SoundInv, [Next]_vars, errors \in Nat, errors' = errors
  PROVE  SoundInv'
<1>1. ~IOError BY DEF IOError
<1>2. /\ logFile \in Logs /\ logDisk \subseteq Logs /\ buffer \in Logs /\ m_buffer_offset \in Nat
      /\ m_transaction_begin \in Nat /\ << >> \in Logs /\ Len(<< >>) = 0
      /\ Len(logFile) = IF pc = "shrink" THEN 0 ELSE m_buffer_offset
  BY DEF SoundInv, Logs
<1>3. Restored(logFile) \in Logs BY <1>2, RestoredType
<1>4. CASE Operation
  <2>1. CASE Begin BY <2>1, SoundBegin
  <2>2. CASE \E i \in Blocks, v \in Values : WriteNew(i, v) \/ Rewrite(i, v) \/ RewriteFails(i, v)
    BY <1>1, <2>2, SoundWriteNew, SoundRewrite DEF RewriteFails
  <2>3. CASE \E i \in Blocks, v \in Values, j \in 0 .. MaxCells : WriteNewFails(i, v, j)
    BY <1>1, <2>3 DEF WriteNewFails
  <2>4. CASE \E n \in Sizes : CommitFlush(n) BY <2>4, SoundCommitFlush
  <2>5. CASE \E n \in Sizes, j \in 0 .. MaxCells : CommitFlushFails(n, j)
    BY <1>1, <2>5 DEF CommitFlushFails
  <2>6. CASE CommitSync
    <3>1. /\ pc = "commit" /\ pc' = "idle" /\ m_in_transaction' = FALSE /\ m_transaction_begin' = 0
          /\ m_uncommitted_block_positions' = NoPositions
          /\ logFile' = logFile /\ (logDisk' = logDisk \/ logDisk' = {Restored(logFile)})
          /\ buffer' = buffer /\ m_buffer_offset' = m_buffer_offset
      BY <2>6 DEF CommitSync, EndTransaction, SyncLog, fileVars, bufferVars
    <3>2. QED BY <1>2, <1>3, <3>1, SoundIdle
  <2>7. CASE Abort BY <2>7, SoundAbort
  <2>8. CASE AbortAsserts BY <1>2, <2>8 DEF AbortAsserts, NothingFlushed
  <2>9. CASE CommitSyncFails \/ CheckpointCopyFails \/ CheckpointShrinkFails
    BY <1>1, <2>9 DEF CommitSyncFails, CheckpointCopyFails, CheckpointShrinkFails
  <2>10. CASE CheckpointSync
    <3>1. /\ pc = "idle" /\ pc' = "copy" /\ ~m_in_transaction
          /\ logFile' = logFile /\ logDisk' = {Restored(logFile)}
          /\ buffer' = buffer /\ m_buffer_offset' = m_buffer_offset /\ UNCHANGED txVars
      BY <2>10 DEF CheckpointSync, SyncLog, bufferVars
    <3>2. m_in_transaction' = FALSE /\ m_uncommitted_block_positions' = NoPositions
      BY <3>1 DEF SoundInv, txVars
    <3>3. m_transaction_begin' \in Nat BY <1>2, <3>1 DEF txVars
    <3>4. QED BY <1>2, <1>3, <3>1, <3>2, <3>3, SoundIdle
  <2>11. CASE CheckpointShrink
    <3> DEFINE c == SubSeq(logFile, 1, 0)
    <3>1. /\ pc = "copy" /\ pc' = "shrink" /\ logFile' = c /\ logDisk' = logDisk \cup {Restored(c)}
          /\ buffer' = buffer /\ m_buffer_offset' = m_buffer_offset /\ UNCHANGED txVars
      BY <2>11 DEF CheckpointShrink, Truncate, bufferVars
    <3>2. c \in Logs /\ Len(c) = 0 BY <1>2, PrefixOfLog DEF Logs
    <3> HIDE DEF c
    <3>3. Restored(c) \in Logs BY <3>2, RestoredType
    <3>4. m_in_transaction' = FALSE /\ m_uncommitted_block_positions' = NoPositions
      BY <3>1 DEF SoundInv, txVars
    <3>5. m_transaction_begin' \in Nat BY <1>2, <3>1 DEF txVars
    <3>6. QED BY <1>2, <3>1, <3>2, <3>3, <3>4, <3>5, SoundIdle
  <2>12. CASE CheckpointDone
    <3>1. /\ pc = "shrink" /\ pc' = "idle" /\ logFile' = logFile /\ logDisk' = {Restored(logFile)}
          /\ buffer' = << >> /\ m_buffer_offset' = 0 /\ UNCHANGED txVars
      BY <2>12 DEF CheckpointDone, SyncLog
    <3>2. m_in_transaction' = FALSE /\ m_uncommitted_block_positions' = NoPositions
      BY <3>1 DEF SoundInv, txVars
    <3>3. m_transaction_begin' \in Nat BY <1>2, <3>1 DEF txVars
    <3>4. QED BY <1>2, <1>3, <3>1, <3>2, <3>3, SoundIdle
  <2>13. QED
    BY <1>4, <2>1, <2>2, <2>3, <2>4, <2>5, <2>6, <2>7, <2>8, <2>9, <2>10, <2>11, <2>12 DEF Operation
<1>5. CASE SetSyncOnCommit
  BY <1>5 DEF SetSyncOnCommit, SoundInv, LogSize, fileVars, bufferVars, txVars
<1>6. CASE Restart
  <2>1. PICK c \in logDisk : logFile' = c /\ logDisk' = {c} /\ m_buffer_offset' = Len(c)
    BY <1>6 DEF Restart
  <2>2. /\ buffer' = << >> /\ pc' = "idle" /\ m_in_transaction' = FALSE /\ m_transaction_begin' = 0
        /\ m_uncommitted_block_positions' = NoPositions
    BY <1>6 DEF Restart, EndTransaction
  <2>3. c \in Logs /\ Len(c) \in Nat BY <1>2, <2>1 DEF Logs
  <2>4. QED BY <1>2, <2>1, <2>2, <2>3, SoundIdle
<1>7. CASE UNCHANGED vars BY <1>7 DEF vars, SoundInv, LogSize
<1>8. QED BY <1>4, <1>5, <1>6, <1>7 DEF Next

\* Errors are counted.
LEMMA ErrorsGrow ==
  ASSUME errors \in Nat, [Next]_vars
  PROVE  errors' \in Nat /\ (errors' = errors \/ errors' = errors + 1)
<1>1. CASE Operation
  BY <1>1 DEF Operation, Begin, WriteNew, Rewrite, RewriteFails, WriteNewFails, CommitFlush,
              CommitFlushFails, CommitSync, CommitSyncFails, Abort, AbortAsserts, CheckpointSync,
              CheckpointCopyFails, CheckpointShrink, CheckpointDone, CheckpointShrinkFails, IOError
<1>2. CASE SetSyncOnCommit \/ Restart BY <1>2 DEF SetSyncOnCommit, Restart
<1>3. CASE UNCHANGED vars BY <1>3 DEF vars
<1>4. QED BY <1>1, <1>2, <1>3 DEF Next

\* The "Log size invariant." of begin(), commit() and abort() holds until an I/O call
\* fails: in debug and release builds, whatever order the disk keeps, whether or not the
\* application repeats what has failed, for every buffer size and length of the log.
THEOREM LogSizeExact == Spec => []OnlyErrorsLeaveRemains
<1>1. Init => ErrorInv
  <2>1. SUFFICES ASSUME Init PROVE SoundInv /\ errors \in Nat BY DEF ErrorInv
  <2>2. << >> \in Logs /\ Len(<< >>) = 0 BY DEF Logs
  <2>3. NoPositions \in [Blocks -> Nat] /\ \A b \in Blocks : NoPositions[b] = 0 BY DEF NoPositions
  <2>4. /\ logFile = << >> /\ logDisk = {<< >>} /\ buffer = << >> /\ m_buffer_offset = 0
        /\ m_in_transaction = FALSE /\ m_transaction_begin = 0
        /\ m_uncommitted_block_positions = NoPositions /\ pc = "idle" /\ errors = 0
    BY <2>1 DEF Init
  <2>5. m_in_transaction \in BOOLEAN /\ ~m_in_transaction BY <2>4
  <2>6. Len(logFile) = m_buffer_offset /\ m_buffer_offset \in Nat BY <2>2, <2>4
  <2>7. \A b \in Blocks : ~(m_uncommitted_block_positions[b] # 0) BY <2>3, <2>4
  <2>8. /\ logFile \in Logs /\ logDisk \subseteq Logs /\ buffer \in Logs
        /\ m_transaction_begin \in Nat /\ m_uncommitted_block_positions \in [Blocks -> Nat]
    BY <2>2, <2>3, <2>4
  <2>9. QED BY <2>4, <2>5, <2>6, <2>7, <2>8 DEF SoundInv
<1>2. ErrorInv /\ [Next]_vars => ErrorInv'
  <2>1. SUFFICES ASSUME ErrorInv, [Next]_vars PROVE ErrorInv' OBVIOUS
  <2>2. errors \in Nat /\ errors' \in Nat /\ (errors' = errors \/ errors' = errors + 1)
    BY <2>1, ErrorsGrow DEF ErrorInv
  <2>3. errors' = 0 => errors = 0 /\ errors' = errors BY <2>2
  <2>4. errors' = 0 => SoundInv' BY <2>1, <2>2, <2>3, SoundStep DEF ErrorInv
  <2>5. QED BY <2>2, <2>4 DEF ErrorInv
<1>3. ErrorInv => OnlyErrorsLeaveRemains BY DEF ErrorInv, SoundInv, OnlyErrorsLeaveRemains
<1>4. QED BY <1>1, <1>2, <1>3, PTL DEF Spec

-----------------------------------------------------------------------------
(* The index and the blocks.                                               *)

\* The index in memory is what restore() would rebuild by scanning the file.
THEOREM IndexRestorable ==
  ASSUME Setting
  PROVE  Spec => []IndexMatchesLog
<1>1. Inv => IndexMatchesLog
  <2>1. SUFFICES ASSUME Inv, pc = "idle", ~m_in_transaction
                 PROVE  /\ Restore(logFile).positions = m_block_positions
                        /\ Restore(logFile).size = m_database_size
    BY DEF IndexMatchesLog
  <2>2. ~LogGone BY <2>1 DEF LogGone
  <2>3. QED BY <2>1, <2>2, IdleState
<1>2. QED BY <1>1, JournalWellFormed, PTL

\* What a complete log says of a block is a content that was written as a whole.
LEMMA ImageCorrect ==
  ASSUME NEW c, Complete(c), NEW b \in Blocks
  PROVE  /\ Image(c).blocks[b] \in Values \cup {None}
         /\ Restore(c).positions[b] \in Nat
         /\ Restore(c).positions[b] # 0 => Restore(c).positions[b] + 2 <= Len(c)
<1> DEFINE r == Restore(c)
           pos == r.positions[b]
<1>1. c \in Logs /\ Len(c) \in Nat /\ pos \in Nat BY CompleteStays
<1>2. Holds(c, pos) BY DEF Complete
<1>3. Image(c).blocks[b] = IF pos = 0 THEN None ELSE Content(At(c, pos), At(c, pos + 1))
  BY DEF Image
<1> HIDE DEF r, pos
<1>4. CASE pos = 0 BY <1>1, <1>3, <1>4 DEF pos, r
<1>5. CASE pos # 0
  <2>1. /\ pos + 2 <= Len(c) /\ c[pos + 1][2] = c[pos + 2][2] /\ c[pos + 1][2] \in Values
    BY <1>2, <1>5 DEF Holds
  <2>2. pos < Len(c) /\ pos + 1 < Len(c) /\ pos + 1 + 1 = pos + 2 BY <1>1, <2>1
  <2>3. At(c, pos) = c[pos + 1] /\ At(c, pos + 1) = c[pos + 2] BY <2>2 DEF At
  <2>4. Content(At(c, pos), At(c, pos + 1)) \in Values BY <2>1, <2>3 DEF Content
  <2>5. QED BY <1>1, <1>3, <1>5, <2>1, <2>4 DEF pos, r
<1>6. QED BY <1>4, <1>5

\* Whatever a power loss leaves, the database reverts to contents that a transaction
\* wrote.
THEOREM RevertsCorrectly ==
  ASSUME Setting
  PROVE  Spec => []RevertsToWrittenBlocks
<1>1. Inv => RevertsToWrittenBlocks
  <2>1. SUFFICES ASSUME Inv, NEW c \in logDisk, NEW b \in Blocks
                 PROVE  Image(c).blocks[b] \in Values \cup {None}
    BY DEF RevertsToWrittenBlocks
  <2>2. Complete(c) BY <2>1 DEF Inv, DiskInv
  <2>3. QED BY <2>2, ImageCorrect
<1>2. QED BY <1>1, JournalWellFormed, PTL

-----------------------------------------------------------------------------
(***************************************************************************)
(* The journal implements RedoLog.                                         *)
(*                                                                         *)
(* The refinement mapping reads blocks through the index, from the file    *)
(* and from the buffer.  The journal's invariant turns that into the image *)
(* of one log (LogNow), and a step into a step from one image to another.  *)
(***************************************************************************)
-----------------------------------------------------------------------------
(* The refinement mapping.                                                 *)

\* What RedoLog sees of the journal.
CommittedBlocks == [b \in Blocks |-> IF LogGone THEN None ELSE ReadAt(m_block_positions[b])]
CommittedSize == IF LogGone THEN None ELSE m_database_size
TxBlocks == [b \in Blocks |-> ReadAt(m_uncommitted_block_positions[b])]
DiskImages == { Image(c) : c \in logDisk }

\* The log of the committed transactions.
LogNow == IF LogGone THEN << >> ELSE Committed

\* ReadAt after a step.
NextRead(pos) == IF pos = 0 THEN None ELSE Content(NextCell(pos), NextCell(pos + 1))

\* The blocks of the transaction after a step.
LEMMA NextTxBlocks ==
  TxBlocks' = [b \in Blocks |-> NextRead(m_uncommitted_block_positions'[b])]
BY DEF TxBlocks, ReadAt, NextRead, NextCell, CellAt, Cell, Content

\* An image consists of one content for each block, and of a size.
LEMMA ImageShape ==
  ASSUME NEW c
  PROVE  /\ Image(c) = [blocks |-> Image(c).blocks, size |-> Image(c).size]
         /\ Image(c).blocks = [b \in Blocks |-> Image(c).blocks[b]]
         /\ Image(c).size = Restore(c).size
BY DEF Image

\* The image of the empty log.
LEMMA EmptyImage == Image(<< >>) = Log!Empty
<1>1. Restore(<< >>) = ScanStart BY EmptyLog
<1>2. ScanStart.positions = NoPositions /\ ScanStart.size = None BY DEF ScanStart
<1>3. QED BY <1>1, <1>2 DEF Image, NoPositions, Log!Empty, Log!NoBlocks

\* A committed block lies in the file, in front of the buffer.
LEMMA CommittedPlace ==
  ASSUME Inv, ~LogGone, NEW b \in Blocks
  PROVE  LET pos == m_block_positions[b]
         IN  /\ pos \in Nat
             /\ pos # 0 => /\ pos + 2 <= End /\ End <= m_buffer_offset
                           /\ CellAt(pos) = At(Committed, pos)
                           /\ CellAt(pos + 1) = At(Committed, pos + 1)
<1> DEFINE pos == m_block_positions[b]
<1>1. /\ Complete(Committed) /\ Restore(Committed).positions = m_block_positions
      /\ logFile \in Logs /\ m_buffer_offset \in Nat /\ End \in Nat
      /\ End <= m_buffer_offset /\ m_buffer_offset <= Len(logFile) /\ Len(logFile) \in Nat
  BY DEF Inv, IndexInv, TypeOK, LayoutInv, End, Logs
<1>2. End <= Len(logFile) BY <1>1
<1>3. Len(Committed) = End /\ \A p \in 1 .. End : Committed[p] = logFile[p]
  BY <1>1, <1>2, PrefixOfLog DEF Committed
<1>4. pos \in Nat /\ (pos # 0 => pos + 2 <= End) BY <1>1, <1>3, ImageCorrect
<1> HIDE DEF pos
<1>5. ASSUME NEW p \in Nat, p < End PROVE CellAt(p) = At(Committed, p)
  <2>1. p < m_buffer_offset /\ p < Len(logFile) /\ p + 1 \in 1 .. End BY <1>1, <1>5
  <2>2. CellAt(p) = logFile[p + 1] BY <2>1 DEF CellAt, At
  <2>3. At(Committed, p) = Committed[p + 1] BY <1>3, <1>5 DEF At
  <2>4. QED BY <1>3, <2>1, <2>2, <2>3
<1>6. ASSUME pos # 0
      PROVE  /\ CellAt(pos) = At(Committed, pos) /\ CellAt(pos + 1) = At(Committed, pos + 1)
  <2>1. pos \in Nat /\ pos + 1 \in Nat /\ pos < End /\ pos + 1 < End BY <1>1, <1>4, <1>6
  <2>2. QED BY <1>5, <2>1
<1>7. QED BY <1>1, <1>4, <1>6 DEF pos

\* The index shows what restore() would make of the committed log.
LEMMA CurrentImage ==
  Inv => CommittedBlocks = Image(LogNow).blocks /\ CommittedSize = Image(LogNow).size
<1>1. SUFFICES ASSUME Inv
               PROVE  CommittedBlocks = Image(LogNow).blocks /\ CommittedSize = Image(LogNow).size
  OBVIOUS
<1>2. CASE LogGone
  <2>1. Image(LogNow) = Log!Empty BY <1>2, EmptyImage DEF LogNow
  <2>2. QED BY <1>2, <2>1 DEF CommittedBlocks, CommittedSize, Log!Empty, Log!NoBlocks
<1>3. CASE ~LogGone
  <2>1. /\ Restore(Committed).positions = m_block_positions
        /\ Restore(Committed).size = m_database_size
    BY <1>1, <1>3 DEF Inv, IndexInv
  <2>2. Image(Committed).blocks = [b \in Blocks |->
          IF m_block_positions[b] = 0 THEN None
          ELSE Content(At(Committed, m_block_positions[b]), At(Committed, m_block_positions[b] + 1))]
    BY <2>1 DEF Image
  <2>3. ASSUME NEW b \in Blocks
        PROVE  ReadAt(m_block_positions[b]) =
                 IF m_block_positions[b] = 0 THEN None
                 ELSE Content(At(Committed, m_block_positions[b]),
                              At(Committed, m_block_positions[b] + 1))
    BY <1>1, <1>3, CommittedPlace DEF ReadAt
  <2>4. CommittedBlocks = Image(Committed).blocks BY <1>3, <2>2, <2>3 DEF CommittedBlocks
  <2>5. CommittedSize = Image(Committed).size BY <1>3, <2>1, ImageShape DEF CommittedSize
  <2>6. QED BY <1>3, <2>4, <2>5 DEF LogNow
<1>4. QED BY <1>2, <1>3

\* The same after a step.
LEMMA NextImage ==
  ASSUME Inv, Inv'
  PROVE  /\ CommittedBlocks = Image(LogNow).blocks /\ CommittedSize = Image(LogNow).size
         /\ CommittedBlocks' = Image(LogNow').blocks /\ CommittedSize' = Image(LogNow').size
<1>1. (Inv => CommittedBlocks = Image(LogNow).blocks /\ CommittedSize = Image(LogNow).size)'
  BY CurrentImage, PTL
<1>2. QED BY <1>1, CurrentImage

\* A step that keeps the committed log keeps what RedoLog sees of it.
LEMMA SameImage ==
  ASSUME Inv, Inv', LogNow' = LogNow
  PROVE  CommittedBlocks' = CommittedBlocks /\ CommittedSize' = CommittedSize
BY NextImage

-----------------------------------------------------------------------------
(* The blocks of the running transaction.                                  *)

\* A block of the transaction, as read() returns it.
LEMMA TxBlock ==
  ASSUME Inv, m_in_transaction, NEW b \in Blocks
  PROVE  LET pos == m_uncommitted_block_positions[b]
         IN  /\ pos \in Nat /\ LogSize \in Nat
             /\ pos = 0 => TxBlocks[b] = None
             /\ pos # 0 => /\ pos + 2 <= LogSize
                           /\ TxBlocks[b] = Content(CellAt(pos), CellAt(pos + 1))
                           /\ TxBlocks[b] # None
             /\ failed = {} => TxBlocks[b] # Torn
<1> DEFINE pos == m_uncommitted_block_positions[b]
<1>1. pos \in Nat /\ PlaceOK(b) BY DEF Inv, TypeOK, PlacesInv
<1>2. LogSize \in Nat BY DEF Inv, TypeOK, LogSize, Logs
<1>3. /\ TxBlocks[b] = IF pos = 0 THEN None ELSE Content(CellAt(pos), CellAt(pos + 1))
  BY DEF TxBlocks, ReadAt
<1>4. None \notin Values /\ Torn \notin Values /\ None # Torn BY JournalAssumption
<1>5. pos # 0 =>
        /\ pos + 2 <= LogSize
        /\ CellAt(pos)[2] \in Values /\ CellAt(pos + 1)[2] \in Values
        /\ failed = {} => CellAt(pos)[2] = CellAt(pos + 1)[2]
  BY <1>1 DEF PlaceOK
<1> HIDE DEF pos
<1>6. QED BY <1>1, <1>2, <1>3, <1>4, <1>5 DEF Content, pos

\* Without a transaction there are none.
LEMMA NoTxBlocks ==
  Inv /\ ~m_in_transaction => TxBlocks = Log!NoBlocks
BY DEF Inv, LayoutInv, TxBlocks, ReadAt, NoPositions, Log!NoBlocks

\* The same after a step.
LEMMA NextNoTxBlocks ==
  ASSUME Inv', ~m_in_transaction'
  PROVE  TxBlocks' = Log!NoBlocks
<1>1. (Inv /\ ~m_in_transaction => TxBlocks = Log!NoBlocks)' BY NoTxBlocks, PTL
<1>2. QED BY <1>1 DEF Log!NoBlocks

\* A step that only appends to the log keeps them.
LEMMA TxBlocksKept ==
  ASSUME Inv, m_in_transaction, UNCHANGED m_uncommitted_block_positions,
         \A p \in Nat : p < LogSize => NextCell(p) = CellAt(p)
  PROVE  TxBlocks' = TxBlocks
<1>1. ASSUME NEW b \in Blocks PROVE NextRead(m_uncommitted_block_positions'[b]) = TxBlocks[b]
  <2> DEFINE pos == m_uncommitted_block_positions[b]
  <2>1. /\ pos \in Nat /\ LogSize \in Nat
        /\ pos = 0 => TxBlocks[b] = None
        /\ pos # 0 => /\ pos + 2 <= LogSize
                      /\ TxBlocks[b] = Content(CellAt(pos), CellAt(pos + 1))
    BY TxBlock
  <2>2. m_uncommitted_block_positions'[b] = pos OBVIOUS
  <2> HIDE DEF pos
  <2>3. CASE pos = 0 BY <2>1, <2>2, <2>3 DEF NextRead
  <2>4. CASE pos # 0
    <3>1. pos < LogSize /\ pos + 1 < LogSize /\ pos + 1 \in Nat BY <2>1, <2>4
    <3>2. NextCell(pos) = CellAt(pos) /\ NextCell(pos + 1) = CellAt(pos + 1) BY <2>1, <3>1
    <3>3. QED BY <2>1, <2>2, <2>4, <3>2 DEF NextRead
  <2>5. QED BY <2>3, <2>4
<1>2. TxBlocks = [b \in Blocks |-> TxBlocks[b]] BY DEF TxBlocks
<1>3. QED BY <1>1, <1>2, NextTxBlocks

\* A step that gives one block another content.
LEMMA OneTxBlock ==
  ASSUME NEW i \in Blocks, NEW x, NextRead(m_uncommitted_block_positions'[i]) = x,
         \A b \in Blocks : b # i => NextRead(m_uncommitted_block_positions'[b]) = TxBlocks[b]
  PROVE  TxBlocks' = [TxBlocks EXCEPT ![i] = x]
<1>1. TxBlocks = [b \in Blocks |-> TxBlocks[b]] BY DEF TxBlocks
<1>2. QED BY <1>1, NextTxBlocks

\* The log of a transaction that is committed with size n shows what RedoLog expects.
LEMMA MergedImage ==
  ASSUME Inv, m_in_transaction, ~LogGone, failed = {}, NEW n \in Sizes, NEW F \in Logs,
         Restore(F).positions =
           MergedPositions(m_uncommitted_block_positions, m_block_positions, n),
         Restore(F).size = n,
         \A p \in Nat : p < LogSize => At(F, p) = CellAt(p)
  PROVE  Image(F) = Log!After(n)
<1> DEFINE P == Restore(F).positions
           G == [b \in Blocks |-> IF b >= n THEN None
                                  ELSE IF TxBlocks[b] # None THEN TxBlocks[b] ELSE CommittedBlocks[b]]
<1>1. Log!After(n) = [blocks |-> G, size |-> n]
  BY DEF Log!After, Log!Merged, TxBlocks, CommittedBlocks
<1>2. Image(F) = [blocks |-> [b \in Blocks |-> IF P[b] = 0 THEN None
                                               ELSE Content(At(F, P[b]), At(F, P[b] + 1))],
                  size |-> n]
  BY DEF Image
<1>3. ASSUME NEW b \in Blocks
      PROVE  G[b] = IF P[b] = 0 THEN None ELSE Content(At(F, P[b]), At(F, P[b] + 1))
  <2> DEFINE u == m_uncommitted_block_positions[b]
             m == m_block_positions[b]
  <2>1. P[b] = IF b >= n THEN 0 ELSE IF u # 0 THEN u ELSE m BY DEF MergedPositions
  <2>2. /\ u \in Nat /\ LogSize \in Nat
        /\ u = 0 => TxBlocks[b] = None
        /\ u # 0 => /\ u + 2 <= LogSize
                    /\ TxBlocks[b] = Content(CellAt(u), CellAt(u + 1))
                    /\ TxBlocks[b] # None
    BY TxBlock
  <2>3. m \in Nat /\ (m # 0 => m + 2 <= End /\ End <= m_buffer_offset) BY CommittedPlace
  <2>4. CommittedBlocks[b] = IF m = 0 THEN None ELSE Content(CellAt(m), CellAt(m + 1))
    BY DEF CommittedBlocks, ReadAt
  <2>5. /\ m_buffer_offset \in Nat /\ End \in Nat /\ m_buffer_offset <= LogSize
    BY DEF Inv, TypeOK, LogSize, End, Logs
  <2>6. G[b] = IF b >= n THEN None
               ELSE IF TxBlocks[b] # None THEN TxBlocks[b] ELSE CommittedBlocks[b]
    OBVIOUS
  <2> HIDE DEF u, m, P, G
  <2>7. ASSUME NEW p \in Nat, p + 2 <= LogSize
        PROVE  At(F, p) = CellAt(p) /\ At(F, p + 1) = CellAt(p + 1)
    <3>1. p < LogSize /\ p + 1 < LogSize /\ p + 1 \in Nat BY <2>2, <2>7
    <3>2. QED BY <3>1
  <2>8. CASE b >= n BY <2>1, <2>6, <2>8
  <2>9. CASE ~(b >= n) /\ u # 0
    <3>1. At(F, u) = CellAt(u) /\ At(F, u + 1) = CellAt(u + 1) BY <2>2, <2>7, <2>9
    <3>2. QED BY <2>1, <2>2, <2>6, <2>9, <3>1
  <2>10. CASE ~(b >= n) /\ u = 0 /\ m # 0
    <3>1. m + 2 <= LogSize BY <2>2, <2>3, <2>5, <2>10
    <3>2. At(F, m) = CellAt(m) /\ At(F, m + 1) = CellAt(m + 1) BY <2>3, <2>7, <3>1
    <3>3. QED BY <2>1, <2>2, <2>4, <2>6, <2>10, <3>2
  <2>11. CASE ~(b >= n) /\ u = 0 /\ m = 0 BY <2>1, <2>2, <2>4, <2>6, <2>11
  <2>12. QED BY <2>8, <2>9, <2>10, <2>11
<1>4. G = [b \in Blocks |-> G[b]] OBVIOUS
<1> HIDE DEF G, P
<1>5. G = [b \in Blocks |-> IF P[b] = 0 THEN None ELSE Content(At(F, P[b]), At(F, P[b] + 1))]
  BY <1>3, <1>4
<1>6. QED BY <1>1, <1>2, <1>5

\* A transaction that may commit, and its log with the commit record.
LEMMA CommitImage ==
  ASSUME Inv, Setting, MayCommit, NEW n \in Sizes
  PROVE  Image(FullLog(n)) = Log!After(n) /\ \A b \in Blocks : TxBlocks[b] # Torn
<1> DEFINE F == FullLog(n)
<1>1. m_in_transaction /\ ~LogGone /\ failed = {} /\ LogSize \in Nat BY CommitState, RunningState
<1>2. /\ F \in Logs /\ Len(F) = LogSize + 2
      /\ Restore(F).positions =
           MergedPositions(m_uncommitted_block_positions, m_block_positions, n)
      /\ Restore(F).size = n
      /\ \A p \in 1 .. LogSize : F[p] = Whole[p]
  BY FullLogComplete
<1> HIDE DEF F
<1>3. ASSUME NEW p \in Nat, p < LogSize PROVE At(F, p) = CellAt(p)
  <2>1. p < Len(F) /\ p + 1 \in 1 .. LogSize /\ p + 1 - 1 = p BY <1>1, <1>2, <1>3
  <2>2. Whole[p + 1] = CellAt(p + 1 - 1) BY <2>1 DEF Whole
  <2>3. QED BY <1>2, <2>1, <2>2 DEF At
<1>4. Image(F) = Log!After(n) BY <1>1, <1>2, <1>3, MergedImage
<1>5. \A b \in Blocks : TxBlocks[b] # Torn BY <1>1, TxBlock
<1>6. QED BY <1>4, <1>5 DEF F

\* The same once the record is written.
LEMMA CommittingImage ==
  ASSUME Inv, pc = "commit"
  PROVE  Image(logFile) = Log!After(commitSize) /\ m_in_transaction /\ commitSize \in Sizes
<1>1. /\ m_in_transaction /\ ~LogGone /\ failed = {} /\ buffer = << >> /\ commitSize \in Sizes
      /\ Len(logFile) = m_buffer_offset
  BY DEF Inv, LayoutInv, LogGone
<1>2. /\ logFile \in Logs /\ m_buffer_offset \in Nat
      /\ Restore(logFile).positions =
           MergedPositions(m_uncommitted_block_positions, m_block_positions, commitSize)
      /\ Restore(logFile).size = commitSize
  BY DEF Inv, TypeOK, CommittingInv
<1>3. LogSize = m_buffer_offset BY <1>1, <1>2 DEF LogSize
<1>4. ASSUME NEW p \in Nat, p < LogSize PROVE At(logFile, p) = CellAt(p)
  BY <1>1, <1>2, <1>3, <1>4 DEF CellAt
<1>5. QED BY <1>1, <1>2, <1>4, MergedImage

-----------------------------------------------------------------------------
(* The steps, one by one.                                                  *)

\* What a step of the journal is to RedoLog.
LogStep == Log!Next \/ UNCHANGED Log!logVars

\* RedoLog's variables, by the names used here.
LEMMA LogVars ==
  /\ Log!logVars = <<CommittedBlocks, CommittedSize, TxBlocks, m_in_transaction, DiskImages>>
  /\ Log!logVars' =
       <<CommittedBlocks', CommittedSize', TxBlocks', m_in_transaction', DiskImages'>>
BY DEF Log!logVars, CommittedBlocks, CommittedSize, TxBlocks, DiskImages

\* Nothing that RedoLog sees changes.
LEMMA Stutters ==
  ASSUME UNCHANGED <<CommittedBlocks, CommittedSize, TxBlocks, m_in_transaction, DiskImages>>
  PROVE  LogStep
BY LogVars DEF LogStep

\* A step inside a transaction, up to what it writes.
LEMMA RunningStep ==
  ASSUME Inv, Inv', InTransaction, Setting, Committed' = Committed, pc' \in {"idle", "commit"}
  PROVE  UNCHANGED <<CommittedBlocks, CommittedSize>> /\ m_in_transaction
<1>1. ~LogGone /\ m_in_transaction BY RunningState
<1>2. LogNow' = LogNow BY <1>1 DEF LogNow, LogGone
<1>3. QED BY <1>1, <1>2, SameImage

\* begin()
LEMMA BeginStep ==
  ASSUME Inv, Setting, UNCHANGED m_sync_on_commit, Begin
  PROVE  LogStep
<1>1. /\ Inv' /\ logDisk' = logDisk /\ Committed' = Committed BY BeginInv
<1>2. /\ pc = "idle" /\ pc' = "idle" /\ ~m_in_transaction /\ m_in_transaction' = TRUE
      /\ UNCHANGED m_uncommitted_block_positions
  BY DEF Begin
<1>3. LogNow' = LogNow BY <1>1, <1>2 DEF LogNow, LogGone
<1>4. CommittedBlocks' = CommittedBlocks /\ CommittedSize' = CommittedSize BY <1>1, <1>3, SameImage
<1>5. m_uncommitted_block_positions = NoPositions BY <1>2 DEF Inv, LayoutInv
<1>6. TxBlocks' = TxBlocks BY <1>2, <1>5 DEF TxBlocks, ReadAt, NoPositions
<1>7. DiskImages' = DiskImages BY <1>1 DEF DiskImages
<1>8. Log!Begin
  BY <1>2, <1>4, <1>6, <1>7 DEF Log!Begin, CommittedBlocks, CommittedSize, TxBlocks, DiskImages
<1>9. QED BY <1>8 DEF LogStep, Log!Next

\* write() of a block that is new to the transaction
LEMMA WriteNewStep ==
  ASSUME Inv, Setting, UNCHANGED m_sync_on_commit, NEW i \in Blocks, NEW v \in Values,
         WriteNew(i, v)
  PROVE  LogStep
<1>1. /\ Inv' /\ logDisk' = logDisk /\ Committed' = Committed
      /\ \A p \in Nat : p < LogSize => NextCell(p) = CellAt(p)
      /\ NextCell(LogSize + 2) = <<"data", v>> /\ NextCell(LogSize + 3) = <<"data", v>>
  BY WriteNewInv
<1>2. /\ InTransaction /\ m_in_transaction' = m_in_transaction /\ pc' = pc
      /\ m_uncommitted_block_positions[i] = 0
      /\ m_uncommitted_block_positions' = [m_uncommitted_block_positions EXCEPT ![i] = LogSize + 2]
  BY DEF WriteNew
<1>3. /\ pc = "idle" /\ m_in_transaction /\ LogSize \in Nat
      /\ m_uncommitted_block_positions \in [Blocks -> Nat]
  BY <1>2, RunningState
<1>4. UNCHANGED <<CommittedBlocks, CommittedSize>> BY <1>1, <1>2, <1>3, RunningStep
<1>5. NextRead(m_uncommitted_block_positions'[i]) = v
  <2>1. m_uncommitted_block_positions'[i] = LogSize + 2 BY <1>2, <1>3
  <2>2. LogSize + 2 # 0 /\ LogSize + 2 + 1 = LogSize + 3 BY <1>3
  <2>3. QED BY <1>1, <2>1, <2>2 DEF NextRead, Content
<1>6. ASSUME NEW b \in Blocks, b # i
      PROVE  NextRead(m_uncommitted_block_positions'[b]) = TxBlocks[b]
  <2> DEFINE pos == m_uncommitted_block_positions[b]
  <2>1. /\ pos \in Nat
        /\ pos = 0 => TxBlocks[b] = None
        /\ pos # 0 => /\ pos + 2 <= LogSize
                      /\ TxBlocks[b] = Content(CellAt(pos), CellAt(pos + 1))
    BY <1>3, TxBlock
  <2>2. m_uncommitted_block_positions'[b] = pos BY <1>2, <1>3, <1>6
  <2> HIDE DEF pos
  <2>3. CASE pos = 0 BY <2>1, <2>2, <2>3 DEF NextRead
  <2>4. CASE pos # 0
    <3>1. pos < LogSize /\ pos + 1 < LogSize /\ pos + 1 \in Nat BY <1>3, <2>1, <2>4
    <3>2. NextCell(pos) = CellAt(pos) /\ NextCell(pos + 1) = CellAt(pos + 1) BY <1>1, <2>1, <3>1
    <3>3. QED BY <2>1, <2>2, <2>4, <3>2 DEF NextRead
  <2>5. QED BY <2>3, <2>4
<1>7. TxBlocks' = [TxBlocks EXCEPT ![i] = v] BY <1>5, <1>6, OneTxBlock
<1>8. DiskImages' = DiskImages BY <1>1 DEF DiskImages
<1>9. Log!Write(i, v)
  BY <1>2, <1>3, <1>4, <1>7, <1>8
  DEF Log!Write, CommittedBlocks, CommittedSize, TxBlocks, DiskImages
<1>10. QED BY <1>9 DEF LogStep, Log!Next

\* A failed append changes nothing that can be read.
LEMMA WriteNewFailsStep ==
  ASSUME Inv, Setting, UNCHANGED m_sync_on_commit, NEW i \in Blocks, NEW v \in Values,
         NEW j \in Nat, WriteNewFails(i, v, j)
  PROVE  LogStep
<1>1. /\ Inv' /\ logDisk' = logDisk /\ Committed' = Committed
      /\ \A p \in Nat : p < LogSize => NextCell(p) = CellAt(p)
  BY WriteNewFailsInv
<1>2. InTransaction /\ pc' = pc /\ UNCHANGED txVars BY DEF WriteNewFails
<1>3. pc = "idle" /\ m_in_transaction BY <1>2, RunningState
<1>4. UNCHANGED <<CommittedBlocks, CommittedSize>> BY <1>1, <1>2, <1>3, RunningStep
<1>5. TxBlocks' = TxBlocks BY <1>1, <1>2, <1>3, TxBlocksKept DEF txVars
<1>6. DiskImages' = DiskImages BY <1>1 DEF DiskImages
<1>7. QED BY <1>2, <1>4, <1>5, <1>6, Stutters DEF txVars

\* Rewriting a block leaves the other blocks of the transaction alone.
LEMMA OtherTxBlocks ==
  ASSUME Inv, m_in_transaction, NEW i \in Blocks, NEW v, m_uncommitted_block_positions[i] # 0,
         Rewritten(m_uncommitted_block_positions[i], v), UNCHANGED txVars
  PROVE  \A b \in Blocks : b # i => NextRead(m_uncommitted_block_positions'[b]) = TxBlocks[b]
<1> DEFINE q == m_uncommitted_block_positions[i]
<1>1. q \in Nat /\ LogSize \in Nat BY TxBlock
<1>2. \A p \in Nat : p < LogSize => \/ NextCell(p) = CellAt(p)
                                    \/ (p = q \/ p = q + 1) /\ NextCell(p) = <<"data", v>>
  BY DEF Rewritten
<1>3. ASSUME NEW b \in Blocks, b # i
      PROVE  NextRead(m_uncommitted_block_positions'[b]) = TxBlocks[b]
  <2> DEFINE pos == m_uncommitted_block_positions[b]
  <2>1. /\ pos \in Nat
        /\ pos = 0 => TxBlocks[b] = None
        /\ pos # 0 => /\ pos + 2 <= LogSize
                      /\ TxBlocks[b] = Content(CellAt(pos), CellAt(pos + 1))
    BY TxBlock
  <2>2. m_uncommitted_block_positions'[b] = pos BY DEF txVars
  <2>3. pos # 0 => pos + 2 <= q \/ q + 2 <= pos BY <1>3 DEF Inv, PlacesInv, Apart
  <2> HIDE DEF pos, q
  <2>4. CASE pos = 0 BY <2>1, <2>2, <2>4 DEF NextRead
  <2>5. CASE pos # 0
    <3>1. /\ pos < LogSize /\ pos + 1 < LogSize /\ pos + 1 \in Nat
          /\ pos # q /\ pos # q + 1 /\ pos + 1 # q /\ pos + 1 # q + 1
      BY <1>1, <2>1, <2>3, <2>5
    <3>2. NextCell(pos) = CellAt(pos) /\ NextCell(pos + 1) = CellAt(pos + 1)
      BY <1>2, <2>1, <3>1
    <3>3. QED BY <2>1, <2>2, <2>5, <3>2 DEF NextRead
  <2>6. QED BY <2>4, <2>5
<1>4. QED BY <1>3

\* write() of a block that the transaction has written before
LEMMA RewriteStep ==
  ASSUME Inv, Setting, UNCHANGED m_sync_on_commit, NEW i \in Blocks, NEW v \in Values,
         Rewrite(i, v)
  PROVE  LogStep
<1> DEFINE q == m_uncommitted_block_positions[i]
<1>1. /\ Inv' /\ Committed' = Committed /\ logDisk' = logDisk /\ Rewritten(q, v)
      /\ NextCell(q) = <<"data", v>> /\ NextCell(q + 1) = <<"data", v>>
  BY RewriteInv
<1>2. InTransaction /\ q # 0 /\ pc' = pc /\ UNCHANGED txVars BY DEF Rewrite
<1>3. pc = "idle" /\ m_in_transaction BY <1>2, RunningState
<1>4. UNCHANGED <<CommittedBlocks, CommittedSize>> BY <1>1, <1>2, <1>3, RunningStep
<1>5. \A b \in Blocks : b # i => NextRead(m_uncommitted_block_positions'[b]) = TxBlocks[b]
  BY <1>1, <1>2, <1>3, OtherTxBlocks
<1>6. NextRead(m_uncommitted_block_positions'[i]) = v
  <2>1. m_uncommitted_block_positions'[i] = q BY <1>2 DEF txVars
  <2> HIDE DEF q
  <2>2. QED BY <1>1, <1>2, <2>1 DEF NextRead, Content
<1>7. TxBlocks' = [TxBlocks EXCEPT ![i] = v] BY <1>5, <1>6, OneTxBlock
<1>8. DiskImages' = DiskImages BY <1>1 DEF DiskImages
<1>9. m_in_transaction' = m_in_transaction BY <1>2 DEF txVars
<1>10. Log!Write(i, v)
  BY <1>3, <1>4, <1>7, <1>8, <1>9
  DEF Log!Write, CommittedBlocks, CommittedSize, TxBlocks, DiskImages
<1>11. QED BY <1>10 DEF LogStep, Log!Next

\* A failed one leaves the old content, the new one, or neither.
LEMMA RewriteFailsStep ==
  ASSUME Inv, Setting, UNCHANGED m_sync_on_commit, NEW i \in Blocks, NEW v \in Values,
         RewriteFails(i, v)
  PROVE  LogStep
<1> DEFINE q == m_uncommitted_block_positions[i]
           x == NextRead(q)
<1>1. /\ Inv' /\ Committed' = Committed /\ logDisk' = logDisk /\ Rewritten(q, v) BY RewriteFailsInv
<1>2. InTransaction /\ q # 0 /\ pc' = pc /\ UNCHANGED txVars BY DEF RewriteFails
<1>3. pc = "idle" /\ m_in_transaction BY <1>2, RunningState
<1>4. UNCHANGED <<CommittedBlocks, CommittedSize>> BY <1>1, <1>2, <1>3, RunningStep
<1>5. \A b \in Blocks : b # i => NextRead(m_uncommitted_block_positions'[b]) = TxBlocks[b]
  BY <1>1, <1>2, <1>3, OtherTxBlocks
<1>6. m_uncommitted_block_positions'[i] = q BY <1>2 DEF txVars
<1>7. /\ q \in Nat /\ LogSize \in Nat /\ q + 2 <= LogSize /\ TxBlocks[i] # None
      /\ TxBlocks[i] = Content(CellAt(q), CellAt(q + 1))
  BY <1>2, <1>3, TxBlock
<1>8. x = TxBlocks[i] \/ x = v \/ x = Torn
  <2>1. \A p \in Nat : p < LogSize => NextCell(p) = CellAt(p) \/ NextCell(p) = <<"data", v>>
    BY <1>1 DEF Rewritten
  <2> HIDE DEF q
  <2>2. q < LogSize /\ q + 1 < LogSize /\ q + 1 \in Nat BY <1>7
  <2>3. /\ NextCell(q) = CellAt(q) \/ NextCell(q) = <<"data", v>>
        /\ NextCell(q + 1) = CellAt(q + 1) \/ NextCell(q + 1) = <<"data", v>>
    BY <1>7, <2>1, <2>2
  <2>4. x = Content(NextCell(q), NextCell(q + 1)) BY <1>2 DEF NextRead
  <2>5. QED BY <1>7, <2>3, <2>4 DEF Content
<1> HIDE DEF x
<1>9. TxBlocks' = [TxBlocks EXCEPT ![i] = x] BY <1>5, <1>6, OneTxBlock DEF x
<1>10. DiskImages' = DiskImages BY <1>1 DEF DiskImages
<1>11. m_in_transaction' = m_in_transaction BY <1>2 DEF txVars
<1>12. CASE x = TxBlocks[i]
  <2>1. TxBlocks = [b \in Blocks |-> TxBlocks[b]] BY DEF TxBlocks
  <2>2. TxBlocks' = TxBlocks BY <1>9, <1>12, <2>1
  <2>3. QED BY <1>4, <1>10, <1>11, <2>2, Stutters
<1>13. CASE x = v
  <2>1. Log!Write(i, v)
    BY <1>3, <1>4, <1>9, <1>10, <1>11, <1>13
    DEF Log!Write, CommittedBlocks, CommittedSize, TxBlocks, DiskImages
  <2>2. QED BY <2>1 DEF LogStep, Log!Next
<1>14. CASE x = Torn
  <2>1. Log!WriteFails(i)
    BY <1>3, <1>4, <1>7, <1>9, <1>10, <1>11, <1>14
    DEF Log!WriteFails, CommittedBlocks, CommittedSize, TxBlocks, DiskImages
  <2>2. QED BY <2>1 DEF LogStep, Log!Next
<1>15. QED BY <1>8, <1>12, <1>13, <1>14

\* The commit record gets into the file, or a power loss may find it there.
LEMMA LoggedStep ==
  ASSUME Inv, Inv', Setting, MayCommit, NEW n \in Sizes, Committed' = Committed,
         pc' \in {"idle", "commit"}, UNCHANGED txVars, logDisk' = logDisk \cup {FullLog(n)},
         \A p \in Nat : p < LogSize => NextCell(p) = CellAt(p)
  PROVE  LogStep
<1>1. InTransaction BY CommitState
<1>2. m_in_transaction BY <1>1, RunningState
<1>3. UNCHANGED <<CommittedBlocks, CommittedSize>> BY <1>1, RunningStep
<1>4. TxBlocks' = TxBlocks BY <1>2, TxBlocksKept DEF txVars
<1>5. Image(FullLog(n)) = Log!After(n) /\ \A b \in Blocks : TxBlocks[b] # Torn BY CommitImage
<1>6. DiskImages' = DiskImages \cup {Log!After(n)} BY <1>5 DEF DiskImages
<1>7. Log!CommitLogged(n)
  <2>1. m_in_transaction' = m_in_transaction BY DEF txVars
  <2>2. QED
    BY <1>2, <1>3, <1>4, <1>5, <1>6, <2>1
    DEF Log!CommitLogged, CommittedBlocks, CommittedSize, TxBlocks, DiskImages
<1>8. QED BY <1>7 DEF LogStep, Log!Next

\* commit() writes the commit record.
LEMMA CommitFlushStep ==
  ASSUME Inv, Setting, UNCHANGED m_sync_on_commit, NEW n \in Sizes, CommitFlush(n)
  PROVE  LogStep
<1>1. /\ Inv' /\ Committed' = Committed /\ logDisk' = logDisk \cup {FullLog(n)}
      /\ \A p \in Nat : p < LogSize => NextCell(p) = CellAt(p)
  BY CommitFlushInv
<1>2. MayCommit /\ pc' = "commit" /\ UNCHANGED txVars BY DEF CommitFlush
<1>3. QED BY <1>1, <1>2, LoggedStep

\* It fails, but the whole record may have got to the disk.
LEMMA CommitFlushFailsStep ==
  ASSUME Inv, Setting, UNCHANGED m_sync_on_commit, NEW n \in Sizes, NEW j \in Nat,
         CommitFlushFails(n, j)
  PROVE  LogStep
<1>1. /\ Inv' /\ Committed' = Committed
      /\ logDisk' = logDisk \/ logDisk' = logDisk \cup {FullLog(n)}
      /\ \A p \in Nat : p < LogSize => NextCell(p) = CellAt(p)
  BY CommitFlushFailsInv
<1>2. MayCommit /\ pc' = pc /\ UNCHANGED txVars BY DEF CommitFlushFails
<1>3. InTransaction BY <1>2, CommitState
<1>4. pc' = "idle" /\ m_in_transaction BY <1>2, <1>3, RunningState
<1>5. CASE logDisk' = logDisk \cup {FullLog(n)} BY <1>1, <1>2, <1>4, <1>5, LoggedStep
<1>6. CASE logDisk' = logDisk
  <2>1. UNCHANGED <<CommittedBlocks, CommittedSize>> BY <1>1, <1>3, <1>4, RunningStep
  <2>2. TxBlocks' = TxBlocks BY <1>1, <1>2, <1>4, TxBlocksKept DEF txVars
  <2>3. DiskImages' = DiskImages BY <1>6 DEF DiskImages
  <2>4. QED BY <1>2, <2>1, <2>2, <2>3, Stutters DEF txVars
<1>7. QED BY <1>1, <1>5, <1>6

\* commit() returns.
LEMMA CommitSyncStep ==
  ASSUME Inv, Setting, UNCHANGED m_sync_on_commit, CommitSync
  PROVE  LogStep
<1>1. /\ Inv' /\ Committed' = logFile /\ ~LogGone' /\ logFile \in logDisk
      /\ logDisk' = IF m_sync_on_commit THEN {logFile} ELSE logDisk
  BY CommitSyncInv
<1>2. pc = "commit" /\ m_in_transaction' = FALSE BY DEF CommitSync, EndTransaction
<1>3. Image(logFile) = Log!After(commitSize) /\ m_in_transaction /\ commitSize \in Sizes
  BY <1>2, CommittingImage
<1>4. LogNow' = logFile BY <1>1 DEF LogNow
<1>5. CommittedBlocks' = Image(logFile).blocks /\ CommittedSize' = Image(logFile).size
  BY <1>1, <1>4, NextImage
<1>6. TxBlocks' = Log!NoBlocks BY <1>1, <1>2, NextNoTxBlocks
<1>7. DiskImages' = IF m_sync_on_commit THEN {Log!After(commitSize)} ELSE DiskImages
  <2>1. CASE m_sync_on_commit BY <1>1, <1>3, <2>1 DEF DiskImages
  <2>2. CASE ~m_sync_on_commit BY <1>1, <2>2 DEF DiskImages
  <2>3. QED BY <2>1, <2>2
<1>8. Log!After(commitSize) \in DiskImages BY <1>1, <1>3 DEF DiskImages
<1>9. Log!Adopt(Log!After(commitSize))
  BY <1>3, <1>5 DEF Log!Adopt, CommittedBlocks, CommittedSize
<1>10. Log!EndTransaction BY <1>2, <1>6 DEF Log!EndTransaction, TxBlocks
<1>11. Log!CommitDone(commitSize)
  BY <1>3, <1>7, <1>8, <1>9, <1>10 DEF Log!CommitDone, DiskImages
<1>12. QED BY <1>3, <1>11 DEF LogStep, Log!Next

\* abort()
LEMMA AbortStep ==
  ASSUME Inv, Setting, UNCHANGED m_sync_on_commit, Abort
  PROVE  LogStep
<1>1. /\ Inv' /\ logDisk' = logDisk /\ Committed' = Committed /\ ~LogGone' BY AbortInv
<1>2. pc = "idle" /\ m_in_transaction /\ m_in_transaction' = FALSE BY DEF Abort, EndTransaction
<1>3. LogNow' = LogNow BY <1>1, <1>2 DEF LogNow, LogGone
<1>4. UNCHANGED <<CommittedBlocks, CommittedSize>> BY <1>1, <1>3, SameImage
<1>5. TxBlocks' = Log!NoBlocks BY <1>1, <1>2, NextNoTxBlocks
<1>6. DiskImages' = DiskImages BY <1>1 DEF DiskImages
<1>7. Log!EndTransaction BY <1>2, <1>5 DEF Log!EndTransaction, TxBlocks
<1>8. Log!Abort
  BY <1>2, <1>4, <1>6, <1>7 DEF Log!Abort, CommittedBlocks, CommittedSize, DiskImages
<1>9. QED BY <1>8 DEF LogStep, Log!Next

\* Steps that only move on or fail.
LEMMA ControlLogStep ==
  ASSUME Inv, Inv', UNCHANGED fileVars, UNCHANGED bufferVars, UNCHANGED txVars,
         UNCHANGED indexVars, LogGone' = LogGone
  PROVE  LogStep
<1>1. Committed' = Committed /\ \A p : NextCell(p) = CellAt(p) BY ControlStep
<1>2. LogNow' = LogNow BY <1>1 DEF LogNow
<1>3. UNCHANGED <<CommittedBlocks, CommittedSize>> BY <1>2, SameImage
<1>4. TxBlocks' = TxBlocks
  BY <1>1, NextTxBlocks DEF TxBlocks, ReadAt, NextRead, txVars
<1>5. DiskImages' = DiskImages BY DEF DiskImages, fileVars
<1>6. QED BY <1>3, <1>4, <1>5, Stutters DEF txVars

\* checkpoint() syncs the log.
LEMMA CheckpointSyncStep ==
  ASSUME Inv, Setting, UNCHANGED m_sync_on_commit, CheckpointSync
  PROVE  LogStep
<1>1. /\ Inv' /\ logDisk' = {Committed} /\ Committed' = Committed
      /\ ~LogGone /\ ~LogGone' /\ ~m_in_transaction
  BY CheckpointSyncInv
<1>2. m_database_size # None /\ UNCHANGED txVars BY DEF CheckpointSync
<1>3. LogNow = Committed /\ LogNow' = LogNow BY <1>1 DEF LogNow
<1>4. UNCHANGED <<CommittedBlocks, CommittedSize>> BY <1>1, <1>3, SameImage
<1>5. /\ CommittedBlocks = Image(Committed).blocks /\ CommittedSize = Image(Committed).size
  BY <1>3, CurrentImage
<1>6. Log!Current = Image(Committed)
  BY <1>5, ImageShape DEF Log!Current, CommittedBlocks, CommittedSize
<1>7. DiskImages' = {Log!Current} BY <1>1, <1>6 DEF DiskImages
<1>8. TxBlocks' = TxBlocks /\ m_in_transaction' = m_in_transaction
  <2>1. TxBlocks = Log!NoBlocks BY <1>1, NoTxBlocks
  <2>2. m_in_transaction' = m_in_transaction BY <1>2 DEF txVars
  <2>3. TxBlocks' = Log!NoBlocks BY <1>1, <2>2, NextNoTxBlocks
  <2>4. QED BY <2>1, <2>2, <2>3
<1>9. CommittedSize # None BY <1>1, <1>2 DEF CommittedSize
<1>10. Log!Sync
  BY <1>1, <1>4, <1>7, <1>8, <1>9
  DEF Log!Sync, CommittedBlocks, CommittedSize, TxBlocks, DiskImages
<1>11. QED BY <1>10 DEF LogStep, Log!Next

\* It truncates the log once the database file has everything.
LEMMA CheckpointShrinkStep ==
  ASSUME Inv, Setting, UNCHANGED m_sync_on_commit, CheckpointShrink
  PROVE  LogStep
<1>1. /\ Inv' /\ logDisk = {Committed} /\ logDisk' = logDisk \cup {<< >>}
      /\ ~LogGone /\ LogGone' /\ ~m_in_transaction
  BY CheckpointShrinkInv
<1>2. UNCHANGED txVars BY DEF CheckpointShrink
<1>3. LogNow = Committed /\ LogNow' = << >> BY <1>1 DEF LogNow
<1>4. /\ CommittedBlocks = Image(Committed).blocks /\ CommittedSize = Image(Committed).size
      /\ CommittedBlocks' = Log!Empty.blocks /\ CommittedSize' = Log!Empty.size
  BY <1>1, <1>3, NextImage, EmptyImage
<1>5. Log!Current = Image(Committed)
  BY <1>4, ImageShape DEF Log!Current, CommittedBlocks, CommittedSize
<1>6. DiskImages = {Log!Current} /\ DiskImages' = DiskImages \cup {Log!Empty}
  BY <1>1, <1>5, EmptyImage DEF DiskImages
<1>7. TxBlocks' = TxBlocks /\ m_in_transaction' = m_in_transaction
  <2>1. TxBlocks = Log!NoBlocks BY <1>1, NoTxBlocks
  <2>2. m_in_transaction' = m_in_transaction BY <1>2 DEF txVars
  <2>3. TxBlocks' = Log!NoBlocks BY <1>1, <2>2, NextNoTxBlocks
  <2>4. QED BY <2>1, <2>2, <2>3
<1>8. Log!Adopt(Log!Empty) BY <1>4 DEF Log!Adopt, CommittedBlocks, CommittedSize
<1>9. Log!Shrink BY <1>1, <1>6, <1>7, <1>8 DEF Log!Shrink, TxBlocks, DiskImages
<1>10. QED BY <1>9 DEF LogStep, Log!Next

\* It syncs the truncation and drops the index.
LEMMA CheckpointDoneStep ==
  ASSUME Inv, Setting, UNCHANGED m_sync_on_commit, CheckpointDone
  PROVE  LogStep
<1>1. /\ Inv' /\ logDisk' = {<< >>} /\ << >> \in logDisk /\ ~m_in_transaction
      /\ LogGone /\ ~LogGone' /\ Committed' = << >>
  BY CheckpointDoneInv
<1>2. UNCHANGED txVars BY DEF CheckpointDone
<1>3. LogNow = << >> /\ LogNow' = << >> BY <1>1 DEF LogNow
<1>4. /\ CommittedBlocks = Log!Empty.blocks /\ CommittedSize = Log!Empty.size
      /\ CommittedBlocks' = CommittedBlocks /\ CommittedSize' = CommittedSize
  BY <1>1, <1>3, NextImage, EmptyImage
<1>5. Log!Current = Log!Empty
  <2>1. Log!Empty = [blocks |-> Log!Empty.blocks, size |-> Log!Empty.size] BY DEF Log!Empty
  <2>2. Log!Current = [blocks |-> CommittedBlocks, size |-> CommittedSize]
    BY DEF Log!Current, CommittedBlocks, CommittedSize
  <2>3. QED BY <1>4, <2>1, <2>2
<1>6. Log!Empty \in DiskImages /\ DiskImages' = {Log!Empty}
  BY <1>1, EmptyImage DEF DiskImages
<1>7. TxBlocks' = TxBlocks /\ m_in_transaction' = m_in_transaction
  <2>1. TxBlocks = Log!NoBlocks BY <1>1, NoTxBlocks
  <2>2. m_in_transaction' = m_in_transaction BY <1>2 DEF txVars
  <2>3. TxBlocks' = Log!NoBlocks BY <1>1, <2>2, NextNoTxBlocks
  <2>4. QED BY <2>1, <2>2, <2>3
<1>8. Log!Forget
  BY <1>1, <1>4, <1>5, <1>6, <1>7
  DEF Log!Forget, CommittedBlocks, CommittedSize, TxBlocks, DiskImages
<1>9. QED BY <1>8 DEF LogStep, Log!Next

\* restore() finds one of the logs that the power loss may have left.
LEMMA RestartStep ==
  ASSUME Inv, Setting, Restart
  PROVE  LogStep
<1>1. PICK c \in logDisk :
        /\ logFile' = c /\ logDisk' = {c} /\ m_buffer_offset' = Len(c) /\ buffer' = << >>
        /\ m_block_positions' = Restore(c).positions /\ m_database_size' = Restore(c).size
        /\ m_sync_on_commit' = TRUE /\ EndTransaction /\ pc' = "idle"
  BY DEF Restart
<1>2. Inv' /\ Committed' = c /\ ~LogGone' BY <1>1, RestartInv
<1>3. LogNow' = c BY <1>2 DEF LogNow
<1>4. CommittedBlocks' = Image(c).blocks /\ CommittedSize' = Image(c).size
  BY <1>2, <1>3, NextImage
<1>5. m_in_transaction' = FALSE BY <1>1 DEF EndTransaction
<1>6. TxBlocks' = Log!NoBlocks BY <1>2, <1>5, NextNoTxBlocks
<1>7. Image(c) \in DiskImages /\ DiskImages' = {Image(c)} BY <1>1 DEF DiskImages
<1>8. Log!Adopt(Image(c)) BY <1>4 DEF Log!Adopt, CommittedBlocks, CommittedSize
<1>9. Log!EndTransaction BY <1>5, <1>6 DEF Log!EndTransaction, TxBlocks
<1>10. Log!Restore BY <1>7, <1>8, <1>9 DEF Log!Restore, DiskImages
<1>11. QED BY <1>10 DEF LogStep, Log!Next

-----------------------------------------------------------------------------
(* The refinement.                                                         *)

\* Every step of the journal is a step of RedoLog, or none.
LEMMA RefinementStep ==
  ASSUME Inv, Inv', Setting, [Next]_vars
  PROVE  LogStep
<1>1. CASE Operation /\ UNCHANGED m_sync_on_commit
  <2>1. CASE Begin BY <1>1, <2>1, BeginStep
  <2>2. CASE \E i \in Blocks, v \in Values : WriteNew(i, v) \/ Rewrite(i, v) \/ RewriteFails(i, v)
    BY <1>1, <2>2, WriteNewStep, RewriteStep, RewriteFailsStep
  <2>3. CASE \E i \in Blocks, v \in Values, j \in 0 .. MaxCells : WriteNewFails(i, v, j)
    BY <1>1, <2>3, WriteNewFailsStep, JournalAssumption
  <2>4. CASE \E n \in Sizes : CommitFlush(n) BY <1>1, <2>4, CommitFlushStep
  <2>5. CASE \E n \in Sizes, j \in 0 .. MaxCells : CommitFlushFails(n, j)
    BY <1>1, <2>5, CommitFlushFailsStep, JournalAssumption
  <2>6. CASE CommitSync BY <1>1, <2>6, CommitSyncStep
  <2>7. CASE Abort BY <1>1, <2>7, AbortStep
  <2>8. CASE CommitSyncFails \/ AbortAsserts \/ CheckpointCopyFails \/ CheckpointShrinkFails
    BY <1>1, <2>8, ControlInv, ControlLogStep
  <2>9. CASE CheckpointSync BY <1>1, <2>9, CheckpointSyncStep
  <2>10. CASE CheckpointShrink BY <1>1, <2>10, CheckpointShrinkStep
  <2>11. CASE CheckpointDone BY <1>1, <2>11, CheckpointDoneStep
  <2>12. QED
    BY <1>1, <2>1, <2>2, <2>3, <2>4, <2>5, <2>6, <2>7, <2>8, <2>9, <2>10, <2>11 DEF Operation
<1>2. CASE SetSyncOnCommit
  <2>1. LogGone' = LogGone BY <1>2 DEF SetSyncOnCommit, LogGone
  <2>2. QED BY <1>2, <2>1, ControlLogStep DEF SetSyncOnCommit
<1>3. CASE Restart BY <1>3, RestartStep
<1>4. CASE UNCHANGED vars
  <2>1. /\ UNCHANGED fileVars /\ UNCHANGED bufferVars /\ UNCHANGED txVars /\ UNCHANGED indexVars
        /\ LogGone' = LogGone
    BY <1>4 DEF vars, fileVars, bufferVars, txVars, indexVars, LogGone
  <2>2. QED BY <2>1, ControlLogStep
<1>5. QED BY <1>1, <1>2, <1>3, <1>4 DEF Next

\* A new journal is a new RedoLog.
LEMMA RefinementInit ==
  ASSUME Init
  PROVE  Log!Init
<1>1. Inv BY InitInv
<1>2. ~LogGone /\ ~m_in_transaction /\ logDisk = {<< >>} BY DEF Init, LogGone
<1>3. TxBlocks = Log!NoBlocks BY <1>1, <1>2, NoTxBlocks
<1>4. CommittedBlocks = Log!NoBlocks /\ CommittedSize = None
  BY <1>2 DEF Init, CommittedBlocks, CommittedSize, ReadAt, NoPositions, Log!NoBlocks
<1>5. DiskImages = {Log!Empty} BY <1>2, EmptyImage DEF DiskImages
<1>6. QED
  BY <1>3, <1>4, <1>5 DEF Init, Log!Init, CommittedBlocks, CommittedSize, TxBlocks, DiskImages

\* The journal is the redo log that transaction_engine relies on: a commit is atomic and,
\* once it has returned with sync_on_commit, survives; nothing uncommitted does; whatever
\* the buffer, a power loss and failing writes do in between.
THEOREM JournalIsRedoLog ==
  ASSUME Setting
  PROVE  Spec => ImplementsRedoLog
<1>1. Init => Inv /\ Log!Init BY InitInv, RefinementInit
<1>2. Inv /\ [Next]_vars => Inv' BY StepInv
<1>3. Inv /\ Inv' /\ [Next]_vars => [Log!Next]_(Log!logVars)
  BY RefinementStep DEF LogStep
<1>4. QED BY <1>1, <1>2, <1>3, PTL DEF Spec, ImplementsRedoLog, Log!Spec
=============================================================================
