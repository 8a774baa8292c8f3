--------------------------- MODULE CollabLogProof ---------------------------
(***************************************************************************)
(* Proofs about CollabLog, for any number of sessions, readers and updates, *)
(* any page size and any snapshot retention.                                *)
(***************************************************************************)
EXTENDS CollabLog, FiniteSetTheorems, TLAPS

(* The inductive invariant, in parts.                                      *)

\* The row lock: one holder, only while the document exists, and what holding
\* it fixes for the transaction.
LockInv ==
    /\ \A p, q \in Procs : tx[p].locked /\ tx[q].locked => p = q
    /\ \A p \in Procs :
          /\ tx[p].locked => exists
          /\ tx[p].op = "idle" => ~tx[p].locked
          /\ tx[p].op = "append" => tx[p].locked /\ tx[p].seq = head + 1
          /\ tx[p].op = "snapshot" /\ tx[p].locked =>
                tx[p].seq > snapSeq /\ tx[p].seq <= head

\* Nothing anywhere mentions an update that is not committed.
BoundInv ==
    /\ snapSeq <= head
    /\ rows \subseteq 1..head
    /\ \A x \in snaps : x.seq <= snapSeq /\ x.content \subseteq 1..head
    /\ \A p \in Procs : tx[p].content \subseteq 1..head
    /\ \A r \in Readers :
          /\ doc[r] \subseteq 1..head
          /\ wm[r] <= head
          /\ ahead[r] \subseteq 1..head
          /\ load[r].since <= head
          /\ load[r].got \subseteq 1..head
          /\ load[r].through <= head

\* The stored log: the snapshot snapshot_seq names covers its prefix, and the
\* rows are exactly the rest.  A deleted document keeps nothing.
LogInv ==
    /\ exists => /\ rows = (snapSeq + 1)..head
                 /\ \A x \in snaps : 1..x.seq \subseteq x.content
                 /\ \/ snapSeq = 0 /\ snaps = {}
                    \/ \E x \in snaps : x.seq = snapSeq
                 /\ \A p \in Procs :
                       tx[p].op = "snapshot" => 1..tx[p].seq \subseteq tx[p].content
    /\ ~exists => rows = {} /\ snaps = {}

\* Between the reads of one catch-up: an update missing from what was read so
\* far is one a compaction already covers, so the snapshot read later has it.
LoadSound(r) ==
    /\ load[r].at = "snapshot" =>
          \A g \in load[r].got : \A n \in (load[r].since + 1)..g :
             n \in load[r].got \/ n <= snapSeq
    /\ load[r].at = "apply" =>
          \A n \in (load[r].since + 1)..load[r].through : n \in load[r].got

\* The replicas.
ReaderInv ==
    exists => \A r \in Readers :
                 /\ 1..wm[r] \subseteq doc[r]
                 /\ ahead[r] \subseteq doc[r]
                 /\ load[r].at # "idle" => load[r].since <= wm[r]
                 /\ LoadSound(r)

\* How one step may move the document's row.
Moves ==
    /\ exists' => exists
    /\ snapSeq' >= snapSeq
    /\ \/ head' = head
       \/ exists /\ exists' /\ head' = head + 1

\* The inductive invariant of the log and its readers.
IInv == TypeOK /\ LockInv /\ BoundInv /\ LogInv /\ ReaderInv

-----------------------------------------------------------------------------
(* One lemma per part of the invariant: every step preserves it.           *)

\* Every step keeps every variable in its type.
LEMMA TypeStep ==
    ASSUME IInv, [Next]_vars
    PROVE  TypeOK'
<1>1. ASSUME NEW p \in Procs, AppendLock(p) PROVE TypeOK'
  BY <1>1, CollabLogAssumption DEF IInv, TypeOK, TxType, LoadType, Tx, NoTx,
     Page, NoLoad, Seqs, readerVars, serverVars, AppendLock
<1>2. ASSUME NEW p \in Procs, AppendCommit(p) PROVE TypeOK'
  <2>1. tx[p].seq \in Seqs
    BY <1>2, CollabLogAssumption DEF IInv, TypeOK, LockInv, AppendCommit, TxType, Seqs
  <2>2. head' \in 0..MaxSeq /\ rows' \subseteq Seqs
    <3>1. head' = tx[p].seq /\ rows' = rows \cup {tx[p].seq}
      BY <1>2 DEF AppendCommit
    <3>2. rows \subseteq Seqs
      BY DEF IInv, TypeOK
    <3>3. Seqs \subseteq 0..MaxSeq
      BY CollabLogAssumption DEF Seqs
    <3> QED
      BY <2>1, <3>1, <3>2, <3>3
  <2>3. tx' \in [Procs -> TxType]
    BY <1>2, CollabLogAssumption DEF IInv, TypeOK, TxType, Tx, NoTx, AppendCommit
  <2> QED
    BY <1>2, <2>2, <2>3
       DEF IInv, TypeOK, TxType, LoadType, Seqs, readerVars, AppendCommit
<1>3. ASSUME NEW p \in Procs, NEW r \in Readers, SnapshotSubmit(p, r) PROVE TypeOK'
  BY <1>3, CollabLogAssumption DEF IInv, TypeOK, TxType, LoadType, Tx, NoTx,
     Page, NoLoad, Seqs, readerVars, serverVars, SnapshotSubmit
<1>4. ASSUME NEW p \in Procs, SnapshotLock(p) PROVE TypeOK'
  BY <1>4, CollabLogAssumption DEF IInv, TypeOK, TxType, LoadType, Tx, NoTx,
     Page, NoLoad, Seqs, readerVars, serverVars, SnapshotLock
<1>5. ASSUME NEW p \in Procs, SnapshotRefused(p) PROVE TypeOK'
  BY <1>5, CollabLogAssumption DEF IInv, TypeOK, TxType, LoadType, Tx, NoTx,
     Page, NoLoad, Seqs, readerVars, serverVars, SnapshotRefused
<1>6. ASSUME NEW p \in Procs, SnapshotCommit(p) PROVE TypeOK'
  <2>1. tx[p].seq \in Seqs /\ tx[p].content \subseteq Seqs
    BY <1>6, CollabLogAssumption DEF IInv, TypeOK, LockInv, SnapshotCommit, TxType, Seqs
  <2>2. [seq |-> tx[p].seq, content |-> tx[p].content]
           \in [seq : Seqs, content : SUBSET Seqs]
    BY <2>1
  <2>3. snaps' \subseteq [seq : Seqs, content : SUBSET Seqs]
    BY <1>6, <2>2 DEF IInv, TypeOK, SnapshotCommit, Newest
  <2>4. snapSeq' \in 0..MaxSeq /\ rows' \subseteq Seqs
    <3>1. snapSeq' = tx[p].seq /\ rows' \subseteq rows
      BY <1>6 DEF SnapshotCommit
    <3>2. rows \subseteq Seqs
      BY DEF IInv, TypeOK
    <3>3. Seqs \subseteq 0..MaxSeq
      BY CollabLogAssumption DEF Seqs
    <3> QED
      BY <2>1, <3>1, <3>2, <3>3
  <2>5. tx' \in [Procs -> TxType]
    BY <1>6, CollabLogAssumption DEF IInv, TypeOK, TxType, Tx, NoTx, SnapshotCommit
  <2> QED
    BY <1>6, <2>3, <2>4, <2>5
       DEF IInv, TypeOK, TxType, LoadType, Seqs, readerVars, SnapshotCommit
<1>7. ASSUME NEW p \in Procs, Rollback(p) PROVE TypeOK'
  BY <1>7, CollabLogAssumption DEF IInv, TypeOK, TxType, LoadType, Tx, NoTx,
     Page, NoLoad, Seqs, readerVars, serverVars, Rollback
<1>8. ASSUME DeleteDocument PROVE TypeOK'
  BY <1>8, CollabLogAssumption DEF IInv, TypeOK, TxType, LoadType, Tx, NoTx,
     Page, NoLoad, Seqs, readerVars, serverVars, DeleteDocument
<1>9. ASSUME NEW r \in Readers, LoadStart(r) PROVE TypeOK'
  BY <1>9, CollabLogAssumption DEF IInv, TypeOK, TxType, LoadType, Tx, NoTx,
     Page, NoLoad, Seqs, readerVars, serverVars, LoadStart
<1>10. ASSUME NEW r \in Readers, LoadGet(r) PROVE TypeOK'
  BY <1>10, CollabLogAssumption DEF IInv, TypeOK, TxType, LoadType, Tx, NoTx,
     Page, NoLoad, Seqs, readerVars, serverVars, LoadGet
<1>11. ASSUME NEW r \in Readers, LoadFails(r) PROVE TypeOK'
  BY <1>11, CollabLogAssumption DEF IInv, TypeOK, TxType, LoadType, Tx, NoTx,
     Page, NoLoad, Seqs, readerVars, serverVars, LoadFails
<1>12. ASSUME NEW r \in Readers, LoadUpdates(r) PROVE TypeOK'
  <2>1. FirstPage({s \in rows : s > load[r].since}) \subseteq Seqs
    BY DEF IInv, TypeOK, FirstPage
  <2>2. (FirstPage({s \in rows : s > load[r].since})
           # {s \in rows : s > load[r].since}) \in BOOLEAN
    OBVIOUS
  <2>3. load[r].since \in 0..MaxSeq
    BY DEF IInv, TypeOK, LoadType
  <2>4. load' \in [Readers -> LoadType]
    BY <1>12, <2>1, <2>2, <2>3, CollabLogAssumption
       DEF IInv, TypeOK, LoadType, LoadUpdates, Page, Seqs
  <2> QED
    BY <1>12, <2>4 DEF IInv, TypeOK, LoadUpdates, serverVars
<1>13. ASSUME NEW r \in Readers, LoadSnapshot(r) PROVE TypeOK'
  BY <1>13, CollabLogAssumption DEF IInv, TypeOK, TxType, LoadType, Tx, NoTx,
     Page, NoLoad, Seqs, readerVars, serverVars, LoadSnapshot,
     UsableSnapshots
<1>14. ASSUME NEW r \in Readers, LoadNoSnapshot(r) PROVE TypeOK'
  BY <1>14, CollabLogAssumption DEF IInv, TypeOK, TxType, LoadType, Tx, NoTx,
     Page, NoLoad, Seqs, readerVars, serverVars, LoadNoSnapshot
<1>15. ASSUME NEW r \in Readers, ApplyPage(r) PROVE TypeOK'
  <2>1. doc' \in [Readers -> SUBSET Seqs]
    BY <1>15 DEF IInv, TypeOK, LoadType, ApplyPage
  <2>2. wm' \in [Readers -> 0..MaxSeq] /\ ahead' \in [Readers -> SUBSET Seqs]
    <3>1. CASE load[r].through < wm[r]
      BY <1>15, <3>1 DEF IInv, TypeOK, ApplyPage
    <3>2. CASE ~(load[r].through < wm[r])
      BY <1>15, <3>2, CollabLogAssumption DEF IInv, TypeOK, LoadType, ApplyPage
    <3> QED
      BY <3>1, <3>2
  <2>3. load' \in [Readers -> LoadType]
    BY <1>15, CollabLogAssumption
       DEF IInv, TypeOK, LoadType, ApplyPage, Page, NoLoad
  <2> QED
    BY <1>15, <2>1, <2>2, <2>3 DEF IInv, TypeOK, ApplyPage, serverVars
<1>16. ASSUME NEW r \in Readers, NEW s \in Seqs, Receive(r, s) PROVE TypeOK'
  BY <1>16, CollabLogAssumption DEF IInv, TypeOK, TxType, LoadType, Tx, NoTx,
     Page, NoLoad, Seqs, readerVars, serverVars, Receive
<1>17. ASSUME NEW r \in Readers, Reopen(r) PROVE TypeOK'
  BY <1>17, CollabLogAssumption DEF IInv, TypeOK, TxType, LoadType, Tx, NoTx,
     Page, NoLoad, Seqs, readerVars, serverVars, Reopen
<1>18. CASE UNCHANGED vars
  BY <1>18, CollabLogAssumption DEF IInv, TypeOK, TxType, LoadType, Tx, NoTx,
     Page, NoLoad, Seqs, readerVars, serverVars, vars
<1> QED
  BY <1>1, <1>2, <1>3, <1>4, <1>5, <1>6, <1>7, <1>8, <1>9, <1>10, <1>11,
     <1>12, <1>13, <1>14, <1>15, <1>16, <1>17, <1>18 DEF Next

\* Every step preserves LockInv.
LEMMA LockStep ==
    ASSUME IInv, [Next]_vars
    PROVE  LockInv'
<1>1. ASSUME NEW p \in Procs, AppendLock(p) PROVE LockInv'
  BY <1>1, CollabLogAssumption DEF IInv, LockInv, TypeOK, TxType, Tx, NoTx,
     readerVars, serverVars, AppendLock, RowFree
<1>2. ASSUME NEW p \in Procs, AppendCommit(p) PROVE LockInv'
  BY <1>2, CollabLogAssumption DEF IInv, LockInv, TypeOK, TxType, Tx, NoTx,
     readerVars, serverVars, AppendCommit
<1>3. ASSUME NEW p \in Procs, NEW r \in Readers, SnapshotSubmit(p, r) PROVE LockInv'
  BY <1>3, CollabLogAssumption DEF IInv, LockInv, TypeOK, TxType, Tx, NoTx,
     readerVars, serverVars, SnapshotSubmit
<1>4. ASSUME NEW p \in Procs, SnapshotLock(p) PROVE LockInv'
  BY <1>4, CollabLogAssumption DEF IInv, LockInv, TypeOK, TxType, Tx, NoTx,
     readerVars, serverVars, SnapshotLock, RowFree
<1>5. ASSUME NEW p \in Procs, SnapshotRefused(p) PROVE LockInv'
  BY <1>5, CollabLogAssumption DEF IInv, LockInv, TypeOK, TxType, Tx, NoTx,
     readerVars, serverVars, SnapshotRefused
<1>6. ASSUME NEW p \in Procs, SnapshotCommit(p) PROVE LockInv'
  BY <1>6, CollabLogAssumption DEF IInv, LockInv, TypeOK, TxType, Tx, NoTx,
     readerVars, serverVars, SnapshotCommit
<1>7. ASSUME NEW p \in Procs, Rollback(p) PROVE LockInv'
  BY <1>7, CollabLogAssumption DEF IInv, LockInv, TypeOK, TxType, Tx, NoTx,
     readerVars, serverVars, Rollback
<1>8. ASSUME DeleteDocument PROVE LockInv'
  BY <1>8, CollabLogAssumption DEF IInv, LockInv, TypeOK, TxType, Tx, NoTx,
     readerVars, serverVars, DeleteDocument, RowFree
<1>9. ASSUME NEW r \in Readers, LoadStart(r) PROVE LockInv'
  BY <1>9, CollabLogAssumption DEF IInv, LockInv, TypeOK, TxType, Tx, NoTx,
     readerVars, serverVars, LoadStart
<1>10. ASSUME NEW r \in Readers, LoadGet(r) PROVE LockInv'
  BY <1>10, CollabLogAssumption DEF IInv, LockInv, TypeOK, TxType, Tx, NoTx,
     readerVars, serverVars, LoadGet
<1>11. ASSUME NEW r \in Readers, LoadFails(r) PROVE LockInv'
  BY <1>11, CollabLogAssumption DEF IInv, LockInv, TypeOK, TxType, Tx, NoTx,
     readerVars, serverVars, LoadFails
<1>12. ASSUME NEW r \in Readers, LoadUpdates(r) PROVE LockInv'
  BY <1>12, CollabLogAssumption DEF IInv, LockInv, TypeOK, TxType, Tx, NoTx,
     readerVars, serverVars, LoadUpdates
<1>13. ASSUME NEW r \in Readers, LoadSnapshot(r) PROVE LockInv'
  BY <1>13, CollabLogAssumption DEF IInv, LockInv, TypeOK, TxType, Tx, NoTx,
     readerVars, serverVars, LoadSnapshot
<1>14. ASSUME NEW r \in Readers, LoadNoSnapshot(r) PROVE LockInv'
  BY <1>14, CollabLogAssumption DEF IInv, LockInv, TypeOK, TxType, Tx, NoTx,
     readerVars, serverVars, LoadNoSnapshot
<1>15. ASSUME NEW r \in Readers, ApplyPage(r) PROVE LockInv'
  BY <1>15, CollabLogAssumption DEF IInv, LockInv, TypeOK, TxType, Tx, NoTx,
     readerVars, serverVars, ApplyPage
<1>16. ASSUME NEW r \in Readers, NEW s \in Seqs, Receive(r, s) PROVE LockInv'
  BY <1>16, CollabLogAssumption DEF IInv, LockInv, TypeOK, TxType, Tx, NoTx,
     readerVars, serverVars, Receive
<1>17. ASSUME NEW r \in Readers, Reopen(r) PROVE LockInv'
  BY <1>17, CollabLogAssumption DEF IInv, LockInv, TypeOK, TxType, Tx, NoTx,
     readerVars, serverVars, Reopen
<1>18. CASE UNCHANGED vars
  BY <1>18, CollabLogAssumption DEF IInv, LockInv, TypeOK, TxType, Tx, NoTx,
     readerVars, serverVars, vars
<1> QED
  BY <1>1, <1>2, <1>3, <1>4, <1>5, <1>6, <1>7, <1>8, <1>9, <1>10, <1>11,
     <1>12, <1>13, <1>14, <1>15, <1>16, <1>17, <1>18 DEF Next

\* Every step preserves BoundInv.
LEMMA BoundStep ==
    ASSUME IInv, [Next]_vars
    PROVE  BoundInv'
<1>1. ASSUME NEW p \in Procs, AppendLock(p) PROVE BoundInv'
  BY <1>1, CollabLogAssumption DEF IInv, LockInv, BoundInv, TypeOK, TxType,
     LoadType, Tx, NoTx, Page, NoLoad, Seqs, readerVars, serverVars,
     AppendLock
<1>2. ASSUME NEW p \in Procs, AppendCommit(p) PROVE BoundInv'
  <2>1. head' = head + 1 /\ tx[p].seq = head + 1
    BY <1>2 DEF IInv, LockInv, AppendCommit
  <2>2. 1..head \subseteq 1..head'
    BY <2>1 DEF IInv, TypeOK
  <2>3. snapSeq' <= head' /\ rows' \subseteq 1..head'
    BY <1>2, <2>1, <2>2 DEF IInv, TypeOK, BoundInv, AppendCommit
  <2>4. \A x \in snaps' : x.seq <= snapSeq' /\ x.content \subseteq 1..head'
    BY <1>2, <2>2 DEF IInv, BoundInv, AppendCommit
  <2>5. \A q \in Procs : tx'[q].content \subseteq 1..head'
    BY <1>2, <2>2 DEF IInv, TypeOK, BoundInv, AppendCommit, NoTx, Tx
  <2> QED
    BY <1>2, <2>1, <2>2, <2>3, <2>4, <2>5
       DEF IInv, TypeOK, LoadType, BoundInv, AppendCommit, readerVars
<1>3. ASSUME NEW p \in Procs, NEW r \in Readers, SnapshotSubmit(p, r) PROVE BoundInv'
  BY <1>3, CollabLogAssumption DEF IInv, LockInv, BoundInv, TypeOK, TxType,
     LoadType, Tx, NoTx, Page, NoLoad, Seqs, readerVars, serverVars,
     SnapshotSubmit
<1>4. ASSUME NEW p \in Procs, SnapshotLock(p) PROVE BoundInv'
  BY <1>4, CollabLogAssumption DEF IInv, LockInv, BoundInv, TypeOK, TxType,
     LoadType, Tx, NoTx, Page, NoLoad, Seqs, readerVars, serverVars,
     SnapshotLock
<1>5. ASSUME NEW p \in Procs, SnapshotRefused(p) PROVE BoundInv'
  BY <1>5, CollabLogAssumption DEF IInv, LockInv, BoundInv, TypeOK, TxType,
     LoadType, Tx, NoTx, Page, NoLoad, Seqs, readerVars, serverVars,
     SnapshotRefused
<1>6. ASSUME NEW p \in Procs, SnapshotCommit(p) PROVE BoundInv'
  <2>1. snapSeq < tx[p].seq /\ tx[p].seq <= head
    BY <1>6 DEF IInv, LockInv, SnapshotCommit
  <2>2. \A x \in snaps' : x.seq <= snapSeq' /\ x.content \subseteq 1..head'
    <3>1. \A x \in snaps : x.seq <= tx[p].seq /\ x.content \subseteq 1..head
      BY <2>1 DEF IInv, TypeOK, TxType, Seqs, BoundInv
    <3> QED
      BY <1>6, <2>1, <3>1 DEF IInv, TypeOK, TxType, BoundInv, SnapshotCommit, Newest
  <2>3. \A q \in Procs : tx'[q].content \subseteq 1..head'
    BY <1>6 DEF IInv, TypeOK, BoundInv, SnapshotCommit, NoTx, Tx
  <2> QED
    BY <1>6, <2>1, <2>2, <2>3
       DEF IInv, TypeOK, TxType, BoundInv, SnapshotCommit, readerVars
<1>7. ASSUME NEW p \in Procs, Rollback(p) PROVE BoundInv'
  BY <1>7, CollabLogAssumption DEF IInv, LockInv, BoundInv, TypeOK, TxType,
     LoadType, Tx, NoTx, Page, NoLoad, Seqs, readerVars, serverVars, Rollback
<1>8. ASSUME DeleteDocument PROVE BoundInv'
  BY <1>8, CollabLogAssumption DEF IInv, LockInv, BoundInv, TypeOK, TxType,
     LoadType, Tx, NoTx, Page, NoLoad, Seqs, readerVars, serverVars,
     DeleteDocument
<1>9. ASSUME NEW r \in Readers, LoadStart(r) PROVE BoundInv'
  BY <1>9, CollabLogAssumption DEF IInv, LockInv, BoundInv, TypeOK, TxType,
     LoadType, Tx, NoTx, Page, NoLoad, Seqs, readerVars, serverVars,
     LoadStart
<1>10. ASSUME NEW r \in Readers, LoadGet(r) PROVE BoundInv'
  BY <1>10, CollabLogAssumption DEF IInv, LockInv, BoundInv, TypeOK, TxType,
     LoadType, Tx, NoTx, Page, NoLoad, Seqs, readerVars, serverVars, LoadGet
<1>11. ASSUME NEW r \in Readers, LoadFails(r) PROVE BoundInv'
  BY <1>11, CollabLogAssumption DEF IInv, LockInv, BoundInv, TypeOK, TxType,
     LoadType, Tx, NoTx, Page, NoLoad, Seqs, readerVars, serverVars,
     LoadFails
<1>12. ASSUME NEW r \in Readers, LoadUpdates(r) PROVE BoundInv'
  <2> DEFINE due == {s \in rows : s > load[r].since}
  <2>1. FirstPage(due) \subseteq 1..head
    BY DEF IInv, BoundInv, FirstPage
  <2> QED
    BY <1>12, <2>1, CollabLogAssumption
       DEF IInv, TypeOK, LoadType, BoundInv, LoadUpdates, Page, serverVars
<1>13. ASSUME NEW r \in Readers, LoadSnapshot(r) PROVE BoundInv'
  BY <1>13, CollabLogAssumption DEF IInv, LockInv, BoundInv, TypeOK, TxType,
     LoadType, Tx, NoTx, Page, NoLoad, Seqs, readerVars, serverVars,
     LoadSnapshot, UsableSnapshots
<1>14. ASSUME NEW r \in Readers, LoadNoSnapshot(r) PROVE BoundInv'
  BY <1>14, CollabLogAssumption DEF IInv, LockInv, BoundInv, TypeOK, TxType,
     LoadType, Tx, NoTx, Page, NoLoad, Seqs, readerVars, serverVars,
     LoadNoSnapshot
<1>15. ASSUME NEW r \in Readers, ApplyPage(r) PROVE BoundInv'
  BY <1>15, CollabLogAssumption DEF IInv, LockInv, BoundInv, TypeOK, TxType,
     LoadType, Tx, NoTx, Page, NoLoad, Seqs, readerVars, serverVars,
     ApplyPage, Contiguous
<1>16. ASSUME NEW r \in Readers, NEW s \in Seqs, Receive(r, s) PROVE BoundInv'
  BY <1>16, CollabLogAssumption DEF IInv, LockInv, BoundInv, TypeOK, TxType,
     LoadType, Tx, NoTx, Page, NoLoad, Seqs, readerVars, serverVars, Receive,
     Contiguous
<1>17. ASSUME NEW r \in Readers, Reopen(r) PROVE BoundInv'
  BY <1>17, CollabLogAssumption DEF IInv, LockInv, BoundInv, TypeOK, TxType,
     LoadType, Tx, NoTx, Page, NoLoad, Seqs, readerVars, serverVars, Reopen
<1>18. CASE UNCHANGED vars
  BY <1>18, CollabLogAssumption DEF IInv, LockInv, BoundInv, TypeOK, TxType,
     LoadType, Tx, NoTx, Page, NoLoad, Seqs, readerVars, serverVars, vars
<1> QED
  BY <1>1, <1>2, <1>3, <1>4, <1>5, <1>6, <1>7, <1>8, <1>9, <1>10, <1>11,
     <1>12, <1>13, <1>14, <1>15, <1>16, <1>17, <1>18 DEF Next

\* A page is the beginning of what is due: nothing below an update of the page
\* is left out.
LEMMA FirstPageClosed ==
    ASSUME NEW S, IsFiniteSet(S), S \subseteq Nat,
           NEW g \in FirstPage(S), NEW n \in S, n <= g
    PROVE  n \in FirstPage(S)
<1> DEFINE Below(m) == {t \in S : t < m}
<1>0. g \in Nat /\ n \in Nat
  BY DEF FirstPage
<1>1. Below(n) \subseteq Below(g)
  <2>1. \A t \in Nat : t < n => t < g
    BY <1>0
  <2>2. \A t \in S : t \in Nat
    OBVIOUS
  <2> QED
    BY <2>1, <2>2
<1>2. IsFiniteSet(Below(g))
  BY FS_Subset
<1>3. Cardinality(Below(n)) <= Cardinality(Below(g))
  BY <1>1, <1>2, FS_Subset
<1>4. Cardinality(Below(g)) < PageLimit
  BY DEF FirstPage
<1>5. Cardinality(Below(n)) \in Nat /\ Cardinality(Below(g)) \in Nat
  BY <1>1, <1>2, FS_Subset, FS_CardinalityType
<1>6. Cardinality(Below(n)) < PageLimit
  BY <1>3, <1>4, <1>5, CollabLogAssumption
<1> QED
  BY <1>6 DEF FirstPage

\* The snapshot a compaction stores survives the prune that follows it: it is
\* newer than every other one, and at least one is kept.
LEMMA NewestKeepsTop ==
    ASSUME NEW S, NEW x \in S, \A y \in S : ~(y.seq > x.seq)
    PROVE  x \in Newest(S)
<1>1. {y \in S : y.seq > x.seq} = {}
  OBVIOUS
<1>2. Cardinality({y \in S : y.seq > x.seq}) = 0
  BY <1>1, FS_EmptySet
<1> QED
  BY <1>2, CollabLogAssumption DEF Newest

\* Every step preserves LogInv.
LEMMA LogStep ==
    ASSUME IInv, [Next]_vars
    PROVE  LogInv'
<1>1. ASSUME NEW p \in Procs, AppendLock(p) PROVE LogInv'
  BY <1>1, CollabLogAssumption DEF IInv, LockInv, BoundInv, LogInv, TypeOK,
     TxType, Tx, NoTx, readerVars, serverVars, AppendLock, Seqs
<1>2. ASSUME NEW p \in Procs, AppendCommit(p) PROVE LogInv'
  <2>1. exists /\ head' = head + 1 /\ tx[p].seq = head + 1
    BY <1>2 DEF IInv, LockInv, AppendCommit
  <2>2. rows' = (snapSeq' + 1)..head'
    BY <1>2, <2>1 DEF IInv, TypeOK, BoundInv, LogInv, AppendCommit
  <2>3. \A q \in Procs :
          tx'[q].op = "snapshot" => 1..tx'[q].seq \subseteq tx'[q].content
    BY <1>2, <2>1 DEF IInv, TypeOK, LogInv, AppendCommit, NoTx, Tx
  <2> QED
    BY <1>2, <2>1, <2>2, <2>3 DEF IInv, LogInv, AppendCommit
<1>3. ASSUME NEW p \in Procs, NEW r \in Readers, SnapshotSubmit(p, r) PROVE LogInv'
  BY <1>3, CollabLogAssumption DEF IInv, LockInv, BoundInv, LogInv, TypeOK,
     TxType, Tx, NoTx, readerVars, serverVars, SnapshotSubmit, ReaderInv
<1>4. ASSUME NEW p \in Procs, SnapshotLock(p) PROVE LogInv'
  BY <1>4, CollabLogAssumption DEF IInv, LockInv, BoundInv, LogInv, TypeOK,
     TxType, Tx, NoTx, readerVars, serverVars, SnapshotLock
<1>5. ASSUME NEW p \in Procs, SnapshotRefused(p) PROVE LogInv'
  BY <1>5, CollabLogAssumption DEF IInv, LockInv, BoundInv, LogInv, TypeOK,
     TxType, Tx, NoTx, readerVars, serverVars, SnapshotRefused
<1>6. ASSUME NEW p \in Procs, SnapshotCommit(p) PROVE LogInv'
  <2> DEFINE new == [seq |-> tx[p].seq, content |-> tx[p].content]
  <2>1. exists /\ tx[p].seq > snapSeq /\ tx[p].seq <= head
    BY <1>6 DEF IInv, LockInv, SnapshotCommit
  <2>2. rows' = (snapSeq' + 1)..head'
    BY <1>6, <2>1 DEF IInv, TypeOK, TxType, BoundInv, LogInv, SnapshotCommit
  <2>3. \A x \in snaps' : 1..x.seq \subseteq x.content
    BY <1>6, <2>1 DEF IInv, LogInv, SnapshotCommit, Newest
  <2>4. \E x \in snaps' : x.seq = snapSeq'
    <3>1. \A y \in snaps \cup {new} : ~(y.seq > new.seq)
      BY <2>1 DEF IInv, TypeOK, TxType, Seqs, BoundInv
    <3>2. new \in Newest(snaps \cup {new})
      BY <3>1, NewestKeepsTop
    <3> QED
      BY <1>6, <3>2 DEF SnapshotCommit
  <2>5. \A q \in Procs :
          tx'[q].op = "snapshot" => 1..tx'[q].seq \subseteq tx'[q].content
    BY <1>6, <2>1 DEF IInv, TypeOK, LogInv, SnapshotCommit, NoTx, Tx
  <2> QED
    BY <1>6, <2>1, <2>2, <2>3, <2>4, <2>5 DEF LogInv, SnapshotCommit
<1>7. ASSUME NEW p \in Procs, Rollback(p) PROVE LogInv'
  BY <1>7, CollabLogAssumption DEF IInv, LockInv, BoundInv, LogInv, TypeOK,
     TxType, Tx, NoTx, readerVars, serverVars, Rollback
<1>8. ASSUME DeleteDocument PROVE LogInv'
  BY <1>8, CollabLogAssumption DEF IInv, LockInv, BoundInv, LogInv, TypeOK,
     TxType, Tx, NoTx, readerVars, serverVars, DeleteDocument, RowFree
<1>9. ASSUME NEW r \in Readers, LoadStart(r) PROVE LogInv'
  BY <1>9, CollabLogAssumption DEF IInv, LockInv, BoundInv, LogInv, TypeOK,
     TxType, Tx, NoTx, readerVars, serverVars, LoadStart
<1>10. ASSUME NEW r \in Readers, LoadGet(r) PROVE LogInv'
  BY <1>10, CollabLogAssumption DEF IInv, LockInv, BoundInv, LogInv, TypeOK,
     TxType, Tx, NoTx, readerVars, serverVars, LoadGet
<1>11. ASSUME NEW r \in Readers, LoadFails(r) PROVE LogInv'
  BY <1>11, CollabLogAssumption DEF IInv, LockInv, BoundInv, LogInv, TypeOK,
     TxType, Tx, NoTx, readerVars, serverVars, LoadFails
<1>12. ASSUME NEW r \in Readers, LoadUpdates(r) PROVE LogInv'
  BY <1>12, CollabLogAssumption DEF IInv, LockInv, BoundInv, LogInv, TypeOK,
     TxType, Tx, NoTx, readerVars, serverVars, LoadUpdates
<1>13. ASSUME NEW r \in Readers, LoadSnapshot(r) PROVE LogInv'
  BY <1>13, CollabLogAssumption DEF IInv, LockInv, BoundInv, LogInv, TypeOK,
     TxType, Tx, NoTx, readerVars, serverVars, LoadSnapshot
<1>14. ASSUME NEW r \in Readers, LoadNoSnapshot(r) PROVE LogInv'
  BY <1>14, CollabLogAssumption DEF IInv, LockInv, BoundInv, LogInv, TypeOK,
     TxType, Tx, NoTx, readerVars, serverVars, LoadNoSnapshot
<1>15. ASSUME NEW r \in Readers, ApplyPage(r) PROVE LogInv'
  BY <1>15, CollabLogAssumption DEF IInv, LockInv, BoundInv, LogInv, TypeOK,
     TxType, Tx, NoTx, readerVars, serverVars, ApplyPage
<1>16. ASSUME NEW r \in Readers, NEW s \in Seqs, Receive(r, s) PROVE LogInv'
  BY <1>16, CollabLogAssumption DEF IInv, LockInv, BoundInv, LogInv, TypeOK,
     TxType, Tx, NoTx, readerVars, serverVars, Receive
<1>17. ASSUME NEW r \in Readers, Reopen(r) PROVE LogInv'
  BY <1>17, CollabLogAssumption DEF IInv, LockInv, BoundInv, LogInv, TypeOK,
     TxType, Tx, NoTx, readerVars, serverVars, Reopen
<1>18. CASE UNCHANGED vars
  BY <1>18, CollabLogAssumption DEF IInv, LockInv, BoundInv, LogInv, TypeOK,
     TxType, Tx, NoTx, readerVars, serverVars, vars
<1> QED
  BY <1>1, <1>2, <1>3, <1>4, <1>5, <1>6, <1>7, <1>8, <1>9, <1>10, <1>11,
     <1>12, <1>13, <1>14, <1>15, <1>16, <1>17, <1>18 DEF Next

\* Every step preserves ReaderInv.
LEMMA ReaderStep ==
    ASSUME IInv, [Next]_vars
    PROVE  ReaderInv'
<1>1. ASSUME NEW p \in Procs, AppendLock(p) PROVE ReaderInv'
  BY <1>1, CollabLogAssumption DEF IInv, LockInv, BoundInv, ReaderInv,
     LoadSound, TypeOK, LoadType, Page, NoLoad, readerVars, serverVars,
     AppendLock
<1>2. ASSUME NEW p \in Procs, AppendCommit(p) PROVE ReaderInv'
  BY <1>2, CollabLogAssumption DEF IInv, LockInv, BoundInv, ReaderInv,
     LoadSound, TypeOK, LoadType, Page, NoLoad, readerVars, serverVars,
     AppendCommit
<1>3. ASSUME NEW p \in Procs, NEW r \in Readers, SnapshotSubmit(p, r) PROVE ReaderInv'
  BY <1>3, CollabLogAssumption DEF IInv, LockInv, BoundInv, ReaderInv,
     LoadSound, TypeOK, LoadType, Page, NoLoad, readerVars, serverVars,
     SnapshotSubmit
<1>4. ASSUME NEW p \in Procs, SnapshotLock(p) PROVE ReaderInv'
  BY <1>4, CollabLogAssumption DEF IInv, LockInv, BoundInv, ReaderInv,
     LoadSound, TypeOK, LoadType, Page, NoLoad, readerVars, serverVars,
     SnapshotLock
<1>5. ASSUME NEW p \in Procs, SnapshotRefused(p) PROVE ReaderInv'
  BY <1>5, CollabLogAssumption DEF IInv, LockInv, BoundInv, ReaderInv,
     LoadSound, TypeOK, LoadType, Page, NoLoad, readerVars, serverVars,
     SnapshotRefused
<1>6. ASSUME NEW p \in Procs, SnapshotCommit(p) PROVE ReaderInv'
  BY <1>6, CollabLogAssumption DEF IInv, LockInv, BoundInv, ReaderInv,
     LoadSound, TypeOK, LoadType, Page, NoLoad, readerVars, serverVars,
     SnapshotCommit, TxType, LogInv
<1>7. ASSUME NEW p \in Procs, Rollback(p) PROVE ReaderInv'
  BY <1>7, CollabLogAssumption DEF IInv, LockInv, BoundInv, ReaderInv,
     LoadSound, TypeOK, LoadType, Page, NoLoad, readerVars, serverVars,
     Rollback
<1>8. ASSUME DeleteDocument PROVE ReaderInv'
  BY <1>8, CollabLogAssumption DEF IInv, LockInv, BoundInv, ReaderInv,
     LoadSound, TypeOK, LoadType, Page, NoLoad, readerVars, serverVars,
     DeleteDocument
<1>9. ASSUME NEW r \in Readers, LoadStart(r) PROVE ReaderInv'
  BY <1>9, CollabLogAssumption DEF IInv, LockInv, BoundInv, ReaderInv,
     LoadSound, TypeOK, LoadType, Page, NoLoad, readerVars, serverVars,
     LoadStart
<1>10. ASSUME NEW r \in Readers, LoadGet(r) PROVE ReaderInv'
  BY <1>10, CollabLogAssumption DEF IInv, LockInv, BoundInv, ReaderInv,
     LoadSound, TypeOK, LoadType, Page, NoLoad, readerVars, serverVars,
     LoadGet
<1>11. ASSUME NEW r \in Readers, LoadFails(r) PROVE ReaderInv'
  BY <1>11, CollabLogAssumption DEF IInv, LockInv, BoundInv, ReaderInv,
     LoadSound, TypeOK, LoadType, Page, NoLoad, readerVars, serverVars,
     LoadFails
<1>12. ASSUME NEW r \in Readers, LoadUpdates(r) PROVE ReaderInv'
  <2> DEFINE due == {s \in rows : s > load[r].since}
  <2> SUFFICES ASSUME exists
               PROVE  LoadSound(r)'
    BY <1>12 DEF IInv, TypeOK, ReaderInv, LoadSound, LoadUpdates, Page, serverVars
  <2>1. load'[r].at = "snapshot" /\ load'[r].got = FirstPage(due)
        /\ load'[r].since = load[r].since /\ snapSeq' = snapSeq
    BY <1>12 DEF IInv, TypeOK, LoadUpdates, Page, serverVars
  <2>2. rows = (snapSeq + 1)..head /\ due \subseteq 1..head /\ due \subseteq Nat
    BY DEF IInv, TypeOK, LogInv, BoundInv
  <2>3. IsFiniteSet(due)
    <3>1. head \in Int
      BY CollabLogAssumption DEF IInv, TypeOK
    <3>2. IsFiniteSet(1..head)
      BY <3>1, FS_Interval
    <3> QED
      BY <2>2, <3>2, FS_Subset
  <2>4. ASSUME NEW g \in FirstPage(due), NEW n \in (load[r].since + 1)..g, n > snapSeq
        PROVE  n \in FirstPage(due)
    <3>1. g \in due
      BY DEF FirstPage
    <3>2. n \in due /\ n <= g
      BY <2>2, <2>4, <3>1 DEF IInv, TypeOK, LoadType
    <3> QED
      BY <2>2, <2>3, <3>2, FirstPageClosed
  <2>5. \A g \in FirstPage(due) : \A n \in (load[r].since + 1)..g :
           n \in FirstPage(due) \/ n <= snapSeq
    <3>1. FirstPage(due) \subseteq Nat
      BY <2>2 DEF FirstPage
    <3>2. load[r].since \in Int /\ snapSeq \in Int
      BY CollabLogAssumption DEF IInv, TypeOK, LoadType
    <3>3. ASSUME NEW g \in FirstPage(due), NEW n \in (load[r].since + 1)..g
          PROVE  n > snapSeq \/ n <= snapSeq
      BY <3>1, <3>2
    <3> QED
      BY <2>4, <3>3
  <2> QED
    BY <2>1, <2>5 DEF LoadSound
<1>13. ASSUME NEW r \in Readers, LoadSnapshot(r) PROVE ReaderInv'
  <2> SUFFICES ASSUME exists
               PROVE  LoadSound(r)'
    BY <1>13 DEF IInv, TypeOK, ReaderInv, LoadSound, LoadSnapshot, Page, serverVars
  <2>1. PICK x \in UsableSnapshots(load[r].since) :
          \E t \in {s \in load[r].got : s > x.seq} \cup {x.seq} :
             load' = [load EXCEPT ![r] =
                        Page("apply", @.since,
                             x.content \cup {s \in load[r].got : s > x.seq},
                             @.more, t)]
    BY <1>13 DEF LoadSnapshot
  <2> DEFINE tail == {s \in load[r].got : s > x.seq}
  <2>2. PICK t \in tail \cup {x.seq} :
          load' = [load EXCEPT ![r] =
                     Page("apply", @.since, x.content \cup tail, @.more, t)]
    BY <2>1
  <2>3. x \in snaps /\ x.seq = snapSeq
    BY DEF UsableSnapshots, IInv, TypeOK, Seqs, BoundInv, LogInv
  <2>4. 1..x.seq \subseteq x.content
    BY <2>3 DEF IInv, LogInv
  <2>5. load'[r].at = "apply" /\ load'[r].got = x.content \cup tail
        /\ load'[r].since = load[r].since /\ load'[r].through = t
    BY <2>2 DEF IInv, TypeOK, Page
  <2>6. ASSUME NEW n \in (load[r].since + 1)..t
        PROVE  n \in x.content \cup tail
    <3>1. CASE n <= x.seq
      BY <2>3, <2>4, <3>1 DEF IInv, TypeOK, LoadType
    <3>2. CASE n > x.seq
      <4>1. t \in load[r].got
        BY <2>3, <3>2 DEF IInv, TypeOK, LoadType, Seqs
      <4>2. n \in load[r].got \/ n <= snapSeq
        BY <1>13, <4>1 DEF IInv, ReaderInv, LoadSound, LoadSnapshot
      <4> QED
        BY <2>3, <3>2, <4>2 DEF IInv, TypeOK, LoadType
    <3> QED
      BY <2>3, <3>1, <3>2 DEF IInv, TypeOK, LoadType
  <2> QED
    BY <2>5, <2>6 DEF LoadSound
<1>14. ASSUME NEW r \in Readers, LoadNoSnapshot(r) PROVE ReaderInv'
  <2> SUFFICES ASSUME exists
               PROVE  LoadSound(r)'
    BY <1>14 DEF IInv, TypeOK, ReaderInv, LoadSound, LoadNoSnapshot, Page, serverVars
  <2>1. PICK t \in load[r].got \cup {load[r].since} :
          load' = [load EXCEPT ![r] = Page("apply", @.since, @.got, @.more, t)]
    BY <1>14 DEF LoadNoSnapshot
  <2>2. snapSeq <= load[r].since
    <3>1. CASE snapSeq = 0
      BY <3>1 DEF IInv, TypeOK, LoadType
    <3>2. CASE snapSeq # 0
      <4>1. PICK x \in snaps : x.seq = snapSeq
        BY <3>2 DEF IInv, LogInv
      <4>2. \A y \in snaps : y.seq <= x.seq
        BY <4>1 DEF IInv, BoundInv
      <4>3. ~(x.seq > load[r].since)
        BY <1>14, <4>2 DEF LoadNoSnapshot, UsableSnapshots
      <4> QED
        BY <4>1, <4>3 DEF IInv, TypeOK, LoadType
    <3> QED
      BY <3>1, <3>2
  <2>3. load'[r].at = "apply" /\ load'[r].got = load[r].got
        /\ load'[r].since = load[r].since /\ load'[r].through = t
    BY <2>1 DEF IInv, TypeOK, Page
  <2>4. ASSUME NEW n \in (load[r].since + 1)..t
        PROVE  n \in load[r].got
    <3>1. t \in load[r].got
      BY DEF IInv, TypeOK, LoadType
    <3>2. n \in load[r].got \/ n <= snapSeq
      BY <1>14, <3>1 DEF IInv, ReaderInv, LoadSound, LoadNoSnapshot
    <3> QED
      BY <2>2, <3>2 DEF IInv, TypeOK, LoadType
  <2> QED
    BY <2>3, <2>4 DEF LoadSound
<1>15. ASSUME NEW r \in Readers, ApplyPage(r) PROVE ReaderInv'
  <2> SUFFICES ASSUME exists
               PROVE  /\ 1..wm'[r] \subseteq doc'[r]
                      /\ ahead'[r] \subseteq doc'[r]
                      /\ load'[r].at # "idle" => load'[r].since <= wm'[r]
                      /\ load'[r].at \notin {"snapshot", "apply"}
    BY <1>15 DEF IInv, TypeOK, ReaderInv, LoadSound, ApplyPage, serverVars
  <2>1. doc'[r] = doc[r] \cup load[r].got
    BY <1>15 DEF IInv, TypeOK, ApplyPage
  <2>2. \A n \in 1..load[r].through : n \in doc'[r]
    BY <1>15, <2>1 DEF IInv, TypeOK, LoadType, ReaderInv, LoadSound, ApplyPage
  <2>3. load'[r] = Page("get", load[r].through, {}, FALSE, 0) \/ load'[r] = NoLoad
    BY <1>15 DEF IInv, TypeOK, ApplyPage
  <2>4. /\ 1..wm'[r] \subseteq doc'[r]
        /\ ahead'[r] \subseteq ahead[r]
        /\ load[r].through <= wm'[r]
    <3>1. CASE load[r].through < wm[r]
      BY <1>15, <2>1, <3>1 DEF IInv, TypeOK, LoadType, ReaderInv, ApplyPage
    <3>2. CASE ~(load[r].through < wm[r])
      <4>1. PICK n \in load[r].through..MaxSeq :
               /\ Contiguous(load[r].through, ahead[r], n)
               /\ wm' = [wm EXCEPT ![r] = n]
               /\ ahead' = [ahead EXCEPT ![r] = {s \in @ : s > n}]
        BY <1>15, <3>2 DEF ApplyPage
      <4>2. wm'[r] = n /\ ahead'[r] \subseteq ahead[r]
        BY <4>1 DEF IInv, TypeOK
      <4>3. \A m \in 1..n : m \in doc'[r]
        BY <2>1, <2>2, <4>1, CollabLogAssumption
           DEF IInv, TypeOK, LoadType, ReaderInv, Contiguous
      <4> QED
        BY <4>2, <4>3, CollabLogAssumption DEF IInv, TypeOK, LoadType
    <3> QED
      BY <3>1, <3>2
  <2>5. ahead'[r] \subseteq doc'[r]
    BY <2>1, <2>4 DEF IInv, ReaderInv
  <2> QED
    BY <2>3, <2>4, <2>5 DEF Page, NoLoad
<1>16. ASSUME NEW r \in Readers, NEW s \in Seqs, Receive(r, s) PROVE ReaderInv'
  <2> SUFFICES ASSUME exists
               PROVE  /\ 1..wm'[r] \subseteq doc'[r]
                      /\ ahead'[r] \subseteq doc'[r]
                      /\ wm[r] <= wm'[r]
    BY <1>16 DEF IInv, TypeOK, LoadType, ReaderInv, LoadSound, Receive, serverVars
  <2>1. doc'[r] = doc[r] \cup {s}
    BY <1>16 DEF IInv, TypeOK, Receive
  <2>2. CASE s <= wm[r]
    BY <1>16, <2>1, <2>2 DEF IInv, TypeOK, ReaderInv, Receive
  <2>3. CASE ~(s <= wm[r])
    <3>1. PICK n \in wm[r]..MaxSeq :
             /\ Contiguous(wm[r], ahead[r] \cup {s}, n)
             /\ wm' = [wm EXCEPT ![r] = n]
             /\ ahead' = [ahead EXCEPT ![r] = {q \in @ \cup {s} : q > n}]
      BY <1>16, <2>3 DEF Receive
    <3>2. wm'[r] = n /\ ahead'[r] \subseteq ahead[r] \cup {s}
      BY <3>1 DEF IInv, TypeOK
    <3>3. \A m \in 1..n : m \in doc'[r]
      BY <2>1, <3>1, CollabLogAssumption DEF IInv, TypeOK, ReaderInv, Contiguous
    <3> QED
      BY <2>1, <3>2, <3>3, CollabLogAssumption DEF IInv, TypeOK, ReaderInv
  <2> QED
    BY <2>2, <2>3
<1>17. ASSUME NEW r \in Readers, Reopen(r) PROVE ReaderInv'
  BY <1>17, CollabLogAssumption DEF IInv, LockInv, BoundInv, ReaderInv,
     LoadSound, TypeOK, LoadType, Page, NoLoad, readerVars, serverVars,
     Reopen
<1>18. CASE UNCHANGED vars
  BY <1>18, CollabLogAssumption DEF IInv, LockInv, BoundInv, ReaderInv,
     LoadSound, TypeOK, LoadType, Page, NoLoad, readerVars, serverVars, vars
<1> QED
  BY <1>1, <1>2, <1>3, <1>4, <1>5, <1>6, <1>7, <1>8, <1>9, <1>10, <1>11,
     <1>12, <1>13, <1>14, <1>15, <1>16, <1>17, <1>18 DEF Next

-----------------------------------------------------------------------------
(* The theorems.                                                           *)

\* The invariant holds in every reachable state.
LEMMA Inductive == Spec => []IInv
<1>1. Init => IInv
  <2> SUFFICES ASSUME Init PROVE IInv
    OBVIOUS
  <2>1. TypeOK
    BY CollabLogAssumption
       DEF Init, TypeOK, TxType, LoadType, Tx, NoTx, Page, NoLoad, Seqs
  <2>2. LockInv
    BY DEF Init, LockInv, Tx, NoTx
  <2>3. BoundInv
    BY DEF Init, BoundInv, Tx, NoTx, Page, NoLoad
  <2>4. LogInv
    BY DEF Init, LogInv, Tx, NoTx
  <2>5. ReaderInv
    BY DEF Init, ReaderInv, LoadSound, Page, NoLoad
  <2> QED
    BY <2>1, <2>2, <2>3, <2>4, <2>5 DEF IInv
<1>2. IInv /\ [Next]_vars => IInv'
  BY TypeStep, LockStep, BoundStep, LogStep, ReaderStep DEF IInv
<1> QED
  BY <1>1, <1>2, PTL DEF Spec

\* Every variable keeps its type whatever sessions, readers and failures
\* interleave.
THEOREM TypeCorrect == Spec => []TypeOK
<1>1. IInv => TypeOK
  BY DEF IInv
<1> QED
  BY <1>1, Inductive, PTL

\* The rows of a live document's log are exactly the updates after its
\* snapshot: the lock order of AppendUpdate and SaveSnapshot leaves no gap.
THEOREM GapFree == Spec => []LogGapFree
<1>1. IInv => LogGapFree
  BY DEF IInv, LogInv, LogGapFree
<1> QED
  BY <1>1, Inductive, PTL

\* Compaction never destroys an update: the newest snapshot and the rows still
\* hold everything ever committed.
THEOREM NothingLost == Spec => []NothingCommittedIsLost
<1>1. ASSUME IInv PROVE NothingCommittedIsLost
  <2> SUFFICES ASSUME exists
               PROVE  \/ snaps = {} /\ 1..head \subseteq rows
                      \/ \E x \in snaps : /\ \A y \in snaps : y.seq <= x.seq
                                          /\ 1..head \subseteq x.content \cup rows
    BY DEF NothingCommittedIsLost
  <2>1. rows = (snapSeq + 1)..head
    BY <1>1 DEF IInv, LogInv
  <2>2. CASE snapSeq = 0 /\ snaps = {}
    BY <2>1, <2>2
  <2>3. ASSUME NEW x \in snaps, x.seq = snapSeq
        PROVE  /\ \A y \in snaps : y.seq <= x.seq
               /\ 1..head \subseteq x.content \cup rows
    <3>1. \A y \in snaps : y.seq <= x.seq
      BY <1>1, <2>3 DEF IInv, BoundInv
    <3>2. 1..snapSeq \subseteq x.content
      BY <1>1, <2>3 DEF IInv, LogInv
    <3>3. 1..head \subseteq x.content \cup rows
      BY <1>1, <2>1, <3>2, CollabLogAssumption DEF IInv, TypeOK
    <3> QED
      BY <3>1, <3>3
  <2> QED
    BY <1>1, <2>2, <2>3 DEF IInv, LogInv
<1> QED
  BY <1>1, Inductive, PTL

\* A replica holds everything at or below its watermark, for every page size
\* and every interleaving of its three reads with commits and compactions.
THEOREM WatermarksSound == Spec => []WatermarkSound
<1>1. IInv => WatermarkSound
  BY DEF IInv, ReaderInv, WatermarkSound
<1> QED
  BY <1>1, Inductive, PTL

\* No replica's watermark passes the committed head.
THEOREM NoReaderAhead == Spec => []NeverAheadOfLog
<1>1. IInv => NeverAheadOfLog
  BY DEF IInv, BoundInv, NeverAheadOfLog
<1> QED
  BY <1>1, Inductive, PTL

\* How a step moves the document's row: it never comes back, head_seq moves by
\* one and only while it exists, snapshot_seq never moves back.
LEMMA Positions ==
    ASSUME IInv, [Next]_vars
    PROVE  Moves
<1>1. ASSUME NEW p \in Procs, AppendLock(p) PROVE Moves
  BY <1>1, CollabLogAssumption DEF IInv, TypeOK, Moves, AppendLock
<1>2. ASSUME NEW p \in Procs, AppendCommit(p) PROVE Moves
  BY <1>2, CollabLogAssumption DEF IInv, TypeOK, LockInv, Moves, AppendCommit
<1>3. ASSUME NEW p \in Procs, NEW r \in Readers, SnapshotSubmit(p, r) PROVE Moves
  BY <1>3, CollabLogAssumption DEF IInv, TypeOK, Moves, SnapshotSubmit
<1>4. ASSUME NEW p \in Procs, SnapshotLock(p) PROVE Moves
  BY <1>4, CollabLogAssumption DEF IInv, TypeOK, Moves, SnapshotLock
<1>5. ASSUME NEW p \in Procs, SnapshotRefused(p) PROVE Moves
  BY <1>5, CollabLogAssumption DEF IInv, TypeOK, Moves, SnapshotRefused
<1>6. ASSUME NEW p \in Procs, SnapshotCommit(p) PROVE Moves
  BY <1>6, CollabLogAssumption
     DEF IInv, TypeOK, TxType, LockInv, Moves, SnapshotCommit
<1>7. ASSUME NEW p \in Procs, Rollback(p) PROVE Moves
  BY <1>7, CollabLogAssumption DEF IInv, TypeOK, Moves, Rollback
<1>8. ASSUME DeleteDocument PROVE Moves
  BY <1>8, CollabLogAssumption DEF IInv, TypeOK, Moves, DeleteDocument
<1>9. ASSUME NEW r \in Readers, LoadStart(r) PROVE Moves
  BY <1>9, CollabLogAssumption DEF IInv, TypeOK, Moves, LoadStart, serverVars
<1>10. ASSUME NEW r \in Readers, LoadGet(r) PROVE Moves
  BY <1>10, CollabLogAssumption DEF IInv, TypeOK, Moves, LoadGet, serverVars
<1>11. ASSUME NEW r \in Readers, LoadFails(r) PROVE Moves
  BY <1>11, CollabLogAssumption DEF IInv, TypeOK, Moves, LoadFails,
     serverVars
<1>12. ASSUME NEW r \in Readers, LoadUpdates(r) PROVE Moves
  BY <1>12, CollabLogAssumption DEF IInv, TypeOK, Moves, LoadUpdates,
     serverVars
<1>13. ASSUME NEW r \in Readers, LoadSnapshot(r) PROVE Moves
  BY <1>13, CollabLogAssumption DEF IInv, TypeOK, Moves, LoadSnapshot,
     serverVars
<1>14. ASSUME NEW r \in Readers, LoadNoSnapshot(r) PROVE Moves
  BY <1>14, CollabLogAssumption DEF IInv, TypeOK, Moves, LoadNoSnapshot,
     serverVars
<1>15. ASSUME NEW r \in Readers, ApplyPage(r) PROVE Moves
  BY <1>15, CollabLogAssumption DEF IInv, TypeOK, Moves, ApplyPage,
     serverVars
<1>16. ASSUME NEW r \in Readers, NEW s \in Seqs, Receive(r, s) PROVE Moves
  BY <1>16, CollabLogAssumption DEF IInv, TypeOK, Moves, Receive, serverVars
<1>17. ASSUME NEW r \in Readers, Reopen(r) PROVE Moves
  BY <1>17, CollabLogAssumption DEF IInv, TypeOK, Moves, Reopen, serverVars
<1>18. CASE UNCHANGED vars
  BY <1>18, CollabLogAssumption DEF IInv, TypeOK, Moves, vars
<1> QED
  BY <1>1, <1>2, <1>3, <1>4, <1>5, <1>6, <1>7, <1>8, <1>9, <1>10, <1>11,
     <1>12, <1>13, <1>14, <1>15, <1>16, <1>17, <1>18 DEF Next

\* Compaction only moves forward, and the snapshot snapshot_seq names is stored.
THEOREM PositionAdvances == Spec => SnapshotPositionAdvances
<1>1. IInv /\ IInv' /\ [Next]_vars
      => snapSeq' >= snapSeq /\ (exists' /\ snapSeq' > 0 =>
            \E x \in snaps' : x.seq = snapSeq')
  <2> SUFFICES ASSUME IInv, IInv', [Next]_vars
               PROVE  snapSeq' >= snapSeq /\ (exists' /\ snapSeq' > 0 =>
                         \E x \in snaps' : x.seq = snapSeq')
    OBVIOUS
  <2>1. snapSeq' >= snapSeq
    BY Positions DEF Moves
  <2>2. exists' /\ snapSeq' > 0 => \E x \in snaps' : x.seq = snapSeq'
    BY DEF IInv, LogInv
  <2> QED
    BY <2>1, <2>2
<1> QED
  BY <1>1, Inductive, PTL DEF Spec, SnapshotPositionAdvances

\* What a reader starting from nothing is given: every committed update.
LEMMA StoredIsTheLog ==
    IInv => Stored = IF exists THEN 1..head ELSE {}
<1> SUFFICES ASSUME IInv
             PROVE  Stored = IF exists THEN 1..head ELSE {}
  OBVIOUS
<1>1. CASE ~exists
  BY <1>1 DEF IInv, LogInv, Stored, UsableSnapshots
<1>2. CASE exists /\ snapSeq = 0 /\ snaps = {}
  BY <1>2 DEF IInv, LogInv, Stored, UsableSnapshots
<1>3. CASE exists /\ \E x \in snaps : x.seq = snapSeq
  <2>1. PICK x \in snaps : x.seq = snapSeq
    BY <1>3
  <2>2. x \in UsableSnapshots(0)
    BY <2>1 DEF IInv, TypeOK, Seqs, BoundInv, UsableSnapshots
  <2>3. 1..snapSeq \subseteq x.content /\ rows = (snapSeq + 1)..head
    BY <1>3, <2>1 DEF IInv, LogInv
  <2>4. 1..head \subseteq x.content \cup rows
    BY <2>3, CollabLogAssumption DEF IInv, TypeOK
  <2>5. \A y \in UsableSnapshots(0) : y.content \subseteq 1..head
    BY DEF IInv, BoundInv, UsableSnapshots
  <2>6. rows \subseteq 1..head
    BY DEF IInv, BoundInv
  <2>7. Stored = 1..head
    BY <2>2, <2>4, <2>5, <2>6 DEF Stored
  <2> QED
    BY <1>3, <2>7
<1> QED
  BY <1>1, <1>2, <1>3 DEF IInv, LogInv

\* The log implements the abstract durable log: compaction, pruning, rollback,
\* deletion and paging are invisible except as its Append and Delete.
THEOREM Refinement == Spec => ImplementsDurableLog
<1>1. Init => Durable!Init
  BY DEF Init, Durable!Init, Stored, UsableSnapshots
<1>2. IInv' => Stored' = IF exists' THEN 1..head' ELSE {}
  <2>1. (IInv => Stored = IF exists THEN 1..head ELSE {})'
    BY StoredIsTheLog, PTL
  <2> QED
    BY <2>1
<1>3. IInv /\ IInv' /\ [Next]_vars => [Durable!Next]_<<exists, Stored>>
  <2> SUFFICES ASSUME IInv, IInv', [Next]_vars
               PROVE  [Durable!Next]_<<exists, Stored>>
    OBVIOUS
  <2>1. Stored = IF exists THEN 1..head ELSE {}
    BY StoredIsTheLog
  <2>2. Stored' = IF exists' THEN 1..head' ELSE {}
    BY <1>2
  <2>3. Moves
    BY Positions
  <2>4. head \in Nat /\ head' \in 0..MaxSeq /\ exists \in BOOLEAN /\ exists' \in BOOLEAN
    BY CollabLogAssumption DEF IInv, TypeOK
  <2>5. CASE exists' = exists /\ head' = head
    BY <2>1, <2>2, <2>5
  <2>6. CASE exists /\ exists' /\ head' = head + 1
    <3>1. head' \in 1..MaxSeq /\ head = head' - 1
      BY <2>4, <2>6, CollabLogAssumption
    <3>2. Durable!Append
      BY <2>1, <2>2, <2>6, <3>1 DEF Durable!Append
    <3> QED
      BY <3>2 DEF Durable!Next
  <2>7. CASE exists /\ ~exists'
    <3>1. Durable!Delete
      BY <2>2, <2>4, <2>7 DEF Durable!Delete
    <3> QED
      BY <3>1 DEF Durable!Next
  <2> QED
    BY <2>3, <2>4, <2>5, <2>6, <2>7 DEF Moves
<1> QED
  BY <1>1, <1>3, Inductive, PTL DEF Spec, ImplementsDurableLog, Durable!Spec
=============================================================================
