------------------------------ MODULE CollabLog ------------------------------
(***************************************************************************)
(* The collaboration log of one document: backend/internal/collab.         *)
(*                                                                         *)
(* The server orders opaque CRDT updates with a counter on the document    *)
(* row (head_seq), keeps them in collab_updates, and lets a client replace *)
(* a prefix of the log by a snapshot it produced (compaction).  A reader   *)
(* catches up with three separate statements (Load), so appends and        *)
(* compactions commit between its reads.                                   *)
(*                                                                         *)
(* An update is identified with the sequence number it was given: two      *)
(* appends never share one.  A CRDT state is the set of updates it         *)
(* contains, which is all a merge depends on (Yjs updates are idempotent   *)
(* and order-independent).                                                 *)
(*                                                                         *)
(* Transactions are modelled with the row lock they take: the first        *)
(* statement of an append and of a compaction locks the document row, and  *)
(* its effects become visible to other sessions at the commit.             *)
(***************************************************************************)
EXTENDS Integers, FiniteSets

CONSTANTS
    Procs,             \* server sessions running a write transaction
    Readers,           \* client replicas of the document
    PageLimit,         \* maxStateUpdates: updates in one GET /state page
    SnapshotRetention, \* snapshots kept per document
    MaxSeq             \* bound of the model: appends to the document

ASSUME CollabLogAssumption ==
    /\ PageLimit \in Nat \ {0}
    /\ SnapshotRetention \in Nat \ {0}
    /\ MaxSeq \in Nat

VARIABLES
    exists,   \* the collab_documents row is there
    head,     \* collab_documents.head_seq, committed
    snapSeq,  \* collab_documents.snapshot_seq, committed
    rows,     \* collab_updates: the seqs that have a row
    snaps,    \* collab_snapshots: records [seq, content]
    tx,       \* tx[p]: the write transaction of session p
    doc,      \* doc[r]: updates merged into reader r's replica
    wm,       \* wm[r]: the reader's watermark
    ahead,    \* ahead[r]: seqs applied above the watermark (pendingSeqs)
    load      \* load[r]: the reader's GET /state in progress

serverVars == <<exists, head, snapSeq, rows, snaps, tx>>
readerVars == <<doc, wm, ahead, load>>
vars == <<exists, head, snapSeq, rows, snaps, tx, doc, wm, ahead, load>>

Seqs == 1..MaxSeq

\* A write transaction: which operation, whether it holds the row lock, the seq
\* it allocated or claims to cover, and the snapshot it carries.
Tx(op, locked, seq, content) ==
    [op |-> op, locked |-> locked, seq |-> seq, content |-> content]
NoTx == Tx("idle", FALSE, 0, {})

\* A GET /state: its next step, the watermark it starts from, the updates read
\* so far, has_more and through_seq.
Page(at, since, got, more, through) ==
    [at |-> at, since |-> since, got |-> got, more |-> more, through |-> through]
NoLoad == Page("idle", 0, {}, FALSE, 0)

Init ==
    /\ exists = TRUE
    /\ head = 0
    /\ snapSeq = 0
    /\ rows = {}
    /\ snaps = {}
    /\ tx = [p \in Procs |-> NoTx]
    /\ doc = [r \in Readers |-> {}]
    /\ wm = [r \in Readers |-> 0]
    /\ ahead = [r \in Readers |-> {}]
    /\ load = [r \in Readers |-> NoLoad]

-----------------------------------------------------------------------------
(* Write transactions.                                                     *)

\* No session holds the document's row lock.
RowFree == \A p \in Procs : ~tx[p].locked

\* Mutant of AppendLock: the update is given head_seq as it was before the
\* increment.
AppendLockNoIncrement(p) ==
    /\ tx[p].op = "idle"
    /\ exists
    /\ RowFree
    /\ head < MaxSeq
    /\ tx' = [tx EXCEPT ![p] = Tx("append", TRUE, head, {})]
    /\ UNCHANGED <<exists, head, snapSeq, rows, snaps, readerVars>>

\* AppendUpdate, first statement: UPDATE ... head_seq + 1 RETURNING, which
\* locks the row.  The new head is visible to this transaction only.
AppendLock(p) ==
    /\ tx[p].op = "idle"
    /\ exists
    /\ RowFree
    /\ head < MaxSeq
    /\ tx' = [tx EXCEPT ![p] = Tx("append", TRUE, head + 1, {})]
    /\ UNCHANGED <<exists, head, snapSeq, rows, snaps, readerVars>>

\* AppendUpdate, INSERT INTO collab_updates and the commit.
AppendCommit(p) ==
    /\ tx[p].op = "append"
    /\ head' = tx[p].seq
    /\ rows' = rows \cup {tx[p].seq}
    /\ tx' = [tx EXCEPT ![p] = NoTx]
    /\ UNCHANGED <<exists, snapSeq, snaps, readerVars>>

\* Mutant of SnapshotSubmit: the snapshot is labelled with the log's head
\* instead of the replica's own watermark.
SnapshotSubmitHead(p, r) ==
    /\ tx[p].op = "idle"
    /\ wm[r] > 0
    /\ tx' = [tx EXCEPT ![p] = Tx("snapshot", FALSE, head, doc[r])]
    /\ UNCHANGED <<exists, head, snapSeq, rows, snaps, readerVars>>

\* A client posts the replica it holds, labelled with its watermark.  The
\* handler refuses a through_seq that is not positive.
SnapshotSubmit(p, r) ==
    /\ tx[p].op = "idle"
    /\ wm[r] > 0
    /\ tx' = [tx EXCEPT ![p] = Tx("snapshot", FALSE, wm[r], doc[r])]
    /\ UNCHANGED <<exists, head, snapSeq, rows, snaps, readerVars>>

\* Mutant of SnapshotLock: a snapshot older than the stored one is accepted.
SnapshotLockStale(p) ==
    /\ tx[p].op = "snapshot"
    /\ ~tx[p].locked
    /\ RowFree
    /\ exists
    /\ tx[p].seq # snapSeq
    /\ tx[p].seq <= head
    /\ tx' = [tx EXCEPT ![p] = Tx("snapshot", TRUE, @.seq, @.content)]
    /\ UNCHANGED <<exists, head, snapSeq, rows, snaps, readerVars>>

\* SaveSnapshot, SELECT ... FOR UPDATE and the staleness test.
SnapshotLock(p) ==
    /\ tx[p].op = "snapshot"
    /\ ~tx[p].locked
    /\ RowFree
    /\ exists
    /\ tx[p].seq > snapSeq
    /\ tx[p].seq <= head
    /\ tx' = [tx EXCEPT ![p] = Tx("snapshot", TRUE, @.seq, @.content)]
    /\ UNCHANGED <<exists, head, snapSeq, rows, snaps, readerVars>>

\* SaveSnapshot refuses: the document is gone, another compaction won, or the
\* snapshot claims updates that do not exist.
SnapshotRefused(p) ==
    /\ tx[p].op = "snapshot"
    /\ ~tx[p].locked
    /\ RowFree
    /\ \/ ~exists
       \/ tx[p].seq <= snapSeq
       \/ tx[p].seq > head
    /\ tx' = [tx EXCEPT ![p] = NoTx]
    /\ UNCHANGED <<exists, head, snapSeq, rows, snaps, readerVars>>

\* Mutant of Newest: the prune keeps the oldest snapshots.
Oldest(S) ==
    {x \in S : Cardinality({y \in S : y.seq < x.seq}) < SnapshotRetention}

\* The SnapshotRetention newest of a set of snapshots.
Newest(S) ==
    {x \in S : Cardinality({y \in S : y.seq > x.seq}) < SnapshotRetention}

\* Mutant of SnapshotCommit: the whole log is deleted, not the covered prefix.
SnapshotCommitDropsTail(p) ==
    /\ tx[p].op = "snapshot"
    /\ tx[p].locked
    /\ snaps' = Newest(snaps \cup {[seq |-> tx[p].seq, content |-> tx[p].content]})
    /\ snapSeq' = tx[p].seq
    /\ rows' = {}
    /\ tx' = [tx EXCEPT ![p] = NoTx]
    /\ UNCHANGED <<exists, head, readerVars>>

\* SaveSnapshot, the writes: store the snapshot, advance snapshot_seq, delete
\* the log it covers, prune old snapshots, commit.
SnapshotCommit(p) ==
    /\ tx[p].op = "snapshot"
    /\ tx[p].locked
    /\ snaps' = Newest(snaps \cup {[seq |-> tx[p].seq, content |-> tx[p].content]})
    /\ snapSeq' = tx[p].seq
    /\ rows' = {s \in rows : s > tx[p].seq}
    /\ tx' = [tx EXCEPT ![p] = NoTx]
    /\ UNCHANGED <<exists, head, readerVars>>

\* A transaction rolls back: the request's context expired or the connection
\* was lost.  WithTx releases the lock and nothing it wrote is kept.
Rollback(p) ==
    /\ tx[p].op # "idle"
    /\ tx' = [tx EXCEPT ![p] = NoTx]
    /\ UNCHANGED <<exists, head, snapSeq, rows, snaps, readerVars>>

\* DeleteDocument: the row goes and the log and snapshots cascade.
DeleteDocument ==
    /\ exists
    /\ RowFree
    /\ exists' = FALSE
    /\ rows' = {}
    /\ snaps' = {}
    /\ UNCHANGED <<head, snapSeq, tx, readerVars>>

-----------------------------------------------------------------------------
(* The catch-up read.                                                      *)

\* catchUp begins at the replica's watermark.
LoadStart(r) ==
    /\ load[r].at = "idle"
    /\ load' = [load EXCEPT ![r] = Page("get", wm[r], {}, FALSE, 0)]
    /\ UNCHANGED <<serverVars, doc, wm, ahead>>

\* State handler and the first statement of Load: the document is resolved and
\* a watermark ahead of the log is refused.
LoadGet(r) ==
    /\ load[r].at = "get"
    /\ exists
    /\ load[r].since <= head
    /\ load' = [load EXCEPT ![r] = Page("updates", @.since, {}, FALSE, 0)]
    /\ UNCHANGED <<serverVars, doc, wm, ahead>>

\* The request fails: the document is gone, or a statement or the network does.
\* The pages already applied stay applied.
LoadFails(r) ==
    /\ load[r].at \in {"get", "updates", "snapshot"}
    /\ load' = [load EXCEPT ![r] = NoLoad]
    /\ UNCHANGED <<serverVars, doc, wm, ahead>>

\* The first PageLimit elements of a set of seqs, in order.
FirstPage(S) == {s \in S : Cardinality({t \in S : t < s}) < PageLimit}

\* Load, second statement: the updates after since, one more than the limit to
\* learn whether the page is truncated.
LoadUpdates(r) ==
    LET due == {s \in rows : s > load[r].since}
    IN  /\ load[r].at = "updates"
        /\ load' = [load EXCEPT ![r] = Page("snapshot", @.since, FirstPage(due),
                                            FirstPage(due) # due, 0)]
        /\ UNCHANGED <<serverVars, doc, wm, ahead>>

\* The newest stored snapshot past the reader's watermark, if there is one.
UsableSnapshots(since) ==
    {x \in snaps : x.seq > since /\ \A y \in snaps : y.seq <= x.seq}

\* Load, third statement, when a snapshot is newer than the watermark: the page
\* is that snapshot and the updates it does not cover (dropThrough).
LoadSnapshot(r) ==
    /\ load[r].at = "snapshot"
    /\ \E x \in UsableSnapshots(load[r].since) :
          LET tail == {s \in load[r].got : s > x.seq}
          IN  \E t \in tail \cup {x.seq} :
                 /\ \A s \in tail \cup {x.seq} : s <= t
                 /\ load' = [load EXCEPT ![r] =
                               Page("apply", @.since, x.content \cup tail, @.more, t)]
    /\ UNCHANGED <<serverVars, doc, wm, ahead>>

\* Load, third statement, when no snapshot is newer than the watermark.
LoadNoSnapshot(r) ==
    /\ load[r].at = "snapshot"
    /\ UsableSnapshots(load[r].since) = {}
    /\ \E t \in load[r].got \cup {load[r].since} :
          /\ \A s \in load[r].got \cup {load[r].since} : s <= t
          /\ load' = [load EXCEPT ![r] = Page("apply", @.since, @.got, @.more, t)]
    /\ UNCHANGED <<serverVars, doc, wm, ahead>>

\* n is where a watermark at w stands after absorbing the contiguous part of S.
Contiguous(w, S, n) ==
    /\ n >= w
    /\ \A s \in (w + 1)..n : s \in S
    /\ n + 1 \notin S

\* The client applies the page (catchUp, advanceThrough) and asks for the next
\* one while the server says there is more.
ApplyPage(r) ==
    LET page == load[r]
    IN  /\ page.at = "apply"
        /\ doc' = [doc EXCEPT ![r] = @ \cup page.got]
        /\ IF page.through < wm[r]
             THEN UNCHANGED <<wm, ahead>>
             ELSE \E n \in page.through..MaxSeq :
                    /\ Contiguous(page.through, ahead[r], n)
                    /\ wm' = [wm EXCEPT ![r] = n]
                    /\ ahead' = [ahead EXCEPT ![r] = {s \in @ : s > n}]
        /\ load' = [load EXCEPT ![r] =
                      IF page.more
                        THEN Page("get", page.through, {}, FALSE, 0)
                        ELSE NoLoad]
        /\ UNCHANGED serverVars

\* Mutant of Receive: the watermark jumps to the update that arrived.
ReceiveJumps(r, s) ==
    /\ s <= head
    /\ doc' = [doc EXCEPT ![r] = @ \cup {s}]
    /\ wm' = [wm EXCEPT ![r] = IF s > @ THEN s ELSE @]
    /\ UNCHANGED <<serverVars, ahead, load>>

\* A broadcast of a committed update reaches the replica, in any order, late,
\* twice or never (recordAppliedSeq).
Receive(r, s) ==
    /\ s <= head
    /\ doc' = [doc EXCEPT ![r] = @ \cup {s}]
    /\ IF s <= wm[r]
         THEN UNCHANGED <<wm, ahead>>
         ELSE \E n \in wm[r]..MaxSeq :
                /\ Contiguous(wm[r], ahead[r] \cup {s}, n)
                /\ wm' = [wm EXCEPT ![r] = n]
                /\ ahead' = [ahead EXCEPT ![r] = {q \in @ \cup {s} : q > n}]
    /\ UNCHANGED <<serverVars, load>>

\* The replica is discarded and the document opened again from nothing.
Reopen(r) ==
    /\ doc' = [doc EXCEPT ![r] = {}]
    /\ wm' = [wm EXCEPT ![r] = 0]
    /\ ahead' = [ahead EXCEPT ![r] = {}]
    /\ load' = [load EXCEPT ![r] = NoLoad]
    /\ UNCHANGED serverVars

-----------------------------------------------------------------------------
Next ==
    \/ \E p \in Procs : AppendLock(p)
    \/ \E p \in Procs : AppendCommit(p)
    \/ \E p \in Procs, r \in Readers : SnapshotSubmit(p, r)
    \/ \E p \in Procs : SnapshotLock(p)
    \/ \E p \in Procs : SnapshotRefused(p)
    \/ \E p \in Procs : SnapshotCommit(p)
    \/ \E p \in Procs : Rollback(p)
    \/ DeleteDocument
    \/ \E r \in Readers : LoadStart(r)
    \/ \E r \in Readers : LoadGet(r)
    \/ \E r \in Readers : LoadFails(r)
    \/ \E r \in Readers : LoadUpdates(r)
    \/ \E r \in Readers : LoadSnapshot(r)
    \/ \E r \in Readers : LoadNoSnapshot(r)
    \/ \E r \in Readers : ApplyPage(r)
    \/ \E r \in Readers, s \in Seqs : Receive(r, s)
    \/ \E r \in Readers : Reopen(r)

Spec == Init /\ [][Next]_vars

-----------------------------------------------------------------------------
(* What the log promises, hidden behind rows, snapshots and compaction: the  *)
(* updates a reader starting from nothing would be given.                    *)

Stored ==
    rows \cup UNION {x.content : x \in UsableSnapshots(0)}

Durable == INSTANCE DurableLog WITH alive <- exists, stored <- Stored

\* The log implements DurableLog: appends add one update at the end, and no
\* compaction, prune, rollback or read changes what is stored.
ImplementsDurableLog == Durable!Spec

-----------------------------------------------------------------------------
(* Properties.                                                             *)

TxType == [op : {"idle", "append", "snapshot"}, locked : BOOLEAN,
           seq : 0..MaxSeq, content : SUBSET Seqs]
LoadType == [at : {"idle", "get", "updates", "snapshot", "apply"}, since : 0..MaxSeq,
             got : SUBSET Seqs, more : BOOLEAN, through : 0..MaxSeq]

\* Every variable of the log, its transactions and its readers has its type.
TypeOK ==
    /\ exists \in BOOLEAN
    /\ head \in 0..MaxSeq
    /\ snapSeq \in 0..MaxSeq
    /\ rows \subseteq Seqs
    /\ snaps \subseteq [seq : Seqs, content : SUBSET Seqs]
    /\ tx \in [Procs -> TxType]
    /\ doc \in [Readers -> SUBSET Seqs]
    /\ wm \in [Readers -> 0..MaxSeq]
    /\ ahead \in [Readers -> SUBSET Seqs]
    /\ load \in [Readers -> LoadType]

\* What is left of the log is exactly the updates after the snapshot: it has no
\* gap and no row the snapshot already covers (repository.go: the row lock
\* "is what makes the log gap-free and what makes compaction safe").
LogGapFree == exists => rows = (snapSeq + 1)..head

\* Whatever a document was compacted to, the newest snapshot and the rows after
\* it still hold every update ever committed: no compaction destroys an update,
\* whoever submitted the snapshot and whatever raced it.
NothingCommittedIsLost ==
    exists =>
        \/ snaps = {} /\ 1..head \subseteq rows
        \/ \E x \in snaps : /\ \A y \in snaps : y.seq <= x.seq
                            /\ 1..head \subseteq x.content \cup rows

\* A replica contains every update at or below its watermark, although the
\* three statements of Load see three different committed states and broadcasts
\* arrive out of order: the next since= can never skip an update.
WatermarkSound ==
    exists => \A r \in Readers : 1..wm[r] \subseteq doc[r]

\* No reader is ever ahead of the log, so the State handler's refusal of a
\* since past head_seq never hits a client that followed the protocol.
NeverAheadOfLog == \A r \in Readers : wm[r] <= head

\* Compaction moves forward only: a snapshot that lost the race to a later one
\* never moves snapshot_seq back, and the newest stored snapshot is the one
\* snapshot_seq names.
SnapshotPositionAdvances ==
    [][snapSeq' >= snapSeq /\ (exists' /\ snapSeq' > 0 =>
         \E x \in snaps' : x.seq = snapSeq')]_vars

=============================================================================
