----------------------------- MODULE AuditChain -----------------------------
(***************************************************************************)
(* The audit log (backend/internal/audit): entries written at once or      *)
(* through the bounded buffer, the hash chain of each workspace, and the   *)
(* job that verifies the chains and ships their heads off the machine.     *)
(* A hash stands for what it was computed from: the sequence of the entries*)
(* up to its row.                                                          *)
(***************************************************************************)
EXTENDS Integers, FiniteSets, Sequences, SequencesExt

CONSTANTS
    Workspaces,
    Entries,     \* what call sites record
    Home,        \* Home[e]: the workspace of e, or "loose" (no workspace, or coalesced)
    Buffered,    \* entries that go through Buffer; the others through Try
    AuditRequests,    \* goroutines that call Try
    BufferWorkers,     \* the buffer's goroutines
    QueueSize, BatchSize, VerifyBatch,
    MaxRuns,     \* bound of the model: runs of the verify job
    Faults       \* subset of {"write", "sink", "job"}

ASSUME AuditAssumption ==
    /\ Home \in [Entries -> Workspaces \cup {"loose"}] /\ "loose" \notin Workspaces
    /\ Entries \cap Workspaces = {}
    /\ Buffered \subseteq Entries /\ AuditRequests \cap BufferWorkers = {}
    /\ "free" \notin AuditRequests \cup BufferWorkers
    /\ QueueSize \in Nat \ {0} /\ BatchSize \in Nat \ {0} /\ VerifyBatch \in Nat \ {0}
    /\ MaxRuns \in Nat /\ Faults \subseteq {"write", "sink", "job"}

VARIABLES
    made,     \* entries handed to the service
    queue,    \* buffer.ch
    closed,   \* Close was called
    dropped,  \* buffer.dropped
    failures, \* Service.failures
    proc,     \* each goroutine: where it is, its batch, the groups it has yet to write,
              \* and the head hash its transaction has read
    lock,     \* who holds the row lock of a chain head, or "free"
    head,     \* audit_chain_heads; head_seq is the length of what head_hash stands for
    rows,     \* the chained rows of audit_logs
    loose,    \* entries in rows without a chain
    job,      \* the verify job
    runs,     \* its runs so far
    shipped   \* anchors the sink has

auditvars == <<made, queue, closed, dropped, failures, proc, lock, head, rows, loose, job, runs, shipped>>
bufferVars == <<made, queue, closed, dropped>>
chainVars == <<lock, head, rows>>
jobVars == <<job, runs, shipped>>

Procs == AuditRequests \cup BufferWorkers
ProcAt(p, place) == proc[p].at = place
IdleProc(p) == [at |-> IF p \in BufferWorkers THEN "collect" ELSE "idle",
            batch |-> <<>>, todo |-> {}, in |-> "loose", prev |-> <<>>, failed |-> FALSE]
NoJob == [at |-> "idle", todo |-> {}, heads |-> [w \in Workspaces |-> [seq |-> 0, anchored |-> 0]],
          breaks |-> {}, anchors |-> {}]

AuditInit ==
    /\ made = {} /\ queue = <<>> /\ closed = FALSE /\ dropped = 0 /\ failures = 0
    /\ proc = [p \in Procs |-> IdleProc(p)]
    /\ lock = [w \in Workspaces |-> "free"]
    /\ head = [w \in Workspaces |-> [hash |-> <<>>, anchored |-> 0]]
    /\ rows = [w \in Workspaces |-> {}] /\ loose = {}
    /\ job = NoJob /\ runs = 0 /\ shipped = {}

-----------------------------------------------------------------------------
(* Handing over an entry.                                                  *)

\* writeBatch: one group for each workspace, and the loose entries one by one.
Groups(batch) ==
    {Home[e] : e \in {f \in ToSet(batch) : Home[f] # "loose"}}
        \cup {e \in ToSet(batch) : Home[e] = "loose"}
Writing(p, batch) == [IdleProc(p) EXCEPT !.at = "write", !.batch = batch, !.todo = Groups(batch)]

\* Try: detached from the request, it runs to its end.
Try(p, e) ==
    /\ p \in AuditRequests /\ ProcAt(p, "idle") /\ e \notin made \cup Buffered
    /\ made' = made \cup {e}
    /\ proc' = [proc EXCEPT ![p] = Writing(p, <<e>>)]
    /\ UNCHANGED <<queue, closed, dropped, failures, chainVars, loose, jobVars>>

\* Buffer and enqueue; Close comes after everything that could still enqueue.
enqueue(e) ==
    /\ e \in Buffered \ made /\ ~closed
    /\ made' = made \cup {e}
    /\ IF Len(queue) < QueueSize
       THEN queue' = Append(queue, e) /\ UNCHANGED dropped
       ELSE dropped' = dropped + 1 /\ UNCHANGED queue
    /\ UNCHANGED <<closed, failures, proc, chainVars, loose, jobVars>>

\* buffer.run takes an entry; a full batch is flushed.
Collect(p) ==
    /\ p \in BufferWorkers /\ ProcAt(p, "collect") /\ queue # <<>>
    /\ LET batch == Append(proc[p].batch, Head(queue))
       IN  proc' = [proc EXCEPT ![p] = IF Len(batch) >= BatchSize THEN Writing(p, batch)
                                       ELSE [@ EXCEPT !.batch = batch]]
    /\ queue' = Tail(queue)
    /\ UNCHANGED <<made, closed, dropped, failures, chainVars, loose, jobVars>>

\* The ticker, or the end of the closed queue.
Flush(p) ==
    /\ p \in BufferWorkers /\ ProcAt(p, "collect")
    /\ IF proc[p].batch # <<>>
       THEN proc' = [proc EXCEPT ![p] = Writing(p, @.batch)]
       ELSE closed /\ queue = <<>> /\ proc' = [proc EXCEPT ![p].at = "done"]
    /\ UNCHANGED <<bufferVars, failures, chainVars, loose, jobVars>>

Close ==
    /\ ~closed /\ closed' = TRUE
    /\ UNCHANGED <<made, queue, dropped, failures, proc, chainVars, loose, jobVars>>

-----------------------------------------------------------------------------
(* Writing a batch.                                                        *)

\* Mutant: the head is read without FOR UPDATE.
LockHeadUnlocked(p, w) ==
    /\ ProcAt(p, "write") /\ w \in proc[p].todo \cap Workspaces
    /\ proc' = [proc EXCEPT ![p].at = "chain", ![p].in = w, ![p].prev = head[w].hash]
    /\ UNCHANGED <<bufferVars, failures, chainVars, loose, jobVars>>

\* writeChained: the transaction gets the lock of the head.
LockHead(p, w) ==
    /\ ProcAt(p, "write") /\ w \in proc[p].todo \cap Workspaces /\ lock[w] = "free"
    /\ lock' = [lock EXCEPT ![w] = p]
    /\ proc' = [proc EXCEPT ![p].at = "chain", ![p].in = w, ![p].prev = head[w].hash]
    /\ UNCHANGED <<bufferVars, failures, head, rows, loose, jobVars>>

WrittenGroup(p, g, ok) == [proc[p] EXCEPT !.at = "write", !.in = "loose", !.prev = <<>>, !.todo = @ \ {g},
                                          !.failed = @ \/ ~ok]

\* writeBatch: the entries of w, in the order they have in the batch.
Members(batch, w) == {i \in DOMAIN batch : Home[batch[i]] = w}
GroupsOf(batch, w) ==
    {[n \in DOMAIN at |-> batch[at[n]]] :
        at \in {f \in [1..Cardinality(Members(batch, w)) -> Members(batch, w)] :
                  \A i, j \in DOMAIN f : i < j => f[i] < f[j]}}

\* The rows of the group follow the head, and the head moves, in one commit.  The
\* answer may get lost.
WriteChained(p) ==
    /\ ProcAt(p, "chain")
    /\ \E group \in GroupsOf(proc[p].batch, proc[p].in) :
        LET w       == proc[p].in
            seq     == Len(proc[p].prev)
            hash(n) == proc[p].prev \o SubSeq(group, 1, n)
        IN  /\ rows' = [rows EXCEPT ![w] = @ \cup
                          {[seq |-> seq + n, entry |-> group[n],
                            prev |-> hash(n - 1), hash |-> hash(n)] : n \in 1..Len(group)}]
            /\ head' = [head EXCEPT ![w].hash = hash(Len(group))]
            /\ lock' = [lock EXCEPT ![w] = "free"]
            /\ \E ok \in {TRUE} \cup (IF "write" \in Faults THEN {FALSE} ELSE {}) :
                  proc' = [proc EXCEPT ![p] = WrittenGroup(p, w, ok)]
    /\ UNCHANGED <<bufferVars, failures, loose, jobVars>>

\* The transaction is rolled back, the timeout included.
ChainFails(p) ==
    /\ "write" \in Faults /\ ProcAt(p, "chain")
    /\ lock' = [lock EXCEPT ![proc[p].in] = "free"]
    /\ proc' = [proc EXCEPT ![p] = WrittenGroup(p, proc[p].in, FALSE)]
    /\ UNCHANGED <<bufferVars, failures, head, rows, loose, jobVars>>

\* writeLoose, after the chained groups: one statement for each entry.
WriteLoose(p, e) ==
    /\ ProcAt(p, "write") /\ e \in proc[p].todo /\ proc[p].todo \cap Workspaces = {}
    /\ \/ loose' = loose \cup {e} /\ proc' = [proc EXCEPT ![p] = WrittenGroup(p, e, TRUE)]
       \/ "write" \in Faults /\ UNCHANGED loose /\ proc' = [proc EXCEPT ![p] = WrittenGroup(p, e, FALSE)]
    /\ UNCHANGED <<bufferVars, failures, chainVars, jobVars>>

\* Try or the buffer's write counts what may be lost.
Written(p) ==
    /\ ProcAt(p, "write") /\ proc[p].todo = {}
    /\ failures' = failures + (IF proc[p].failed THEN Len(proc[p].batch) ELSE 0)
    /\ proc' = [proc EXCEPT ![p] = IdleProc(p)]
    /\ UNCHANGED <<bufferVars, chainVars, loose, jobVars>>

-----------------------------------------------------------------------------
(* The verify job; a lock keeps it a singleton.                            *)

\* Verify reads the heads.  A head without a row is not there yet.
VerifyHeads ==
    /\ job.at = "idle" /\ runs < MaxRuns
    /\ runs' = runs + 1
    /\ job' = [NoJob EXCEPT !.at = "walk", !.todo = {w \in Workspaces : head[w].hash # <<>>},
                            !.heads = [w \in Workspaces |-> [seq |-> Len(head[w].hash),
                                                              anchored |-> head[w].anchored]]]
    /\ UNCHANGED <<bufferVars, failures, proc, chainVars, loose, shipped>>

\* The rows a walk reads.
Read(w) ==
    {r \in rows[w] : r.seq > job.heads[w].anchored
                     /\ Cardinality({q \in rows[w] : q.seq > job.heads[w].anchored /\ q.seq < r.seq}) < VerifyBatch}

Missing(w) ==
    {n \in 1..Len(head[w].hash) : /\ n > job.heads[w].anchored
                                  /\ \A r \in Read(w) : r.seq # n
                                  /\ \E r \in Read(w) : r.seq > n}
Mismatch(w) ==
    {r.seq : r \in {x \in Read(w) : \/ \E q \in Read(w) : q.seq = x.seq - 1 /\ x.prev # q.hash
                                   \/ x.hash # Append(x.prev, x.entry)}}

\* walk: gaps, rows that do not follow the one before, rows that do not match
\* their hash; the first row's own prev is trusted.
Walk(w) ==
    /\ job.at = "walk" /\ w \in job.todo
    /\ job' = [job EXCEPT !.todo = @ \ {w},
                          !.breaks = @ \cup {<<w, n>> : n \in Missing(w) \cup Mismatch(w)}]
    /\ UNCHANGED <<bufferVars, failures, proc, chainVars, loose, runs, shipped>>

\* Anchor goes on with the chains that are clean and have something new.
Choose ==
    /\ job.at = "walk" /\ job.todo = {}
    /\ LET clean == {w \in Workspaces : /\ job.heads[w].seq > job.heads[w].anchored
                                        /\ \A b \in job.breaks : b[1] # w}
       IN  job' = IF clean = {} THEN NoJob ELSE [job EXCEPT !.at = "hash", !.todo = clean]
    /\ UNCHANGED <<bufferVars, failures, proc, chainVars, loose, runs, shipped>>

\* headHash: the hash of now goes with the seq of Verify.
HeadHash(w) ==
    /\ job.at = "hash" /\ w \in job.todo
    /\ job' = [job EXCEPT !.todo = @ \ {w}, !.at = IF job.todo = {w} THEN "ship" ELSE @,
                          !.anchors = @ \cup {[ws |-> w, seq |-> job.heads[w].seq, hash |-> head[w].hash]}]
    /\ UNCHANGED <<bufferVars, failures, proc, chainVars, loose, runs, shipped>>

\* Mutant: a failed Ship is logged and the anchors advance.
ShipAnyway ==
    /\ job.at = "ship"
    /\ \/ shipped' = shipped \cup job.anchors
       \/ "sink" \in Faults /\ UNCHANGED shipped
    /\ job' = [job EXCEPT !.at = "advance", !.todo = {a.ws : a \in job.anchors}]
    /\ UNCHANGED <<bufferVars, failures, proc, chainVars, loose, runs>>

Ship ==
    /\ job.at = "ship"
    /\ shipped' = shipped \cup job.anchors
    /\ job' = [job EXCEPT !.at = "advance", !.todo = {a.ws : a \in job.anchors}]
    /\ UNCHANGED <<bufferVars, failures, proc, chainVars, loose, runs>>

\* The sink fails, whether or not it has got the anchors.
ShipFails ==
    /\ "sink" \in Faults /\ job.at = "ship"
    /\ \/ shipped' = shipped \cup job.anchors
       \/ UNCHANGED shipped
    /\ job' = NoJob
    /\ UNCHANGED <<bufferVars, failures, proc, chainVars, loose, runs>>

\* anchored_seq moves forward, one workspace after the other; the UPDATE waits
\* for the lock of the head.
Advance(w) ==
    /\ job.at = "advance" /\ w \in job.todo /\ lock[w] = "free"
    /\ head' = [head EXCEPT ![w].anchored = IF @ < job.heads[w].seq THEN job.heads[w].seq ELSE @]
    /\ job' = IF job.todo = {w} THEN NoJob ELSE [job EXCEPT !.todo = @ \ {w}]
    /\ UNCHANGED <<bufferVars, failures, proc, lock, rows, loose, runs, shipped>>

\* A query fails or the worker dies.
JobDies ==
    /\ "job" \in Faults /\ job.at # "idle"
    /\ job' = NoJob
    /\ UNCHANGED <<bufferVars, failures, proc, chainVars, loose, runs, shipped>>

AuditNext ==
    \/ \E e \in Entries : enqueue(e) \/ \E p \in AuditRequests : Try(p, e)
    \/ Close
    \/ \E p \in BufferWorkers : Collect(p) \/ Flush(p)
    \/ \E p \in Procs : \/ WriteChained(p) \/ ChainFails(p) \/ Written(p)
                        \/ \E w \in Workspaces : LockHead(p, w)
                        \/ \E e \in Entries : WriteLoose(p, e)
    \/ VerifyHeads \/ Choose \/ Ship \/ ShipFails \/ JobDies
    \/ \E w \in Workspaces : Walk(w) \/ HeadHash(w) \/ Advance(w)

AuditSpec == AuditInit /\ [][AuditNext]_auditvars

-----------------------------------------------------------------------------
(* Properties.                                                             *)

\* Every variable has its type, a queue and a batch are bounded, and the lock of
\* a head is held by the goroutine whose transaction works on that head.
AuditTypeOK ==
    /\ made \subseteq Entries /\ queue \in Seq(Entries) /\ Len(queue) <= QueueSize
    /\ closed \in BOOLEAN /\ dropped \in Nat /\ failures \in Nat
    /\ \A p \in Procs :
        /\ proc[p].at \in {"idle", "collect", "write", "chain", "done"}
        /\ proc[p].batch \in Seq(Entries) /\ Len(proc[p].batch) <= BatchSize
        /\ proc[p].todo \subseteq Groups(proc[p].batch)
        /\ \A w \in Workspaces : (lock[w] = p) <=> (ProcAt(p, "chain") /\ proc[p].in = w)
    /\ DOMAIN head = Workspaces /\ loose \subseteq Entries
    /\ \A w \in Workspaces : head[w].hash \in Seq(Entries) /\ head[w].anchored \in 0..Len(head[w].hash)
    /\ job.at \in {"idle", "walk", "hash", "ship", "advance"} /\ job.todo \subseteq Workspaces
    /\ runs \in 0..MaxRuns

\* The chain of a workspace has one row for each number up to head_seq, each
\* follows the one before, and head_hash is the hash of the last: concurrent
\* writers leave no gap, no fork and no number that was given and rolled back.
ChainIntact ==
    \A w \in Workspaces :
        /\ Cardinality(rows[w]) = Len(head[w].hash)
        /\ {r.seq : r \in rows[w]} = 1..Len(head[w].hash)
        /\ \A r \in rows[w] : /\ r.hash = SubSeq(head[w].hash, 1, r.seq)
                              /\ r.hash = Append(r.prev, r.entry)

\* The verifier reports no break of a chain nobody has tampered with, although
\* it reads the heads, the rows and the anchor at different moments.
NoFalseBreak == job.breaks = {}

\* Everything at or below anchored_seq is off the machine (verify.go:180): the
\* sink has an anchor of that number whose hash covers those rows.
AnchoredIsShipped ==
    \A w \in Workspaces :
        LET n == head[w].anchored
        IN  n > 0 => \E a \in shipped :
                        /\ a.ws = w /\ a.seq = n
                        /\ SubSeq(a.hash, 1, n) = SubSeq(head[w].hash, 1, n)

Recorded == loose \cup UNION {{r.entry : r \in rows[w]} : w \in Workspaces}
Pending == ToSet(queue) \cup UNION {ToSet(proc[p].batch) : p \in Procs}

\* An entry that is neither in the log nor on its way is counted as dropped or
\* as failed, so that /metrics shows it.
NothingLostSilently ==
    Cardinality(made \ (Recorded \cup Pending)) <= dropped + failures

\* The chain is whole, and the verifier agrees.
ChainSound == AuditTypeOK /\ ChainIntact /\ NoFalseBreak

\* Every entry is accounted for: anchored ones are off the machine, missing
\* ones are in the metrics.
EntriesAccounted == AnchoredIsShipped /\ NothingLostSilently
=============================================================================
