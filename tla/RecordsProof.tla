---------------------------- MODULE RecordsProof ----------------------------
(***************************************************************************)
(* Proofs about the records of what happened, the audit chain (AuditChain) *)
(* and the inbox (Inbox), for any workspaces, entries, requests, buffer    *)
(* workers, events, recipients and preferences, any number of consumers    *)
(* and redeliveries, any sizes and any faults.                             *)
(***************************************************************************)
EXTENDS AuditChain, Inbox, FiniteSetTheorems, FunctionTheorems, TLAPS

(* The audit chain.                                                        *)

\* The rows of a chain whose head hash stands for h.
RowAt(h, n) == [seq |-> n, entry |-> h[n], prev |-> SubSeq(h, 1, n - 1), hash |-> SubSeq(h, 1, n)]
ChainOf(h) == {RowAt(h, n) : n \in 1..Len(h)}

\* The rows that writeChained adds for the group g after a head of hash h.
NewRow(h, g, n) == [seq |-> Len(h) + n, entry |-> g[n],
                    prev |-> h \o SubSeq(g, 1, n - 1), hash |-> h \o SubSeq(g, 1, n)]
NewRows(h, g) == {NewRow(h, g, n) : n \in 1..Len(g)}

\* What writeBatch calls the group of an entry.
GroupName(e) == IF Home[e] = "loose" THEN e ELSE Home[e]

(* The inductive invariant, in parts.                                      *)

ProcType == [at : {"idle", "collect", "write", "chain", "done"}, batch : Seq(Entries),
             todo : SUBSET (Workspaces \cup Entries), in : Workspaces \cup {"loose"},
             prev : Seq(Entries), failed : BOOLEAN]
AnchorType == [ws : Workspaces, seq : Nat, hash : Seq(Entries)]
JobType == [at : {"idle", "walk", "hash", "ship", "advance"}, todo : SUBSET Workspaces,
            heads : [Workspaces -> [seq : Nat, anchored : Nat]],
            breaks : SUBSET (Workspaces \X Nat), anchors : SUBSET AnchorType]

ShapeInv ==
    /\ made \subseteq Entries /\ queue \in Seq(Entries) /\ Len(queue) <= QueueSize
    /\ closed \in BOOLEAN /\ dropped \in Nat /\ failures \in Nat
    /\ proc \in [Procs -> ProcType]
    /\ lock \in [Workspaces -> Procs \cup {"free"}]
    /\ head \in [Workspaces -> [hash : Seq(Entries), anchored : Nat]]
    /\ loose \subseteq Entries /\ job \in JobType
    /\ runs \in 0..MaxRuns /\ shipped \subseteq AnchorType

\* The goroutines: a batch is bounded, what is left to write belongs to it, and
\* the one that holds the lock of a head has read what that head still is.
WriterInv ==
    \A p \in Procs :
        /\ Len(proc[p].batch) <= BatchSize
        /\ proc[p].at = "collect" => Len(proc[p].batch) < BatchSize
        /\ proc[p].at = "idle" => Len(proc[p].batch) = 0
        /\ proc[p].todo \subseteq Groups(proc[p].batch)
        /\ proc[p].at = "chain" => /\ proc[p].in \in proc[p].todo \cap Workspaces
                                   /\ lock[proc[p].in] = p
                                   /\ proc[p].prev = head[proc[p].in].hash
        /\ \A w \in Workspaces : lock[w] = p => proc[p].at = "chain" /\ proc[p].in = w

\* The rows are what the head hash stands for.
ChainInv == rows = [w \in Workspaces |-> ChainOf(head[w].hash)]

\* Two hashes agree up to n: what an anchor says stays true of the chain.
Agree(h, g, n) == n <= Len(h) /\ n <= Len(g) /\ \A i \in 1..n : h[i] = g[i]

\* The job and the sink: the heads it read are not ahead of the chains, every
\* anchor describes its chain, and what the job advances to or has advanced to
\* was shipped.
JobInv ==
    /\ job.breaks = {}
    /\ \A w \in Workspaces : /\ head[w].anchored <= Len(head[w].hash)
                             /\ job.heads[w].seq <= Len(head[w].hash)
    /\ \A a \in job.anchors : a.seq = job.heads[a.ws].seq
    /\ \A a \in job.anchors \cup shipped : Agree(a.hash, head[a.ws].hash, a.seq)
    /\ job.at = "advance" =>
          \A w \in job.todo : \E a \in shipped : a.ws = w /\ a.seq = job.heads[w].seq
    /\ \A w \in Workspaces :
          head[w].anchored > 0 => \E a \in shipped : a.ws = w /\ a.seq = head[w].anchored

\* Until a batch is counted as failed, each of its entries is in the log or in a
\* group that is still to be written.
AccountInv ==
    /\ IsFiniteSet(made)
    /\ \A p \in Procs : proc[p].at \in {"write", "chain"} /\ ~proc[p].failed =>
          \A e \in ToSet(proc[p].batch) : e \in Recorded \/ GroupName(e) \in proc[p].todo
    /\ NothingLostSilently

\* The inductive invariant of the audit log.
AuditIInv == ShapeInv /\ WriterInv /\ ChainInv /\ JobInv /\ AccountInv

-----------------------------------------------------------------------------
(* Facts about chains and groups.                                          *)

\* A prefix that reaches into the second part of a concatenation.
LEMMA PrefixOfConcat ==
    ASSUME NEW S, NEW h \in Seq(S), NEW g \in Seq(S), NEW n \in 0..Len(g)
    PROVE  /\ h \o SubSeq(g, 1, n) \in Seq(S)
           /\ SubSeq(h \o g, 1, Len(h) + n) = h \o SubSeq(g, 1, n)
<1> DEFINE x == SubSeq(h \o g, 1, Len(h) + n)
           y == h \o SubSeq(g, 1, n)
<1>1. h \o g \in Seq(S) /\ Len(h \o g) = Len(h) + Len(g) /\ Len(h) \in Nat /\ Len(g) \in Nat
  OBVIOUS
<1>2. SubSeq(g, 1, n) \in Seq(S) /\ Len(SubSeq(g, 1, n)) = n
  OBVIOUS
<1>3. x \in Seq(S) /\ Len(x) = Len(h) + n
  BY <1>1
<1>4. y \in Seq(S) /\ Len(y) = Len(h) + n
  BY <1>2
<1>5. ASSUME NEW i \in 1..(Len(h) + n) PROVE x[i] = y[i]
  BY <1>1, <1>2, <1>3, <1>4
<1> QED
  BY <1>3, <1>4, <1>5

\* A prefix of the first part of a concatenation is a prefix of it.
LEMMA PrefixKept ==
    ASSUME NEW S, NEW h \in Seq(S), NEW g \in Seq(S), NEW n \in 0..Len(h)
    PROVE  SubSeq(h \o g, 1, n) = SubSeq(h, 1, n)
<1>1. h \o g \in Seq(S) /\ Len(h \o g) = Len(h) + Len(g) /\ Len(h) \in Nat /\ Len(g) \in Nat
  OBVIOUS
<1>2. SubSeq(h \o g, 1, n) \in Seq(S) /\ Len(SubSeq(h \o g, 1, n)) = n
  BY <1>1
<1>3. SubSeq(h, 1, n) \in Seq(S) /\ Len(SubSeq(h, 1, n)) = n
  OBVIOUS
<1>4. ASSUME NEW i \in 1..n PROVE SubSeq(h \o g, 1, n)[i] = SubSeq(h, 1, n)[i]
  BY <1>1, <1>2, <1>3
<1> QED
  BY <1>2, <1>3, <1>4

\* Writing a group after the head makes the chain of the longer hash.
LEMMA ChainGrows ==
    ASSUME NEW h \in Seq(Entries), NEW g \in Seq(Entries)
    PROVE  ChainOf(h \o g) = ChainOf(h) \cup NewRows(h, g)
<1> DEFINE New(n) == NewRow(h, g, n)
<1>1. h \o g \in Seq(Entries) /\ Len(h \o g) = Len(h) + Len(g) /\ Len(h) \in Nat /\ Len(g) \in Nat
  OBVIOUS
<1>2. ASSUME NEW n \in 1..Len(h) PROVE RowAt(h \o g, n) = RowAt(h, n)
  <2>1. (h \o g)[n] = h[n]
    OBVIOUS
  <2>2. SubSeq(h \o g, 1, n) = SubSeq(h, 1, n) /\ SubSeq(h \o g, 1, n - 1) = SubSeq(h, 1, n - 1)
    BY PrefixKept
  <2> QED
    BY <2>1, <2>2 DEF RowAt
<1>3. ASSUME NEW n \in 1..Len(g) PROVE RowAt(h \o g, Len(h) + n) = New(n)
  <2>1. (h \o g)[Len(h) + n] = g[n]
    OBVIOUS
  <2>2. SubSeq(h \o g, 1, Len(h) + n) = h \o SubSeq(g, 1, n)
    BY PrefixOfConcat
  <2>3. n - 1 \in 0..Len(g) /\ Len(h) + n - 1 = Len(h) + (n - 1)
    BY <1>1
  <2>4. SubSeq(h \o g, 1, Len(h) + n - 1) = h \o SubSeq(g, 1, n - 1)
    BY <2>3, PrefixOfConcat
  <2> DEFINE m == Len(h) + n
             prefix(i) == SubSeq(h \o g, 1, i)
  <2>5. RowAt(h \o g, m) = [seq |-> m, entry |-> (h \o g)[m],
                             prev |-> prefix(m - 1), hash |-> prefix(m)]
    BY DEF RowAt
  <2>6. (h \o g)[m] = g[n] /\ prefix(m) = h \o SubSeq(g, 1, n)
        /\ prefix(m - 1) = h \o SubSeq(g, 1, n - 1)
    BY <2>1, <2>2, <2>4
  <2>7. New(n) = [seq |-> m, entry |-> g[n],
                  prev |-> h \o SubSeq(g, 1, n - 1), hash |-> h \o SubSeq(g, 1, n)]
    BY DEF NewRow
  <2> HIDE DEF m, prefix, New
  <2>8. RowAt(h \o g, m) = New(n)
    BY <2>5, <2>6, <2>7
  <2> QED
    BY <2>8 DEF m
<1> HIDE DEF New
<1>4. ASSUME NEW r PROVE r \in ChainOf(h \o g) <=> r \in ChainOf(h) \cup {New(n) : n \in 1..Len(g)}
  <2>1. ASSUME r \in ChainOf(h \o g) PROVE r \in ChainOf(h) \cup {New(n) : n \in 1..Len(g)}
    <3>1. PICK n \in 1..(Len(h) + Len(g)) : r = RowAt(h \o g, n)
      BY <1>1, <2>1 DEF ChainOf
    <3>2. CASE n \in 1..Len(h)
      BY <1>2, <3>1, <3>2 DEF ChainOf
    <3>3. CASE n \notin 1..Len(h)
      <4>1. n - Len(h) \in 1..Len(g) /\ n = Len(h) + (n - Len(h))
        BY <1>1, <3>3
      <4>2. r = New(n - Len(h))
        BY <1>3, <3>1, <4>1
      <4> QED
        BY <4>1, <4>2
    <3> QED
      BY <3>2, <3>3
  <2>2. ASSUME r \in ChainOf(h) PROVE r \in ChainOf(h \o g)
    <3>1. PICK n \in 1..Len(h) : r = RowAt(h, n)
      BY <2>2 DEF ChainOf
    <3>2. n \in 1..Len(h \o g)
      BY <1>1
    <3> QED
      BY <1>2, <3>1, <3>2 DEF ChainOf
  <2>3. ASSUME NEW n \in 1..Len(g), r = New(n) PROVE r \in ChainOf(h \o g)
    <3>1. Len(h) + n \in 1..Len(h \o g)
      BY <1>1
    <3> QED
      BY <1>3, <2>3, <3>1 DEF ChainOf
  <2> QED
    BY <2>1, <2>2, <2>3
<1>5. ChainOf(h \o g) = ChainOf(h) \cup {New(n) : n \in 1..Len(g)}
  BY <1>4
<1> QED
  BY <1>5 DEF New, NewRows

\* A chain has one row for each number, and each follows the one before.
LEMMA ChainFacts ==
    ASSUME NEW h \in Seq(Entries)
    PROVE  /\ IsFiniteSet(ChainOf(h)) /\ Cardinality(ChainOf(h)) = Len(h)
           /\ {r.seq : r \in ChainOf(h)} = 1..Len(h)
           /\ {r.entry : r \in ChainOf(h)} = ToSet(h)
           /\ \A r \in ChainOf(h) : /\ r.seq \in 1..Len(h) /\ r = RowAt(h, r.seq)
                                    /\ r.hash = SubSeq(h, 1, r.seq)
                                    /\ r.hash = Append(r.prev, r.entry)
<1>1. Len(h) \in Nat
  OBVIOUS
<1>2. \A n \in 1..Len(h) : /\ RowAt(h, n).seq = n /\ RowAt(h, n).entry = h[n]
                           /\ RowAt(h, n).prev = SubSeq(h, 1, n - 1)
                           /\ RowAt(h, n).hash = SubSeq(h, 1, n)
  BY DEF RowAt
<1>3. IsFiniteSet(ChainOf(h)) /\ Cardinality(ChainOf(h)) = Len(h)
  <2> DEFINE f == [n \in 1..Len(h) |-> RowAt(h, n)]
  <2>1. f \in Bijection(1..Len(h), ChainOf(h))
    <3>1. f \in [1..Len(h) -> ChainOf(h)]
      BY DEF ChainOf
    <3>2. \A n, m \in 1..Len(h) : f[n] = f[m] => n = m
      BY <1>2
    <3>3. \A r \in ChainOf(h) : \E n \in 1..Len(h) : f[n] = r
      BY DEF ChainOf
    <3> QED
      BY <3>1, <3>2, <3>3 DEF Bijection, Injection, Surjection, IsInjective
  <2>2. ExistsBijection(1..Len(h), ChainOf(h))
    BY <2>1 DEF ExistsBijection
  <2>3. IsFiniteSet(1..Len(h)) /\ Cardinality(1..Len(h)) = Len(h)
    BY <1>1, FS_Interval
  <2> QED
    BY <2>2, <2>3, FS_Bijection
<1>4. {r.seq : r \in ChainOf(h)} = 1..Len(h)
  BY <1>2 DEF ChainOf
<1>5. {r.entry : r \in ChainOf(h)} = ToSet(h)
  <2>1. DOMAIN h = 1..Len(h)
    OBVIOUS
  <2>2. ASSUME NEW e PROVE e \in {r.entry : r \in ChainOf(h)} <=> \E n \in 1..Len(h) : h[n] = e
    BY <1>2, SMTT(60) DEF ChainOf
  <2> QED
    BY <2>1, <2>2 DEF ToSet
<1>6. ASSUME NEW r \in ChainOf(h)
      PROVE  /\ r.seq \in 1..Len(h) /\ r = RowAt(h, r.seq)
             /\ r.hash = SubSeq(h, 1, r.seq)
             /\ r.hash = Append(r.prev, r.entry)
  <2>1. PICK n \in 1..Len(h) : r = RowAt(h, n)
    BY DEF ChainOf
  <2>2. r.seq = n /\ r.entry = h[n] /\ r.prev = SubSeq(h, 1, n - 1) /\ r.hash = SubSeq(h, 1, n)
    BY <1>2, <2>1
  <2>3. SubSeq(h, 1, n) = Append(SubSeq(h, 1, n - 1), h[n])
    <3>1. SubSeq(h, 1, n) \in Seq(Entries) /\ Len(SubSeq(h, 1, n)) = n
      BY <1>1
    <3>2. SubSeq(h, 1, n - 1) \in Seq(Entries) /\ Len(SubSeq(h, 1, n - 1)) = n - 1 /\ h[n] \in Entries
      BY <1>1
    <3>3. ASSUME NEW i \in 1..n PROVE SubSeq(h, 1, n)[i] = Append(SubSeq(h, 1, n - 1), h[n])[i]
      BY <1>1, <3>1, <3>2
    <3> QED
      BY <3>1, <3>2, <3>3
  <2> QED
    BY <2>1, <2>2, <2>3
<1> QED
  BY <1>3, <1>4, <1>5, <1>6

\* The group of a workspace has exactly the entries of the batch that are its own.
LEMMA GroupFacts ==
    ASSUME NEW batch \in Seq(Entries), NEW w, NEW group \in GroupsOf(batch, w)
    PROVE  /\ group \in Seq(Entries)
           /\ \A e \in ToSet(batch) : Home[e] = w => e \in ToSet(group)
<1> DEFINE M == Members(batch, w)
           k == Cardinality(M)
<1>1. DOMAIN batch = 1..Len(batch) /\ Len(batch) \in Nat /\ \A i \in 1..Len(batch) : batch[i] \in Entries
  OBVIOUS
<1>2. IsFiniteSet(1..Len(batch)) /\ M \subseteq 1..Len(batch)
  BY <1>1, FS_Interval DEF Members
<1>3. IsFiniteSet(M) /\ k \in Nat
  BY <1>2, FS_Subset, FS_CardinalityType
<1>4. PICK f \in [1..k -> M] : /\ \A i, j \in 1..k : i < j => f[i] < f[j]
                               /\ group = [n \in 1..k |-> batch[f[n]]]
  BY DEF GroupsOf
<1>5. f \in Injection(1..k, M)
  <2>1. ASSUME NEW i \in 1..k, NEW j \in 1..k, f[i] = f[j], i # j PROVE FALSE
    <3>1. f[i] \in Int /\ f[j] \in Int
      BY <1>1, <1>2
    <3>2. i < j \/ j < i
      BY <1>3, <2>1
    <3> QED
      BY <1>4, <2>1, <3>1, <3>2
  <2> QED
    BY <1>4, <2>1 DEF Injection, IsInjective
<1>6. Cardinality(1..k) = k
  BY <1>3, FS_Interval
<1>7. f \in Surjection(1..k, M)
  BY <1>3, <1>5, <1>6, FS_Injection
<1>8. group \in Seq(Entries) /\ DOMAIN group = 1..k
  <2>1. group \in [1..k -> Entries]
    BY <1>1, <1>2, <1>4
  <2> QED
    BY <1>3, <1>4, <2>1, SMTT(60)
<1>9. ASSUME NEW e \in ToSet(batch), Home[e] = w PROVE e \in ToSet(group)
  <2>1. PICK i \in M : batch[i] = e
    BY <1>9 DEF ToSet, Members
  <2>2. PICK n \in 1..k : f[n] = i
    BY <1>7 DEF Surjection
  <2> QED
    BY <1>4, <1>8, <2>1, <2>2 DEF ToSet
<1> QED
  BY <1>8, <1>9

\* walk finds nothing in an intact chain: the window it reads is the next rows
\* after the anchor, without a hole.
LEMMA WalkFindsNothing ==
    ASSUME AuditIInv, NEW w \in Workspaces
    PROVE  Missing(w) = {} /\ Mismatch(w) = {}
<1> DEFINE h == head[w].hash
           low == job.heads[w].anchored
<1>1. h \in Seq(Entries) /\ rows[w] = ChainOf(h) /\ low \in Nat
  BY DEF AuditIInv, ShapeInv, ChainInv, JobType
<1> HIDE DEF h
<1>2. /\ IsFiniteSet(rows[w])
      /\ {r.seq : r \in rows[w]} = 1..Len(h)
      /\ \A r \in rows[w] : /\ r.seq \in 1..Len(h) /\ r = RowAt(h, r.seq)
                            /\ r.hash = Append(r.prev, r.entry)
  BY <1>1, ChainFacts
<1>3. Missing(w) = {}
  <2> SUFFICES ASSUME NEW n \in 1..Len(h), n > low,
                      \A r \in Read(w) : r.seq # n,
                      NEW r \in Read(w), r.seq > n
               PROVE  FALSE
    BY DEF Missing, h
  <2> DEFINE Below(m) == {q \in rows[w] : q.seq > low /\ q.seq < m}
  <2>1. PICK q \in rows[w] : q.seq = n
    BY <1>2
  <2>2. r \in rows[w] /\ r.seq \in 1..Len(h) /\ Cardinality(Below(r.seq)) < VerifyBatch
    BY <1>2 DEF Read
  <2>3. Below(n) \subseteq Below(r.seq)
    BY <1>1, <1>2, <2>2
  <2>4. IsFiniteSet(Below(r.seq)) /\ IsFiniteSet(Below(n))
    BY <1>2, FS_Subset
  <2>5. Cardinality(Below(n)) <= Cardinality(Below(r.seq))
    BY <2>3, <2>4, FS_Subset
  <2>6. Cardinality(Below(n)) \in Nat /\ Cardinality(Below(r.seq)) \in Nat
    BY <2>4, FS_CardinalityType
  <2>7. Cardinality(Below(n)) < VerifyBatch
    BY <2>2, <2>5, <2>6, AuditAssumption
  <2>8. q \in Read(w)
    BY <2>1, <2>7 DEF Read
  <2> QED
    BY <2>1, <2>8
<1>4. Mismatch(w) = {}
  <2> SUFFICES ASSUME NEW x \in Read(w),
                      \/ \E q \in Read(w) : q.seq = x.seq - 1 /\ x.prev # q.hash
                      \/ x.hash # Append(x.prev, x.entry)
               PROVE  FALSE
    BY DEF Mismatch
  <2>1. x \in rows[w]
    BY DEF Read
  <2>2. PICK q \in rows[w] : q.seq = x.seq - 1 /\ x.prev # q.hash
    BY <1>2, <2>1 DEF Read
  <2>3. x.prev = SubSeq(h, 1, x.seq - 1) /\ q.hash = SubSeq(h, 1, q.seq)
    BY <1>2, <2>1 DEF RowAt
  <2> QED
    BY <2>2, <2>3
<1> QED
  BY <1>3, <1>4

-----------------------------------------------------------------------------
(* One lemma per part of the invariant: every step preserves it.           *)

\* The values a goroutine is set to keep its type.
LEMMA ProcTypes ==
    ASSUME ShapeInv, NEW p \in Procs
    PROVE  /\ IdleProc(p) \in ProcType
           /\ \A batch \in Seq(Entries) : Writing(p, batch) \in ProcType
           /\ \A g, ok : ok \in BOOLEAN => WrittenGroup(p, g, ok) \in ProcType
<1>1. proc[p] \in ProcType
  BY DEF ShapeInv
<1>2. IdleProc(p) \in ProcType
  BY DEF IdleProc, ProcType
<1>3. ASSUME NEW batch \in Seq(Entries) PROVE Writing(p, batch) \in ProcType
  <2>1. Groups(batch) \subseteq Workspaces \cup Entries
    BY AuditAssumption DEF Groups, ToSet
  <2> QED
    BY <1>2, <2>1 DEF Writing, ProcType
<1>4. ASSUME NEW g, NEW ok \in BOOLEAN PROVE WrittenGroup(p, g, ok) \in ProcType
  <2>1. ASSUME NEW none \in Seq(Entries)
        PROVE  [proc[p] EXCEPT !.at = "write", !.in = "loose", !.prev = none, !.todo = @ \ {g},
                               !.failed = @ \/ ~ok] \in ProcType
    BY <1>1 DEF ProcType
  <2>2. <<>> \in Seq(Entries)
    OBVIOUS
  <2> QED
    BY <2>1, <2>2, Zenon DEF WrittenGroup
<1> QED
  BY <1>2, <1>3, <1>4

\* The values the job is set to keep its type.
LEMMA JobTypes == NoJob \in JobType
BY DEF NoJob, JobType

\* Every step keeps every variable in its type.
LEMMA ShapeStep ==
    ASSUME AuditIInv, [AuditNext]_auditvars
    PROVE  ShapeInv'
<1> USE AuditAssumption DEF bufferVars, chainVars, jobVars
<1>0. ShapeInv
  BY DEF AuditIInv
<1>1. ASSUME NEW e \in Entries, enqueue(e) PROVE ShapeInv'
  <2>1. made' \subseteq Entries /\ queue' \in Seq(Entries) /\ Len(queue') <= QueueSize
    <3>1. queue \in Seq(Entries) /\ Len(queue) <= QueueSize /\ made \subseteq Entries
      BY <1>0 DEF ShapeInv
    <3>2. queue' = queue \/ (Len(queue) < QueueSize /\ queue' = Append(queue, e))
      BY <1>1 DEF enqueue
    <3>3. made' \subseteq Entries
      BY <1>1, <3>1 DEF enqueue
    <3>4. Append(queue, e) \in Seq(Entries) /\ Len(Append(queue, e)) = Len(queue) + 1
      BY <3>1
    <3> QED
      BY <3>1, <3>2, <3>3, <3>4
  <2>2. dropped' \in Nat
    BY <1>0, <1>1 DEF ShapeInv, enqueue
  <2> QED
    BY <1>0, <1>1, <2>1, <2>2 DEF ShapeInv, enqueue
<1>2. ASSUME NEW e \in Entries, NEW p \in AuditRequests, Try(p, e) PROVE ShapeInv'
  <2>1. p \in Procs /\ <<e>> \in Seq(Entries)
    BY DEF Procs
  <2>2. proc' \in [Procs -> ProcType]
    BY <1>0, <1>2, <2>1, ProcTypes DEF ShapeInv, Try
  <2> QED
    BY <1>0, <1>2, <2>2 DEF ShapeInv, Try
<1>3. ASSUME Close PROVE ShapeInv'
  BY <1>0, <1>3 DEF ShapeInv, Close
<1>4. ASSUME NEW p \in BufferWorkers, Collect(p) PROVE ShapeInv'
  <2>1. p \in Procs /\ proc[p] \in ProcType
    BY <1>0 DEF Procs, ShapeInv
  <2>2. /\ Head(queue) \in Entries /\ Tail(queue) \in Seq(Entries)
        /\ Len(Tail(queue)) <= QueueSize
    BY <1>0, <1>4 DEF ShapeInv, Collect
  <2>3. Append(proc[p].batch, Head(queue)) \in Seq(Entries)
    BY <2>1, <2>2 DEF ProcType
  <2>4. proc' \in [Procs -> ProcType]
    <3> DEFINE b == Append(proc[p].batch, Head(queue))
    <3>1. Writing(p, b) \in ProcType
      BY <1>0, <2>1, <2>3, ProcTypes
    <3>2. [proc[p] EXCEPT !.batch = b] \in ProcType
      BY <2>1, <2>3 DEF ProcType
    <3>3. proc' = [proc EXCEPT ![p] = IF Len(b) >= BatchSize THEN Writing(p, b)
                                      ELSE [proc[p] EXCEPT !.batch = b]]
      BY <1>0, <1>4, <2>1 DEF Collect, ShapeInv
    <3> HIDE DEF b
    <3> QED
      BY <1>0, <3>1, <3>2, <3>3 DEF ShapeInv
  <2> QED
    BY <1>0, <1>4, <2>2, <2>4 DEF ShapeInv, Collect
<1>5. ASSUME NEW p \in BufferWorkers, Flush(p) PROVE ShapeInv'
  <2>1. p \in Procs /\ proc[p] \in ProcType /\ proc[p].batch \in Seq(Entries)
    BY <1>0 DEF Procs, ShapeInv, ProcType
  <2>2. Writing(p, proc[p].batch) \in ProcType
    BY <1>0, <2>1, ProcTypes
  <2>3. [proc[p] EXCEPT !.at = "done"] \in ProcType
    BY <2>1 DEF ProcType
  <2>4. proc' \in [Procs -> ProcType]
    BY <1>0, <1>5, <2>1, <2>2, <2>3 DEF ShapeInv, Flush
  <2> QED
    BY <1>0, <1>5, <2>4 DEF ShapeInv, Flush
<1>6. ASSUME NEW p \in Procs, WriteChained(p) PROVE ShapeInv'
  <2>1. proc[p] \in ProcType /\ proc[p].batch \in Seq(Entries) /\ proc[p].prev \in Seq(Entries)
    BY <1>0 DEF ShapeInv, ProcType
  <2>2. PICK group \in GroupsOf(proc[p].batch, proc[p].in) :
          /\ head' = [head EXCEPT ![proc[p].in].hash = proc[p].prev \o SubSeq(group, 1, Len(group))]
          /\ lock' = [lock EXCEPT ![proc[p].in] = "free"]
          /\ \E ok \in {TRUE} \cup (IF "write" \in Faults THEN {FALSE} ELSE {}) :
                proc' = [proc EXCEPT ![p] = WrittenGroup(p, proc[p].in, ok)]
    BY <1>6 DEF WriteChained
  <2>3. group \in Seq(Entries)
    BY <2>1, GroupFacts
  <2>4. proc[p].prev \o SubSeq(group, 1, Len(group)) \in Seq(Entries)
    BY <2>1, <2>3, PrefixOfConcat
  <2>5. head' \in [Workspaces -> [hash : Seq(Entries), anchored : Nat]]
    <3> DEFINE x == proc[p].prev \o SubSeq(group, 1, Len(group))
    <3>1. x \in Seq(Entries) /\ head' = [head EXCEPT ![proc[p].in].hash = x]
      BY <2>2, <2>4
    <3> HIDE DEF x
    <3> QED
      BY <1>0, <3>1 DEF ShapeInv
  <2>6. lock' \in [Workspaces -> Procs \cup {"free"}]
    BY <1>0, <2>2 DEF ShapeInv
  <2>7. proc' \in [Procs -> ProcType]
    <3>1. PICK ok \in BOOLEAN : proc' = [proc EXCEPT ![p] = WrittenGroup(p, proc[p].in, ok)]
      BY <2>2
    <3>2. WrittenGroup(p, proc[p].in, ok) \in ProcType
      BY <1>0, ProcTypes
    <3> QED
      BY <1>0, <3>1, <3>2 DEF ShapeInv
  <2> QED
    BY <1>0, <1>6, <2>5, <2>6, <2>7 DEF ShapeInv, WriteChained
<1>7. ASSUME NEW p \in Procs, ChainFails(p) PROVE ShapeInv'
  <2>1. proc' \in [Procs -> ProcType]
    BY <1>0, <1>7, ProcTypes DEF ShapeInv, ChainFails
  <2> QED
    BY <1>0, <1>7, <2>1 DEF ShapeInv, ChainFails
<1>8. ASSUME NEW p \in Procs, Written(p) PROVE ShapeInv'
  <2>1. proc' \in [Procs -> ProcType]
    BY <1>0, <1>8, ProcTypes DEF ShapeInv, Written
  <2>2. Len(proc[p].batch) \in Nat
    BY <1>0 DEF ShapeInv, ProcType
  <2> QED
    BY <1>0, <1>8, <2>1, <2>2 DEF ShapeInv, Written
<1>9. ASSUME NEW p \in Procs, NEW w \in Workspaces, LockHead(p, w) PROVE ShapeInv'
  <2>1. proc' \in [Procs -> ProcType]
    <3>1. head[w].hash \in Seq(Entries) /\ proc \in [Procs -> ProcType]
      BY <1>0 DEF ShapeInv
    <3>2. [proc[p] EXCEPT !.at = "chain", !.in = w, !.prev = head[w].hash] \in ProcType
      BY <3>1 DEF ProcType
    <3>3. proc' = [proc EXCEPT ![p] = [proc[p] EXCEPT !.at = "chain", !.in = w, !.prev = head[w].hash]]
      BY <1>9, <3>1 DEF LockHead
    <3> QED
      BY <3>1, <3>2, <3>3
  <2> QED
    BY <1>0, <1>9, <2>1 DEF ShapeInv, LockHead
<1>10. ASSUME NEW p \in Procs, NEW e \in Entries, WriteLoose(p, e) PROVE ShapeInv'
  <2>1. proc' \in [Procs -> ProcType]
    <3>1. WrittenGroup(p, e, TRUE) \in ProcType /\ WrittenGroup(p, e, FALSE) \in ProcType
      BY <1>0, ProcTypes
    <3>2. \/ proc' = [proc EXCEPT ![p] = WrittenGroup(p, e, TRUE)]
          \/ proc' = [proc EXCEPT ![p] = WrittenGroup(p, e, FALSE)]
      BY <1>10 DEF WriteLoose
    <3> QED
      BY <1>0, <3>1, <3>2 DEF ShapeInv
  <2>2. loose' \subseteq Entries
    BY <1>0, <1>10 DEF ShapeInv, WriteLoose
  <2> QED
    BY <1>0, <1>10, <2>1, <2>2 DEF ShapeInv, WriteLoose
<1>11. ASSUME VerifyHeads PROVE ShapeInv'
  <2>1. job' \in JobType
    <3>1. [w \in Workspaces |-> [seq |-> Len(head[w].hash), anchored |-> head[w].anchored]]
             \in [Workspaces -> [seq : Nat, anchored : Nat]]
      BY <1>0 DEF ShapeInv
    <3> QED
      BY <1>11, <3>1, JobTypes DEF VerifyHeads, JobType
  <2> QED
    BY <1>0, <1>11, <2>1 DEF ShapeInv, VerifyHeads
<1>12. ASSUME Choose PROVE ShapeInv'
  <2>1. job' \in JobType
    BY <1>0, <1>12, JobTypes DEF ShapeInv, Choose, JobType
  <2> QED
    BY <1>0, <1>12, <2>1 DEF ShapeInv, Choose
<1>13. ASSUME Ship PROVE ShapeInv'
  <2>1. job \in JobType /\ job.anchors \subseteq AnchorType
    BY <1>0 DEF ShapeInv, JobType
  <2>2. {a.ws : a \in job.anchors} \subseteq Workspaces
    BY <2>1 DEF AnchorType
  <2>3. job' \in JobType
    BY <1>13, <2>1, <2>2 DEF Ship, JobType
  <2> QED
    BY <1>0, <1>13, <2>1, <2>3 DEF ShapeInv, Ship
<1>14. ASSUME ShipFails PROVE ShapeInv'
  <2>1. job' \in JobType /\ job.anchors \subseteq AnchorType
    BY <1>0, <1>14, JobTypes DEF ShapeInv, ShipFails, JobType
  <2> QED
    BY <1>0, <1>14, <2>1 DEF ShapeInv, ShipFails
<1>15. ASSUME JobDies PROVE ShapeInv'
  BY <1>0, <1>15, JobTypes DEF ShapeInv, JobDies
<1>16. ASSUME NEW w \in Workspaces, Walk(w) PROVE ShapeInv'
  <2>1. {<<w, n>> : n \in Missing(w) \cup Mismatch(w)} = {}
    BY <1>16, WalkFindsNothing
  <2>2. job' \in JobType
    BY <1>0, <1>16, <2>1 DEF ShapeInv, Walk, JobType
  <2> QED
    BY <1>0, <1>16, <2>2 DEF ShapeInv, Walk
<1>17. ASSUME NEW w \in Workspaces, HeadHash(w) PROVE ShapeInv'
  <2>1. [ws |-> w, seq |-> job.heads[w].seq, hash |-> head[w].hash] \in AnchorType
    BY <1>0 DEF ShapeInv, JobType, AnchorType
  <2>2. job' \in JobType
    BY <1>0, <1>17, <2>1 DEF ShapeInv, HeadHash, JobType
  <2> QED
    BY <1>0, <1>17, <2>2 DEF ShapeInv, HeadHash
<1>18. ASSUME NEW w \in Workspaces, Advance(w) PROVE ShapeInv'
  <2>1. job' \in JobType
    BY <1>0, <1>18, JobTypes DEF ShapeInv, Advance, JobType
  <2>2. head' \in [Workspaces -> [hash : Seq(Entries), anchored : Nat]]
    <3> DEFINE n == IF head[w].anchored < job.heads[w].seq THEN job.heads[w].seq ELSE head[w].anchored
    <3>1. n \in Nat /\ head' = [head EXCEPT ![w].anchored = n]
      BY <1>0, <1>18 DEF ShapeInv, Advance, JobType
    <3> HIDE DEF n
    <3> QED
      BY <1>0, <3>1 DEF ShapeInv
  <2> QED
    BY <1>0, <1>18, <2>1, <2>2 DEF ShapeInv, Advance
<1>19. CASE UNCHANGED auditvars
  BY <1>0, <1>19 DEF ShapeInv, auditvars
<1> QED
  BY <1>1, <1>2, <1>3, <1>4, <1>5, <1>6, <1>7, <1>8, <1>9, <1>10, <1>11, <1>12, <1>13,
     <1>14, <1>15, <1>16, <1>17, <1>18, <1>19 DEF AuditNext

\* What a goroutine's record holds after it is set.
LEMMA ProcFields ==
    ASSUME ShapeInv, NEW p \in Procs
    PROVE  /\ IdleProc(p).at \in {"idle", "collect"} /\ IdleProc(p).batch = <<>> /\ IdleProc(p).todo = {}
           /\ \A batch \in Seq(Entries) :
                 /\ Writing(p, batch).at = "write" /\ Writing(p, batch).batch = batch
                 /\ Writing(p, batch).todo = Groups(batch)
           /\ \A g, ok : /\ WrittenGroup(p, g, ok).at = "write"
                         /\ WrittenGroup(p, g, ok).batch = proc[p].batch
                         /\ WrittenGroup(p, g, ok).todo = proc[p].todo \ {g}
                         /\ ~WrittenGroup(p, g, ok).failed => ~proc[p].failed /\ ok
<1>1. proc[p] \in ProcType
  BY DEF ShapeInv
<1>2. /\ IdleProc(p).at \in {"idle", "collect"} /\ IdleProc(p).batch = <<>> /\ IdleProc(p).todo = {}
      /\ IdleProc(p) \in ProcType
  BY ProcTypes DEF IdleProc
<1>3. ASSUME NEW batch \in Seq(Entries)
      PROVE  /\ Writing(p, batch).at = "write" /\ Writing(p, batch).batch = batch
             /\ Writing(p, batch).todo = Groups(batch)
  BY <1>2 DEF Writing, ProcType
<1>4. ASSUME NEW g, NEW ok
      PROVE  /\ WrittenGroup(p, g, ok).at = "write"
             /\ WrittenGroup(p, g, ok).batch = proc[p].batch
             /\ WrittenGroup(p, g, ok).todo = proc[p].todo \ {g}
             /\ ~WrittenGroup(p, g, ok).failed => ~proc[p].failed /\ ok
  <2>1. ASSUME NEW none
        PROVE  LET x == [proc[p] EXCEPT !.at = "write", !.in = "loose", !.prev = none,
                                        !.todo = @ \ {g}, !.failed = @ \/ ~ok]
               IN  /\ x.at = "write" /\ x.batch = proc[p].batch /\ x.todo = proc[p].todo \ {g}
                   /\ ~x.failed => ~proc[p].failed /\ ok
    BY <1>1 DEF ProcType
  <2> QED
    BY <2>1, Zenon DEF WrittenGroup
<1> QED
  BY <1>2, <1>3, <1>4, Zenon

\* What WriteChained does: the goroutine holds the lock, so the rows it adds and
\* the hash it sets continue the head of now.
LEMMA WriteChainedFacts ==
    ASSUME AuditIInv, NEW p \in Procs, WriteChained(p)
    PROVE  LET w == proc[p].in
           IN  /\ w \in Workspaces /\ w \in proc[p].todo /\ proc[p].at = "chain"
               /\ lock' = [lock EXCEPT ![w] = "free"]
               /\ \E ok \in BOOLEAN : proc' = [proc EXCEPT ![p] = WrittenGroup(p, w, ok)]
               /\ \E group \in Seq(Entries) :
                     /\ \A e \in ToSet(proc[p].batch) : Home[e] = w => e \in ToSet(group)
                     /\ head' = [head EXCEPT ![w].hash = head[w].hash \o group]
                     /\ rows' = [rows EXCEPT ![w] = @ \cup NewRows(head[w].hash, group)]
<1> DEFINE w == proc[p].in
<1>1. /\ w \in Workspaces /\ w \in proc[p].todo /\ proc[p].at = "chain"
      /\ proc[p].prev = head[w].hash /\ proc[p].batch \in Seq(Entries)
  BY DEF AuditIInv, WriterInv, ShapeInv, ProcType, WriteChained, ProcAt
<1>2. PICK group \in GroupsOf(proc[p].batch, w) :
         /\ rows' = [rows EXCEPT ![w] = @ \cup NewRows(proc[p].prev, group)]
         /\ head' = [head EXCEPT ![w].hash = proc[p].prev \o SubSeq(group, 1, Len(group))]
         /\ lock' = [lock EXCEPT ![w] = "free"]
         /\ \E ok \in {TRUE} \cup (IF "write" \in Faults THEN {FALSE} ELSE {}) :
               proc' = [proc EXCEPT ![p] = WrittenGroup(p, w, ok)]
  BY DEF WriteChained, NewRows, NewRow
<1>3. /\ rows' = [rows EXCEPT ![w] = @ \cup NewRows(head[w].hash, group)]
      /\ head' = [head EXCEPT ![w].hash = head[w].hash \o SubSeq(group, 1, Len(group))]
      /\ lock' = [lock EXCEPT ![w] = "free"]
      /\ \E ok \in {TRUE} \cup (IF "write" \in Faults THEN {FALSE} ELSE {}) :
            proc' = [proc EXCEPT ![p] = WrittenGroup(p, w, ok)]
  <2> HIDE DEF w
  <2>1. proc[p].prev = head[w].hash
    BY <1>1
  <2>2. rows' = [rows EXCEPT ![w] = @ \cup NewRows(head[w].hash, group)]
    BY <1>2, <2>1, Zenon
  <2>3. head' = [head EXCEPT ![w].hash = head[w].hash \o SubSeq(group, 1, Len(group))]
    BY <1>2, <2>1, Zenon
  <2> QED
    BY <1>2, <2>2, <2>3
<1>4. group \in Seq(Entries) /\ \A e \in ToSet(proc[p].batch) : Home[e] = w => e \in ToSet(group)
  BY <1>1, GroupFacts
<1>5. SubSeq(group, 1, Len(group)) = group
  BY <1>4
<1>6. head' = [head EXCEPT ![w].hash = head[w].hash \o group]
  BY <1>3, <1>5
<1>7. \E ok \in BOOLEAN : proc' = [proc EXCEPT ![p] = WrittenGroup(p, w, ok)]
  BY <1>3
<1> QED
  BY <1>1, <1>3, <1>4, <1>6, <1>7, ZenonT(60)

\* Only WriteChained touches the rows and the hashes.
LEMMA OnlyWriteChained ==
    ASSUME AuditIInv, [AuditNext]_auditvars
    PROVE  \/ \E p \in Procs : WriteChained(p)
           \/ rows' = rows /\ \A w \in Workspaces : head'[w].hash = head[w].hash
<1> USE DEF bufferVars, chainVars, jobVars
<1>1. head \in [Workspaces -> [hash : Seq(Entries), anchored : Nat]]
  BY DEF AuditIInv, ShapeInv
<1>2. ASSUME NEW w \in Workspaces, Advance(w)
      PROVE  rows' = rows /\ \A v \in Workspaces : head'[v].hash = head[v].hash
  BY <1>1, <1>2 DEF Advance
<1>3. \/ \E p \in Procs : WriteChained(p)
      \/ \E w \in Workspaces : Advance(w)
      \/ rows' = rows /\ head' = head
  BY ZenonT(60) DEF AuditNext, auditvars, enqueue, Try, Close, Collect, Flush, ChainFails, Written, LockHead,
     WriteLoose, VerifyHeads, Choose, Ship, ShipFails, JobDies, Walk, HeadHash
<1> QED
  BY <1>2, <1>3

\* A chain only grows at its end.
LEMMA HashGrows ==
    ASSUME AuditIInv, [AuditNext]_auditvars
    PROVE  \A w \in Workspaces :
               /\ Len(head[w].hash) \in Nat /\ Len(head'[w].hash) \in Nat
               /\ Len(head[w].hash) <= Len(head'[w].hash)
               /\ \A i \in 1..Len(head[w].hash) : head'[w].hash[i] = head[w].hash[i]
<1>1. head \in [Workspaces -> [hash : Seq(Entries), anchored : Nat]]
  BY DEF AuditIInv, ShapeInv
<1>2. ASSUME NEW p \in Procs, WriteChained(p), NEW v \in Workspaces
      PROVE  /\ Len(head[v].hash) \in Nat /\ Len(head'[v].hash) \in Nat
             /\ Len(head[v].hash) <= Len(head'[v].hash)
             /\ \A i \in 1..Len(head[v].hash) : head'[v].hash[i] = head[v].hash[i]
  <2> DEFINE w == proc[p].in
  <2>1. w \in Workspaces
    BY <1>2, WriteChainedFacts
  <2>2. PICK group \in Seq(Entries) : head' = [head EXCEPT ![w].hash = head[w].hash \o group]
    BY <1>2, WriteChainedFacts
  <2>3. CASE v = w
    <3>1. head'[v].hash = head[v].hash \o group /\ head[v].hash \in Seq(Entries)
      BY <1>1, <2>1, <2>2, <2>3
    <3> QED
      BY <2>2, <3>1
  <2>4. CASE v # w
    BY <1>1, <2>2, <2>4
  <2> QED
    BY <2>3, <2>4
<1>3. ASSUME rows' = rows, NEW w \in Workspaces, head'[w].hash = head[w].hash
      PROVE  /\ Len(head[w].hash) \in Nat /\ Len(head'[w].hash) \in Nat
             /\ Len(head[w].hash) <= Len(head'[w].hash)
             /\ \A i \in 1..Len(head[w].hash) : head'[w].hash[i] = head[w].hash[i]
  BY <1>1, <1>3
<1> QED
  BY <1>2, <1>3, OnlyWriteChained

\* Every step keeps the rows what the head hashes stand for.
LEMMA ChainStep ==
    ASSUME AuditIInv, [AuditNext]_auditvars
    PROVE  ChainInv'
<1>0. rows = [w \in Workspaces |-> ChainOf(head[w].hash)]
  BY DEF AuditIInv, ChainInv
<1>1. head \in [Workspaces -> [hash : Seq(Entries), anchored : Nat]]
  BY DEF AuditIInv, ShapeInv
<1>2. ASSUME NEW p \in Procs, WriteChained(p) PROVE ChainInv'
  <2> DEFINE w == proc[p].in
  <2>1. w \in Workspaces
    BY <1>2, WriteChainedFacts
  <2>2. PICK group \in Seq(Entries) :
           /\ head' = [head EXCEPT ![w].hash = head[w].hash \o group]
           /\ rows' = [rows EXCEPT ![w] = @ \cup NewRows(head[w].hash, group)]
    BY <1>2, WriteChainedFacts
  <2>3. ChainOf(head[w].hash \o group) = ChainOf(head[w].hash) \cup NewRows(head[w].hash, group)
    BY <1>1, <2>1, ChainGrows
  <2> HIDE DEF w
  <2>4. head'[w].hash = head[w].hash \o group /\ \A v \in Workspaces \ {w} : head'[v].hash = head[v].hash
    BY <1>1, <2>1, <2>2
  <2>5. rows' = [v \in Workspaces |-> IF v = w THEN ChainOf(head[w].hash) \cup NewRows(head[w].hash, group)
                                                ELSE ChainOf(head[v].hash)]
    BY <1>0, <2>1, <2>2
  <2> QED
    BY <2>3, <2>4, <2>5, <2>1 DEF ChainInv
<1>3. ASSUME rows' = rows, \A w \in Workspaces : head'[w].hash = head[w].hash PROVE ChainInv'
  BY <1>0, <1>3 DEF ChainInv
<1> QED
  BY <1>2, <1>3, OnlyWriteChained

\* What WriterInv says of one goroutine.
WriterOK(p) ==
    /\ Len(proc[p].batch) <= BatchSize
    /\ proc[p].at = "collect" => Len(proc[p].batch) < BatchSize
    /\ proc[p].at = "idle" => Len(proc[p].batch) = 0
    /\ proc[p].todo \subseteq Groups(proc[p].batch)
    /\ proc[p].at = "chain" => /\ proc[p].in \in proc[p].todo \cap Workspaces
                               /\ lock[proc[p].in] = p
                               /\ proc[p].prev = head[proc[p].in].hash
    /\ \A w \in Workspaces : lock[w] = p => proc[p].at = "chain" /\ proc[p].in = w

\* A goroutine that is not in a transaction changes nobody's locks.
LEMMA LocalMove ==
    ASSUME ShapeInv, WriterInv, NEW p \in Procs, NEW x,
           proc' = [proc EXCEPT ![p] = x], lock' = lock,
           \A w \in Workspaces : head'[w].hash = head[w].hash,
           proc[p].at # "chain", x.at # "chain",
           Len(x.batch) <= BatchSize, x.at = "collect" => Len(x.batch) < BatchSize,
           x.at = "idle" => Len(x.batch) = 0,
           x.todo \subseteq Groups(x.batch)
    PROVE  WriterInv'
<1> SUFFICES ASSUME NEW q \in Procs PROVE WriterOK(q)'
  BY DEF WriterInv, WriterOK
<1>1. proc \in [Procs -> ProcType]
  BY DEF ShapeInv
<1>2. WriterOK(p) /\ WriterOK(q)
  BY DEF WriterInv, WriterOK
<1>3. CASE q = p
  <2>1. proc'[q] = x
    BY <1>1, <1>3
  <2> QED
    BY <1>2, <1>3, <2>1 DEF WriterOK
<1>4. CASE q # p
  <2>1. proc'[q] = proc[q]
    BY <1>1, <1>4
  <2> QED
    BY <1>2, <2>1 DEF WriterOK
<1> QED
  BY <1>3, <1>4

\* A transaction that ends, committed or not, gives back its own lock only.
LEMMA TxEnds ==
    ASSUME ShapeInv, WriterInv, NEW p \in Procs, NEW ok, proc[p].at = "chain",
           proc' = [proc EXCEPT ![p] = WrittenGroup(p, proc[p].in, ok)],
           lock' = [lock EXCEPT ![proc[p].in] = "free"],
           \A w \in Workspaces \ {proc[p].in} : head'[w].hash = head[w].hash
    PROVE  WriterInv'
<1> DEFINE w == proc[p].in
           x == WrittenGroup(p, w, ok)
<1> SUFFICES ASSUME NEW q \in Procs PROVE WriterOK(q)'
  BY DEF WriterInv, WriterOK
<1>1. proc \in [Procs -> ProcType] /\ lock \in [Workspaces -> Procs \cup {"free"}]
  BY DEF ShapeInv
<1>2. WriterOK(p) /\ WriterOK(q)
  BY DEF WriterInv, WriterOK
<1>3. x.at = "write" /\ x.batch = proc[p].batch /\ x.todo \subseteq proc[p].todo
  BY ProcFields
<1> HIDE DEF x
<1>4. w \in Workspaces /\ lock[w] = p
  BY <1>2 DEF WriterOK
<1>5. "free" # q
  BY AuditAssumption DEF Procs
<1>6. CASE q = p
  <2>1. proc'[q] = x
    BY <1>1, <1>6 DEF x
  <2>2. \A v \in Workspaces : lock'[v] # q
    BY <1>1, <1>2, <1>4, <1>5, <1>6 DEF WriterOK
  <2> QED
    BY <1>2, <1>3, <1>6, <2>1, <2>2 DEF WriterOK
<1>7. CASE q # p
  <2>1. proc'[q] = proc[q]
    BY <1>1, <1>7
  <2>2. \A v \in Workspaces : lock'[v] = q <=> lock[v] = q
    BY <1>1, <1>4, <1>5, <1>7
  <2>3. proc[q].at = "chain" => proc[q].in # w
    BY <1>2, <1>4, <1>7 DEF WriterOK
  <2> QED
    BY <1>2, <2>1, <2>2, <2>3 DEF WriterOK
<1> QED
  BY <1>6, <1>7

\* Every step keeps the goroutines, their batches and the locks consistent.
LEMMA WriterStep ==
    ASSUME AuditIInv, [AuditNext]_auditvars
    PROVE  WriterInv'
<1> USE AuditAssumption DEF bufferVars, chainVars, jobVars
<1>0. ShapeInv /\ WriterInv
  BY DEF AuditIInv
<1>1. ASSUME proc' = proc, lock' = lock, \A w \in Workspaces : head'[w].hash = head[w].hash
      PROVE  WriterInv'
  BY <1>0, <1>1 DEF WriterInv
<1>2. ASSUME NEW e \in Entries, NEW p \in AuditRequests, Try(p, e) PROVE WriterInv'
  <2> DEFINE b == <<e>>
             x == Writing(p, b)
  <2>1. p \in Procs /\ b \in Seq(Entries) /\ Len(b) = 1
    BY DEF Procs
  <2>3. proc' = [proc EXCEPT ![p] = x] /\ lock' = lock /\ head' = head /\ proc[p].at # "chain"
    BY <1>2 DEF Try, ProcAt
  <2> HIDE DEF b
  <2>2. x.at = "write" /\ x.batch = b /\ x.todo = Groups(b)
    BY <1>0, <2>1, ProcFields
  <2> HIDE DEF x
  <2>5. Len(b) <= BatchSize
    BY <2>1
  <2>4. Len(x.batch) <= BatchSize /\ x.todo \subseteq Groups(x.batch)
    BY <2>2, <2>5, Zenon
  <2> QED
    BY <1>0, <2>1, <2>2, <2>3, <2>4, LocalMove
<1>3. ASSUME NEW p \in BufferWorkers, Collect(p) PROVE WriterInv'
  <2>1. p \in Procs /\ proc[p] \in ProcType /\ proc[p].batch \in Seq(Entries) /\ proc[p].at = "collect"
    BY <1>0, <1>3 DEF Procs, ShapeInv, ProcType, Collect, ProcAt
  <2> DEFINE b == Append(proc[p].batch, Head(queue))
             x == IF Len(b) >= BatchSize THEN Writing(p, b) ELSE [proc[p] EXCEPT !.batch = b]
  <2>2. Head(queue) \in Entries
    BY <1>0, <1>3 DEF ShapeInv, Collect
  <2>3. b \in Seq(Entries) /\ Len(b) <= BatchSize
    BY <1>0, <2>1, <2>2 DEF WriterInv
  <2>4. proc' = [proc EXCEPT ![p] = x] /\ lock' = lock /\ head' = head
    BY <1>0, <1>3, <2>1 DEF Collect, ShapeInv
  <2>5. Groups(proc[p].batch) \subseteq Groups(b)
    <3>1. DOMAIN proc[p].batch \subseteq DOMAIN b /\ \A i \in DOMAIN proc[p].batch : b[i] = proc[p].batch[i]
      BY <2>1, <2>2
    <3>2. ToSet(proc[p].batch) \subseteq ToSet(b)
      BY <3>1 DEF ToSet
    <3> HIDE DEF b
    <3> QED
      BY <3>2 DEF Groups
  <2> HIDE DEF b
  <2>6. CASE Len(b) >= BatchSize
    <3>1. x.at = "write" /\ x.batch = b /\ x.todo = Groups(b)
      BY <1>0, <2>1, <2>3, <2>6, ProcFields
    <3> HIDE DEF x
    <3>2. Len(x.batch) <= BatchSize /\ x.todo \subseteq Groups(x.batch)
      BY <2>3, <3>1
    <3> QED
      BY <1>0, <2>1, <2>4, <3>1, <3>2, LocalMove
  <2>7. CASE ~(Len(b) >= BatchSize)
    <3>1. x.at = "collect" /\ x.batch = b /\ x.todo = proc[p].todo
      BY <2>1, <2>7 DEF ProcType
    <3>2. Len(b) < BatchSize
      BY <2>3, <2>7
    <3>3. x.todo \subseteq Groups(b)
      BY <1>0, <2>1, <2>5, <3>1 DEF WriterInv
    <3> QED
      BY <1>0, <2>1, <2>3, <2>4, <3>1, <3>2, <3>3, LocalMove
  <2> QED
    BY <2>6, <2>7
<1>4. ASSUME NEW p \in BufferWorkers, Flush(p) PROVE WriterInv'
  <2>1. p \in Procs /\ proc[p] \in ProcType /\ proc[p].batch \in Seq(Entries) /\ proc[p].at = "collect"
    BY <1>0, <1>4 DEF Procs, ShapeInv, ProcType, Flush, ProcAt
  <2>2. lock' = lock /\ head' = head
    BY <1>4 DEF Flush
  <2>3. Len(proc[p].batch) <= BatchSize /\ proc[p].todo \subseteq Groups(proc[p].batch)
    BY <1>0, <2>1 DEF WriterInv
  <2>4. ASSUME proc' = [proc EXCEPT ![p] = Writing(p, proc[p].batch)] PROVE WriterInv'
    <3> DEFINE x == Writing(p, proc[p].batch)
    <3>1. x.at = "write" /\ x.batch = proc[p].batch /\ x.todo = Groups(proc[p].batch)
      BY <1>0, <2>1, ProcFields
    <3> HIDE DEF x
    <3> QED
      BY <1>0, <2>1, <2>2, <2>3, <2>4, <3>1, LocalMove DEF x
  <2>5. ASSUME proc' = [proc EXCEPT ![p].at = "done"] PROVE WriterInv'
    <3> DEFINE x == [proc[p] EXCEPT !.at = "done"]
    <3>1. x.at = "done" /\ x.batch = proc[p].batch /\ x.todo = proc[p].todo
      BY <2>1 DEF ProcType
    <3>2. proc' = [proc EXCEPT ![p] = x]
      BY <1>0, <2>1, <2>5 DEF ShapeInv
    <3> HIDE DEF x
    <3> QED
      BY <1>0, <2>1, <2>2, <2>3, <3>1, <3>2, LocalMove
  <2> QED
    BY <1>4, <2>1, <2>4, <2>5 DEF Flush
<1>5. ASSUME NEW p \in Procs, WriteChained(p) PROVE WriterInv'
  <2>1. proc[p].at = "chain" /\ lock' = [lock EXCEPT ![proc[p].in] = "free"]
    BY <1>5, WriteChainedFacts
  <2>2. PICK ok \in BOOLEAN : proc' = [proc EXCEPT ![p] = WrittenGroup(p, proc[p].in, ok)]
    BY <1>5, WriteChainedFacts
  <2>3. PICK group \in Seq(Entries) :
           head' = [head EXCEPT ![proc[p].in].hash = head[proc[p].in].hash \o group]
    BY <1>5, WriteChainedFacts
  <2>4. \A w \in Workspaces \ {proc[p].in} : head'[w].hash = head[w].hash
    BY <1>0, <2>3 DEF ShapeInv
  <2> QED
    BY <1>0, <2>1, <2>2, <2>4, TxEnds
<1>6. ASSUME NEW p \in Procs, ChainFails(p) PROVE WriterInv'
  BY <1>0, <1>6, TxEnds DEF ChainFails, ProcAt
<1>7. ASSUME NEW p \in Procs, Written(p) PROVE WriterInv'
  <2> DEFINE x == IdleProc(p)
  <2>1. x.at # "chain" /\ x.batch = <<>> /\ x.todo = {}
    BY <1>0, ProcFields
  <2>2. proc' = [proc EXCEPT ![p] = x] /\ lock' = lock /\ head' = head /\ proc[p].at # "chain"
    BY <1>7 DEF Written, ProcAt
  <2>3. Len(x.batch) = 0
    BY <2>1
  <2>4. Len(x.batch) <= BatchSize /\ Len(x.batch) < BatchSize
    BY <2>3
  <2>5. x.todo \subseteq Groups(x.batch)
    BY <2>1
  <2> HIDE DEF x
  <2> QED
    BY <1>0, <2>1, <2>2, <2>3, <2>4, <2>5, LocalMove
<1>8. ASSUME NEW p \in Procs, NEW e \in Entries, WriteLoose(p, e) PROVE WriterInv'
  <2>1. PICK ok \in BOOLEAN : proc' = [proc EXCEPT ![p] = WrittenGroup(p, e, ok)]
    BY <1>8 DEF WriteLoose
  <2> DEFINE x == WrittenGroup(p, e, ok)
  <2>2. x.at = "write" /\ x.batch = proc[p].batch /\ x.todo \subseteq proc[p].todo
    BY <1>0, ProcFields
  <2>3. proc' = [proc EXCEPT ![p] = x] /\ lock' = lock /\ head' = head /\ proc[p].at # "chain"
    BY <1>8, <2>1 DEF WriteLoose, ProcAt
  <2> HIDE DEF x
  <2>4. Len(x.batch) <= BatchSize /\ x.todo \subseteq Groups(x.batch)
    BY <1>0, <2>2 DEF WriterInv
  <2> QED
    BY <1>0, <2>2, <2>3, <2>4, LocalMove
<1>9. ASSUME NEW p \in Procs, NEW w \in Workspaces, LockHead(p, w) PROVE WriterInv'
  <2>1. proc \in [Procs -> ProcType] /\ lock \in [Workspaces -> Procs \cup {"free"}] /\ head' = head
    BY <1>0, <1>9 DEF ShapeInv, LockHead
  <2>2. /\ proc[p].at = "write" /\ w \in proc[p].todo /\ lock[w] = "free"
        /\ lock' = [lock EXCEPT ![w] = p]
    BY <1>9 DEF LockHead, ProcAt
  <2>3. /\ proc'[p].at = "chain" /\ proc'[p].in = w /\ proc'[p].prev = head[w].hash
        /\ proc'[p].batch = proc[p].batch /\ proc'[p].todo = proc[p].todo
        /\ \A q \in Procs \ {p} : proc'[q] = proc[q]
    BY <1>9, <2>1 DEF LockHead, ProcType
  <2> SUFFICES ASSUME NEW q \in Procs PROVE WriterOK(q)'
    BY DEF WriterInv, WriterOK
  <2>4. WriterOK(q) /\ q # "free"
    BY <1>0 DEF WriterInv, WriterOK, Procs
  <2>5. CASE q = p
    <3>1. \A v \in Workspaces : lock'[v] = q <=> v = w
      BY <2>1, <2>2, <2>4, <2>5 DEF WriterOK
    <3> QED
      BY <2>1, <2>2, <2>3, <2>4, <2>5, <3>1 DEF WriterOK
  <2>6. CASE q # p
    <3>1. \A v \in Workspaces : lock'[v] = q <=> lock[v] = q
      BY <2>1, <2>2, <2>4, <2>6
    <3> QED
      BY <2>1, <2>3, <2>4, <2>6, <3>1 DEF WriterOK
  <2> QED
    BY <2>5, <2>6
<1>10. ASSUME NEW w \in Workspaces, Advance(w) PROVE WriterInv'
  <2>1. \A v \in Workspaces : head'[v].hash = head[v].hash
    BY <1>0, <1>10 DEF Advance, ShapeInv
  <2> QED
    BY <1>1, <1>10, <2>1 DEF Advance
<1>11. ASSUME \/ \E e \in Entries : enqueue(e)
              \/ Close \/ VerifyHeads \/ Choose \/ Ship \/ ShipFails \/ JobDies
              \/ \E w \in Workspaces : Walk(w) \/ HeadHash(w)
              \/ UNCHANGED auditvars
       PROVE  WriterInv'
  <2>1. proc' = proc /\ lock' = lock /\ head' = head
    BY <1>11, ZenonT(60) DEF enqueue, Close, VerifyHeads, Choose, Ship, ShipFails, JobDies, Walk, HeadHash, auditvars
  <2> QED
    BY <1>1, <2>1
<1> QED
  BY <1>2, <1>3, <1>4, <1>5, <1>6, <1>7, <1>8, <1>9, <1>10, <1>11 DEF AuditNext

\* Every step keeps the job, the anchors and the sink consistent with the chains.
LEMMA JobStep ==
    ASSUME AuditIInv, [AuditNext]_auditvars
    PROVE  JobInv'
<1> USE DEF bufferVars, chainVars, jobVars
<1>0. /\ ShapeInv /\ JobInv
      /\ head \in [Workspaces -> [hash : Seq(Entries), anchored : Nat]]
      /\ job \in JobType /\ shipped \subseteq AnchorType
  BY DEF AuditIInv, ShapeInv
<1>1. ASSUME job' = job, shipped' = shipped,
             \A w \in Workspaces : head'[w].anchored = head[w].anchored
      PROVE  JobInv'
  <2>1. \A w \in Workspaces : /\ Len(head[w].hash) \in Nat /\ Len(head'[w].hash) \in Nat
                              /\ Len(head[w].hash) <= Len(head'[w].hash)
                              /\ \A i \in 1..Len(head[w].hash) : head'[w].hash[i] = head[w].hash[i]
    BY HashGrows
  <2>2. \A w \in Workspaces : /\ head'[w].anchored <= Len(head'[w].hash)
                              /\ job'.heads[w].seq <= Len(head'[w].hash)
    BY <1>0, <1>1, <2>1 DEF JobInv, JobType
  <2>3. ASSUME NEW a \in job'.anchors \cup shipped' PROVE Agree(a.hash, head[a.ws].hash, a.seq)'
    <3>1. a.ws \in Workspaces /\ a.seq \in Nat /\ Agree(a.hash, head[a.ws].hash, a.seq)
      BY <1>0, <1>1 DEF JobInv, JobType, AnchorType
    <3> DEFINE h == head[a.ws].hash
               g == head'[a.ws].hash
    <3>2. /\ Len(h) \in Nat /\ Len(g) \in Nat /\ Len(h) <= Len(g)
          /\ \A i \in 1..Len(h) : g[i] = h[i]
      BY <2>1, <3>1
    <3>3. a.seq <= Len(a.hash) /\ a.seq <= Len(h) /\ \A i \in 1..a.seq : a.hash[i] = h[i]
      BY <3>1 DEF Agree
    <3> HIDE DEF h, g
    <3>4. a.seq <= Len(g) /\ \A i \in 1..a.seq : a.hash[i] = g[i]
      BY <3>1, <3>2, <3>3
    <3> QED
      BY <3>3, <3>4 DEF Agree, g
  <2> QED
    BY <1>0, <1>1, <2>2, <2>3 DEF JobInv
<1>3. ASSUME Close PROVE JobInv'
  BY <1>1, <1>3 DEF Close
<1>4. ASSUME NEW p \in Procs,
             \/ ChainFails(p) \/ Written(p) \/ Collect(p) \/ Flush(p)
             \/ (\E w \in Workspaces : LockHead(p, w)) \/ (\E e \in Entries : WriteLoose(p, e) \/ Try(p, e))
      PROVE  JobInv'
  BY <1>1, <1>4 DEF ChainFails, Written, Collect, Flush, LockHead, WriteLoose, Try
<1>5. ASSUME NEW p \in Procs, WriteChained(p) PROVE JobInv'
  <2>1. PICK group \in Seq(Entries) :
           head' = [head EXCEPT ![proc[p].in].hash = head[proc[p].in].hash \o group]
    BY <1>5, WriteChainedFacts
  <2>2. \A w \in Workspaces : head'[w].anchored = head[w].anchored
    <3> DEFINE x == head[proc[p].in].hash \o group
    <3> HIDE DEF x
    <3>1. head' = [head EXCEPT ![proc[p].in].hash = x]
      BY <2>1 DEF x
    <3> QED
      BY <1>0, <3>1
  <2> QED
    BY <1>1, <1>5, <2>2 DEF WriteChained
<1>6. ASSUME job' = NoJob, head' = head, shipped' = shipped \/ shipped' = shipped \cup job.anchors
      PROVE  JobInv'
  <2>1. /\ job'.breaks = {} /\ job'.anchors = {} /\ job'.at = "idle"
        /\ \A w \in Workspaces : job'.heads[w].seq = 0
    BY <1>6 DEF NoJob
  <2>2. \A w \in Workspaces : Len(head[w].hash) \in Nat
    BY <1>0
  <2> QED
    BY <1>0, <1>6, <2>1, <2>2 DEF JobInv
<1>7. ASSUME VerifyHeads PROVE JobInv'
  <2>1. /\ head' = head /\ shipped' = shipped
        /\ job'.breaks = {} /\ job'.anchors = {} /\ job'.at = "walk"
        /\ \A w \in Workspaces : job'.heads[w].seq = Len(head[w].hash)
    BY <1>7 DEF VerifyHeads, NoJob
  <2>2. \A w \in Workspaces : Len(head[w].hash) \in Nat
    BY <1>0
  <2> QED
    BY <1>0, <2>1, <2>2 DEF JobInv
<1>8. ASSUME Choose PROVE JobInv'
  <2>1. head' = head /\ shipped' = shipped
    BY <1>8 DEF Choose
  <2>2. \/ job' = NoJob
        \/ /\ job'.breaks = job.breaks /\ job'.anchors = job.anchors
           /\ job'.at = "hash" /\ job'.heads = job.heads
    BY <1>0, <1>8 DEF Choose, JobType
  <2> QED
    BY <1>0, <1>6, <2>1, <2>2 DEF JobInv
<1>9. ASSUME NEW w \in Workspaces, Walk(w) PROVE JobInv'
  <2>1. Missing(w) = {} /\ Mismatch(w) = {}
    BY WalkFindsNothing
  <2>2. /\ head' = head /\ shipped' = shipped /\ job'.breaks = job.breaks
        /\ job'.anchors = job.anchors /\ job'.at = "walk" /\ job'.heads = job.heads
    BY <1>0, <1>9, <2>1 DEF Walk, JobType
  <2> QED
    BY <1>0, <2>2 DEF JobInv
<1>10. ASSUME NEW w \in Workspaces, HeadHash(w) PROVE JobInv'
  <2> DEFINE a == [ws |-> w, seq |-> job.heads[w].seq, hash |-> head[w].hash]
  <2>1. /\ head' = head /\ shipped' = shipped /\ job'.breaks = job.breaks
        /\ job'.anchors = job.anchors \cup {a} /\ job'.at \in {"hash", "ship"} /\ job'.heads = job.heads
    BY <1>0, <1>10 DEF HeadHash, JobType
  <2>2. a.ws = w /\ a.seq = job.heads[w].seq /\ a.hash = head[w].hash
    OBVIOUS
  <2> HIDE DEF a
  <2>3. Agree(a.hash, head[a.ws].hash, a.seq)
    BY <1>0, <2>2 DEF Agree, JobInv
  <2> QED
    BY <1>0, <2>1, <2>2, <2>3 DEF JobInv
<1>11. ASSUME Ship PROVE JobInv'
  <2>1. /\ head' = head /\ shipped' = shipped \cup job.anchors /\ job'.breaks = job.breaks
        /\ job'.anchors = job.anchors /\ job'.at = "advance" /\ job'.heads = job.heads
        /\ job'.todo = {a.ws : a \in job.anchors}
    BY <1>0, <1>11 DEF Ship, JobType
  <2>2. \A w \in job'.todo : \E a \in shipped' : a.ws = w /\ a.seq = job'.heads[w].seq
    BY <1>0, <2>1 DEF JobInv
  <2> QED
    BY <1>0, <2>1, <2>2 DEF JobInv
<1>12. ASSUME ShipFails PROVE JobInv'
  BY <1>6, <1>12 DEF ShipFails
<1>13. ASSUME JobDies PROVE JobInv'
  BY <1>6, <1>13 DEF JobDies
<1>14. ASSUME NEW w \in Workspaces, Advance(w) PROVE JobInv'
  <2> DEFINE n == IF head[w].anchored < job.heads[w].seq THEN job.heads[w].seq ELSE head[w].anchored
  <2>1. /\ job.at = "advance" /\ w \in job.todo /\ shipped' = shipped
        /\ head' = [head EXCEPT ![w].anchored = n]
    BY <1>0, <1>14 DEF Advance
  <2>2. n \in Nat /\ (n = job.heads[w].seq \/ n = head[w].anchored)
    BY <1>0 DEF JobType
  <2> HIDE DEF n
  <2>3. /\ head'[w].anchored = n
        /\ \A v \in Workspaces : head'[v].hash = head[v].hash
        /\ \A v \in Workspaces \ {w} : head'[v].anchored = head[v].anchored
    BY <1>0, <2>1
  <2>4. \A v \in Workspaces : head'[v].anchored <= Len(head'[v].hash)
    BY <1>0, <2>2, <2>3 DEF JobInv
  <2>5. \A v \in Workspaces :
           head'[v].anchored > 0 => \E a \in shipped' : a.ws = v /\ a.seq = head'[v].anchored
    <3> SUFFICES ASSUME NEW v \in Workspaces, head'[v].anchored > 0
                 PROVE  \E a \in shipped : a.ws = v /\ a.seq = head'[v].anchored
      BY <2>1
    <3>1. CASE v = w /\ n = job.heads[w].seq
      <4>1. \E a \in shipped : a.ws = w /\ a.seq = job.heads[w].seq
        BY <1>0, <2>1 DEF JobInv
      <4> QED
        BY <2>3, <3>1, <4>1
    <3>2. CASE head'[v].anchored = head[v].anchored
      BY <1>0, <3>2 DEF JobInv
    <3> QED
      BY <2>2, <2>3, <3>1, <3>2
  <2>6. \A a \in job.anchors \cup shipped' : Agree(a.hash, head[a.ws].hash, a.seq)'
    <3> SUFFICES ASSUME NEW a \in job.anchors \cup shipped PROVE Agree(a.hash, head'[a.ws].hash, a.seq)
      BY <2>1 DEF Agree
    <3>1. a.ws \in Workspaces /\ Agree(a.hash, head[a.ws].hash, a.seq)
      BY <1>0 DEF JobInv, JobType, AnchorType
    <3> QED
      BY <2>3, <3>1
  <2>7. \/ /\ job'.breaks = {} /\ job'.anchors = {} /\ job'.at = "idle"
           /\ \A v \in Workspaces : job'.heads[v].seq = 0
        \/ /\ job'.breaks = job.breaks /\ job'.anchors = job.anchors
           /\ job'.heads = job.heads /\ job'.todo \subseteq job.todo
    <3>1. job' = NoJob \/ job' = [job EXCEPT !.todo = @ \ {w}]
      BY <1>14 DEF Advance
    <3>2. CASE job' = NoJob
      BY <3>2 DEF NoJob
    <3>3. CASE job' = [job EXCEPT !.todo = @ \ {w}]
      BY <1>0, <3>3 DEF JobType
    <3> QED
      BY <3>1, <3>2, <3>3
  <2>8. CASE /\ job'.breaks = {} /\ job'.anchors = {} /\ job'.at = "idle"
             /\ \A v \in Workspaces : job'.heads[v].seq = 0
    <3>1. \A v \in Workspaces : Len(head'[v].hash) \in Nat
      BY <1>0, <2>3
    <3> QED
      BY <2>4, <2>5, <2>6, <2>8, <3>1 DEF JobInv
  <2>9. CASE /\ job'.breaks = job.breaks /\ job'.anchors = job.anchors
             /\ job'.heads = job.heads /\ job'.todo \subseteq job.todo
    BY <1>0, <2>1, <2>3, <2>4, <2>5, <2>6, <2>9 DEF JobInv
  <2> QED
    BY <2>7, <2>8, <2>9
<1>15. CASE UNCHANGED auditvars
  BY <1>1, <1>15 DEF auditvars
<1>16. ASSUME NEW e \in Entries, enqueue(e) PROVE JobInv'
  BY <1>1, <1>16 DEF enqueue
<1> QED
  BY <1>3, <1>4, <1>5, <1>7, <1>8, <1>9, <1>10, <1>11, <1>12, <1>13, <1>14, <1>15, <1>16
     DEF AuditNext, Procs

\* What AccountInv says of one goroutine.
AccountOK(p) ==
    proc[p].at \in {"write", "chain"} /\ ~proc[p].failed =>
        \A e \in ToSet(proc[p].batch) : e \in Recorded \/ GroupName(e) \in proc[p].todo

\* The entries that are neither in the log nor on their way.
Lost == made \ (Recorded \cup Pending)

\* What is in the log stays there.
LEMMA RecordedGrows ==
    ASSUME AuditIInv, [AuditNext]_auditvars
    PROVE  Recorded \subseteq Recorded'
<1>1. loose \subseteq loose'
  BY ZenonT(60) DEF AuditNext, auditvars, bufferVars, chainVars, jobVars, enqueue, Try, Close, Collect, Flush,
     WriteChained, ChainFails, Written, LockHead, WriteLoose, VerifyHeads, Choose, Ship, ShipFails,
     JobDies, Walk, HeadHash, Advance
<1>2. \A w \in Workspaces : rows[w] \subseteq rows'[w]
  <2>1. rows = [w \in Workspaces |-> rows[w]]
    BY DEF AuditIInv, ChainInv
  <2>2. ASSUME NEW p \in Procs, WriteChained(p) PROVE \A w \in Workspaces : rows[w] \subseteq rows'[w]
    <3>1. PICK new : rows' = [rows EXCEPT ![proc[p].in] = @ \cup new]
      BY <2>2 DEF WriteChained
    <3> QED
      BY <2>1, <3>1
  <2> QED
    BY <2>2, OnlyWriteChained
<1>3. ASSUME NEW w \in Workspaces PROVE {r.entry : r \in rows[w]} \subseteq {r.entry : r \in rows'[w]}
  BY <1>2
<1> QED
  BY <1>1, <1>3 DEF Recorded

\* An entry of a group that is still to be written is named by what is to do.
LEMMA GroupNamed ==
    ASSUME NEW batch \in Seq(Entries), NEW e \in ToSet(batch)
    PROVE  GroupName(e) \in Groups(batch) /\ e \in Entries
BY DEF GroupName, Groups, ToSet

\* Nothing is lost when nothing leaves what is recorded or on its way.
LEMMA LostKept ==
    ASSUME AccountInv, dropped \in Nat, failures \in Nat,
           dropped' = dropped, failures' = failures, Lost' \subseteq Lost
    PROVE  NothingLostSilently'
<1>1. IsFiniteSet(Lost)
  BY FS_Difference DEF AccountInv, Lost
<1>2. IsFiniteSet(Lost') /\ Cardinality(Lost') <= Cardinality(Lost)
  BY <1>1, FS_Subset
<1>3. Cardinality(Lost') \in Nat /\ Cardinality(Lost) \in Nat
  BY <1>1, <1>2, FS_CardinalityType
<1>4. Cardinality(Lost) <= dropped + failures
  BY DEF AccountInv, NothingLostSilently, Lost
<1>5. Cardinality(Lost') <= dropped' + failures'
  BY <1>2, <1>3, <1>4
<1> QED
  BY <1>5 DEF NothingLostSilently, Lost

\* The number of entries in a batch is at most its length.
LEMMA BatchBound ==
    ASSUME NEW batch \in Seq(Entries)
    PROVE  IsFiniteSet(ToSet(batch)) /\ Cardinality(ToSet(batch)) <= Len(batch)
<1>1. batch \in [1..Len(batch) -> ToSet(batch)] /\ Len(batch) \in Nat /\ DOMAIN batch = 1..Len(batch)
  BY DEF ToSet
<1>2. \A e \in ToSet(batch) : \E i \in 1..Len(batch) : batch[i] = e
  BY <1>1 DEF ToSet
<1>3. batch \in Surjection(1..Len(batch), ToSet(batch))
  BY <1>1, <1>2 DEF Surjection
<1>4. IsFiniteSet(1..Len(batch)) /\ Cardinality(1..Len(batch)) = Len(batch)
  <2> DEFINE k == Len(batch)
  <2>1. k \in Nat
    OBVIOUS
  <2> HIDE DEF k
  <2>2. IsFiniteSet(1..k) /\ Cardinality(1..k) = k
    BY <2>1, FS_Interval
  <2> QED
    BY <2>2 DEF k
<1> QED
  BY <1>3, <1>4, FS_Surjection

\* A step of one goroutine.
LEMMA AccountMove ==
    ASSUME AuditIInv, [AuditNext]_auditvars, NEW p \in Procs, NEW x,
           proc' = [proc EXCEPT ![p] = x], AccountOK(p)'
    PROVE  \A q \in Procs : AccountOK(q)'
<1> SUFFICES ASSUME NEW q \in Procs, q # p PROVE AccountOK(q)'
  OBVIOUS
<1>1. proc'[q] = proc[q]
  BY DEF AuditIInv, ShapeInv
<1>2. AccountOK(q) /\ Recorded \subseteq Recorded'
  BY RecordedGrows DEF AuditIInv, AccountInv, AccountOK
<1> QED
  BY <1>1, <1>2 DEF AccountOK

\* The same for what is on its way.
LEMMA PendingKept ==
    ASSUME AuditIInv, NEW p \in Procs, NEW x, proc' = [proc EXCEPT ![p] = x], queue' = queue,
           ToSet(proc[p].batch) \subseteq ToSet(x.batch)
    PROVE  Pending \subseteq Pending'
<1>1. proc \in [Procs -> ProcType]
  BY DEF AuditIInv, ShapeInv
<1>2. ASSUME NEW q \in Procs PROVE ToSet(proc[q].batch) \subseteq ToSet(proc'[q].batch)
  BY <1>1
<1> QED
  BY <1>2 DEF Pending

\* Every step accounts for every entry.
LEMMA AccountStep ==
    ASSUME AuditIInv, [AuditNext]_auditvars
    PROVE  AccountInv'
<1> USE AuditAssumption DEF bufferVars, chainVars, jobVars
<1>0. /\ ShapeInv /\ AccountInv /\ dropped \in Nat /\ failures \in Nat
      /\ proc \in [Procs -> ProcType] /\ IsFiniteSet(made) /\ queue \in Seq(Entries)
  BY DEF AuditIInv, ShapeInv, AccountInv
<1>1. Recorded \subseteq Recorded'
  BY RecordedGrows
<1>2. \A q \in Procs : AccountOK(q)
  BY <1>0 DEF AccountInv, AccountOK
<1>3. ASSUME made' = made, dropped' = dropped, failures' = failures,
             Pending \subseteq Pending', \A q \in Procs : AccountOK(q)'
      PROVE  AccountInv'
  <2>1. Lost' \subseteq Lost
    BY <1>1, <1>3 DEF Lost
  <2>2. NothingLostSilently'
    BY <1>0, <1>3, <2>1, LostKept
  <2> QED
    BY <1>0, <1>3, <2>2 DEF AccountInv, AccountOK
<1>4. ASSUME proc' = proc PROVE \A q \in Procs : AccountOK(q)'
  BY <1>1, <1>2, <1>4 DEF AccountOK
<1>5. ASSUME NEW e \in Entries, enqueue(e) PROVE AccountInv'
  <2>1. /\ made' = made \cup {e} /\ proc' = proc /\ failures' = failures
        /\ \/ queue' = Append(queue, e) /\ dropped' = dropped
           \/ queue' = queue /\ dropped' = dropped + 1
    BY <1>5 DEF enqueue
  <2>2. IsFiniteSet(made')
    BY <1>0, <2>1, FS_AddElement
  <2>3. CASE queue' = Append(queue, e) /\ dropped' = dropped
    <3>1. /\ DOMAIN queue \subseteq DOMAIN queue' /\ \A i \in DOMAIN queue : queue'[i] = queue[i]
          /\ Len(queue) + 1 \in DOMAIN queue' /\ queue'[Len(queue) + 1] = e
      BY <1>0, <2>3
    <3>2. ToSet(queue) \cup {e} \subseteq ToSet(queue')
      BY <3>1 DEF ToSet
    <3>3. Pending \cup {e} \subseteq Pending'
      BY <2>1, <3>2 DEF Pending
    <3>4. Lost' \subseteq Lost
      BY <1>1, <2>1, <3>3 DEF Lost
    <3>5. NothingLostSilently'
      BY <1>0, <2>1, <2>3, <3>4, LostKept
    <3> QED
      BY <1>4, <2>1, <2>2, <3>5 DEF AccountInv, AccountOK
  <2>4. CASE queue' = queue /\ dropped' = dropped + 1
    <3>1. Pending' = Pending
      BY <2>1, <2>4 DEF Pending
    <3>2. Lost' \subseteq Lost \cup {e}
      BY <1>1, <2>1, <3>1 DEF Lost
    <3>3. IsFiniteSet(Lost)
      BY <1>0, FS_Difference DEF Lost
    <3>4. IsFiniteSet(Lost \cup {e}) /\ Cardinality(Lost \cup {e}) <= Cardinality(Lost) + 1
      <4>1. Cardinality(Lost) \in Nat
        BY <3>3, FS_CardinalityType
      <4>2. /\ IsFiniteSet(Lost \cup {e})
            /\ Cardinality(Lost \cup {e}) = IF e \in Lost THEN Cardinality(Lost) ELSE Cardinality(Lost) + 1
        BY <3>3, FS_AddElement
      <4> QED
        BY <4>1, <4>2
    <3>5. IsFiniteSet(Lost') /\ Cardinality(Lost') <= Cardinality(Lost \cup {e})
      BY <3>2, <3>4, FS_Subset
    <3>6. /\ Cardinality(Lost) \in Nat /\ Cardinality(Lost') \in Nat
          /\ Cardinality(Lost \cup {e}) \in Nat
      BY <3>3, <3>4, <3>5, FS_CardinalityType
    <3>7. Cardinality(Lost) <= dropped + failures
      BY <1>0 DEF AccountInv, NothingLostSilently, Lost
    <3>8. Cardinality(Lost') <= dropped' + failures'
      BY <1>0, <2>1, <2>4, <3>4, <3>5, <3>6, <3>7
    <3>9. NothingLostSilently'
      BY <3>8 DEF NothingLostSilently, Lost
    <3> QED
      BY <1>4, <2>1, <2>2, <3>9 DEF AccountInv, AccountOK
  <2> QED
    BY <2>1, <2>3, <2>4
<1>6. ASSUME NEW e \in Entries, NEW p \in AuditRequests, Try(p, e) PROVE AccountInv'
  <2> DEFINE b == <<e>>
             x == Writing(p, b)
  <2>1. p \in Procs /\ b \in Seq(Entries) /\ e \in ToSet(b)
    BY DEF Procs, ToSet
  <2>2. /\ made' = made \cup {e} /\ proc' = [proc EXCEPT ![p] = x] /\ queue' = queue
        /\ dropped' = dropped /\ failures' = failures /\ proc[p].at = "idle"
    BY <1>6 DEF Try, ProcAt
  <2> HIDE DEF b
  <2>3. x.batch = b /\ x.todo = Groups(b)
    BY <1>0, <2>1, ProcFields
  <2> HIDE DEF x
  <2>4. proc'[p] = x
    BY <1>0, <2>1, <2>2
  <2>5. AccountOK(p)'
    BY <2>1, <2>3, <2>4, GroupNamed DEF AccountOK
  <2>6. \A q \in Procs : AccountOK(q)'
    BY <2>1, <2>2, <2>5, AccountMove
  <2>7. IsFiniteSet(made')
    BY <1>0, <2>2, FS_AddElement
  <2>8. Pending \cup {e} \subseteq Pending'
    <3>1. ToSet(proc[p].batch) = {}
      <4>1. proc[p].batch \in Seq(Entries) /\ Len(proc[p].batch) = 0
        BY <1>0, <2>1, <2>2 DEF AuditIInv, WriterInv, ProcType
      <4> QED
        BY <4>1 DEF ToSet
    <3>2. Pending \subseteq Pending'
      BY <2>1, <2>2, <3>1, PendingKept
    <3>3. e \in Pending'
      BY <2>1, <2>3, <2>4 DEF Pending
    <3> QED
      BY <3>2, <3>3
  <2>9. Lost' \subseteq Lost
    BY <1>1, <2>2, <2>8 DEF Lost
  <2>10. NothingLostSilently'
    BY <1>0, <2>2, <2>9, LostKept
  <2> QED
    BY <2>6, <2>7, <2>10 DEF AccountInv, AccountOK
<1>7. ASSUME NEW p \in BufferWorkers, Collect(p) PROVE AccountInv'
  <2> DEFINE b == Append(proc[p].batch, Head(queue))
             x == IF Len(b) >= BatchSize THEN Writing(p, b) ELSE [proc[p] EXCEPT !.batch = b]
  <2>1. /\ p \in Procs /\ proc[p] \in ProcType /\ proc[p].batch \in Seq(Entries)
        /\ proc[p].at = "collect" /\ queue # <<>> /\ queue' = Tail(queue)
        /\ made' = made /\ dropped' = dropped /\ failures' = failures
    BY <1>0, <1>7 DEF Procs, ProcType, Collect, ProcAt
  <2>2. proc' = [proc EXCEPT ![p] = x]
    BY <1>0, <1>7, <2>1 DEF Collect
  <2>3. Head(queue) \in Entries /\ b \in Seq(Entries)
    BY <1>0, <2>1
  <2>4. ToSet(proc[p].batch) \cup {Head(queue)} \subseteq ToSet(b)
    <3>1. /\ DOMAIN proc[p].batch \subseteq DOMAIN b
          /\ \A i \in DOMAIN proc[p].batch : b[i] = proc[p].batch[i]
          /\ Len(proc[p].batch) + 1 \in DOMAIN b /\ b[Len(proc[p].batch) + 1] = Head(queue)
      BY <2>1, <2>3
    <3> HIDE DEF b
    <3> QED
      BY <3>1 DEF ToSet
  <2>5. ToSet(queue) \subseteq {Head(queue)} \cup ToSet(queue')
    <3> SUFFICES ASSUME NEW i \in 1..Len(queue), queue[i] # Head(queue)
                 PROVE  \E j \in DOMAIN queue' : queue'[j] = queue[i]
      BY <1>0 DEF ToSet
    <3>1. i # 1
      BY <1>0, <2>1
    <3>2. i - 1 \in DOMAIN queue' /\ queue'[i - 1] = queue[i]
      BY <1>0, <2>1, <3>1
    <3> QED
      BY <3>2
  <2> HIDE DEF b
  <2>6. x.batch = b /\ (x.at \in {"write", "chain"} => x.todo = Groups(b))
    <3>1. CASE Len(b) >= BatchSize
      BY <1>0, <2>1, <2>3, <3>1, ProcFields
    <3>2. CASE ~(Len(b) >= BatchSize)
      BY <2>1, <3>2 DEF ProcType
    <3> QED
      BY <3>1, <3>2
  <2> HIDE DEF x
  <2>7. proc'[p] = x /\ \A q \in Procs \ {p} : proc'[q] = proc[q]
    BY <1>0, <2>1, <2>2
  <2>8. Pending \subseteq Pending'
    <3>1. ASSUME NEW q \in Procs PROVE ToSet(proc[q].batch) \subseteq ToSet(proc'[q].batch)
      BY <2>4, <2>6, <2>7
    <3>2. ToSet(queue) \subseteq ToSet(queue') \cup ToSet(proc'[p].batch)
      BY <2>4, <2>5, <2>6, <2>7
    <3> QED
      BY <2>1, <3>1, <3>2, SMTT(60) DEF Pending
  <2>9. AccountOK(p)'
    BY <2>3, <2>6, <2>7, GroupNamed DEF AccountOK
  <2>10. \A q \in Procs : AccountOK(q)'
    BY <2>1, <2>2, <2>9, AccountMove
  <2> QED
    BY <1>3, <2>1, <2>8, <2>10
<1>8. ASSUME NEW p \in Procs, NEW x, proc' = [proc EXCEPT ![p] = x], queue' = queue,
             made' = made, dropped' = dropped, failures' = failures,
             x.batch = proc[p].batch, AccountOK(p)'
      PROVE  AccountInv'
  <2>1. Pending \subseteq Pending'
    BY <1>8, PendingKept
  <2>2. \A q \in Procs : AccountOK(q)'
    BY <1>8, AccountMove
  <2> QED
    BY <1>3, <1>8, <2>1, <2>2
<1>9. ASSUME NEW p \in BufferWorkers, Flush(p) PROVE AccountInv'
  <2>1. /\ p \in Procs /\ proc[p] \in ProcType /\ proc[p].batch \in Seq(Entries) /\ queue' = queue
        /\ made' = made /\ dropped' = dropped /\ failures' = failures
    BY <1>0, <1>9 DEF Procs, ProcType, Flush
  <2>2. ASSUME proc' = [proc EXCEPT ![p] = Writing(p, proc[p].batch)] PROVE AccountInv'
    <3> DEFINE x == Writing(p, proc[p].batch)
    <3>1. x.batch = proc[p].batch /\ x.todo = Groups(proc[p].batch)
      BY <1>0, <2>1, ProcFields
    <3>2. proc' = [proc EXCEPT ![p] = x]
      BY <2>2
    <3> HIDE DEF x
    <3>3. proc'[p] = x
      BY <1>0, <2>1, <3>2
    <3>4. AccountOK(p)'
      BY <2>1, <3>1, <3>3, GroupNamed DEF AccountOK
    <3> QED
      BY <1>8, <2>1, <3>1, <3>2, <3>4
  <2>3. ASSUME proc' = [proc EXCEPT ![p].at = "done"] PROVE AccountInv'
    <3> DEFINE x == [proc[p] EXCEPT !.at = "done"]
    <3>1. x.at = "done" /\ x.batch = proc[p].batch
      BY <2>1 DEF ProcType
    <3>2. proc' = [proc EXCEPT ![p] = x]
      BY <1>0, <2>1, <2>3
    <3> HIDE DEF x
    <3>3. AccountOK(p)'
      BY <1>0, <2>1, <3>1, <3>2 DEF AccountOK
    <3> QED
      BY <1>8, <2>1, <3>1, <3>2, <3>3
  <2> QED
    BY <1>9, <2>1, <2>2, <2>3 DEF Flush
<1>10. ASSUME NEW p \in Procs, WriteChained(p) PROVE AccountInv'
  <2> DEFINE w == proc[p].in
  <2>1. w \in Workspaces /\ proc[p].batch \in Seq(Entries) /\ proc[p].at = "chain"
    BY <1>0, <1>10, WriteChainedFacts DEF ProcType
  <2>2. PICK ok \in BOOLEAN : proc' = [proc EXCEPT ![p] = WrittenGroup(p, w, ok)]
    BY <1>10, WriteChainedFacts
  <2>3. PICK group \in Seq(Entries) :
           /\ \A e \in ToSet(proc[p].batch) : Home[e] = w => e \in ToSet(group)
           /\ rows' = [rows EXCEPT ![w] = @ \cup NewRows(head[w].hash, group)]
    BY <1>10, WriteChainedFacts
  <2>4. ToSet(group) \subseteq Recorded'
    <3> SUFFICES ASSUME NEW n \in 1..Len(group) PROVE group[n] \in Recorded'
      BY DEF ToSet
    <3>1. PICK r \in rows'[w] : r.entry = group[n]
      <4>1. rows = [v \in Workspaces |-> rows[v]]
        BY DEF AuditIInv, ChainInv
      <4>2. NewRow(head[w].hash, group, n) \in rows'[w]
        BY <2>1, <2>3, <4>1 DEF NewRows
      <4>3. NewRow(head[w].hash, group, n).entry = group[n]
        BY DEF NewRow
      <4> QED
        BY <4>2, <4>3
    <3> QED
      BY <2>1, <3>1 DEF Recorded
  <2> DEFINE x == WrittenGroup(p, w, ok)
  <2>5. /\ x.batch = proc[p].batch /\ x.todo = proc[p].todo \ {w}
        /\ ~x.failed => ~proc[p].failed
    BY <1>0, ProcFields
  <2>6. proc' = [proc EXCEPT ![p] = x]
    BY <2>2
  <2> HIDE DEF x
  <2>7. proc'[p] = x
    BY <1>0, <2>6
  <2>8. AccountOK(p)'
    <3> SUFFICES ASSUME ~x.failed, NEW e \in ToSet(proc[p].batch), GroupName(e) \notin x.todo
                 PROVE  e \in Recorded'
      BY <2>5, <2>7 DEF AccountOK
    <3>1. e \in Recorded \/ GroupName(e) \in proc[p].todo
      BY <1>2, <2>1, <2>5 DEF AccountOK
    <3>2. CASE GroupName(e) = w
      <4>1. Home[e] = w
        BY <2>1, <3>2, GroupNamed DEF GroupName
      <4> QED
        BY <2>3, <2>4, <4>1
    <3> QED
      BY <1>1, <2>5, <3>1, <3>2
  <2> QED
    BY <1>8, <1>10, <2>5, <2>6, <2>8 DEF WriteChained
<1>11. ASSUME NEW p \in Procs, ChainFails(p) PROVE AccountInv'
  <2>0. PICK ok \in BOOLEAN : ~ok /\ proc' = [proc EXCEPT ![p] = WrittenGroup(p, proc[p].in, ok)]
    BY <1>11 DEF ChainFails
  <2> DEFINE x == WrittenGroup(p, proc[p].in, ok)
  <2>1. x.batch = proc[p].batch /\ (~x.failed => ~proc[p].failed /\ ok)
    BY <1>0, ProcFields
  <2>2. proc' = [proc EXCEPT ![p] = x]
    BY <2>0
  <2> HIDE DEF x
  <2>3. AccountOK(p)'
    BY <1>0, <2>0, <2>1, <2>2 DEF AccountOK
  <2> QED
    BY <1>8, <1>11, <2>1, <2>2, <2>3 DEF ChainFails
<1>12. ASSUME NEW p \in Procs, NEW e \in Entries, WriteLoose(p, e) PROVE AccountInv'
  <2>1. proc[p].batch \in Seq(Entries) /\ proc[p].at = "write"
    BY <1>0, <1>12 DEF ProcType, WriteLoose, ProcAt
  <2>2. PICK ok \in BOOLEAN : proc' = [proc EXCEPT ![p] = WrittenGroup(p, e, ok)] /\ (ok => e \in loose')
    BY <1>12 DEF WriteLoose
  <2> DEFINE x == WrittenGroup(p, e, ok)
  <2>3. /\ x.batch = proc[p].batch /\ x.todo = proc[p].todo \ {e}
        /\ ~x.failed => ~proc[p].failed /\ ok
    BY <1>0, ProcFields
  <2>4. proc' = [proc EXCEPT ![p] = x]
    BY <2>2
  <2> HIDE DEF x
  <2>5. proc'[p] = x
    BY <1>0, <2>4
  <2>6. AccountOK(p)'
    <3> SUFFICES ASSUME ~x.failed, NEW f \in ToSet(proc[p].batch), GroupName(f) \notin x.todo
                 PROVE  f \in Recorded'
      BY <2>3, <2>5 DEF AccountOK
    <3>1. f \in Recorded \/ GroupName(f) \in proc[p].todo
      BY <1>2, <2>1, <2>3 DEF AccountOK
    <3>2. CASE GroupName(f) = e
      <4>1. f = e
        BY <2>1, <3>2, GroupNamed DEF GroupName
      <4> QED
        BY <2>2, <2>3, <4>1 DEF Recorded
    <3> QED
      BY <1>1, <2>3, <3>1, <3>2
  <2> QED
    BY <1>8, <1>12, <2>3, <2>4, <2>6 DEF WriteLoose
<1>13. ASSUME NEW p \in Procs, NEW w \in Workspaces, LockHead(p, w) PROVE AccountInv'
  <2> DEFINE x == [proc[p] EXCEPT !.at = "chain", !.in = w, !.prev = head[w].hash]
  <2>1. x.batch = proc[p].batch /\ x.todo = proc[p].todo /\ (~x.failed => ~proc[p].failed)
    BY <1>0 DEF ProcType
  <2>2. proc' = [proc EXCEPT ![p] = x]
    BY <1>0, <1>13 DEF LockHead
  <2>3. proc[p].at = "write"
    BY <1>13 DEF LockHead, ProcAt
  <2> HIDE DEF x
  <2>4. AccountOK(p)'
    BY <1>0, <1>1, <1>2, <2>1, <2>2, <2>3 DEF AccountOK
  <2> QED
    BY <1>8, <1>13, <2>1, <2>2, <2>4 DEF LockHead
<1>14. ASSUME NEW p \in Procs, Written(p) PROVE AccountInv'
  <2> DEFINE B == ToSet(proc[p].batch)
             x == IdleProc(p)
  <2>1. /\ proc[p].at = "write" /\ proc[p].todo = {} /\ proc[p].batch \in Seq(Entries)
        /\ proc' = [proc EXCEPT ![p] = x] /\ queue' = queue /\ made' = made /\ dropped' = dropped
        /\ failures' = failures + (IF proc[p].failed THEN Len(proc[p].batch) ELSE 0)
    BY <1>0, <1>14 DEF Written, ProcAt, ProcType
  <2>2. x.at \in {"idle", "collect"}
    BY <1>0, ProcFields
  <2> HIDE DEF x
  <2>3. proc'[p] = x /\ \A q \in Procs \ {p} : proc'[q] = proc[q]
    BY <1>0, <2>1
  <2>4. \A q \in Procs : AccountOK(q)'
    <3>1. AccountOK(p)'
      BY <2>2, <2>3 DEF AccountOK
    <3> QED
      BY <2>1, <3>1, AccountMove
  <2>5. Pending \subseteq Pending' \cup B
    BY <2>1, <2>3 DEF Pending
  <2>6. CASE proc[p].failed
    <3>1. Lost' \subseteq Lost \cup B
      BY <1>1, <2>1, <2>5 DEF Lost
    <3>2. IsFiniteSet(Lost) /\ IsFiniteSet(B) /\ Cardinality(B) <= Len(proc[p].batch)
      BY <1>0, <2>1, FS_Difference, BatchBound DEF Lost
    <3> HIDE DEF B
    <3>3. /\ IsFiniteSet(Lost \cup B) /\ IsFiniteSet(Lost \cap B)
          /\ Cardinality(Lost \cup B) = Cardinality(Lost) + Cardinality(B) - Cardinality(Lost \cap B)
      BY <3>2, FS_Union, FS_Intersection
    <3>4. IsFiniteSet(Lost') /\ Cardinality(Lost') <= Cardinality(Lost \cup B)
      BY <3>1, <3>3, FS_Subset
    <3>5. /\ Cardinality(Lost) \in Nat /\ Cardinality(Lost') \in Nat /\ Cardinality(B) \in Nat
          /\ Cardinality(Lost \cup B) \in Nat /\ Cardinality(Lost \cap B) \in Nat
          /\ Len(proc[p].batch) \in Nat
      BY <2>1, <3>2, <3>3, <3>4, FS_CardinalityType
    <3>6. Cardinality(Lost) <= dropped + failures
      BY <1>0 DEF AccountInv, NothingLostSilently, Lost
    <3>7. dropped' = dropped /\ failures' = failures + Len(proc[p].batch)
      BY <2>1, <2>6
    <3>8. Cardinality(Lost') <= dropped' + failures'
      BY <1>0, <3>2, <3>3, <3>4, <3>5, <3>6, <3>7
    <3>9. NothingLostSilently'
      BY <3>8 DEF NothingLostSilently, Lost
    <3> QED
      BY <1>0, <2>1, <2>4, <3>9 DEF AccountInv, AccountOK
  <2>7. CASE ~proc[p].failed
    <3>1. B \subseteq Recorded
      BY <1>2, <2>1, <2>7 DEF AccountOK
    <3>2. Lost' \subseteq Lost
      BY <1>1, <2>1, <2>5, <3>1 DEF Lost
    <3>3. failures' = failures
      BY <1>0, <2>1, <2>7
    <3>4. NothingLostSilently'
      BY <1>0, <2>1, <3>2, <3>3, LostKept
    <3> QED
      BY <1>0, <2>1, <2>4, <3>4 DEF AccountInv, AccountOK
  <2> QED
    BY <2>6, <2>7
<1>15. ASSUME \/ Close \/ VerifyHeads \/ Choose \/ Ship \/ ShipFails \/ JobDies
              \/ \E w \in Workspaces : Walk(w) \/ HeadHash(w) \/ Advance(w)
              \/ UNCHANGED auditvars
       PROVE  AccountInv'
  <2>1. /\ proc' = proc /\ queue' = queue /\ made' = made
        /\ dropped' = dropped /\ failures' = failures
    BY <1>15, ZenonT(60) DEF Close, VerifyHeads, Choose, Ship, ShipFails, JobDies, Walk, HeadHash, Advance, auditvars
  <2>2. Pending' = Pending
    BY <2>1 DEF Pending
  <2> QED
    BY <1>3, <1>4, <2>1, <2>2
<1> QED
  BY <1>5, <1>6, <1>7, <1>9, <1>10, <1>11, <1>12, <1>13, <1>14, <1>15 DEF AuditNext

-----------------------------------------------------------------------------
(* The theorems.                                                           *)

\* The empty log satisfies the invariant.
LEMMA AuditInitInv == AuditInit => AuditIInv
<1> USE AuditAssumption
<1> SUFFICES ASSUME AuditInit PROVE AuditIInv
  OBVIOUS
<1>1. ShapeInv
  <2>1. \A p \in Procs : IdleProc(p) \in ProcType
    BY DEF IdleProc, ProcType
  <2>2. proc \in [Procs -> ProcType] /\ job \in JobType
    BY <2>1, JobTypes DEF AuditInit
  <2>3. closed \in BOOLEAN
    BY DEF AuditInit
  <2>4. head \in [Workspaces -> [hash : Seq(Entries), anchored : Nat]]
    <3>1. <<>> \in Seq(Entries)
      OBVIOUS
    <3> QED
      BY <3>1 DEF AuditInit
  <2>5. /\ made \subseteq Entries /\ queue \in Seq(Entries) /\ Len(queue) <= QueueSize
        /\ dropped \in Nat /\ failures \in Nat
        /\ loose \subseteq Entries /\ runs \in 0..MaxRuns /\ shipped \subseteq AnchorType
    BY DEF AuditInit
  <2>6. lock \in [Workspaces -> Procs \cup {"free"}]
    BY DEF AuditInit
  <2> QED
    BY <2>2, <2>3, <2>4, <2>5, <2>6 DEF ShapeInv
<1>2. \A p \in Procs : /\ proc[p].at \in {"idle", "collect"} /\ proc[p].batch = <<>> /\ proc[p].todo = {}
  BY DEF AuditInit, IdleProc
<1>3. WriterInv
  <2> SUFFICES ASSUME NEW p \in Procs PROVE WriterOK(p)
    BY DEF WriterInv, WriterOK
  <2>1. Len(proc[p].batch) = 0
    BY <1>2
  <2>2. \A w \in Workspaces : lock[w] # p
    BY DEF AuditInit, Procs
  <2> QED
    BY <1>2, <2>1, <2>2 DEF WriterOK
<1>4. \A w \in Workspaces : head[w].hash = <<>> /\ head[w].anchored = 0
  BY DEF AuditInit
<1>5. ChainInv
  <2>1. \A w \in Workspaces : Len(head[w].hash) = 0
    BY <1>4
  <2>2. \A w \in Workspaces : ChainOf(head[w].hash) = {}
    BY <2>1 DEF ChainOf
  <2> QED
    BY <2>2 DEF AuditInit, ChainInv
<1>6. JobInv
  <2>1. \A w \in Workspaces : Len(head[w].hash) = 0
    BY <1>4
  <2>2. /\ job.breaks = {} /\ job.anchors = {} /\ job.at = "idle" /\ shipped = {}
        /\ \A w \in Workspaces : job.heads[w].seq = 0
    BY DEF AuditInit, NoJob
  <2> QED
    BY <1>4, <2>1, <2>2 DEF JobInv
<1>7. AccountInv
  <2>1. made = {} /\ dropped = 0 /\ failures = 0
    BY DEF AuditInit
  <2>2. NothingLostSilently
    BY <2>1, FS_EmptySet DEF NothingLostSilently
  <2> QED
    BY <1>2, <2>1, <2>2, FS_EmptySet DEF AccountInv
<1> QED
  BY <1>1, <1>3, <1>5, <1>6, <1>7 DEF AuditIInv

\* The invariant holds in every reachable state.
LEMMA AuditInductive == AuditSpec => []AuditIInv
<1>1. AuditIInv /\ [AuditNext]_auditvars => AuditIInv'
  BY ShapeStep, WriterStep, ChainStep, JobStep, AccountStep DEF AuditIInv
<1> QED
  BY AuditInitInv, <1>1, PTL DEF AuditSpec

\* Concurrent writers of a workspace, transactions that roll back and answers
\* that get lost leave its chain whole (writeChained), and the verify job, which
\* reads the head and the rows at different moments, reports no break of it.
THEOREM ChainAlwaysSound == AuditSpec => []ChainSound
<1>1. ASSUME AuditIInv PROVE AuditTypeOK
  <2>1. \A p \in Procs : proc[p] \in ProcType
    BY <1>1 DEF AuditIInv, ShapeInv
  <2>2. \A p \in Procs :
          /\ proc[p].at \in {"idle", "collect", "write", "chain", "done"}
          /\ proc[p].batch \in Seq(Entries) /\ Len(proc[p].batch) <= BatchSize
          /\ proc[p].todo \subseteq Groups(proc[p].batch)
    BY <1>1, <2>1 DEF AuditIInv, WriterInv, ProcType
  <2>3. \A p \in Procs : \A w \in Workspaces :
          (lock[w] = p) <=> (ProcAt(p, "chain") /\ proc[p].in = w)
    BY <1>1 DEF AuditIInv, WriterInv, ProcAt
  <2>4. \A w \in Workspaces : head[w].hash \in Seq(Entries) /\ head[w].anchored \in 0..Len(head[w].hash)
    BY <1>1 DEF AuditIInv, ShapeInv, JobInv
  <2>5. /\ job.at \in {"idle", "walk", "hash", "ship", "advance"} /\ job.todo \subseteq Workspaces
        /\ DOMAIN head = Workspaces
    BY <1>1 DEF AuditIInv, ShapeInv, JobType
  <2> QED
    BY <1>1, <2>2, <2>3, <2>4, <2>5 DEF AuditIInv, ShapeInv, AuditTypeOK
<1>2. ASSUME AuditIInv PROVE ChainIntact
  <2> SUFFICES ASSUME NEW w \in Workspaces
               PROVE  /\ Cardinality(rows[w]) = Len(head[w].hash)
                      /\ {r.seq : r \in rows[w]} = 1..Len(head[w].hash)
                      /\ \A r \in rows[w] : /\ r.hash = SubSeq(head[w].hash, 1, r.seq)
                                            /\ r.hash = Append(r.prev, r.entry)
    BY DEF ChainIntact
  <2>1. head[w].hash \in Seq(Entries) /\ rows[w] = ChainOf(head[w].hash)
    BY <1>2 DEF AuditIInv, ShapeInv, ChainInv
  <2> QED
    BY <2>1, ChainFacts
<1>3. AuditIInv => NoFalseBreak
  BY DEF AuditIInv, JobInv, NoFalseBreak
<1>4. AuditIInv => ChainSound
  BY <1>1, <1>2, <1>3 DEF ChainSound
<1> QED
  BY AuditInductive, <1>4, PTL

\* Whatever fails on the way, what lies at or below anchored_seq is off the
\* machine in an anchor that agrees with the chain (Anchor), and an entry that
\* is neither in the log nor on its way is in the counters (Buffer, Try).
THEOREM EntriesAlwaysAccounted == AuditSpec => []EntriesAccounted
<1>1. ASSUME AuditIInv PROVE AnchoredIsShipped
  <2> SUFFICES ASSUME NEW w \in Workspaces, head[w].anchored > 0
               PROVE  \E a \in shipped :
                         /\ a.ws = w /\ a.seq = head[w].anchored
                         /\ SubSeq(a.hash, 1, head[w].anchored) = SubSeq(head[w].hash, 1, head[w].anchored)
    BY DEF AnchoredIsShipped
  <2> DEFINE n == head[w].anchored
             h == head[w].hash
  <2>1. PICK a \in shipped : a.ws = w /\ a.seq = n
    BY <1>1 DEF AuditIInv, JobInv
  <2>2. a.hash \in Seq(Entries) /\ h \in Seq(Entries) /\ n \in Nat
    BY <1>1 DEF AuditIInv, ShapeInv, AnchorType
  <2>3. Agree(a.hash, h, n)
    BY <1>1, <2>1 DEF AuditIInv, JobInv
  <2> DEFINE g == a.hash
  <2> HIDE DEF n, h, g
  <2>4. n <= Len(g) /\ n <= Len(h) /\ \A i \in 1..n : g[i] = h[i]
    BY <2>3 DEF Agree, g
  <2>5. g \in Seq(Entries)
    BY <2>2 DEF g
  <2>6. SubSeq(g, 1, n) \in Seq(Entries) /\ Len(SubSeq(g, 1, n)) = n
    BY <2>2, <2>4, <2>5
  <2>7. SubSeq(h, 1, n) \in Seq(Entries) /\ Len(SubSeq(h, 1, n)) = n
    BY <2>2, <2>4
  <2>8. ASSUME NEW i \in 1..n PROVE SubSeq(g, 1, n)[i] = SubSeq(h, 1, n)[i]
    BY <2>2, <2>4, <2>5, <2>6, <2>7
  <2>9. SubSeq(g, 1, n) = SubSeq(h, 1, n)
    BY <2>6, <2>7, <2>8
  <2> QED
    BY <2>1, <2>9 DEF n, h, g
<1>2. AuditIInv => EntriesAccounted
  BY <1>1 DEF AuditIInv, AccountInv, EntriesAccounted
<1> QED
  BY AuditInductive, <1>2, PTL

-----------------------------------------------------------------------------
(* The inbox.                                                              *)

(* The inductive invariant, in parts.                                      *)

Filed(m, u) == <<m, u>> \in events
Wanting(m) == {u \in Audience[m] : prefs[u].inApp}

Callback == [at : {"idle", "insert", "upsert", "announce", "ack"}, m : Msgs \cup {Free.m},
             wanted : SUBSET Users, fresh : SUBSET Users]
Item == [state : ItemStates \cup {"none"}, top : Nat, unread : Nat, count : Nat,
         notified : BOOLEAN, quiet : BOOLEAN]

StreamInv ==
    /\ ienv \in InboxEnvironments /\ prefs \in [Users -> Prefs]
    /\ msg \in [Msgs -> [status : {"new", "queued", "done", "dropped"}, deliveries : 0..MaxDeliver]]
    /\ AckedMeansFiled

\* What a callback knows of the event it holds.  Until its transaction commits,
\* the recipients it found new are nobody else's and not filed; afterwards all the
\* recipients who want the event are.
CallbackInv ==
    /\ work \in [Workers -> Callback]
    /\ \A w \in Workers : /\ work[w].fresh \subseteq work[w].wanted
                          /\ work[w].at # "idle" => work[w].m \in Msgs /\ work[w].wanted = Wanting(work[w].m)
    /\ \A w \in Workers, u \in Users :
          /\ work[w].at = "upsert" /\ u \in work[w].wanted =>
                (Filed(work[w].m, u) <=> u \notin work[w].fresh)
          /\ work[w].at \in {"announce", "ack"} /\ u \in work[w].wanted => Filed(work[w].m, u)
    /\ \A v, w \in Workers, u \in Users :
          work[v].at = "upsert" /\ work[w].at = "upsert" /\ work[v].m = work[w].m
          /\ u \in work[v].fresh /\ u \in work[w].fresh => v = w

\* Whoever has yet to be buzzed is in one callback's hands and was not buzzed.
BuzzInv ==
    /\ pushed \in [Msgs -> [Users -> Nat]]
    /\ BuzzedOnce
    /\ \A w \in Workers, u \in Users :
          work[w].at = "announce" /\ u \in work[w].fresh => pushed[work[w].m][u] = 0
    /\ \A v, w \in Workers, u \in Users :
          work[v].at = "announce" /\ work[w].at = "announce" /\ work[v].m = work[w].m
          /\ u \in work[v].fresh /\ u \in work[w].fresh => v = w

\* The rows: an item that exists has an event behind it, and its counters are those
\* of the events behind it.
ItemInv ==
    /\ events \subseteq Msgs \X Users /\ IsFiniteSet(events)
    /\ items \in [Keys -> Item]
    /\ \A k \in Keys :
          /\ Exists(k) => Behind(k, events) # {}
          /\ items[k].count = Cardinality(Behind(k, events))
          /\ items[k].unread <= items[k].count
          /\ \A e \in Behind(k, events) : items[k].top >= Rank[e[1]]
          /\ items[k].top = 0 \/ \E e \in Behind(k, events) : items[k].top = Rank[e[1]]

\* The reconciler's rows exist.
RecountInv ==
    /\ recount \in [at : {"idle", "lock", "repair"}, seen : SUBSET events,
                    rows : SUBSET Keys, ids : SUBSET Keys]
    /\ recount.ids \subseteq recount.rows
    /\ \A k \in recount.rows : Exists(k)

\* The digest has read every event of the candidates of a user it has yet to
\* serve, and nothing else of that user.
DigestInv ==
    /\ recent \subseteq Users /\ digests \in Nat
    /\ digest \in [at : {"idle", "claim", "send"}, cand : SUBSET Keys, seen : SUBSET events,
                   user : SUBSET Users]
    /\ digest.at = "send" => \E u \in Users : digest.user = {u} /\ \E k \in digest.cand : k[1] = u
    /\ \A e \in digest.seen, k \in digest.cand :
          k[1] = e[2] => <<e[2], SubjectOf[e[1]]>> \in digest.cand
    /\ \A k \in digest.cand :
          digest.at = "send" /\ k[1] \in digest.user /\ ~items[k].notified =>
              \E e \in Behind(k, events) : e \notin digest.seen

\* An item that is mailable again after a mail about it has an event which that
\* mail did not have, and so has whatever a digest under way will send.
MailInv ==
    /\ mails \subseteq [n : Nat, user : Users, about : SUBSET events]
    /\ \A a \in mails, k \in Keys :
          k[1] = a.user /\ Behind(k, a.about) # {} /\ ~items[k].notified =>
              \E e \in Behind(k, events) : e \notin a.about
    /\ \A a \in mails, k \in digest.cand :
          k[1] = a.user => \E e \in digest.seen : e[2] = a.user /\ e \notin a.about
    /\ NoDigestTwice

\* The inductive invariant of the inbox.
InboxIInv ==
    /\ StreamInv /\ CallbackInv /\ BuzzInv /\ ItemInv /\ RecountInv /\ DigestInv /\ MailInv

-----------------------------------------------------------------------------
(* Facts that several steps share.                                         *)

\* An idle callback.
LEMMA FreeFields ==
    /\ Free \in Callback /\ Free.at = "idle" /\ Free.fresh = {} /\ Free.wanted = {}
<1> DEFINE m0 == CHOOSE m \in Msgs : TRUE
<1>1. Free = [at |-> "idle", m |-> m0, wanted |-> {}, fresh |-> {}]
  BY DEF Free
<1>2. Free.m = m0
  BY <1>1
<1> HIDE DEF m0
<1> QED
  BY <1>1, <1>2 DEF Callback

\* One callback moves while nothing is filed.
LEMMA CallbackMoves ==
    ASSUME CallbackInv, NEW w \in Workers, NEW q \in Callback,
           work' = [work EXCEPT ![w] = q], UNCHANGED <<prefs, events>>,
           q.fresh \subseteq q.wanted,
           q.at # "idle" => q.m \in Msgs /\ q.wanted = Wanting(q.m),
           q.at = "upsert" =>
               /\ \A u \in q.wanted : Filed(q.m, u) <=> u \notin q.fresh
               /\ \A v \in Workers \ {w} : work[v].at = "upsert" /\ work[v].m = q.m =>
                     work[v].fresh \cap q.fresh = {},
           q.at \in {"announce", "ack"} => \A u \in q.wanted : Filed(q.m, u)
    PROVE  /\ CallbackInv' /\ work'[w] = q
           /\ \A v \in Workers : v # w => work'[v] = work[v]
<1>1. /\ work' \in [Workers -> Callback] /\ work'[w] = q
      /\ \A v \in Workers : v # w => work'[v] = work[v]
  BY DEF CallbackInv
<1>2. \A v \in Workers : work'[v].fresh \subseteq work'[v].wanted
  BY <1>1 DEF CallbackInv
<1>3. \A v \in Workers : work'[v].at # "idle" =>
          work'[v].m \in Msgs /\ work'[v].wanted = Wanting(work'[v].m)
  BY <1>1 DEF CallbackInv
<1>4. ASSUME NEW v \in Workers, NEW u \in Users
      PROVE  /\ work'[v].at = "upsert" /\ u \in work'[v].wanted =>
                  (Filed(work'[v].m, u) <=> u \notin work'[v].fresh)
             /\ work'[v].at \in {"announce", "ack"} /\ u \in work'[v].wanted => Filed(work'[v].m, u)
  BY <1>1 DEF CallbackInv
<1>5. ASSUME NEW v \in Workers, NEW x \in Workers, NEW u \in Users,
             work'[v].at = "upsert", work'[x].at = "upsert", work'[v].m = work'[x].m,
             u \in work'[v].fresh, u \in work'[x].fresh
      PROVE  v = x
  BY <1>1, <1>5 DEF CallbackInv
<1>6. CallbackInv'
  BY <1>1, <1>2, <1>3, <1>4, <1>5 DEF CallbackInv, Filed, Wanting
<1> QED
  BY <1>1, <1>6

\* A callback that does not come to "announce" leaves the buzzing alone.
LEMMA BuzzKept ==
    ASSUME BuzzInv, NEW w \in Workers, UNCHANGED pushed, events \subseteq events',
           work'[w].at # "announce",
           \A v \in Workers : v # w => work'[v] = work[v]
    PROVE  BuzzInv'
<1>1. BuzzedOnce'
  BY DEF BuzzInv, BuzzedOnce
<1>2. \A v \in Workers, u \in Users :
          work'[v].at = "announce" /\ u \in work'[v].fresh => pushed[work'[v].m][u] = 0
  BY DEF BuzzInv
<1>3. ASSUME NEW v \in Workers, NEW x \in Workers, NEW u \in Users,
          work'[v].at = "announce", work'[x].at = "announce", work'[v].m = work'[x].m,
          u \in work'[v].fresh, u \in work'[x].fresh
      PROVE v = x
  <2>1. v # w /\ x # w
    BY <1>3
  <2>2. work'[v] = work[v] /\ work'[x] = work[x]
    BY <2>1
  <2> QED
    BY <1>3, <2>2 DEF BuzzInv
<1> QED
  BY <1>1, <1>2, <1>3 DEF BuzzInv

\* Nothing is filed, counted, mailed or recounted.
LEMMA RowsKept ==
    ASSUME ItemInv, RecountInv, DigestInv, MailInv,
           UNCHANGED <<events, items, digestVars, recountVars>>
    PROVE  ItemInv' /\ RecountInv' /\ DigestInv' /\ MailInv'
<1> USE DEF digestVars, recountVars
<1>1. ItemInv'
  BY DEF ItemInv, Exists, Behind
<1>2. RecountInv'
  BY DEF RecountInv, Exists
<1>3. DigestInv'
  BY DEF DigestInv, Behind
<1>4. MailInv'
  BY DEF MailInv, Behind, NoDigestTwice
<1> QED
  BY <1>1, <1>2, <1>3, <1>4

\* Nothing is fetched, filed or announced.
LEMMA FanOutKept ==
    ASSUME StreamInv, CallbackInv, BuzzInv, UNCHANGED <<ienv, prefs, msg, work, events, pushed>>
    PROVE  StreamInv' /\ CallbackInv' /\ BuzzInv'
<1>1. StreamInv'
  BY DEF StreamInv, Prefs, MaxDeliver, AckedMeansFiled
<1>2. CallbackInv'
  BY DEF CallbackInv, Filed, Wanting
<1>3. BuzzInv'
  BY DEF BuzzInv, BuzzedOnce
<1> QED
  BY <1>1, <1>2, <1>3

\* Items that keep their events, counters and existence, and become mailable only
\* by a delivery.
LEMMA ItemsTouched ==
    ASSUME ItemInv, UNCHANGED events, items' \in [Keys -> Item],
           \A k \in Keys :
               /\ items'[k].state # "none" <=> items[k].state # "none"
               /\ items'[k].count = items[k].count /\ items'[k].top = items[k].top
               /\ items'[k].unread <= items'[k].count
    PROVE  ItemInv' /\ \A k \in Keys : Exists(k)' <=> Exists(k)
<1>1. \A k \in Keys : Exists(k)' <=> Exists(k)
  BY DEF Exists
<1>2. \A k : Behind(k, events)' = Behind(k, events)
  BY DEF Behind
<1>3. ASSUME NEW k \in Keys
      PROVE  /\ Exists(k)' => Behind(k, events)' # {}
             /\ items'[k].count = Cardinality(Behind(k, events)')
             /\ items'[k].unread <= items'[k].count
             /\ \A e \in Behind(k, events)' : items'[k].top >= Rank[e[1]]
             /\ items'[k].top = 0 \/ \E e \in Behind(k, events)' : items'[k].top = Rank[e[1]]
  <2>1. Behind(k, events)' = Behind(k, events)
    BY <1>2
  <2>2. /\ Exists(k) => Behind(k, events) # {}
        /\ items[k].count = Cardinality(Behind(k, events))
        /\ \A e \in Behind(k, events) : items[k].top >= Rank[e[1]]
        /\ items[k].top = 0 \/ \E e \in Behind(k, events) : items[k].top = Rank[e[1]]
    BY Zenon DEF ItemInv
  <2>3. /\ items'[k].count = items[k].count /\ items'[k].top = items[k].top
        /\ items'[k].unread <= items'[k].count
    OBVIOUS
  <2> HIDE DEF Behind
  <2> QED
    BY <1>1, <2>1, <2>2, <2>3, Zenon
<1>4. events' \subseteq Msgs \X Users /\ IsFiniteSet(events')
  BY DEF ItemInv
<1> QED
  BY <1>1, <1>3, <1>4, Zenon DEF ItemInv

\* The same for the reconciler, the digest and the mails.
LEMMA ReadersKept ==
    ASSUME RecountInv, DigestInv, MailInv, UNCHANGED <<events, digestVars, recountVars>>,
           \A k \in Keys : Exists(k)' <=> Exists(k),
           \A k \in Keys : items[k].notified => items'[k].notified
    PROVE  RecountInv' /\ DigestInv' /\ MailInv'
<1> USE DEF digestVars, recountVars
<1>1. RecountInv'
  BY DEF RecountInv
<1>2. DigestInv'
  BY DEF DigestInv, Behind
<1>3. MailInv'
  BY DEF MailInv, Behind, NoDigestTwice
<1> QED
  BY <1>1, <1>2, <1>3

-----------------------------------------------------------------------------
(* The fan-out.                                                            *)

\* The stream's part: deliveries counted, and a status that is "done" only for
\* what is filed.
LEMMA StreamMoves ==
    ASSUME StreamInv, NEW m \in Msgs, NEW d, UNCHANGED <<ienv, prefs>>, events \subseteq events',
           d \in [status : {"new", "queued", "done", "dropped"}, deliveries : 0..MaxDeliver],
           msg' = [msg EXCEPT ![m] = d] \/ UNCHANGED msg,
           d.status = "done" => d.status = msg[m].status \/ \A u \in Wanting(m) : Filed(m, u)
    PROVE  StreamInv'
<1>1. Prefs' = Prefs /\ MaxDeliver' = MaxDeliver
  BY DEF Prefs, MaxDeliver
<1>2. msg' \in [Msgs -> [status : {"new", "queued", "done", "dropped"}, deliveries : 0..MaxDeliver]]
  BY DEF StreamInv
<1>3. AckedMeansFiled'
  <2> SUFFICES ASSUME NEW n \in Msgs, msg'[n].status = "done",
                      NEW u \in Audience[n], prefs[u].inApp
               PROVE  <<n, u>> \in events'
    BY DEF AckedMeansFiled
  <2>1. CASE msg[n].status = "done"
    BY <2>1 DEF StreamInv, AckedMeansFiled
  <2>2. CASE msg[n].status # "done"
    <3>1. n = m /\ d.status = "done" /\ msg[m].status # "done"
      BY <2>2 DEF StreamInv
    <3>2. u \in Wanting(m)
      BY <3>1 DEF Wanting
    <3>3. Filed(m, u)
      BY <3>1, <3>2
    <3> QED
      BY <3>1, <3>3 DEF Filed
  <2> QED
    BY <2>1, <2>2
<1> QED
  BY <1>1, <1>2, <1>3 DEF StreamInv

\* A callback that ends, with its event as it was, acknowledged or given up.
LEMMA CallbackEnds ==
    ASSUME InboxIInv, NEW w \in Workers, work' = [work EXCEPT ![w] = Free], StreamInv',
           UNCHANGED <<ienv, prefs, events, items, pushed, digestVars, recountVars>>
    PROVE  InboxIInv'
<1> USE DEF InboxIInv
<1>1. Free \in Callback /\ Free.at = "idle" /\ Free.fresh = {} /\ Free.wanted = {}
  BY FreeFields
<1> HIDE DEF Free
<1>2. /\ CallbackInv' /\ work'[w] = Free
      /\ \A v \in Workers : v # w => work'[v] = work[v]
  BY <1>1, CallbackMoves
<1>3. BuzzInv'
  BY <1>1, <1>2, BuzzKept
<1> QED
  BY <1>2, <1>3, RowsKept

\* An event is published, or delivered to a callback.
LEMMA StreamStep ==
    ASSUME InboxIInv, NEW m \in Msgs
    PROVE  /\ Publish(m) => InboxIInv'
           /\ \A w \in Workers : Fetch(w, m) => InboxIInv'
<1> USE DEF InboxIInv
<1>1. MaxDeliver \in Nat /\ msg[m].deliveries \in 0..MaxDeliver
      /\ msg[m] \in [status : {"new", "queued", "done", "dropped"}, deliveries : 0..MaxDeliver]
  BY InboxAssumption DEF StreamInv, MaxDeliver
<1>2. CASE Publish(m)
  <2> DEFINE d == [msg[m] EXCEPT !.status = "queued"]
  <2>1. /\ d \in [status : {"new", "queued", "done", "dropped"}, deliveries : 0..MaxDeliver]
        /\ d.status # "done"
    BY <1>1
  <2>2. msg' = [msg EXCEPT ![m] = d] /\ UNCHANGED <<ienv, prefs, work, events, items, pushed, digestVars, recountVars>>
    BY <1>2 DEF Publish
  <2> HIDE DEF d
  <2>3. StreamInv'
    BY <2>1, <2>2, StreamMoves
  <2>4. CallbackInv'
    BY <2>2 DEF CallbackInv, Filed, Wanting
  <2>5. BuzzInv'
    BY <2>2 DEF BuzzInv, BuzzedOnce
  <2> QED
    BY <2>2, <2>3, <2>4, <2>5, RowsKept
<1>3. ASSUME NEW w \in Workers, Fetch(w, m) PROVE InboxIInv'
  <2> DEFINE d == [msg[m] EXCEPT !.deliveries = @ + 1]
             wanted == {u \in Audience[m] : prefs[u].inApp}
             q == [at |-> IF wanted = {} THEN "ack" ELSE "insert",
                   m |-> m, wanted |-> wanted, fresh |-> {}]
  <2>1. /\ msg' = [msg EXCEPT ![m] = d] /\ work' = [work EXCEPT ![w] = q]
        /\ msg[m].deliveries < MaxDeliver
        /\ UNCHANGED <<ienv, prefs, events, items, pushed, digestVars, recountVars>>
    BY <1>3 DEF Fetch
  <2>2. /\ d \in [status : {"new", "queued", "done", "dropped"}, deliveries : 0..MaxDeliver]
        /\ d.status = msg[m].status
    BY <1>1, <2>1
  <2> HIDE DEF d
  <2>3. StreamInv'
    BY <2>1, <2>2, StreamMoves
  <2>4. wanted \subseteq Users /\ wanted = Wanting(m)
    BY InboxAssumption DEF Wanting
  <2> HIDE DEF wanted
  <2>5. (q.at = "ack" /\ wanted = {}) \/ q.at = "insert"
    OBVIOUS
  <2>6. q \in Callback /\ q.m = m /\ q.wanted = wanted /\ q.fresh = {}
    BY <2>4 DEF Callback
  <2> HIDE DEF q
  <2>7. /\ CallbackInv' /\ work'[w] = q
        /\ \A v \in Workers : v # w => work'[v] = work[v]
    <3>1. q.at # "upsert" /\ q.at # "announce" /\ (q.at = "ack" => q.wanted = {})
      BY <2>5, <2>6
    <3> QED
      BY <2>1, <2>4, <2>6, <3>1, CallbackMoves
  <2>8. BuzzInv'
    BY <2>1, <2>5, <2>7, BuzzKept
  <2> QED
    BY <2>1, <2>3, <2>7, <2>8, RowsKept
<1> QED
  BY <1>2, <1>3

\* The statement that decides who is new.
LEMMA InsertStep ==
    ASSUME InboxIInv, NEW w \in Workers, InsertEvents(w)
    PROVE  InboxIInv'
<1> USE DEF InboxIInv
<1> DEFINE fresh == {u \in work[w].wanted : <<work[w].m, u>> \notin events}
           q == [work[w] EXCEPT !.at = "upsert", !.fresh = fresh]
<1>1. /\ work[w].at = "insert"
      /\ work' = [work EXCEPT ![w].at = "upsert", ![w].fresh = fresh]
      /\ UNCHANGED <<ienv, prefs, msg, events, items, pushed, digestVars, recountVars>>
  BY DEF InsertEvents
<1>2. work[w] \in Callback /\ work[w].m \in Msgs /\ work[w].wanted = Wanting(work[w].m)
  BY <1>1 DEF CallbackInv
<1>3. fresh \subseteq work[w].wanted /\ work[w].wanted \subseteq Users
  BY <1>2 DEF Callback
<1>4. \A u \in work[w].wanted : Filed(work[w].m, u) <=> u \notin fresh
  BY DEF Filed
<1>5. \A v \in Workers \ {w} : work[v].at = "upsert" /\ work[v].m = work[w].m =>
          work[v].fresh \cap fresh = {}
  BY DEF InsertEvents
<1>6. work' = [work EXCEPT ![w] = q]
  BY <1>1, <1>2 DEF CallbackInv
<1> HIDE DEF fresh
<1>7. /\ q \in Callback /\ q.at = "upsert" /\ q.m = work[w].m /\ q.wanted = work[w].wanted
      /\ q.fresh = fresh
  BY <1>2, <1>3 DEF Callback
<1> HIDE DEF q
<1>8. /\ CallbackInv' /\ work'[w] = q
      /\ \A v \in Workers : v # w => work'[v] = work[v]
  <2>1. /\ q.fresh \subseteq q.wanted /\ q.m \in Msgs /\ q.wanted = Wanting(q.m)
        /\ \A u \in q.wanted : Filed(q.m, u) <=> u \notin q.fresh
    BY <1>2, <1>3, <1>4, <1>7
  <2>2. \A v \in Workers \ {w} : work[v].at = "upsert" /\ work[v].m = q.m =>
            work[v].fresh \cap q.fresh = {}
    BY <1>5, <1>7
  <2>3. q \in Callback /\ q.at \notin {"announce", "ack"} /\ CallbackInv
        /\ UNCHANGED <<prefs, events>>
    BY <1>1, <1>7
  <2> QED
    BY <1>6, <2>1, <2>2, <2>3, CallbackMoves, Zenon
<1>9. BuzzInv'
  BY <1>1, <1>7, <1>8, BuzzKept
<1>10. StreamInv'
  BY <1>1 DEF StreamInv, Prefs, MaxDeliver, AckedMeansFiled
<1> QED
  BY <1>1, <1>8, <1>9, <1>10, RowsKept

\* The new recipients are buzzed.
LEMMA AnnounceStep ==
    ASSUME InboxIInv, NEW w \in Workers, Announce(w)
    PROVE  InboxIInv'
<1> USE DEF InboxIInv
<1> DEFINE m == work[w].m
           q == [work[w] EXCEPT !.at = "ack"]
           row == [u \in Users |-> pushed[m][u] + IF u \in work[w].fresh THEN 1 ELSE 0]
<1>1. /\ work[w].at = "announce"
      /\ pushed' = [pushed EXCEPT ![m] = row]
      /\ work' = [work EXCEPT ![w].at = "ack"]
      /\ UNCHANGED <<ienv, prefs, msg, events, items, digestVars, recountVars>>
  BY DEF Announce
<1>2. /\ work[w] \in Callback /\ m \in Msgs /\ work[w].wanted = Wanting(m)
      /\ work[w].fresh \subseteq work[w].wanted /\ work[w].wanted \subseteq Users
      /\ \A u \in work[w].wanted : Filed(m, u)
  BY <1>1 DEF CallbackInv, Callback
<1>3. /\ q \in Callback /\ q.at = "ack" /\ q.m = m /\ q.wanted = work[w].wanted
      /\ q.fresh = work[w].fresh
  BY <1>2 DEF Callback
<1>4. work' = [work EXCEPT ![w] = q]
  BY <1>1
<1> HIDE DEF q
<1>5. /\ CallbackInv' /\ work'[w] = q
      /\ \A v \in Workers : v # w => work'[v] = work[v]
  <2>1. /\ q.fresh \subseteq q.wanted /\ q.m \in Msgs /\ q.wanted = Wanting(q.m)
        /\ \A u \in q.wanted : Filed(q.m, u)
    BY <1>2, <1>3
  <2>2. q \in Callback /\ q.at # "upsert" /\ CallbackInv /\ UNCHANGED <<prefs, events>>
    BY <1>1, <1>3
  <2> QED
    BY <1>4, <2>1, <2>2, CallbackMoves, Zenon
<1>6. /\ row \in [Users -> Nat]
      /\ \A u \in Users : u \notin work[w].fresh => row[u] = pushed[m][u]
      /\ \A u \in work[w].fresh : row[u] = 1
  <2>1. pushed[m] \in [Users -> Nat] /\ \A u \in work[w].fresh : pushed[m][u] = 0
    BY <1>1, <1>2 DEF BuzzInv
  <2> QED
    BY <1>2, <2>1
<1> HIDE DEF row
<1>7. /\ pushed' \in [Msgs -> [Users -> Nat]] /\ pushed'[m] = row
      /\ \A n \in Msgs : n # m => pushed'[n] = pushed[n]
  BY <1>1, <1>2, <1>6 DEF BuzzInv
<1>8. BuzzedOnce'
  <2> SUFFICES ASSUME NEW n \in Msgs, NEW u \in Users
               PROVE  pushed'[n][u] <= 1 /\ (pushed'[n][u] = 1 => <<n, u>> \in events)
    BY <1>1 DEF BuzzedOnce
  <2>1. pushed[n][u] <= 1 /\ (pushed[n][u] = 1 => <<n, u>> \in events)
    BY DEF BuzzInv, BuzzedOnce
  <2>2. CASE n = m /\ u \in work[w].fresh
    BY <1>2, <1>6, <1>7, <2>2 DEF Filed
  <2>3. CASE ~(n = m /\ u \in work[w].fresh)
    BY <1>6, <1>7, <2>1, <2>3
  <2> QED
    BY <2>2, <2>3
<1>9. ASSUME NEW v \in Workers, NEW u \in Users, work'[v].at = "announce", u \in work'[v].fresh
      PROVE  pushed'[work'[v].m][u] = 0
  <2>1. v # w /\ work'[v] = work[v]
    BY <1>3, <1>5, <1>9
  <2>2. work[v].m \in Msgs /\ pushed[work[v].m][u] = 0
    BY <1>9, <2>1 DEF BuzzInv, CallbackInv
  <2>3. work[v].m = m => u \notin work[w].fresh
    BY <1>1, <1>9, <2>1 DEF BuzzInv
  <2> QED
    BY <1>6, <1>7, <2>1, <2>2, <2>3
<1>10. ASSUME NEW v \in Workers, NEW x \in Workers, NEW u \in Users,
              work'[v].at = "announce", work'[x].at = "announce", work'[v].m = work'[x].m,
              u \in work'[v].fresh, u \in work'[x].fresh
       PROVE  v = x
  <2>1. work'[v] = work[v] /\ work'[x] = work[x]
    BY <1>3, <1>5, <1>10
  <2> QED
    BY <1>10, <2>1 DEF BuzzInv
<1>11. BuzzInv'
  BY <1>7, <1>8, <1>9, <1>10 DEF BuzzInv
<1>12. StreamInv'
  BY <1>1 DEF StreamInv, Prefs, MaxDeliver, AckedMeansFiled
<1> QED
  BY <1>1, <1>5, <1>11, <1>12, RowsKept

\* The callback ends: acknowledged, failed or dead.
LEMMA EndStep ==
    ASSUME InboxIInv, NEW w \in Workers
    PROVE  Ack(w) \/ HandlerFails(w) \/ WorkerDies(w) => InboxIInv'
<1> DEFINE Msg == [status : {"new", "queued", "done", "dropped"}, deliveries : 0..MaxDeliver]
<1>1. StreamInv /\ CallbackInv
  BY DEF InboxIInv
<1>2. CASE WorkerDies(w)
  <2>1. StreamInv'
    BY <1>1, <1>2 DEF WorkerDies, StreamInv, Prefs, MaxDeliver, AckedMeansFiled
  <2> QED
    BY <1>2, <2>1, CallbackEnds DEF WorkerDies
<1>3. CASE HandlerFails(w) \/ Ack(w)
  <2> DEFINE m == work[w].m
             s == IF Ack(w) THEN "done" ELSE "dropped"
             d == [msg[m] EXCEPT !.status = s]
  <2>1. m \in Msgs
    BY <1>1, <1>3 DEF HandlerFails, Ack, CallbackInv
  <2>2. msg[m] \in Msg
    BY <1>1, <2>1 DEF StreamInv
  <2>3. d \in Msg /\ d.status = s
    BY <2>2
  <2>4. s = "done" => \A u \in Wanting(m) : Filed(m, u)
    <3>1. Wanting(m) \subseteq Users
      BY <2>1, InboxAssumption DEF Wanting
    <3> QED
      BY <1>1, <3>1 DEF Ack, CallbackInv
  <2>5. /\ msg' = [msg EXCEPT ![m] = d] \/ UNCHANGED msg
        /\ work' = [work EXCEPT ![w] = Free]
        /\ UNCHANGED <<ienv, prefs, events, items, pushed, digestVars, recountVars>>
    BY <1>3, <2>1 DEF HandlerFails, Ack
  <2> HIDE DEF d, s, m
  <2>6. StreamInv'
    BY <1>1, <2>1, <2>3, <2>4, <2>5, StreamMoves
  <2> QED
    BY <2>5, <2>6, CallbackEnds
<1> QED
  BY <1>2, <1>3

\* What the commit files behind an item: one new event, or nothing.
LEMMA BehindGrows ==
    ASSUME ItemInv, NEW m \in Msgs, NEW fresh \in SUBSET Users, NEW k \in Keys,
           events' = events \cup {<<m, u>> : u \in fresh},
           \A u \in fresh : ~Filed(m, u)
    PROVE  /\ k[1] \in fresh /\ k[2] = SubjectOf[m] =>
                /\ Behind(k, events') = Behind(k, events) \cup {<<m, k[1]>>}
                /\ <<m, k[1]>> \notin events
                /\ Cardinality(Behind(k, events')) = Cardinality(Behind(k, events)) + 1
           /\ ~(k[1] \in fresh /\ k[2] = SubjectOf[m]) => Behind(k, events') = Behind(k, events)
           /\ Cardinality(Behind(k, events)) \in Nat
<1>1. IsFiniteSet(Behind(k, events))
  <2>1. Behind(k, events) \subseteq events
    BY DEF Behind
  <2> QED
    BY <2>1, FS_Subset DEF ItemInv
<1>2. Cardinality(Behind(k, events)) \in Nat
  BY <1>1, FS_CardinalityType
<1>3. ASSUME k[1] \in fresh, k[2] = SubjectOf[m]
      PROVE  /\ Behind(k, events') = Behind(k, events) \cup {<<m, k[1]>>}
             /\ <<m, k[1]>> \notin events
             /\ Cardinality(Behind(k, events')) = Cardinality(Behind(k, events)) + 1
  <2> DEFINE x == <<m, k[1]>>
  <2>1. x \notin events /\ x[1] = m /\ x[2] = k[1]
    BY <1>3 DEF Filed
  <2>2. Behind(k, events') = Behind(k, events) \cup {x}
    <3>1. ASSUME NEW e \in Behind(k, events') PROVE e \in Behind(k, events) \cup {x}
      BY <3>1 DEF Behind
    <3>2. ASSUME NEW e \in Behind(k, events) \cup {x} PROVE e \in Behind(k, events')
      BY <1>3, <2>1, <3>2 DEF Behind
    <3> QED
      BY <3>1, <3>2
  <2> HIDE DEF x
  <2>3. x \notin Behind(k, events)
    BY <2>1 DEF Behind
  <2>4. Cardinality(Behind(k, events) \cup {x}) = Cardinality(Behind(k, events)) + 1
    BY <1>1, <2>3, FS_AddElement
  <2> QED
    BY <2>1, <2>2, <2>4 DEF x
<1>4. ASSUME ~(k[1] \in fresh /\ k[2] = SubjectOf[m])
      PROVE  Behind(k, events') = Behind(k, events)
  BY <1>4 DEF Behind
<1> QED
  BY <1>2, <1>3, <1>4

\* The counters of an item after one more event.
LEMMA DeliveredFields ==
    ASSUME NEW old \in Item, NEW m \in Msgs
    PROVE  LET new == Delivered(old, m)
           IN  /\ new \in Item /\ new.state = "unread" /\ ~new.notified
               /\ new.count = old.count + 1 /\ new.unread = old.unread + 1
               /\ new.top >= old.top /\ new.top >= Rank[m]
               /\ new.top = old.top \/ new.top = Rank[m]
<1> DEFINE top == IF old.top > Rank[m] THEN old.top ELSE Rank[m]
<1>1. /\ Rank[m] \in Nat /\ old.top \in Nat /\ old.count + 1 \in Nat /\ old.unread + 1 \in Nat
  BY InboxAssumption DEF Item
<1>2. /\ top \in Nat /\ top >= old.top /\ top >= Rank[m]
      /\ top = old.top \/ top = Rank[m]
  BY <1>1
<1>3. Delivered(old, m) = [state |-> "unread", top |-> top,
                           unread |-> old.unread + 1, count |-> old.count + 1,
                           notified |-> FALSE, quiet |-> FALSE]
  BY DEF Delivered
<1> HIDE DEF top
<1>4. Delivered(old, m) \in Item
  BY <1>1, <1>2, <1>3 DEF Item, ItemStates
<1> QED
  BY <1>2, <1>3, <1>4

\* The commit: the new recipients are filed and their items counted.
LEMMA UpsertStep ==
    ASSUME InboxIInv, NEW w \in Workers, UpsertItems(w)
    PROVE  InboxIInv'
<1> USE DEF InboxIInv
<1> DEFINE m == work[w].m
           fresh == work[w].fresh
           Hit(k) == k[1] \in fresh /\ k[2] = SubjectOf[m]
           q == [work[w] EXCEPT !.at = "announce"]
<1>1. /\ work[w].at = "upsert"
      /\ events' = events \cup {<<m, u>> : u \in fresh}
      /\ items' = [k \in Keys |-> IF Hit(k) THEN Delivered(items[k], m) ELSE items[k]]
      /\ work' = [work EXCEPT ![w].at = "announce"]
      /\ UNCHANGED <<ienv, prefs, msg, pushed, digestVars, recountVars>>
  BY DEF UpsertItems
<1>2. /\ work[w] \in Callback /\ m \in Msgs /\ work[w].wanted = Wanting(m)
      /\ fresh \subseteq work[w].wanted /\ work[w].wanted \subseteq Users
      /\ \A u \in work[w].wanted : Filed(m, u) <=> u \notin fresh
  BY <1>1 DEF CallbackInv, Callback
<1>3. fresh \in SUBSET Users /\ \A u \in fresh : ~Filed(m, u)
  BY <1>2
<1>4. /\ events \subseteq events' /\ events' \subseteq Msgs \X Users
      /\ \A n \in Msgs, u \in Users : <<n, u>> \in events' <=> <<n, u>> \in events \/ (n = m /\ u \in fresh)
  BY <1>1, <1>2, <1>3 DEF ItemInv
<1>5. IsFiniteSet(events')
  <2>1. IsFiniteSet({<<m, u>> : u \in fresh})
    <3> DEFINE T == {<<m, u>> : u \in fresh}
               f == [u \in fresh |-> <<m, u>>]
    <3>1. IsFiniteSet(fresh)
      BY <1>3, InboxAssumption, FS_Subset
    <3>2. f \in Surjection(fresh, T)
      BY DEF Surjection
    <3> HIDE DEF T, f
    <3>3. IsFiniteSet(T)
      BY <3>1, <3>2, FS_Surjection
    <3> QED
      BY <3>3 DEF T
  <2> QED
    BY <1>1, <2>1, FS_Union DEF ItemInv
<1>6. ASSUME NEW k \in Keys
      PROVE  /\ Hit(k) =>
                  /\ items'[k] = Delivered(items[k], m)
                  /\ Behind(k, events') = Behind(k, events) \cup {<<m, k[1]>>}
                  /\ <<m, k[1]>> \notin events
                  /\ Cardinality(Behind(k, events')) = Cardinality(Behind(k, events)) + 1
             /\ ~Hit(k) => items'[k] = items[k] /\ Behind(k, events') = Behind(k, events)
             /\ Cardinality(Behind(k, events)) \in Nat
  <2>1. /\ Hit(k) => items'[k] = Delivered(items[k], m)
        /\ ~Hit(k) => items'[k] = items[k]
    BY <1>1
  <2> HIDE DEF m, fresh
  <2>2. /\ Hit(k) =>
              /\ Behind(k, events') = Behind(k, events) \cup {<<m, k[1]>>}
              /\ <<m, k[1]>> \notin events
              /\ Cardinality(Behind(k, events')) = Cardinality(Behind(k, events)) + 1
        /\ ~Hit(k) => Behind(k, events') = Behind(k, events)
        /\ Cardinality(Behind(k, events)) \in Nat
    BY <1>1, <1>2, <1>3, BehindGrows
  <2> QED
    BY <2>1, <2>2
<1> HIDE DEF Hit
<1>7. ASSUME NEW k \in Keys
      PROVE  /\ items[k] \in Item
             /\ Exists(k) => Behind(k, events) # {}
             /\ items[k].count = Cardinality(Behind(k, events))
             /\ items[k].unread <= items[k].count
             /\ \A e \in Behind(k, events) : items[k].top >= Rank[e[1]]
             /\ items[k].top = 0 \/ \E e \in Behind(k, events) : items[k].top = Rank[e[1]]
  BY DEF ItemInv
<1>8. ASSUME NEW k \in Keys
      PROVE  /\ items'[k] \in Item
             /\ Exists(k) => items'[k].state # "none"
             /\ items'[k].state # "none" => Behind(k, events') # {}
             /\ items'[k].count = Cardinality(Behind(k, events'))
             /\ items'[k].unread <= items'[k].count
             /\ \A e \in Behind(k, events') : items'[k].top >= Rank[e[1]]
             /\ items'[k].top = 0 \/ \E e \in Behind(k, events') : items'[k].top = Rank[e[1]]
  <2>1. CASE ~Hit(k)
    <3>1. items'[k] = items[k] /\ Behind(k, events') = Behind(k, events)
      BY <1>6, <2>1
    <3> QED
      BY <1>7, <3>1, Zenon DEF Exists
  <2>2. CASE Hit(k)
    <3> DEFINE x == <<m, k[1]>>
               B == Behind(k, events)
               c == Cardinality(B)
    <3>1. /\ items'[k] = Delivered(items[k], m) /\ Behind(k, events') = B \cup {x}
          /\ Cardinality(Behind(k, events')) = c + 1 /\ c \in Nat /\ x[1] = m
      BY <1>6, <2>2
    <3>2. /\ items'[k] \in Item /\ items'[k].state = "unread"
          /\ items'[k].count = items[k].count + 1 /\ items'[k].unread = items[k].unread + 1
          /\ items'[k].top >= items[k].top /\ items'[k].top >= Rank[m]
          /\ items'[k].top = items[k].top \/ items'[k].top = Rank[m]
      BY <1>2, <1>7, <3>1, DeliveredFields
    <3>3. /\ \A e \in B : items[k].top >= Rank[e[1]]
          /\ items[k].top = 0 \/ \E e \in B : items[k].top = Rank[e[1]]
          /\ items[k].count = c /\ items[k].unread <= items[k].count
          /\ items[k].top \in Nat /\ items[k].unread \in Nat /\ items'[k].top \in Nat
      BY <1>7, <3>2 DEF Item
    <3>4. \A e \in B : Rank[e[1]] \in Nat
      BY InboxAssumption DEF Behind, ItemInv
    <3> HIDE DEF x, B, c
    <3>5. \A e \in B \cup {x} : items'[k].top >= Rank[e[1]]
      BY <3>1, <3>2, <3>3, <3>4
    <3>6. items'[k].top = 0 \/ \E e \in B \cup {x} : items'[k].top = Rank[e[1]]
      BY <3>1, <3>2, <3>3
    <3>7. items'[k].count = c + 1 /\ items'[k].unread <= items'[k].count
      BY <3>1, <3>2, <3>3
    <3> QED
      BY <3>1, <3>2, <3>5, <3>6, <3>7
  <2> QED
    BY <2>1, <2>2
<1>9. ItemInv'
  <2>1. items' \in [Keys -> Item]
    BY <1>1, <1>8
  <2> QED
    BY <1>4, <1>5, <1>8, <2>1 DEF ItemInv, Exists, Behind
<1>10. RecountInv'
  BY <1>1, <1>4, <1>8 DEF RecountInv, recountVars, Exists
<1>11. /\ q \in Callback /\ q.at = "announce" /\ q.m = m /\ q.wanted = work[w].wanted
       /\ q.fresh = fresh
  BY <1>2 DEF Callback
<1>12. /\ work' \in [Workers -> Callback] /\ work'[w] = q
       /\ \A v \in Workers : v # w => work'[v] = work[v]
  <2>1. work' = [work EXCEPT ![w] = q]
    BY <1>1
  <2> HIDE DEF q
  <2> QED
    BY <1>11, <2>1 DEF CallbackInv
<1> HIDE DEF q
<1>13. StreamInv'
  BY <1>1, <1>4 DEF StreamInv, Prefs, MaxDeliver, AckedMeansFiled
<1>14. CallbackInv'
  <2>1. \A v \in Workers :
           /\ work'[v].fresh \subseteq work'[v].wanted
           /\ work'[v].at # "idle" => work'[v].m \in Msgs /\ work'[v].wanted = Wanting(work'[v].m)
    BY <1>2, <1>11, <1>12 DEF CallbackInv
  <2>2. ASSUME NEW v \in Workers, NEW u \in Users
        PROVE  /\ work'[v].at = "upsert" /\ u \in work'[v].wanted =>
                      (<<work'[v].m, u>> \in events' <=> u \notin work'[v].fresh)
               /\ work'[v].at \in {"announce", "ack"} /\ u \in work'[v].wanted =>
                      <<work'[v].m, u>> \in events'
    <3>1. CASE v = w
      <4>1. u \in work[w].wanted => <<m, u>> \in events'
        BY <1>2, <1>4 DEF Filed
      <4> QED
        BY <1>11, <1>12, <3>1, <4>1
    <3>2. CASE v # w
      <4>1. work'[v] = work[v]
        BY <1>12, <3>2
      <4>2. /\ work[v].at = "upsert" /\ u \in work[v].wanted =>
                   (<<work[v].m, u>> \in events <=> u \notin work[v].fresh)
            /\ work[v].at \in {"announce", "ack"} /\ u \in work[v].wanted =>
                   <<work[v].m, u>> \in events
        BY DEF CallbackInv, Filed
      <4>3. work[v].at = "upsert" /\ work[v].m = m /\ u \in fresh => u \notin work[v].fresh
        BY <1>1, <3>2 DEF CallbackInv
      <4>4. work[v].at # "idle" => work[v].m \in Msgs
        BY DEF CallbackInv
      <4>5. work[v].at = "upsert" =>
               (<<work[v].m, u>> \in events' <=> <<work[v].m, u>> \in events \/ (work[v].m = m /\ u \in fresh))
        BY <1>4, <4>4
      <4>6. work[v].at = "upsert" /\ u \in work[v].fresh => u \in work[v].wanted
        BY DEF CallbackInv
      <4> QED
        BY <1>4, <4>1, <4>2, <4>3, <4>5, <4>6
    <3> QED
      BY <3>1, <3>2
  <2>3. ASSUME NEW v \in Workers, NEW x \in Workers, NEW u \in Users,
               work'[v].at = "upsert", work'[x].at = "upsert", work'[v].m = work'[x].m,
               u \in work'[v].fresh, u \in work'[x].fresh
        PROVE  v = x
    <3>1. work'[v] = work[v] /\ work'[x] = work[x]
      BY <1>11, <1>12, <2>3
    <3> QED
      BY <2>3, <3>1 DEF CallbackInv
  <2> QED
    BY <1>1, <1>12, <2>1, <2>2, <2>3 DEF CallbackInv, Filed, Wanting
<1>15. BuzzInv'
  <2>1. BuzzedOnce'
    BY <1>1, <1>4 DEF BuzzInv, BuzzedOnce
  <2>2. ASSUME NEW v \in Workers, NEW u \in Users, work'[v].at = "announce", u \in work'[v].fresh
        PROVE  pushed[work'[v].m][u] = 0
    <3>1. CASE v = w
      <4>1. u \in fresh /\ work'[v].m = m /\ <<m, u>> \notin events
        BY <1>3, <1>11, <1>12, <2>2, <3>1 DEF Filed
      <4>2. pushed[m][u] \in Nat /\ pushed[m][u] <= 1 /\ pushed[m][u] # 1
        BY <1>2, <4>1 DEF BuzzInv, BuzzedOnce
      <4> QED
        BY <4>1, <4>2
    <3>2. CASE v # w
      BY <1>12, <2>2, <3>2 DEF BuzzInv
    <3> QED
      BY <3>1, <3>2
  <2>3. ASSUME NEW v \in Workers, v # w, NEW u \in Users, work[v].at = "announce",
               work[v].m = m, u \in work[v].fresh
        PROVE  u \notin fresh
    <3>1. <<m, u>> \in events
      BY <2>3 DEF CallbackInv, Filed
    <3> QED
      BY <1>3, <3>1 DEF Filed
  <2>4. ASSUME NEW v \in Workers, NEW x \in Workers, NEW u \in Users,
               work'[v].at = "announce", work'[x].at = "announce", work'[v].m = work'[x].m,
               u \in work'[v].fresh, u \in work'[x].fresh
        PROVE  v = x
    <3>1. CASE v # w /\ x # w
      <4>1. work'[v] = work[v] /\ work'[x] = work[x]
        BY <1>12, <3>1
      <4> QED
        BY <2>4, <4>1 DEF BuzzInv
    <3> QED
      BY <1>11, <1>12, <2>3, <2>4, <3>1
  <2> QED
    BY <1>1, <2>1, <2>2, <2>4 DEF BuzzInv
<1>16. ASSUME NEW k \in Keys, ~items'[k].notified
       PROVE  \/ ~items[k].notified
              \/ \E e \in Behind(k, events') : e \notin events
  BY <1>6, <1>16
<1>17. DigestInv'
  <2>1. ASSUME NEW k \in digest.cand, digest.at = "send", k[1] \in digest.user, ~items'[k].notified
        PROVE  \E e \in Behind(k, events') : e \notin digest.seen
    <3>1. k \in Keys /\ digest.seen \subseteq events
      BY DEF DigestInv
    <3>2. Behind(k, events) \subseteq Behind(k, events')
      BY <1>4 DEF Behind
    <3> QED
      BY <1>16, <2>1, <3>1, <3>2 DEF DigestInv
  <2>2. digest \in [at : {"idle", "claim", "send"}, cand : SUBSET Keys, seen : SUBSET events',
                    user : SUBSET Users]
    BY <1>4 DEF DigestInv
  <2> QED
    BY <1>1, <2>1, <2>2 DEF DigestInv, digestVars, Behind
<1>18. MailInv'
  <2>1. ASSUME NEW a \in mails, NEW k \in Keys, k[1] = a.user, Behind(k, a.about) # {},
               ~items'[k].notified
        PROVE  \E e \in Behind(k, events') : e \notin a.about
    <3>1. a.about \subseteq events
      BY DEF MailInv
    <3>2. Behind(k, events) \subseteq Behind(k, events')
      BY <1>4 DEF Behind
    <3>3. ~items[k].notified => \E e \in Behind(k, events) : e \notin a.about
      BY <2>1, Zenon DEF MailInv
    <3> QED
      BY <1>16, <2>1, <3>1, <3>2, <3>3
  <2>2. mails \subseteq [n : Nat, user : Users, about : SUBSET events']
    BY <1>4 DEF MailInv
  <2> QED
    BY <1>1, <2>1, <2>2 DEF MailInv, digestVars, Behind, NoDigestTwice
<1> QED
  BY <1>9, <1>10, <1>13, <1>14, <1>15, <1>17, <1>18

-----------------------------------------------------------------------------
(* The user, the digest and the reconciler.                                *)

\* Items change in nothing that the fan-out, the digest or the mails rely on.
LEMMA TouchStep ==
    ASSUME InboxIInv,
           UNCHANGED <<ienv, prefs, msg, work, events, pushed, digestVars, recountVars>>,
           items' \in [Keys -> Item],
           \A k \in Keys :
               /\ items'[k].state # "none" <=> items[k].state # "none"
               /\ items'[k].count = items[k].count /\ items'[k].top = items[k].top
               /\ items'[k].unread <= items'[k].count
               /\ items'[k].notified = items[k].notified
    PROVE  InboxIInv'
<1> USE DEF InboxIInv
<1>1. StreamInv' /\ CallbackInv' /\ BuzzInv'
  BY FanOutKept
<1>2. ItemInv' /\ \A k \in Keys : Exists(k)' <=> Exists(k)
  BY ItemsTouched
<1>3. RecountInv' /\ DigestInv' /\ MailInv'
  BY <1>2, ReadersKept
<1> QED
  BY <1>1, <1>2, <1>3

\* What the user does, and the time that passes.
LEMMA UserStep ==
    ASSUME InboxIInv
    PROVE  /\ \A k \in Keys, state \in ItemStates : SetState(k, state) => InboxIInv'
           /\ \A k \in Keys : GoesQuiet(k) => InboxIInv'
           /\ \A u \in Users, ss \in SUBSET Subjects : MarkRead(u, ss) => InboxIInv'
           /\ \A u \in Users : IntervalPasses(u) => InboxIInv'
<1>0. items \in [Keys -> Item] /\ \A k \in Keys : items[k].unread <= items[k].count
  BY DEF InboxIInv, ItemInv
<1>1. ASSUME NEW k \in Keys, NEW state \in ItemStates, SetState(k, state) PROVE InboxIInv'
  <2>1. /\ items' = [items EXCEPT ![k].state = state] /\ items[k].state # "none"
        /\ UNCHANGED <<ienv, prefs, msg, work, events, pushed, digestVars, recountVars>>
    BY <1>1 DEF SetState, Unlocked, Exists
  <2>2. state # "none"
    BY DEF ItemStates
  <2>3. /\ items' \in [Keys -> Item]
        /\ \A j \in Keys :
               /\ items'[j].state # "none" <=> items[j].state # "none"
               /\ items'[j].count = items[j].count /\ items'[j].top = items[j].top
               /\ items'[j].unread <= items'[j].count
               /\ items'[j].notified = items[j].notified
    BY <1>0, <2>1, <2>2 DEF Item
  <2> QED
    BY <2>1, <2>3, TouchStep
<1>2. ASSUME NEW k \in Keys, GoesQuiet(k) PROVE InboxIInv'
  <2>1. /\ items' = [items EXCEPT ![k].quiet = TRUE]
        /\ UNCHANGED <<ienv, prefs, msg, work, events, pushed, digestVars, recountVars>>
    BY <1>2 DEF GoesQuiet
  <2>2. ASSUME NEW b \in BOOLEAN, items' = [items EXCEPT ![k].quiet = b]
        PROVE /\ items' \in [Keys -> Item]
              /\ \A j \in Keys :
                     /\ items'[j].state # "none" <=> items[j].state # "none"
                     /\ items'[j].count = items[j].count /\ items'[j].top = items[j].top
                     /\ items'[j].unread <= items'[j].count
                     /\ items'[j].notified = items[j].notified
    BY <1>0, <2>2 DEF Item
  <2> QED
    BY <2>1, <2>2, TouchStep
<1>3. ASSUME NEW u \in Users, NEW ss \in SUBSET Subjects, MarkRead(u, ss) PROVE InboxIInv'
  <2>1. /\ items' = [k \in Keys |-> IF k[1] = u /\ k[2] \in ss /\ items[k].state = "unread"
                                    THEN [items[k] EXCEPT !.state = "read"] ELSE items[k]]
        /\ UNCHANGED <<ienv, prefs, msg, work, events, pushed, digestVars, recountVars>>
    BY <1>3 DEF MarkRead
  <2>2. ASSUME NEW k \in Keys
        PROVE  /\ items'[k] \in Item
               /\ items'[k].state # "none" <=> items[k].state # "none"
               /\ items'[k].count = items[k].count /\ items'[k].top = items[k].top
               /\ items'[k].unread <= items'[k].count
               /\ items'[k].notified = items[k].notified
    <3>1. /\ items'[k] = items[k] \/ (items'[k] = [items[k] EXCEPT !.state = "read"] /\ items[k].state = "unread")
          /\ items[k] \in Item /\ items[k].unread <= items[k].count
      BY <1>0, <2>1
    <3> QED
      BY <3>1 DEF Item, ItemStates
  <2>3. items' \in [Keys -> Item]
    BY <2>1, <2>2
  <2> QED
    BY <2>1, <2>2, <2>3, TouchStep
<1>4. ASSUME NEW u \in Users, IntervalPasses(u) PROVE InboxIInv'
  <2>1. /\ UNCHANGED <<ienv, prefs, msg, work, events, items, pushed, digest, mails, digests, recountVars>>
        /\ recent' \subseteq recent
    BY <1>4 DEF IntervalPasses
  <2>2. StreamInv' /\ CallbackInv' /\ BuzzInv'
    BY <2>1, FanOutKept DEF InboxIInv
  <2>3. ItemInv' /\ RecountInv'
    BY <2>1 DEF InboxIInv, ItemInv, RecountInv, recountVars, Exists, Behind
  <2>4. DigestInv' /\ MailInv'
    BY <2>1 DEF InboxIInv, DigestInv, MailInv, Behind, NoDigestTwice
  <2> QED
    BY <2>2, <2>3, <2>4 DEF InboxIInv
<1> QED
  BY <1>1, <1>2, <1>3, <1>4

\* The reconciler repairs to what the counters already are.
LEMMA RecountStep ==
    ASSUME InboxIInv
    PROVE  RecountStarts \/ RecountCompares \/ RecountRepairs => InboxIInv'
<1> USE DEF InboxIInv
<1>1. CASE RecountStarts \/ RecountCompares
  <2>1. UNCHANGED <<ienv, prefs, msg, work, events, items, pushed, digestVars>>
    BY <1>1 DEF RecountStarts, RecountCompares
  <2>2. StreamInv' /\ CallbackInv' /\ BuzzInv'
    BY <2>1, FanOutKept
  <2>3. ItemInv' /\ DigestInv' /\ MailInv'
    BY <2>1 DEF ItemInv, DigestInv, MailInv, digestVars, Exists, Behind, NoDigestTwice
  <2>4. CASE RecountStarts
    <3> DEFINE held == {k \in Keys : items[k].state # "none"}
    <3>1. recount' = [at |-> "lock", seen |-> events, rows |-> held, ids |-> {}]
      BY <2>4 DEF RecountStarts, Exists
    <3>2. held \in SUBSET Keys /\ \A k \in held : items[k].state # "none"
      OBVIOUS
    <3> HIDE DEF held
    <3>3. RecountInv'
      BY <2>1, <3>1, <3>2 DEF RecountInv, Exists
    <3> QED
      BY <2>2, <2>3, <3>3
  <2>5. CASE RecountCompares
    <3> DEFINE ids == {k \in recount.rows : Drifted(k)}
    <3>1. recount' = [recount EXCEPT !.at = "repair", !.ids = ids]
      BY <2>5 DEF RecountCompares
    <3>2. ids \subseteq recount.rows
      OBVIOUS
    <3> HIDE DEF ids
    <3>3. RecountInv'
      BY <2>1, <3>1, <3>2 DEF RecountInv, Exists
    <3> QED
      BY <2>2, <2>3, <3>3
  <2> QED
    BY <1>1, <2>4, <2>5
<1>2. CASE RecountRepairs
  <2>1. /\ UNCHANGED <<ienv, prefs, msg, work, events, pushed, digestVars>> /\ recount' = NoRecount
        /\ items' = [k \in Keys |->
             IF k \in recount.ids
             THEN LET n == Cardinality(Behind(k, events))
                  IN  [items[k] EXCEPT !.count = n,
                                       !.unread = IF n < @ THEN n ELSE @,
                                       !.state = IF n = 0 THEN "read" ELSE @]
             ELSE items[k]]
    BY <1>2 DEF RecountRepairs
  <2>2. StreamInv' /\ CallbackInv' /\ BuzzInv'
    BY <2>1, FanOutKept
  <2>3. ASSUME NEW k \in Keys
        PROVE  /\ items'[k] \in Item
               /\ items'[k].state # "none" <=> items[k].state # "none"
               /\ items'[k].count = items[k].count /\ items'[k].top = items[k].top
               /\ items'[k].unread <= items'[k].count
               /\ items'[k].notified = items[k].notified
    <3> DEFINE n == Cardinality(Behind(k, events))
               un == IF n < items[k].unread THEN n ELSE items[k].unread
               st == IF n = 0 THEN "read" ELSE items[k].state
    <3>1. items[k] \in Item /\ items[k].count = n /\ items[k].unread <= items[k].count
      BY DEF ItemInv
    <3>2. CASE k \in recount.ids
      <4>1. items[k].state # "none"
        BY <3>2 DEF RecountInv, Exists
      <4>2. items'[k] = [items[k] EXCEPT !.count = n, !.unread = un, !.state = st]
        BY <2>1, <3>1, <3>2 DEF Item
      <4>3. n \in Nat /\ items[k].unread \in Nat
        BY <3>1 DEF Item
      <4>4. un \in Nat /\ un <= n
        BY <3>1, <4>3
      <4>5. st \in ItemStates /\ st # "none"
        BY <3>1, <4>1 DEF Item, ItemStates
      <4> HIDE DEF n, un, st
      <4> QED
        BY <3>1, <4>1, <4>2, <4>3, <4>4, <4>5 DEF Item
    <3>3. CASE k \notin recount.ids
      BY <2>1, <3>1, <3>3
    <3> QED
      BY <3>2, <3>3
  <2>4. items' \in [Keys -> Item]
    BY <2>1, <2>3
  <2>5. ItemInv' /\ \A k \in Keys : Exists(k)' <=> Exists(k)
    BY <2>1, <2>3, <2>4, ItemsTouched
  <2>6. RecountInv'
    BY <2>1 DEF RecountInv, NoRecount
  <2>7. DigestInv' /\ MailInv'
    BY <2>1, <2>3, ZenonT(60) DEF DigestInv, MailInv, digestVars, Behind, NoDigestTwice
  <2> QED
    BY <2>2, <2>5, <2>6, <2>7
<1> QED
  BY <1>1, <1>2

\* After a user's group the digest has none of that user's items left.
LEMMA NextGroupFacts ==
    ASSUME DigestInv, NEW u \in Users, NextGroup(u), UNCHANGED <<events, recent, digests>>
    PROVE  /\ DigestInv' /\ digest'.cand \subseteq digest.cand
           /\ \A k \in digest'.cand : k[1] # u /\ digest'.seen = digest.seen
<1> DEFINE rest == {k \in digest.cand : k[1] # u}
           none == {}
<1>1. /\ digest \in [at : {"idle", "claim", "send"}, cand : SUBSET Keys, seen : SUBSET events,
                     user : SUBSET Users]
      /\ digest.cand \subseteq Keys /\ rest \subseteq digest.cand /\ \A k \in rest : k[1] # u
  BY DEF DigestInv
<1>2. \/ digest' = [at |-> "idle", cand |-> none, seen |-> none, user |-> none]
      \/ digest' = [digest EXCEPT !.at = "claim", !.cand = rest, !.user = none]
  BY DEF NextGroup
<1>3. none \subseteq Keys /\ none \subseteq events /\ none \subseteq Users /\ \A k : k \notin none
  OBVIOUS
<1> HIDE DEF rest, none
<1>4. /\ digest' \in [at : {"idle", "claim", "send"}, cand : SUBSET Keys, seen : SUBSET events,
                     user : SUBSET Users]
      /\ digest'.at # "send" /\ (digest'.cand = none \/ digest'.cand = rest)
      /\ \A k \in digest'.cand : digest'.seen = digest.seen
  <2>1. CASE digest' = [at |-> "idle", cand |-> none, seen |-> none, user |-> none]
    BY <1>3, <2>1
  <2>2. CASE digest' = [digest EXCEPT !.at = "claim", !.cand = rest, !.user = none]
    BY <1>1, <1>3, <2>2
  <2> QED
    BY <1>2, <2>1, <2>2
<1>5. digest'.cand \subseteq digest.cand /\ \A k \in digest'.cand : k[1] # u
  BY <1>1, <1>3, <1>4
<1>6. ASSUME NEW e \in digest'.seen, NEW k \in digest'.cand, k[1] = e[2]
      PROVE  <<e[2], SubjectOf[e[1]]>> \in digest'.cand
  <2>1. e \in digest.seen /\ k \in digest.cand /\ digest'.cand = rest /\ k[1] # u
    BY <1>3, <1>4, <1>5, <1>6
  <2>2. <<e[2], SubjectOf[e[1]]>> \in digest.cand
    BY <1>6, <2>1 DEF DigestInv
  <2> QED
    BY <1>6, <2>1, <2>2 DEF rest
<1>7. DigestInv'
  BY <1>4, <1>6 DEF DigestInv
<1> QED
  BY <1>4, <1>5, <1>7

\* What a digest under way, served or not, leaves of the mails' invariant.
LEMMA MailsKept ==
    ASSUME MailInv, UNCHANGED <<events, items, mails>>, digest'.cand \subseteq digest.cand,
           \A k \in digest'.cand : digest'.seen = digest.seen
    PROVE  MailInv'
<1>1. ASSUME NEW a \in mails, NEW k \in digest'.cand, k[1] = a.user
      PROVE  \E e \in digest'.seen : e[2] = a.user /\ e \notin a.about
  <2>1. k \in digest.cand /\ digest'.seen = digest.seen
    BY <1>1
  <2> QED
    BY <1>1, <2>1 DEF MailInv
<1> QED
  BY <1>1 DEF MailInv, Behind, NoDigestTwice

\* A run starts: it reads the mailable items and every event behind them.
LEMMA CandidatesStep ==
    ASSUME InboxIInv, DigestCandidates
    PROVE  InboxIInv'
<1> USE DEF InboxIInv
<1> DEFINE cand == {k \in Keys : /\ items[k].state = "unread" /\ ~items[k].notified
                                 /\ items[k].quiet /\ k[1] \notin recent}
           seen == UNION {Behind(k, events) : k \in cand}
           none == {}
<1>1. /\ digest' = [at |-> "claim", cand |-> cand, user |-> none, seen |-> seen]
      /\ digests' = digests + 1
      /\ UNCHANGED <<ienv, prefs, msg, work, events, items, pushed, recent, mails, recountVars>>
  BY DEF DigestCandidates
<1>2. StreamInv' /\ CallbackInv' /\ BuzzInv'
  BY <1>1, FanOutKept
<1>3. ItemInv' /\ RecountInv'
  BY <1>1 DEF ItemInv, RecountInv, recountVars, Exists, Behind
<1>4. /\ cand \subseteq Keys /\ seen \subseteq events /\ none \subseteq Users
      /\ \A k \in cand : ~items[k].notified /\ items[k].state = "unread"
      /\ \A k \in cand : Behind(k, events) \subseteq seen
      /\ \A e \in seen : \E k \in cand : e \in Behind(k, events)
  BY DEF Behind
<1> HIDE DEF cand, seen, none
<1>5. /\ digest'.cand = cand /\ digest'.seen = seen /\ digest'.at = "claim"
      /\ digest' \in [at : {"idle", "claim", "send"}, cand : SUBSET Keys, seen : SUBSET events,
                   user : SUBSET Users]
  BY <1>1, <1>4
<1>6. ASSUME NEW e \in seen PROVE <<e[2], SubjectOf[e[1]]>> \in cand
  <2>1. PICK k \in cand : e \in Behind(k, events)
    BY <1>4
  <2>2. k = <<e[2], SubjectOf[e[1]]>>
    BY <1>4, <2>1 DEF Behind, Keys
  <2> QED
    BY <2>2
<1>7. DigestInv'
  <2>1. recent' \subseteq Users /\ digests' \in Nat
    BY <1>1 DEF DigestInv
  <2> QED
    BY <1>1, <1>5, <1>6, <2>1 DEF DigestInv
<1>8. ASSUME NEW a \in mails, NEW k \in cand, k[1] = a.user
      PROVE  \E e \in seen : e[2] = a.user /\ e \notin a.about
  <2>1. k \in Keys /\ ~items[k].notified /\ Exists(k) /\ Behind(k, events) \subseteq seen
    BY <1>4 DEF Exists
  <2>2. \A e \in Behind(k, events) : e[2] = a.user
    BY <1>8 DEF Behind
  <2>3. a.about \subseteq events
    BY DEF MailInv
  <2>4. CASE Behind(k, a.about) # {}
    <3>1. \E e \in Behind(k, events) : e \notin a.about
      BY <1>8, <2>1, <2>4, Zenon DEF MailInv
    <3> QED
      BY <2>1, <2>2, <3>1
  <2>5. CASE Behind(k, a.about) = {}
    <3>1. Behind(k, events) # {}
      BY <2>1 DEF ItemInv
    <3>2. PICK e \in Behind(k, events) : TRUE
      BY <3>1
    <3>3. e \notin a.about
      BY <2>5, <3>2 DEF Behind
    <3> QED
      BY <2>1, <2>2, <3>3
  <2> QED
    BY <2>4, <2>5
<1>9. MailInv'
  BY <1>1, <1>5, <1>8 DEF MailInv, Behind, NoDigestTwice
<1> QED
  BY <1>2, <1>3, <1>7, <1>9

\* A user's group is claimed.
LEMMA ClaimStep ==
    ASSUME InboxIInv, NEW u \in Users, ClaimDigest(u)
    PROVE  InboxIInv'
<1> USE DEF InboxIInv
<1>1. /\ digest.at = "claim" /\ \E k \in digest.cand : k[1] = u
      /\ items' = [k \in Keys |-> IF k \in digest.cand /\ k[1] = u
                                  THEN [items[k] EXCEPT !.notified = TRUE] ELSE items[k]]
      /\ recent' = recent \cup {u}
      /\ digest' = [digest EXCEPT !.at = "send", !.user = {u}]
      /\ UNCHANGED <<ienv, prefs, msg, work, events, pushed, mails, digests, recountVars>>
  BY DEF ClaimDigest
<1>2. StreamInv' /\ CallbackInv' /\ BuzzInv'
  BY <1>1, FanOutKept
<1>3. ASSUME NEW k \in Keys
      PROVE  /\ items'[k] \in Item
             /\ items'[k].state # "none" <=> items[k].state # "none"
             /\ items'[k].count = items[k].count /\ items'[k].top = items[k].top
             /\ items'[k].unread <= items'[k].count
             /\ items[k].notified => items'[k].notified
             /\ k \in digest.cand /\ k[1] = u => items'[k].notified
  <2>1. items[k] \in Item /\ items[k].unread <= items[k].count
    BY DEF ItemInv
  <2>2. CASE k \in digest.cand /\ k[1] = u
    <3>1. items'[k] = [items[k] EXCEPT !.notified = TRUE]
      BY <1>1, <2>2
    <3>2. ASSUME NEW b \in BOOLEAN
          PROVE  LET i == [items[k] EXCEPT !.notified = b]
                 IN  /\ i \in Item /\ i.state = items[k].state /\ i.count = items[k].count
                     /\ i.top = items[k].top /\ i.unread = items[k].unread /\ i.notified = b
      BY <2>1 DEF Item
    <3>3. TRUE \in BOOLEAN
      OBVIOUS
    <3>4. LET i == [items[k] EXCEPT !.notified = TRUE]
          IN  /\ i \in Item /\ i.state = items[k].state /\ i.count = items[k].count
              /\ i.top = items[k].top /\ i.unread = items[k].unread /\ i.notified = TRUE
      BY <3>2, <3>3
    <3> QED
      BY <2>1, <3>1, <3>4
  <2>3. CASE ~(k \in digest.cand /\ k[1] = u)
    <3>1. items'[k] = items[k]
      BY <1>1, <2>3
    <3> QED
      BY <2>1, <2>3, <3>1
  <2> QED
    BY <2>2, <2>3
<1>4. items' \in [Keys -> Item]
  BY <1>1, <1>3
<1>5. ItemInv' /\ \A k \in Keys : Exists(k)' <=> Exists(k)
  BY <1>1, <1>3, <1>4, ItemsTouched
<1>6. RecountInv'
  BY <1>1, <1>5 DEF RecountInv, recountVars
<1>7. /\ digest'.cand = digest.cand /\ digest'.seen = digest.seen /\ digest'.user = {u}
      /\ digest' \in [at : {"idle", "claim", "send"}, cand : SUBSET Keys, seen : SUBSET events,
                   user : SUBSET Users]
  <2> DEFINE one == {u}
  <2>1. one \subseteq Users /\ digest' = [digest EXCEPT !.at = "send", !.user = one]
    BY <1>1
  <2> HIDE DEF one
  <2>2. /\ digest'.cand = digest.cand /\ digest'.seen = digest.seen /\ digest'.user = one
        /\ digest' \in [at : {"idle", "claim", "send"}, cand : SUBSET Keys, seen : SUBSET events,
                     user : SUBSET Users]
    BY <2>1 DEF DigestInv
  <2> QED
    BY <2>2 DEF one
<1>8. DigestInv'
  <2>1. ASSUME NEW k \in digest.cand, k[1] \in {u} PROVE items'[k].notified
    <3>1. k \in Keys
      BY DEF DigestInv
    <3> QED
      BY <1>3, <2>1, <3>1
  <2>2. recent' \subseteq Users /\ digests' \in Nat
    BY <1>1 DEF DigestInv
  <2>3. \A e \in digest.seen, k \in digest.cand :
            k[1] = e[2] => <<e[2], SubjectOf[e[1]]>> \in digest.cand
    BY DEF DigestInv
  <2> QED
    BY <1>1, <1>7, <2>1, <2>2, <2>3 DEF DigestInv
<1>9. MailInv'
  <2>1. ASSUME NEW a \in mails, NEW k \in Keys, k[1] = a.user, Behind(k, a.about) # {},
               ~items'[k].notified
        PROVE  \E e \in Behind(k, events) : e \notin a.about
    BY <1>3, <2>1, Zenon DEF MailInv
  <2> QED
    BY <1>1, <1>7, <2>1 DEF MailInv, Behind, NoDigestTwice
<1> QED
  BY <1>2, <1>5, <1>6, <1>8, <1>9

\* A digest is queued, lost, skipped or stopped.
LEMMA SendStep ==
    ASSUME InboxIInv
    PROVE  /\ SendDigest \/ DigestLost \/ DigestStops => InboxIInv'
           /\ \A u \in Users : ClaimFails(u) => InboxIInv'
<1> USE DEF InboxIInv
<1>0. ASSUME UNCHANGED <<ienv, prefs, msg, work, events, items, pushed, recountVars>>
      PROVE  StreamInv' /\ CallbackInv' /\ BuzzInv' /\ ItemInv' /\ RecountInv'
  <2>1. StreamInv' /\ CallbackInv' /\ BuzzInv'
    BY <1>0, FanOutKept
  <2>2. ItemInv' /\ RecountInv'
    BY <1>0 DEF ItemInv, RecountInv, recountVars, Exists, Behind
  <2> QED
    BY <2>1, <2>2
<1>1. ASSUME NEW u \in Users, NextGroup(u),
             UNCHANGED <<ienv, prefs, msg, work, events, items, pushed, recent, mails, digests,
                         recountVars>>
      PROVE  InboxIInv'
  <2>1. /\ DigestInv' /\ digest'.cand \subseteq digest.cand
        /\ \A k \in digest'.cand : k[1] # u /\ digest'.seen = digest.seen
    BY <1>1, NextGroupFacts
  <2>2. MailInv'
    BY <1>1, <2>1, MailsKept
  <2> QED
    BY <1>0, <1>1, <2>1, <2>2
<1>2. CASE SendDigest
  <2>1. digest.user \subseteq Users /\ digest.at = "send" /\ digest.cand \subseteq Keys
    BY <1>2 DEF DigestInv, SendDigest
  <2>2. PICK u \in digest.user :
            /\ NextGroup(u)
            /\ mails' = IF prefs[u].email
                        THEN mails \cup {[n |-> digests, user |-> u,
                                          about |-> {e \in digest.seen : e[2] = u}]}
                        ELSE mails
    BY <1>2 DEF SendDigest
  <2>3. UNCHANGED <<ienv, prefs, msg, work, events, items, pushed, recent, digests, recountVars>>
    BY <1>2 DEF SendDigest
  <2> DEFINE about == {e \in digest.seen : e[2] = u}
             mail == [n |-> digests, user |-> u, about |-> about]
  <2>4. CASE UNCHANGED mails
    BY <1>1, <2>1, <2>2, <2>3, <2>4
  <2>5. CASE mails' = mails \cup {mail}
    <3>1. about \subseteq events /\ about \subseteq digest.seen /\ (\A e \in about : e[2] = u)
          /\ digests \in Nat /\ u \in Users
      BY <2>1 DEF DigestInv
    <3>2. \E k \in digest.cand : k[1] = u
      BY <2>1 DEF DigestInv
    <3>3. \A a \in mails : a.user = u => \E e \in about : e \notin a.about
      BY <3>2 DEF MailInv
    <3> HIDE DEF about
    <3>4. mail.n = digests /\ mail.user = u /\ mail.about = about
          /\ mail \in [n : Nat, user : Users, about : SUBSET events]
      BY <3>1
    <3> HIDE DEF mail
    <3>5. /\ DigestInv' /\ digest'.cand \subseteq digest.cand
          /\ \A k \in digest'.cand : k[1] # u /\ digest'.seen = digest.seen
      BY <2>2, <2>3, <3>1, NextGroupFacts
    <3>6. ASSUME NEW a \in mails', NEW k \in Keys, k[1] = a.user, Behind(k, a.about) # {},
                 ~items[k].notified
          PROVE  \E e \in Behind(k, events) : e \notin a.about
      <4>1. CASE a \in mails
        BY <3>6, <4>1, Zenon DEF MailInv
      <4>2. CASE a = mail
        <5>1. PICK e \in about : e[2] = k[1] /\ SubjectOf[e[1]] = k[2]
          BY <3>4, <3>6, <4>2 DEF Behind
        <5>2. k = <<e[2], SubjectOf[e[1]]>>
          BY <5>1 DEF Keys
        <5>3. e \in digest.seen /\ e[2] = u
          BY <3>1
        <5>4. k \in digest.cand /\ k[1] \in digest.user
          BY <3>2, <5>2, <5>1, <5>3 DEF DigestInv
        <5>5. PICK x \in Behind(k, events) : x \notin digest.seen
          BY <2>1, <3>6, <5>4 DEF DigestInv
        <5>6. x \notin about
          BY <3>1, <5>5
        <5> QED
          BY <3>4, <4>2, <5>6
      <4> QED
        BY <2>5, <4>1, <4>2
    <3>7. ASSUME NEW a \in mails', NEW k \in digest'.cand, k[1] = a.user
          PROVE  \E e \in digest'.seen : e[2] = a.user /\ e \notin a.about
      <4>1. a \in mails /\ k \in digest.cand /\ digest'.seen = digest.seen
        BY <2>5, <3>4, <3>5, <3>7
      <4> QED
        BY <3>7, <4>1 DEF MailInv
    <3>8. ASSUME NEW a \in mails', NEW b \in mails', a.user = b.user, a.about = b.about
          PROVE  a = b
      <4>1. CASE a \in mails /\ b \in mails
        BY <3>8, <4>1 DEF MailInv, NoDigestTwice
      <4>2. CASE a = mail /\ b = mail
        BY <4>2
      <4>3. CASE a \in mails /\ b = mail
        BY <3>3, <3>4, <3>8, <4>3
      <4>4. CASE a = mail /\ b \in mails
        BY <3>3, <3>4, <3>8, <4>4
      <4> QED
        BY <2>5, <4>1, <4>2, <4>3, <4>4
    <3>9. mails' \subseteq [n : Nat, user : Users, about : SUBSET events]
      BY <2>5, <3>4 DEF MailInv
    <3>10. MailInv'
      BY <2>3, <3>6, <3>7, <3>8, <3>9 DEF MailInv, Behind, NoDigestTwice
    <3> QED
      BY <1>0, <2>3, <3>5, <3>10
  <2> QED
    BY <2>2, <2>4, <2>5
<1>3. CASE DigestLost
  <2>1. digest.user \subseteq Users
    BY DEF DigestInv
  <2> QED
    BY <1>1, <1>3, <2>1 DEF DigestLost
<1>4. CASE DigestStops
  <2> DEFINE none == {}
  <2>1. /\ UNCHANGED <<ienv, prefs, msg, work, events, items, pushed, recent, mails, digests,
                       recountVars>>
        /\ digest' = [at |-> "idle", cand |-> none, seen |-> none, user |-> none]
        /\ \A k : k \notin none
    BY <1>4 DEF DigestStops
  <2> HIDE DEF none
  <2>2. digest'.at = "idle" /\ digest'.cand = none /\ digest'.seen = none
        /\ digest' \in [at : {"idle", "claim", "send"}, cand : SUBSET Keys, seen : SUBSET events,
                        user : SUBSET Users]
    BY <2>1
  <2>3. DigestInv'
    BY <2>1, <2>2 DEF DigestInv
  <2>4. MailInv'
    BY <2>1, <2>2, MailsKept
  <2> QED
    BY <1>0, <2>1, <2>3, <2>4
<1>5. ASSUME NEW u \in Users, ClaimFails(u) PROVE InboxIInv'
  BY <1>1, <1>5 DEF ClaimFails
<1> QED
  BY <1>2, <1>3, <1>4, <1>5

-----------------------------------------------------------------------------
(* The theorems.                                                           *)

LEMMA InboxInitInv == InboxInit => InboxIInv
<1> SUFFICES ASSUME InboxInit PROVE InboxIInv
  OBVIOUS
<1> USE DEF InboxInit
<1> DEFINE none == {}
<1>0. \A x : x \notin none
  OBVIOUS
<1>1. StreamInv
  <2>1. MaxDeliver \in Nat
    BY InboxAssumption DEF MaxDeliver
  <2> QED
    BY <2>1 DEF StreamInv, AckedMeansFiled
<1>2. CallbackInv
  <2>1. \A w \in Workers : work[w] \in Callback /\ work[w].at = "idle" /\ work[w].fresh = {}
    BY FreeFields
  <2>2. work \in [Workers -> Callback]
    BY <2>1
  <2> QED
    BY <2>1, <2>2 DEF CallbackInv
<1>3. BuzzInv
  <2>1. \A w \in Workers : work[w].at = "idle"
    BY FreeFields
  <2> QED
    BY <2>1 DEF BuzzInv, BuzzedOnce
<1>4. events = none /\ Cardinality(none) = 0 /\ IsFiniteSet(none) /\ none \subseteq Msgs \X Users
  BY FS_EmptySet
<1>5. \A k : Behind(k, none) = none
  BY DEF Behind
<1>6. NoItem \in Item /\ NoItem.state = "none" /\ NoItem.count = 0 /\ NoItem.unread = 0 /\ NoItem.top = 0
  <2>1. ASSUME NEW b \in BOOLEAN
        PROVE  LET i == [state |-> "none", top |-> 0, unread |-> 0, count |-> 0,
                         notified |-> b, quiet |-> b]
               IN  i \in Item /\ i.state = "none" /\ i.count = 0 /\ i.unread = 0 /\ i.top = 0
    BY DEF Item
  <2>2. FALSE \in BOOLEAN
    OBVIOUS
  <2> QED
    BY <2>1, <2>2 DEF NoItem
<1>7. \A k \in Keys : items[k] = NoItem
  OBVIOUS
<1>8. items \in [Keys -> Item]
  BY <1>6
<1>9. mails = none /\ recent = none /\ digests = 0
      /\ digest = [at |-> "idle", cand |-> none, seen |-> none, user |-> none]
      /\ recount = [at |-> "idle", seen |-> none, rows |-> none, ids |-> none]
  BY DEF NoRecount
<1> HIDE DEF NoItem, none
<1>10. ItemInv
  <2>1. ASSUME NEW k \in Keys
        PROVE  /\ Exists(k) => Behind(k, events) # {}
               /\ items[k].count = Cardinality(Behind(k, events))
               /\ items[k].unread <= items[k].count
               /\ \A e \in Behind(k, events) : items[k].top >= Rank[e[1]]
               /\ items[k].top = 0
    <3>1. Behind(k, events) = none
      BY <1>4, <1>5
    <3>2. items[k].state = "none" /\ items[k].count = 0 /\ items[k].unread = 0 /\ items[k].top = 0
      BY <1>6, <1>7
    <3> QED
      BY <1>0, <1>4, <3>1, <3>2 DEF Exists
  <2> QED
    BY <1>4, <1>8, <2>1 DEF ItemInv
<1> HIDE DEF InboxInit
<1>11. RecountInv
  BY <1>0, <1>9 DEF RecountInv
<1>12. DigestInv
  BY <1>0, <1>9 DEF DigestInv
<1>13. MailInv
  BY <1>0, <1>9 DEF MailInv, NoDigestTwice
<1> QED
  BY <1>1, <1>2, <1>3, <1>10, <1>11, <1>12, <1>13 DEF InboxIInv

LEMMA InboxInvImplies == InboxIInv => ItemsSound /\ ToldOnce
<1> SUFFICES ASSUME InboxIInv PROVE ItemsSound /\ ToldOnce
  OBVIOUS
<1> USE DEF InboxIInv
<1>1. InboxTypeOK
  <2>1. prefs \in [Users -> Prefs]
        /\ msg \in [Msgs -> [status : {"new", "queued", "done", "dropped"}, deliveries : 0..MaxDeliver]]
    BY DEF StreamInv
  <2>2. ASSUME NEW w \in Workers
        PROVE  /\ work[w].at \in {"idle", "insert", "upsert", "announce", "ack"}
               /\ work[w].fresh \subseteq work[w].wanted /\ work[w].wanted \subseteq Users
    BY DEF CallbackInv, Callback
  <2>3. events \subseteq Msgs \X Users /\ items \in [Keys -> Item]
    BY DEF ItemInv
  <2>4. recent \subseteq Users /\ digest.cand \subseteq Keys
    BY DEF DigestInv
  <2>5. recount.ids \subseteq recount.rows /\ recount.rows \subseteq Keys
    BY DEF RecountInv
  <2>6. items \in [Keys -> [state : ItemStates \cup {"none"}, top : Nat, unread : Nat, count : Nat,
                           notified : BOOLEAN, quiet : BOOLEAN]]
    BY <2>3 DEF Item
  <2> QED
    BY <2>1, <2>2, <2>3, <2>4, <2>5, <2>6, Zenon DEF InboxTypeOK
<1>2. CountsMatchEvents
  <2> SUFFICES ASSUME NEW k \in Keys
               PROVE  /\ items[k].count = Cardinality(Behind(k, events))
                      /\ items[k].unread <= items[k].count
                      /\ items[k].top = Max({0} \cup {Rank[e[1]] : e \in Behind(k, events)})
    BY DEF CountsMatchEvents
  <2> DEFINE ranks == {0} \cup {Rank[e[1]] : e \in Behind(k, events)}
             top == items[k].top
  <2>1. \A e \in Behind(k, events) : Rank[e[1]] \in Nat
    BY InboxAssumption DEF Behind, ItemInv
  <2>2. ranks \subseteq Nat
    BY <2>1
  <2>3. top \in Nat
    BY DEF ItemInv, Item
  <2>4. top \in ranks /\ \A y \in ranks : top >= y
    <3>1. /\ \A e \in Behind(k, events) : top >= Rank[e[1]]
          /\ top = 0 \/ \E e \in Behind(k, events) : top = Rank[e[1]]
      BY DEF ItemInv
    <3> QED
      BY <2>3, <3>1
  <2> HIDE DEF ranks, top
  <2>5. Max(ranks) = top
    <3>1. Max(ranks) \in ranks /\ \A y \in ranks : Max(ranks) >= y
      BY <2>4 DEF Max
    <3>2. Max(ranks) \in Nat /\ Max(ranks) >= top /\ top >= Max(ranks)
      BY <2>2, <2>4, <3>1
    <3> QED
      BY <2>3, <3>2
  <2> QED
    BY <2>5 DEF ItemInv, ranks, top
<1>3. AckedMeansFiled /\ BuzzedOnce /\ NoDigestTwice
  BY DEF StreamInv, BuzzInv, MailInv
<1> QED
  BY <1>1, <1>2, <1>3 DEF ItemsSound, ToldOnce

LEMMA InboxInductive == InboxIInv /\ [InboxNext]_ivars => InboxIInv'
<1> SUFFICES ASSUME InboxIInv, [InboxNext]_ivars PROVE InboxIInv'
  OBVIOUS
<1>1. CASE UNCHANGED ivars
  <2>1. UNCHANGED <<ienv, prefs, msg, work, events, items, pushed, digestVars, recountVars>>
    BY <1>1 DEF ivars, digestVars, recountVars
  <2> QED
    BY <2>1, FanOutKept, RowsKept DEF InboxIInv
<1>2. CASE InboxNext
  <2>1. ASSUME NEW m \in Msgs, Publish(m) \/ \E w \in Workers : Fetch(w, m) PROVE InboxIInv'
    BY <2>1, StreamStep
  <2>2. ASSUME NEW w \in Workers,
               \/ InsertEvents(w) \/ UpsertItems(w) \/ Announce(w)
               \/ Ack(w) \/ HandlerFails(w) \/ WorkerDies(w)
        PROVE  InboxIInv'
    BY <2>2, InsertStep, UpsertStep, AnnounceStep, EndStep
  <2>3. ASSUME NEW k \in Keys, GoesQuiet(k) \/ \E state \in ItemStates : SetState(k, state)
        PROVE  InboxIInv'
    BY <2>3, UserStep
  <2>4. ASSUME NEW u \in Users, NEW ss \in {Subjects} \cup {{s} : s \in Subjects}, MarkRead(u, ss)
        PROVE  InboxIInv'
    <3>1. ss = Subjects \/ \E s \in Subjects : ss = {s}
      OBVIOUS
    <3>2. ss \in SUBSET Subjects
      BY <3>1
    <3> QED
      BY <2>4, <3>2, UserStep
  <2>5. ASSUME NEW u \in Users, IntervalPasses(u) \/ ClaimDigest(u) \/ ClaimFails(u)
        PROVE  InboxIInv'
    BY <2>5, UserStep, ClaimStep, SendStep
  <2>6. CASE DigestCandidates \/ SendDigest \/ DigestLost \/ DigestStops
    BY <2>6, CandidatesStep, SendStep
  <2>7. CASE RecountStarts \/ RecountCompares \/ RecountRepairs
    BY <2>7, RecountStep
  <2> QED
    BY <1>2, <2>1, <2>2, <2>3, <2>4, <2>5, <2>6, <2>7 DEF InboxNext
<1> QED
  BY <1>1, <1>2

\* The counters, the highest kind and the unread number of every item are those of
\* the events filed for it, and an acknowledged event is filed for everyone who
\* wants it: Deliver, its redeliveries and the reconciler, in any interleaving.
THEOREM ItemsAlwaysSound == InboxSpec => []ItemsSound
<1>1. InboxIInv => ItemsSound
  BY InboxInvImplies
<1> QED
  BY <1>1, InboxInitInv, InboxInductive, PTL DEF InboxSpec

\* A recipient is buzzed once for an event, and no two digests of a user are about
\* the same events: the new recipients of Deliver, and claim-then-send.
THEOREM InboxTellsOnce == InboxSpec => []ToldOnce
<1>1. InboxIInv => ToldOnce
  BY InboxInvImplies
<1> QED
  BY <1>1, InboxInitInv, InboxInductive, PTL DEF InboxSpec

=============================================================================
