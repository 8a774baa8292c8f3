----------------------------- MODULE FileStore -----------------------------
(***************************************************************************)
(* The bytes of one workspace: objects in the bucket, the files and        *)
(* file_versions rows that name them, the quota counter that charges for   *)
(* them, the previews and the search documents derived from them.          *)
(*                                                                         *)
(* A request is a process with a program counter: the bucket, Postgres and *)
(* the message bus are three systems and no transaction spans two of them. *)
(* One database transaction is one step, except a refund and a recount:    *)
(* those read their sum under the statement's snapshot and apply it once   *)
(* the counter's row lock is theirs.  The collector, the thumbnailer and   *)
(* the indexer are the worker's.  Sizes are small numbers, keys and files  *)
(* are numbered in the order they are minted.                              *)
(***************************************************************************)
EXTENDS Integers, Sequences, FiniteSets, FiniteSetsExt, SequencesExt

CONSTANTS Requests,           \* requests in flight
          FileEnvironments,   \* initial rows, budgets of each operation
          MaxFiles, MaxKeys,  \* bounds on what is minted
          KeyBatch,           \* GCKeyBatch: keys a sweep lists
          Shards,             \* length of GCPrefixes: the workspace is in the first
          MaxDeliver          \* consumerMaxDeliver: deliveries of an event

VARIABLES fenv,      \* the environment, its budgets going down
          blobs,     \* blob keys present in the bucket
          thumbs,    \* keys whose preview object is present
          age,       \* age of each key's day: 0 today, 1, 2 = past cutoff and slack
          rows,      \* the files rows with their versions
          used,      \* workspace_storage.bytes_used
          limit,     \* workspaces.storage_quota_bytes, 0 for unlimited
          req,       \* the requests
          gc,        \* the collector
          painter,   \* the thumbnailer
          previews,  \* thumbnail requests in the stream
          bus,       \* file events in the stream
          seen,      \* message ids inside the stream's duplicate window
          docs,      \* files the search index answers for
          hist       \* what happened, for the properties

fvars == <<fenv, blobs, thumbs, age, rows, used, limit, req, gc, painter, previews, bus, seen, docs, hist>>

FileAssumption == {MaxFiles, MaxKeys, KeyBatch, Shards, MaxDeliver} \subseteq Nat \ {0}
ASSUME FileAssumption

-----------------------------------------------------------------------------
(* Rows.  head is files.storage_key, thumb its preview's key (0 is NULL),  *)
(* vers the file_versions rows, owners the ownership columns that are set. *)

Idle == [pc |-> "idle", op |-> "none", f |-> 0, key |-> 0, size |-> 0, owed |-> 0, ids |-> {}, keys |-> {}, thumbs |-> {}]
Rows == DOMAIN rows
Live == {f \in Rows : rows[f].live}
NewRow(owner, k, versions) ==
    [live |-> TRUE, owners |-> owner, trashed |-> 0, head |-> k, thumb |-> 0, vers |-> versions,
     aged |-> FALSE]
Bytes(f) == MapThenSumSet(LAMBDA n : rows[f].vers[n].size, DOMAIN rows[f].vers)
Minted == DOMAIN age

\* marked: files a user or the collector has begun to delete; unsure: files whose
\* last event was not the last word on their row, or did not arrive at once;
\* drift: the counter lost touch with the rows now, in the past, or never;
\* lowered: the cap went below what was stored.
NoHistory == [marked |-> {}, unsure |-> {}, drift |-> "never", lowered |-> FALSE]
Mark(ids) == hist' = [hist EXCEPT !.marked = @ \cup ids]
Doubt(ids) == hist' = [hist EXCEPT !.unsure = @ \cup ids]

\* The check before a version changes; the transaction does not make it again.
Versionable(f) == f \in Live /\ rows[f].trashed = 0

\* SUM(file_versions.size_bytes) over the files of ids that still have a row.
BytesOf(ids) == MapThenSumSet(Bytes, ids \cap Live)

\* INSERT ... ON CONFLICT DO UPDATE, both arms under the same predicate.
ChargeTx(size) == limit = 0 \/ used + size <= limit
RefundTx(owed) == Max({0, used - owed})

\* Whose row names a blob: the head or any version.
Keys(f) == {rows[f].head} \cup {rows[f].vers[n].key : n \in DOMAIN rows[f].vers}
StorageKeysPresent == UNION {Keys(f) : f \in Live}
ThumbKeysPresent == {rows[f].thumb : f \in Live} \ {0}

\* A file nothing owns, past the grace period.
ListOrphans == {f \in Live : rows[f].owners = {} /\ rows[f].trashed = 0 /\ rows[f].aged}
\* A fault: the age an object must have is past what the sweep sees.
OlderThanNever(k) == age[k] > 2
OlderThan(k) == age[k] >= 2

Spend(op) == fenv.ops[op] > 0 /\ fenv' = [fenv EXCEPT !.ops[op] = @ - 1]

\* The stream keeps one copy of each message id inside its window.  An upload
\* or an update carries its own updated_at and is never a copy; a removal is
\* told apart by the revision its caller supplies.
PublishFile(f) == bus' = Append(bus, [action |-> "stored", f |-> f, tries |-> 0])
PublishDeletions(ids, revision) ==
    LET new == {f \in ids : <<"deleted", f, revision>> \notin seen}
    IN  /\ bus' = bus \o [i \in 1..Cardinality(new) |-> [action |-> "deleted", f |-> SetToSeq(new)[i], tries |-> 0]]
        /\ seen' = seen \cup {<<"deleted", f, revision>> : f \in new}
RequestThumbnail(f, k) ==
    IF <<"thumb", f, k>> \in seen THEN UNCHANGED <<previews, seen>>
    ELSE /\ previews' = previews \cup {[f |-> f, key |-> k, tries |-> 0]}
         /\ seen' = seen \cup {<<"thumb", f, k>>}

\* A transaction has summed version rows of these files and has yet to move
\* the counter; a recount has summed them all.
SumPending(q, files) == req[q].pc = "recompute" \/ (req[q].pc = "erase" /\ req[q].ids \cap files # {})
Drifts(disturbed) == hist' = IF disturbed THEN [hist EXCEPT !.drift = "now"] ELSE hist
CountedRows(files, self) ==
    Drifts((\E q \in Requests \ {self} : SumPending(q, files)) \/ (gc.pc = "erase" /\ gc.ids \cap files # {}))

-----------------------------------------------------------------------------
(* Putting bytes in.                                                       *)

\* Object first: the chat upload, the Drive upload and an inbound mail's
\* attachment store the bytes before any row names them.
UploadPut(r, op, size) ==
    /\ req[r].pc = "idle" /\ Spend(op)
    /\ Cardinality(Minted) < MaxKeys /\ Len(rows) < MaxFiles
    /\ LET k == Cardinality(Minted) + 1
       IN  /\ blobs' = blobs \cup {k}
           /\ age' = [x \in Minted \cup {k} |-> IF x = k THEN 0 ELSE age[x]]
           /\ req' = [req EXCEPT ![r] = [Idle EXCEPT !.pc = "insert", !.op = op, !.key = k, !.size = size]]
    /\ UNCHANGED <<thumbs, rows, used, limit, gc, painter, previews, bus, seen, docs, hist>>

\* Charge, row and version row in one commit.
InsertTx(r) ==
    /\ req[r].pc = "insert" /\ req[r].op # "mail"
    /\ ChargeTx(req[r].size)
    /\ rows' = Append(rows, NewRow(IF req[r].op = "drive" THEN {"folder"} ELSE {}, req[r].key,
                                   <<[key |-> req[r].key, size |-> req[r].size]>>))
    /\ used' = used + req[r].size
    /\ req' = [req EXCEPT ![r].pc = "publish", ![r].f = Len(rows) + 1]
    /\ CountedRows({}, r)
    /\ UNCHANGED <<fenv, blobs, thumbs, age, limit, gc, painter, previews, bus, seen, docs>>

\* An attachment's row is neither charged nor given a version row; a refused
\* insert leaves its object for the sweep.
StoreAttachment(r) ==
    /\ req[r].pc = "insert" /\ req[r].op = "mail"
    /\ \/ rows' = Append(rows, NewRow({"mail"}, req[r].key, <<>>)) /\ fenv' = fenv
       \/ Spend("fault") /\ rows' = rows
    /\ req' = [req EXCEPT ![r] = Idle]
    /\ UNCHANGED <<blobs, thumbs, age, used, limit, gc, painter, previews, bus, seen, docs, hist>>

\* The quota or the database refuses the rows.
RefusedTx(r) ==
    /\ \/ /\ req[r].pc = "insert" /\ req[r].op # "mail"
          /\ ~ChargeTx(req[r].size) /\ fenv' = fenv
       \/ req[r].pc \in {"insert", "replace"} /\ req[r].op # "mail" /\ Spend("fault")
       \/ req[r].pc = "replace" /\ fenv' = fenv
          /\ (req[r].f \notin Live \/ ~ChargeTx(req[r].size))
    /\ req' = [req EXCEPT ![r].pc = "undo"]
    /\ UNCHANGED <<blobs, thumbs, age, rows, used, limit, gc, painter, previews, bus, seen, docs, hist>>

\* A failed transaction takes its object with it, when the bucket answers.
UndoPut(r) ==
    /\ req[r].pc = "undo"
    /\ \/ blobs' = blobs \ {req[r].key} /\ fenv' = fenv
       \/ Spend("fault") /\ blobs' = blobs
    /\ req' = [req EXCEPT ![r] = Idle]
    /\ UNCHANGED <<thumbs, age, rows, used, limit, gc, painter, previews, bus, seen, docs, hist>>

\* Post-commit and best effort: the file event, then the preview request.  A
\* publish that fails is only logged.
PublishStored(r) ==
    /\ req[r].pc = "publish"
    /\ \/ /\ PublishFile(req[r].f) /\ fenv' = fenv
          /\ IF req[r].op \in {"chat", "untrash"} THEN UNCHANGED <<previews, seen>>
             ELSE RequestThumbnail(req[r].f, req[r].key)
          /\ Doubt(IF Versionable(req[r].f) THEN {} ELSE {req[r].f})
       \/ Spend("fault") /\ Doubt({req[r].f}) /\ UNCHANGED <<bus, seen, previews>>
    /\ req' = [req EXCEPT ![r] = Idle]
    /\ UNCHANGED <<blobs, thumbs, age, rows, used, limit, gc, painter, docs>>

\* The process dies between two steps: nothing it did is undone.
CrashRequest(r) ==
    /\ req[r].pc # "idle" /\ Spend("crash")
    /\ req' = [req EXCEPT ![r] = Idle]
    /\ Doubt(IF req[r].pc \in {"publish", "unindex", "objects"} THEN {req[r].f} \cup req[r].ids ELSE {})
    /\ UNCHANGED <<blobs, thumbs, age, rows, used, limit, gc, painter, previews, bus, seen, docs>>

-----------------------------------------------------------------------------
(* Versions.                                                               *)

\* A new version is a new object under a new key.
ReplacePut(r, f, size) ==
    /\ req[r].pc = "idle" /\ Spend("replace")
    /\ Versionable(f) /\ Cardinality(Minted) < MaxKeys
    /\ LET k == Cardinality(Minted) + 1
       IN  /\ blobs' = blobs \cup {k}
           /\ age' = [x \in Minted \cup {k} |-> IF x = k THEN 0 ELSE age[x]]
           /\ req' = [req EXCEPT ![r] = [Idle EXCEPT !.pc = "replace", !.op = "replace", !.f = f,
                                                     !.key = k, !.size = size]]
    /\ UNCHANGED <<thumbs, rows, used, limit, gc, painter, previews, bus, seen, docs, hist>>

\* A replacement charged as if it overwrote the old bytes.
ReplaceContentUncharged(r) ==
    /\ req[r].pc = "replace"
    /\ req[r].f \in Live
    /\ rows' = [rows EXCEPT ![req[r].f].vers = Append(@, [key |-> req[r].key, size |-> req[r].size]),
                            ![req[r].f].head = req[r].key, ![req[r].f].thumb = 0]
    /\ req' = [req EXCEPT ![r].pc = "publish"]
    /\ CountedRows({req[r].f}, r)
    /\ UNCHANGED <<fenv, blobs, thumbs, age, used, limit, gc, painter, previews, bus, seen, docs>>

\* FOR UPDATE on the files row, MAX(version) + 1, charge, and the head moves;
\* the preview of the old bytes goes.
ReplaceContent(r) ==
    /\ req[r].pc = "replace"
    /\ req[r].f \in Live /\ ChargeTx(req[r].size)
    /\ rows' = [rows EXCEPT ![req[r].f].vers = Append(@, [key |-> req[r].key, size |-> req[r].size]),
                            ![req[r].f].head = req[r].key, ![req[r].f].thumb = 0]
    /\ used' = used + req[r].size
    /\ req' = [req EXCEPT ![r].pc = "publish"]
    /\ CountedRows({req[r].f}, r)
    /\ UNCHANGED <<fenv, blobs, thumbs, age, limit, gc, painter, previews, bus, seen, docs>>

RestoreBegin(r, f, n) ==
    /\ req[r].pc = "idle" /\ Spend("restore") /\ Versionable(f) /\ n \in DOMAIN rows[f].vers
    /\ req' = [req EXCEPT ![r] = [Idle EXCEPT !.pc = "rollback", !.op = "restore", !.f = f, !.size = n]]
    /\ UNCHANGED <<blobs, thumbs, age, rows, used, limit, gc, painter, previews, bus, seen, docs, hist>>
\* The head pointer moves back; no version row, no object, no charge.  A file
\* that is gone by then is a 404; one that was trashed is not looked at.
RestoreVersion(r) ==
    /\ req[r].pc = "rollback"
    /\ IF req[r].f \notin Live
       THEN rows' = rows /\ req' = [req EXCEPT ![r] = Idle]
       ELSE LET k == rows[req[r].f].vers[req[r].size].key
            IN  /\ rows' = [rows EXCEPT ![req[r].f].head = k, ![req[r].f].thumb = 0]
                /\ req' = [req EXCEPT ![r].pc = "publish", ![r].key = k]
    /\ UNCHANGED <<fenv, blobs, thumbs, age, used, limit, gc, painter, previews, bus, seen, docs, hist>>

\* What a download of version n, or of the head, is served from.
VersionContent(f, n) == rows[f].vers[n].key \in blobs
Download(f) == rows[f].head \in blobs

-----------------------------------------------------------------------------
(* Owners.  A sent message or a reply claims a file; deleting the message  *)
(* row sets its column to NULL.                                            *)

ClaimFile(f) ==
    /\ Spend("attach") /\ f \in Live /\ "message" \notin rows[f].owners
    /\ rows' = [rows EXCEPT ![f].owners = @ \cup {"message"}]
    /\ UNCHANGED <<blobs, thumbs, age, used, limit, req, gc, painter, previews, bus, seen, docs, hist>>

AttachToOutbound(f) ==
    /\ Spend("reply") /\ f \in Live /\ "mail" \notin rows[f].owners
    /\ rows' = [rows EXCEPT ![f].owners = @ \cup {"mail"}]
    /\ UNCHANGED <<blobs, thumbs, age, used, limit, req, gc, painter, previews, bus, seen, docs, hist>>

ReleaseFile(f) ==
    /\ Spend("detach") /\ f \in Live /\ "message" \in rows[f].owners
    /\ rows' = [rows EXCEPT ![f].owners = @ \ {"message"}]
    /\ UNCHANGED <<blobs, thumbs, age, used, limit, req, gc, painter, previews, bus, seen, docs, hist>>

\* trashed_at is the removal's revision: it differs each time.
TrashedAt == fenv.ops["trash"] + 1
TrashRow(r, f) ==
    /\ req[r].pc = "idle" /\ Versionable(f) /\ "folder" \in rows[f].owners /\ Spend("trash")
    /\ rows' = [rows EXCEPT ![f].trashed = TrashedAt]
    /\ req' = [req EXCEPT ![r] = [Idle EXCEPT !.pc = "unindex", !.ids = {f}, !.key = TrashedAt]]
    /\ UNCHANGED <<blobs, thumbs, age, used, limit, gc, painter, previews, bus, seen, docs, hist>>

RestoreRow(r, f) ==
    /\ req[r].pc = "idle" /\ f \in Live /\ rows[f].trashed # 0 /\ Spend("untrash")
    /\ rows' = [rows EXCEPT ![f].trashed = 0]
    /\ req' = [req EXCEPT ![r] = [Idle EXCEPT !.pc = "publish", !.op = "untrash", !.f = f, !.key = rows[f].head]]
    /\ UNCHANGED <<blobs, thumbs, age, used, limit, gc, painter, previews, bus, seen, docs, hist>>

\* A removal's event; a publish that fails is only logged.
PublishFileDeletions(r) ==
    /\ req[r].pc = "unindex"
    /\ \/ /\ PublishDeletions(req[r].ids, req[r].key) /\ fenv' = fenv
          /\ Doubt({f \in req[r].ids : Versionable(f)})
       \/ Spend("fault") /\ Doubt(req[r].ids) /\ UNCHANGED <<bus, seen>>
    /\ req' = [req EXCEPT ![r] = Idle]
    /\ UNCHANGED <<blobs, thumbs, age, rows, used, limit, gc, painter, previews, docs>>

-----------------------------------------------------------------------------
(* Taking bytes out.                                                       *)

\* The chat delete: object first, so that a failure leaves the row to retry.
DeleteObject(r, f) ==
    /\ req[r].pc = "idle" /\ Spend("delete") /\ f \in Live
    /\ blobs' = blobs \ {rows[f].head}
    /\ req' = [req EXCEPT ![r] = [Idle EXCEPT !.pc = "refund", !.op = "delete", !.f = f, !.ids = {f}]]
    /\ Mark({f})
    /\ UNCHANGED <<thumbs, age, rows, used, limit, gc, painter, previews, bus, seen, docs>>

\* The purge: rows first, because the row is what a user might get back.
PurgeList(r) ==
    /\ req[r].pc = "idle" /\ Spend("purge")
    /\ LET ids == {f \in Live : rows[f].trashed # 0}
       IN  /\ ids # {}
           /\ req' = [req EXCEPT ![r] = [Idle EXCEPT !.pc = "refund", !.op = "purge", !.ids = ids,
                                                     !.keys = UNION {Keys(f) : f \in ids},
                                                     !.thumbs = {rows[f].thumb : f \in ids} \ {0}]]
    /\ UNCHANGED <<blobs, thumbs, age, rows, used, limit, gc, painter, previews, bus, seen, docs, hist>>

\* UPDATE workspace_storage ... FROM (SELECT SUM ...): the sum is the
\* statement's snapshot, whatever the counter's row does meanwhile.
RefundForFilesTx(r) ==
    /\ req[r].pc = "refund"
    /\ req' = [req EXCEPT ![r].owed = BytesOf(req[r].ids), ![r].pc = "erase"]
    /\ UNCHANGED <<fenv, blobs, thumbs, age, rows, used, limit, gc, painter, previews, bus, seen, docs, hist>>

\* The counter moves and the rows go, versions by cascade, in one commit.  A
\* delete that finds no row left still commits its refund.
DeleteRows(r) ==
    /\ req[r].pc = "erase"
    /\ used' = RefundTx(req[r].owed)
    /\ rows' = [f \in Rows |-> [rows[f] EXCEPT !.live = @ /\ f \notin req[r].ids]]
    /\ req' = [req EXCEPT ![r] =
                 CASE req[r].op = "purge" -> [@ EXCEPT !.pc = "objects"]
                   [] req[r].op = "delete" /\ req[r].f \in Live -> [@ EXCEPT !.pc = "unindex", !.key = 0]
                   [] OTHER -> Idle]
    /\ CountedRows(req[r].ids, r)
    /\ UNCHANGED <<fenv, blobs, thumbs, age, limit, gc, painter, previews, bus, seen, docs>>

\* Every object the listing named, the head's preview among them; one that
\* cannot be deleted is counted and left.
PurgeObjects(r) ==
    /\ req[r].pc = "objects"
    /\ \E kept \in SUBSET req[r].keys, keptThumbs \in SUBSET req[r].thumbs :
          /\ IF kept \cup keptThumbs = {} THEN fenv' = fenv ELSE Spend("fault")
          /\ blobs' = blobs \ (req[r].keys \ kept) /\ thumbs' = thumbs \ (req[r].thumbs \ keptThumbs)
    /\ req' = [req EXCEPT ![r] = [Idle EXCEPT !.pc = "unindex", !.ids = req[r].ids, !.key = 0]]
    /\ UNCHANGED <<age, rows, used, limit, gc, painter, previews, bus, seen, docs, hist>>

\* The drift job: the truth is the statement's snapshot as well.
RecomputeRead(r) ==
    /\ req[r].pc = "idle" /\ Spend("recompute")
    /\ req' = [req EXCEPT ![r] = [Idle EXCEPT !.pc = "recompute", !.owed = BytesOf(Live)]]
    /\ UNCHANGED <<blobs, thumbs, age, rows, used, limit, gc, painter, previews, bus, seen, docs, hist>>
\* No other transaction has summed rows and not moved the counter yet.
Unsummed(self) == gc.pc # "erase" /\ \A q \in Requests \ {self} : req[q].pc \notin {"erase", "recompute"}
Recompute(r) ==
    /\ req[r].pc = "recompute"
    /\ used' = req[r].owed
    /\ req' = [req EXCEPT ![r] = Idle]
    /\ hist' = IF hist.drift = "now" /\ req[r].owed = BytesOf(Live) /\ Unsummed(r)
               THEN [hist EXCEPT !.drift = "past"] ELSE hist
    /\ UNCHANGED <<fenv, blobs, thumbs, age, rows, limit, gc, painter, previews, bus, seen, docs>>

\* The cap may go below what is stored already.
SetQuota(bytes) ==
    /\ Spend("quota") /\ limit' = bytes
    /\ hist' = [hist EXCEPT !.lowered = @ \/ (bytes # 0 /\ bytes < used)]
    /\ UNCHANGED <<blobs, thumbs, age, rows, used, req, gc, painter, previews, bus, seen, docs>>

-----------------------------------------------------------------------------
(* The collector, one replica at a time under the advisory lock.           *)

CollectorIdle == [pc |-> "idle", ids |-> {}, owed |-> 0, keys |-> {}, thumbs |-> {}, shard |-> 0]
Collector(pc) == [CollectorIdle EXCEPT !.pc = pc, !.shard = gc.shard]

\* Rows nothing owns: every object they name is deleted, and a row one of
\* whose objects could not be deleted stays for the next run.
CollectOrphans ==
    /\ gc.pc = "idle" /\ ListOrphans # {}
    /\ \E failed \in SUBSET ListOrphans : \E half \in SUBSET failed :
         /\ IF failed = {} THEN fenv' = fenv ELSE Spend("fault")
         /\ LET ids == ListOrphans \ failed
            IN  /\ blobs' = blobs \ {rows[f].head : f \in ids \cup half}
                /\ thumbs' = thumbs \ {rows[f].thumb : f \in ids}
                /\ gc' = [Collector("refund") EXCEPT !.ids = ids]
    /\ Mark(ListOrphans)
    /\ UNCHANGED <<age, rows, used, limit, req, painter, previews, bus, seen, docs>>
\* A run that finds no rows goes on to the bucket (one over an empty bucket only moves the
\* cursor, and is left out).
NoOrphans ==
    /\ gc.pc = "idle" /\ ListOrphans = {} /\ blobs \cup thumbs # {}
    /\ gc' = Collector("sweep")
    /\ UNCHANGED <<fenv, blobs, thumbs, age, rows, used, limit, req, painter, previews, bus, seen, docs, hist>>

CollectRefund ==
    /\ gc.pc = "refund"
    /\ gc' = [gc EXCEPT !.pc = "erase", !.owed = BytesOf(gc.ids)]
    /\ UNCHANGED <<fenv, blobs, thumbs, age, rows, used, limit, req, painter, previews, bus, seen, docs, hist>>

DeleteByIDs ==
    /\ gc.pc = "erase"
    /\ used' = RefundTx(gc.owed)
    /\ rows' = [f \in Rows |-> [rows[f] EXCEPT !.live = @ /\ f \notin gc.ids]]
    /\ gc' = Collector("sweep")
    /\ Drifts(\E q \in Requests : SumPending(q, gc.ids))
    /\ UNCHANGED <<fenv, blobs, thumbs, age, limit, req, painter, previews, bus, seen, docs>>

\* A listing has no continuation: the first KeyBatch keys of its prefix.  Keys
\* sort by day, and a preview right behind the object it was drawn from.
ListedBlobs ==
    {k \in blobs : Cardinality({j \in blobs : j < k}) + Cardinality({j \in thumbs : j < k}) < KeyBatch}
ListedThumbs ==
    {k \in thumbs : Cardinality({j \in blobs : j <= k}) + Cardinality({j \in thumbs : j < k}) < KeyBatch}

\* One prefix per run.  Of the keys listed, the ones that are old enough and
\* that no table names.
ListUnreferenced ==
    /\ gc.pc = "sweep"
    /\ gc' = [Collector("delete") EXCEPT
                !.shard = (@ + 1) % Shards,
                !.keys = IF gc.shard = 0 THEN {k \in ListedBlobs : OlderThan(k)} \ StorageKeysPresent ELSE {},
                !.thumbs = IF gc.shard = 0 THEN {k \in ListedThumbs : OlderThan(k)} \ ThumbKeysPresent ELSE {}]
    /\ UNCHANGED <<fenv, blobs, thumbs, age, rows, used, limit, req, painter, previews, bus, seen, docs, hist>>
\* An object that cannot be deleted is counted and left for another run.
SweepObjects ==
    /\ gc.pc = "delete"
    /\ \E kept \in SUBSET gc.keys, keptThumbs \in SUBSET gc.thumbs :
          /\ IF kept \cup keptThumbs = {} THEN fenv' = fenv ELSE Spend("fault")
          /\ blobs' = blobs \ (gc.keys \ kept) /\ thumbs' = thumbs \ (gc.thumbs \ keptThumbs)
    /\ gc' = Collector("idle")
    /\ UNCHANGED <<age, rows, used, limit, req, painter, previews, bus, seen, docs, hist>>

\* The cursor is the process's own and starts again with it.
CrashCollector ==
    /\ gc.pc # "idle" /\ Spend("crash") /\ gc' = CollectorIdle
    /\ UNCHANGED <<blobs, thumbs, age, rows, used, limit, req, painter, previews, bus, seen, docs, hist>>

-----------------------------------------------------------------------------
(* The thumbnailer: object before column, and the column only while the    *)
(* bytes it was drawn from are the head.                                   *)

PainterIdle == [pc |-> "idle", f |-> 0, key |-> 0, tries |-> 0]

DrawPreview(m) ==
    /\ painter.pc = "idle" /\ m \in previews
    /\ previews' = previews \ {m}
    /\ IF m.key \in blobs
       THEN /\ thumbs' = thumbs \cup {m.key}
            /\ painter' = [pc |-> "stamp", f |-> m.f, key |-> m.key, tries |-> m.tries]
       ELSE UNCHANGED <<thumbs, painter>>
    /\ UNCHANGED <<fenv, blobs, age, rows, used, limit, req, gc, bus, seen, docs, hist>>

StampGuard(f, k) == f \in Live /\ rows[f].head = k /\ rows[f].trashed = 0
StampPreview ==
    /\ painter.pc = "stamp"
    /\ IF StampGuard(painter.f, painter.key)
       THEN /\ rows' = [rows EXCEPT ![painter.f].thumb = painter.key]
            /\ painter' = PainterIdle
       ELSE painter' = [painter EXCEPT !.pc = "discard"] /\ rows' = rows
    /\ UNCHANGED <<fenv, blobs, thumbs, age, used, limit, req, gc, previews, bus, seen, docs, hist>>
DiscardPreview ==
    /\ painter.pc = "discard"
    /\ thumbs' = thumbs \ {painter.key}
    /\ painter' = PainterIdle
    /\ UNCHANGED <<fenv, blobs, age, rows, used, limit, req, gc, previews, bus, seen, docs, hist>>

\* An error after the fetch: the message is nacked and comes back, unless
\* this was its last delivery.
NakPreview ==
    /\ painter.pc = "stamp" /\ Spend("fault")
    /\ previews' = IF painter.tries + 1 < MaxDeliver
                   THEN previews \cup {[f |-> painter.f, key |-> painter.key, tries |-> painter.tries + 1]}
                   ELSE previews
    /\ painter' = PainterIdle
    /\ UNCHANGED <<blobs, thumbs, age, rows, used, limit, req, gc, bus, seen, docs, hist>>

-----------------------------------------------------------------------------
(* The indexer, and time.  Events come in order; one that was nacked comes *)
(* back at its own time.                                                   *)

Due(i) == bus[i].tries > 0 \/ \A j \in 1..(i - 1) : bus[j].tries > 0
Without(i) == SubSeq(bus, 1, i - 1) \o SubSeq(bus, i + 1, Len(bus))
HandleFile(i) ==
    /\ Due(i)
    /\ docs' = IF bus[i].action = "deleted" THEN docs \ {bus[i].f} ELSE docs \cup {bus[i].f}
    /\ bus' = Without(i)
    /\ UNCHANGED <<fenv, blobs, thumbs, age, rows, used, limit, req, gc, painter, previews, seen, hist>>
\* The index or the database did not answer: again later, or never again.
HandleFileFails(i) ==
    /\ Due(i) /\ Spend("fault")
    /\ bus' = IF bus[i].tries + 1 < MaxDeliver THEN [bus EXCEPT ![i].tries = @ + 1] ELSE Without(i)
    /\ Doubt({bus[i].f})
    /\ UNCHANGED <<blobs, thumbs, age, rows, used, limit, req, gc, painter, previews, seen, docs>>

\* A day passes.  A request, a run and a delivery last seconds, so none spans
\* it; the stream's duplicate window is over by then.
DayPasses ==
    /\ \A r \in Requests : req[r].pc = "idle"
    /\ gc.pc = "idle" /\ painter.pc = "idle"
    /\ (\E k \in Minted : age[k] < 2) \/ \E f \in Live : ~rows[f].aged
    /\ age' = [k \in Minted |-> Min({2, age[k] + 1})]
    /\ rows' = [f \in Rows |-> [rows[f] EXCEPT !.aged = TRUE]]
    /\ seen' = {}
    /\ UNCHANGED <<fenv, blobs, thumbs, used, limit, req, gc, painter, previews, bus, docs, hist>>

-----------------------------------------------------------------------------
FileInit ==
    /\ fenv \in FileEnvironments
    /\ rows = fenv.rows /\ limit = fenv.limit
    /\ age = fenv.age
    /\ blobs = DOMAIN fenv.age
    /\ thumbs = {fenv.rows[f].thumb : f \in DOMAIN fenv.rows} \ {0}
    /\ used = BytesOf(Live)
    /\ req = [r \in Requests |-> Idle] /\ gc = CollectorIdle /\ painter = PainterIdle
    /\ previews = {} /\ bus = <<>> /\ seen = {} /\ hist = NoHistory
    /\ docs = {f \in DOMAIN fenv.rows : fenv.rows[f].trashed = 0}

RequestStep(r) ==
    \/ \E size \in fenv.sizes : \E op \in {"chat", "drive", "mail"} : UploadPut(r, op, size)
    \/ InsertTx(r) \/ StoreAttachment(r) \/ RefusedTx(r) \/ UndoPut(r) \/ PublishStored(r)
    \/ CrashRequest(r)
    \/ \E f \in Rows : \E size \in fenv.sizes : ReplacePut(r, f, size)
    \/ ReplaceContent(r)
    \/ \E f \in Rows : \E n \in DOMAIN rows[f].vers : RestoreBegin(r, f, n)
    \/ RestoreVersion(r)
    \/ \E f \in Rows : TrashRow(r, f) \/ RestoreRow(r, f) \/ DeleteObject(r, f)
    \/ PublishFileDeletions(r) \/ PurgeList(r) \/ RefundForFilesTx(r) \/ DeleteRows(r) \/ PurgeObjects(r)
    \/ RecomputeRead(r) \/ Recompute(r)
Collect == CollectOrphans \/ NoOrphans \/ CollectRefund \/ DeleteByIDs \/ ListUnreferenced \/ SweepObjects
Thumbnail == (\E m \in previews : DrawPreview(m)) \/ StampPreview \/ DiscardPreview
Index == \E i \in DOMAIN bus : HandleFile(i)
FileNext ==
    \/ \E r \in fenv.procs : RequestStep(r)
    \/ \E f \in Rows : ClaimFile(f) \/ AttachToOutbound(f) \/ ReleaseFile(f)
    \/ \E bytes \in fenv.limits : SetQuota(bytes)
    \/ Collect \/ CrashCollector
    \/ Thumbnail \/ NakPreview
    \/ Index \/ (\E i \in DOMAIN bus : HandleFileFails(i)) \/ DayPasses

\* A request runs to its end or crashes; the collector, the thumbnailer and
\* the indexer are loops of the worker; days pass.
FileFairness ==
    /\ \A r \in Requests : WF_fvars(req[r].pc # "idle" /\ RequestStep(r))
    /\ WF_fvars(Collect) /\ WF_fvars(Thumbnail) /\ WF_fvars(Index) /\ SF_fvars(DayPasses)
FileSpec == FileInit /\ [][FileNext]_fvars /\ FileFairness

-----------------------------------------------------------------------------
(* Properties.                                                             *)

\* Every file that nobody has begun to delete can be downloaded, at its head
\* and at every version its history offers: no cleanup of a failed upload, no
\* purge and no sweep of the bucket takes bytes a row still names
\* (versions.go ReplaceContent, gc.go Collect, repository.go StorageKeysPresent).
StoredBytesServe ==
    \A f \in Live \ hist.marked : Download(f) /\ \A n \in DOMAIN rows[f].vers : VersionContent(f, n)

\* Invariant I1 of the quota package: the counter is the sum of the version
\* rows, after every upload, refusal, replacement, delete, purge and collection.
\* One thing breaks it: a refund or a recount whose sum was read while another
\* transaction was changing the rows it sums.  The next recount that nothing
\* disturbs makes it exact again (quota.go RefundForFilesTx, Recompute).
QuotaExact == hist.drift # "now" => used = BytesOf(Live)

\* The version rows themselves fit under the cap, however many uploads,
\* replacements and deletes race for the last of it: until the counter that
\* stands for them drifts, or somebody lowers the cap (quota.go ChargeTx).
StoredWithinTheCap == limit # 0 /\ hist.drift = "never" /\ ~hist.lowered => BytesOf(Live) <= limit

\* A preview is never of bytes the file no longer has: the head may move while
\* the thumbnailer draws (consumer.go Handle).
PreviewIsOfTheHead == \A f \in Live : rows[f].thumb \in {0, rows[f].head}

\* Once the events are out and applied, the index answers for a Drive file if
\* and only if it is there and not in the trash: through trash, restore,
\* replacement and purge of several requests at once (events.go
\* PublishFileDeletions, indexer.go HandleFile).  The files it may be wrong about
\* are named: an event of theirs was lost, came back after a nak, or was
\* published after another request had made it untrue.
Settled == bus = <<>> /\ \A r \in Requests : req[r].pc \notin {"unindex", "publish", "objects"}
IndexAgrees ==
    Settled => \A f \in Rows \ hist.unsure : "folder" \in rows[f].owners => (f \in docs <=> Versionable(f))

\* An object nothing names, left by a crash, by a failed cleanup or by a delete
\* that removed only the head, is collected in the end, as far as a listing of
\* its prefix reaches (gc.go Collect, s3.go List).
InFlight == {req[r].key : r \in {q \in Requests : req[q].pc \in {"insert", "replace", "undo"}}}
LeaksAreCollected ==
    []<>(ListedBlobs \subseteq StorageKeysPresent \cup InFlight /\ ListedThumbs \subseteq ThumbKeysPresent)

\* Rows, objects, the quota's counter and cap, previews and the index agree.
StoreSound == StoredBytesServe /\ QuotaExact /\ StoredWithinTheCap /\ PreviewIsOfTheHead /\ IndexAgrees

(* What comments of the code claim and the code does not do; the README     *)
(* lists them with their lines.                                             *)

\* "Every function here preserves it" (quota.go:15): two deletes of one file
\* refund it twice, and a recount may apply a sum that is out of date.
QuotaAlwaysExact == used = BytesOf(Live)

\* "covers the whole bucket every sixteen runs" (gc.go:54-57): a listing that is
\* full never reaches the keys behind its first thousand.
EveryLeakIsCollected == []<>(blobs \subseteq StorageKeysPresent \cup InFlight /\ thumbs \subseteq ThumbKeysPresent)

\* A quota that a path can bypass "is not enforcement" (quota.go:3-6): an inbound
\* attachment has a row and no version row, so its bytes are never charged.
EveryObjectIsCharged == \A f \in Live : \E n \in DOMAIN rows[f].vers : rows[f].vers[n].key = rows[f].head

\* A column that names a preview names one that is there: "a column pointing
\* at nothing is a broken image in every listing" (consumer.go:147).  A preview
\* drawn again for the same bytes is old by its key, and the collector may take it
\* between the put and the update of the column.
PreviewServes == \A f \in Live : rows[f].thumb # 0 => rows[f].thumb \in thumbs

\* A trashed file is out of the index (handler.go TrashFile): a replacement whose
\* check came before the trash commits and indexes it again.
TrashedIsUnindexed == Settled => \A f \in docs : "folder" \in rows[f].owners => Versionable(f)
=============================================================================
