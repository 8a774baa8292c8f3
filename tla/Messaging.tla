----------------------------- MODULE Messaging -----------------------------
(***************************************************************************)
(* One channel: its messages and threads, the outbox and the event stream  *)
(* that announce them, and the two consumers that follow the stream, the   *)
(* search index and the unread badges.                                     *)
(*                                                                         *)
(* A request commits its row in one transaction and then publishes: the    *)
(* row is read back, an outbox row is recorded, the stream acknowledges,   *)
(* the outbox row is marked.  Each of these is a step and the process may  *)
(* die between any two.  The worker promotes scheduled messages, purges    *)
(* expired ones and sweeps the outbox.  Message ids are numbers, a body is *)
(* the number of edits behind it, created_at a position in one order.      *)
(***************************************************************************)
EXTENDS Integers, Sequences, FiniteSets, FiniteSetsExt, SequencesExt

CONSTANTS MessageIds,           \* ids messages may take, numbers
          People,               \* the members of the channel
          Clients,              \* requests in flight
          MaxDeliver,           \* deliveries of an event before its consumer gives up
          MessageEnvironments   \* initial rows and budgets of each operation

VARIABLES menv,      \* the environment, its budgets going down
          now,       \* the last created_at handed out
          horizon,   \* created_at below it is past the retention period
          msg,       \* the messages rows
          reacted,   \* messages carrying the one reaction of the model
          archived,  \* channels.is_archived
          readAt,    \* channel_members.last_read_at
          outbox,    \* domain_event_outbox, in id order
          recent,    \* dedupe ids inside the stream's duplicate window
          announced, \* events the stream has held
          toIndex,   \* events the search indexer has yet to see, in order
          parked,    \* events it has handed back for redelivery
          index,     \* the body each message has in the search index
          unindexed, \* messages the index was told to forget, or whose event it gave up
          toBadge,   \* events the unread fan-out has yet to see
          fan,       \* counts a fan-out has read and not yet pushed
          marking,   \* counts a read marker has read and not yet pushed
          badge,     \* the badge each member's clients show
          call,      \* the requests
          promo,     \* promoted messages the worker has yet to announce
          sweep      \* outbox rows the sweep has selected and not yet tried

mvars == <<menv, now, horizon, msg, reacted, archived, readAt, outbox, recent, announced, toIndex, parked, index,
           unindexed, toBadge, fan, marking, badge, call, promo, sweep>>
rowVars == <<now, msg, reacted>>
streamVars == <<recent, announced, toIndex, toBadge>>
readers == <<parked, index, unindexed, fan, marking, badge, readAt>>
worker == <<promo, sweep>>

NoMessage == 0
NoBody == -1
Free == [pc |-> "free", jobs |-> <<>>]

Blank == [st |-> "none", parent |-> NoMessage, by |-> NoMessage, text |-> 0, count |-> 0, exact |-> TRUE,
          pinned |-> FALSE, at |-> 0, ver |-> 0]

\* The columns of a row, and whether retention has taken only counted replies from it; and
\* what an environment says: the rows earlier requests left, how often each operation and
\* fault may happen, the batch size of retention, who writes, and which consumers run.
MessageRow == [st : {"none", "scheduled", "dropped", "live", "deleted", "purged"}, parent : MessageIds \cup {NoMessage},
               by : People \cup {NoMessage}, text : Nat, count : Nat, exact : BOOLEAN, pinned : BOOLEAN, at : Nat, ver : Nat]
Operations == {"send", "schedule", "reply", "forward", "edit", "pin", "delete", "react", "unreact", "cancel", "post",
               "fault", "crash", "window", "promote", "purge", "abort", "skip", "age", "nak", "term", "read", "archive"}
ChannelEnvironment == [rows : [MessageIds -> MessageRow], procs : SUBSET Clients, ops : [Operations -> Nat],
                       moderators : SUBSET People, batch : Nat \ {0}, badges : BOOLEAN, authors : SUBSET People,
                       consumers : SUBSET {"index", "badge"}]

\* A reply is newer than its parent, which is there and no reply itself, and counted there
\* while it is live; an environment that compares badges has nothing that loses an event
\* or reads past one.
ASSUME MessageAssumption ==
    /\ MessageIds \subseteq Nat \ {0} /\ IsFiniteSet(MessageIds) /\ NoMessage \notin People
    /\ MaxDeliver \in Nat /\ MaxDeliver > 1
    /\ MessageEnvironments \subseteq ChannelEnvironment
    /\ \A e \in MessageEnvironments :
          /\ \A m \in MessageIds :
                /\ e.rows[m].st = "none" => e.rows[m] = Blank
                /\ e.rows[m].st \in {"scheduled", "live", "deleted"} =>
                      e.rows[m].count = Cardinality({r \in MessageIds : e.rows[r].parent = m /\ e.rows[r].st = "live"})
                /\ e.rows[m].parent # NoMessage =>
                      /\ e.rows[e.rows[m].parent].st \in {"live", "deleted"}
                      /\ e.rows[e.rows[m].parent].parent = NoMessage
                      /\ e.rows[e.rows[m].parent].at < e.rows[m].at
          /\ e.badges => "badge" \in e.consumers /\ \A op \in {"read", "crash", "fault", "purge"} : e.ops[op] = 0

Can(op) == menv.ops[op] > 0
Spend(op) == menv' = [menv EXCEPT !.ops[op] = @ - 1]

-----------------------------------------------------------------------------
(* Rows.  liveOnly is the predicate of every read of the conversation.     *)

liveOnly(m) == msg[m].st = "live"
TopLevel(m) == msg[m].parent = NoMessage
Replies(m) == {r \in MessageIds : msg[r].parent = m}
GetByID(m) == liveOnly(m)
GetForUser(m, u) == liveOnly(m) \/ (msg[m].st = "scheduled" /\ msg[m].by = u)

\* A parent is a live top-level message.
ValidParent(parent) == parent # NoMessage => liveOnly(parent) /\ TopLevel(parent)

\* reply_count + 1 on the parent, as the trigger's new updated_at.
Counted(rows, parent, n) ==
    IF parent = NoMessage THEN rows
    ELSE [rows EXCEPT ![parent].count = Max({0, @ + n}), ![parent].ver = @ + 1]

NewMessage(u, parent, text, st) ==
    [Blank EXCEPT !.st = st, !.by = u, !.parent = parent, !.text = text, !.at = now + 1]

\* Unread: live top-level messages of others after the marker.
UnreadIn(rows, reads, u) ==
    Cardinality({m \in MessageIds : /\ rows[m].st = "live" /\ rows[m].parent = NoMessage
                                    /\ rows[m].by # u /\ rows[m].at > reads[u]})
UnreadCount(u) == UnreadIn(msg, readAt, u)
UnreadCounts(exclude) == [u \in People \ {exclude} |-> UnreadCount(u)]

-----------------------------------------------------------------------------
(* Events and the stream.                                                  *)

Event(type, m) == [type |-> type, m |-> m, text |-> msg[m].text, ver |-> msg[m].ver, parent |-> msg[m].parent,
                   by |-> msg[m].by]

\* An update is keyed on the row's version, everything else on the row.
eventKey(e) == IF e.type = "updated" THEN <<e.type, e.m, e.ver>> ELSE <<e.type, e.m>>

\* Nats-Msg-Id inside the duplicate window: acknowledged and dropped.
Deliver(e, keyed) ==
    IF keyed /\ eventKey(e) \in recent
    THEN UNCHANGED streamVars
    ELSE /\ recent' = IF keyed THEN recent \cup {eventKey(e)} ELSE recent
         /\ announced' = announced \cup {<<e.type, e.m>>}
         /\ toIndex' = IF e.type \in {"new", "updated", "deleted"} /\ "index" \in menv.consumers
                       THEN Append(toIndex, e) ELSE toIndex
         /\ toBadge' = IF e.type \in {"new", "deleted"} /\ "badge" \in menv.consumers
                       THEN Append(toBadge, e) ELSE toBadge

PendingRows == {i \in DOMAIN outbox : ~outbox[i].done}
RowOf(e) == {i \in DOMAIN outbox : outbox[i].key = eventKey(e)}

-----------------------------------------------------------------------------
(* Requests: the transaction, then the jobs that publish.  A job is read   *)
(* back from the row when its turn comes, unless it is already an event.   *)


Begin(c, jobs) == call' = [call EXCEPT ![c] = [pc |-> "read", jobs |-> jobs]]
Quietly == UNCHANGED <<horizon, archived, outbox, streamVars, readers, worker>>
Idle(c) == call[c].pc = "free" /\ c \in menv.procs
Unused(m) == msg[m].st = "none" /\ \A o \in MessageIds : o < m => msg[o].st # "none"

Create(c, u, m, parent, text) ==
    /\ ValidParent(parent)
    /\ msg' = Counted([msg EXCEPT ![m] = NewMessage(u, parent, text, "live")], parent, 1)
    /\ now' = now + 1

\* A pending reply is validated like a sent one and not counted.
CreateScheduled(c, u, m, parent) ==
    /\ ValidParent(parent)
    /\ msg' = [msg EXCEPT ![m] = NewMessage(u, parent, 0, "scheduled")]
    /\ now' = now + 1

Send(c, u, m, parent) ==
    /\ Can("send") /\ Idle(c) /\ Unused(m) /\ Spend("send")
    /\ Create(c, u, m, parent, 0)
    /\ Begin(c, <<[kind |-> "new", m |-> m, by |-> u]>>)
    /\ UNCHANGED reacted /\ Quietly

\* Nothing is published for a message that is not sent yet.
SendScheduled(c, u, m, parent) ==
    /\ Can("schedule") /\ Idle(c) /\ Unused(m) /\ Spend("schedule")
    /\ CreateScheduled(c, u, m, parent)
    /\ UNCHANGED <<reacted, call>> /\ Quietly

\* The thread's own route announces the parent first: its count moved.
ReplyThread(c, u, m, parent) ==
    /\ Can("reply") /\ Idle(c) /\ Unused(m) /\ parent # NoMessage /\ Spend("reply")
    /\ Create(c, u, m, parent, 0)
    /\ Begin(c, <<[kind |-> "updated", m |-> parent, by |-> u], [kind |-> "new", m |-> m, by |-> u]>>)
    /\ UNCHANGED reacted /\ Quietly

\* The copy carries the body the source has when it is read.
Forward(c, u, m, src) ==
    /\ Can("forward") /\ Idle(c) /\ Unused(m) /\ GetByID(src) /\ Spend("forward")
    /\ Create(c, u, m, NoMessage, msg[src].text)
    /\ Begin(c, <<[kind |-> "new", m |-> m, by |-> u]>>)
    /\ UNCHANGED reacted /\ Quietly

\* The author's own message, sent or still scheduled.
Edit(c, u, m) ==
    /\ Can("edit") /\ Idle(c) /\ GetForUser(m, u) /\ msg[m].by = u /\ Spend("edit")
    /\ msg' = [msg EXCEPT ![m].text = @ + 1, ![m].ver = @ + 1]
    /\ Begin(c, <<[kind |-> "updated", m |-> m, by |-> u]>>)
    /\ UNCHANGED <<now, reacted>> /\ Quietly

setPinned(c, u, m, pinned) ==
    /\ Can("pin") /\ Idle(c) /\ liveOnly(m) /\ Spend("pin")
    /\ msg' = [msg EXCEPT ![m].pinned = pinned, ![m].ver = @ + 1]
    /\ Begin(c, <<[kind |-> "updated", m |-> m, by |-> NoMessage]>>)
    /\ UNCHANGED <<now, reacted>> /\ Quietly

\* Blank the row and give the thread its count back.
SoftDelete(m) ==
    msg' = Counted([msg EXCEPT ![m].st = "deleted", ![m].text = 0, ![m].ver = @ + 1], msg[m].parent, -1)

\* Author or moderator; the event needs no read, the handler holds it.
Delete(c, u, m) ==
    /\ Can("delete") /\ Idle(c) /\ GetByID(m) /\ u \in {msg[m].by} \cup menv.moderators
    /\ Spend("delete") /\ SoftDelete(m)
    /\ call' = [call EXCEPT ![c] = [pc |-> "record", jobs |-> <<[kind |-> "deleted", m |-> m, by |-> u]>>,
                                    ev |-> Event("deleted", m)]]
    /\ UNCHANGED <<now, reacted>> /\ Quietly

\* Only a row that was inserted, or deleted, is announced.
React(c, m, on, op, type) ==
    /\ Can(op) /\ Idle(c) /\ Spend(op)
    /\ on => liveOnly(m)
    /\ (m \in reacted) # on
    /\ reacted' = IF on THEN reacted \cup {m} ELSE reacted \ {m}
    /\ call' = [call EXCEPT ![c] = [pc |-> "record", jobs |-> <<[kind |-> type, m |-> m, by |-> NoMessage]>>,
                                    ev |-> Event(type, m)]]
    /\ UNCHANGED <<now, msg>> /\ Quietly
AddReaction(c, m) == React(c, m, TRUE, "react", "reaction.added")
RemoveReaction(c, m) == React(c, m, FALSE, "unreact", "reaction.removed")

\* DELETE ... WHERE is_scheduled: the row lock decides against a promotion.
CancelScheduled(m) ==
    /\ Can("cancel") /\ msg[m].st = "scheduled" /\ Spend("cancel")
    /\ msg' = [msg EXCEPT ![m].st = "dropped"]
    /\ UNCHANGED <<now, reacted, call>> /\ Quietly

\* A workflow's post: no outbox, core publish after the commit.
CreateFor(c, u, m) ==
    /\ Can("post") /\ Idle(c) /\ Unused(m) /\ Spend("post")
    /\ Create(c, u, m, NoMessage, 0)
    /\ Begin(c, <<[kind |-> "post", m |-> m, by |-> u]>>)
    /\ UNCHANGED reacted /\ Quietly

-----------------------------------------------------------------------------
(* Publishing.                                                             *)

NextJob(c, rest) ==
    call' = [call EXCEPT ![c] = IF rest = <<>> THEN Free ELSE [pc |-> "read", jobs |-> rest]]

\* A message that has not been sent yet is not announced as an edit.
Publishable(m) == GetByID(m)

\* respondWithMessage and its kin: read back what was written.  A message
\* that is gone ends the request; a parent that is gone is passed over.
respondWithMessage(c) ==
    LET j == Head(call[c].jobs) IN
    /\ call[c].pc = "read" /\ j.kind # "post"
    /\ IF Publishable(j.m)
       THEN call' = [call EXCEPT ![c] = [pc |-> "record", jobs |-> @.jobs, ev |-> Event(j.kind, j.m)]]
       ELSE NextJob(c, IF j.kind = "updated" THEN Tail(call[c].jobs) ELSE <<>>)
    /\ UNCHANGED menv /\ UNCHANGED rowVars /\ Quietly

\* The one row per dedupe id: a second record of the same fact keeps the
\* first row, its payload and its published_at.
RecordOutboxEvent(c) ==
    /\ call[c].pc = "record"
    /\ call' = [call EXCEPT ![c].pc = "publish"]
    /\ outbox' = IF RowOf(call[c].ev) # {} THEN outbox
                 ELSE Append(outbox, [key |-> eventKey(call[c].ev), ev |-> call[c].ev, done |-> FALSE])
    /\ UNCHANGED <<menv, horizon, archived>> /\ UNCHANGED <<rowVars, streamVars, readers, worker>>

publish(c) ==
    /\ call[c].pc = "publish"
    /\ Deliver(call[c].ev, TRUE)
    /\ call' = [call EXCEPT ![c].pc = "mark"]
    /\ UNCHANGED <<menv, horizon, archived, outbox>> /\ UNCHANGED <<rowVars, readers, worker>>

\* The stream is unreachable: the row stays, to be swept.
RecordOutboxFailure(c) ==
    /\ Can("fault") /\ call[c].pc = "publish" /\ Spend("fault")
    /\ NextJob(c, Tail(call[c].jobs))
    /\ UNCHANGED rowVars /\ Quietly

MarkOutboxPublished(c) ==
    /\ call[c].pc = "mark"
    /\ outbox' = [i \in DOMAIN outbox |->
                    IF i \in RowOf(call[c].ev) THEN [outbox[i] EXCEPT !.done = TRUE] ELSE outbox[i]]
    /\ NextJob(c, Tail(call[c].jobs))
    /\ UNCHANGED <<menv, horizon, archived>> /\ UNCHANGED <<rowVars, streamVars, readers, worker>>

\* The workflow's event, best effort.
PublishPost(c, ok) ==
    LET m == Head(call[c].jobs).m IN
    /\ call[c].pc = "read" /\ Head(call[c].jobs).kind = "post"
    /\ IF ok THEN Deliver([Event("new", m) EXCEPT !.text = 0], FALSE) /\ UNCHANGED menv
             ELSE Can("fault") /\ Spend("fault") /\ UNCHANGED streamVars
    /\ call' = [call EXCEPT ![c] = Free]
    /\ UNCHANGED <<horizon, archived, outbox>> /\ UNCHANGED <<rowVars, readers, worker>>

\* The API process dies with the request.
ClientCrash(c) ==
    /\ Can("crash") /\ call[c].pc # "free" /\ Spend("crash")
    /\ call' = [call EXCEPT ![c] = Free]
    /\ UNCHANGED rowVars /\ Quietly

\* The duplicate window passes.
WindowPasses ==
    /\ Can("window") /\ recent # {} /\ Spend("window") /\ recent' = {}
    /\ UNCHANGED <<horizon, archived, outbox, announced, toIndex, toBadge, call>>
    /\ UNCHANGED <<rowVars, readers, worker>>

-----------------------------------------------------------------------------
(* The worker.                                                             *)

\* ORDER BY id.
InIdOrder(S) == {s \in [1..Cardinality(S) -> S] : Range(s) = S /\ \A i, j \in DOMAIN s : i < j => s[i] < s[j]}

\* The rows are selected without a claim and tried in id order.
SweepOutbox ==
    /\ sweep = <<>> /\ PendingRows # {} /\ sweep' \in InIdOrder(PendingRows)
    /\ UNCHANGED <<menv, horizon, archived, outbox, call, promo>> /\ UNCHANGED <<rowVars, streamVars, readers>>

Swept(i) == outbox' = [outbox EXCEPT ![i].done = TRUE]
SweepPublish ==
    /\ sweep # <<>> /\ Deliver(outbox[Head(sweep)].ev, TRUE) /\ Swept(Head(sweep)) /\ sweep' = Tail(sweep)
    /\ UNCHANGED <<menv, horizon, archived, call, promo>> /\ UNCHANGED <<rowVars, readers>>
\* Published and not marked, or not published: the row stays either way.
SweepFails(published) ==
    /\ Can("fault") /\ sweep # <<>> /\ Spend("fault") /\ sweep' = Tail(sweep)
    /\ IF published THEN Deliver(outbox[Head(sweep)].ev, TRUE) ELSE UNCHANGED streamVars
    /\ UNCHANGED <<horizon, archived, outbox, call, promo>> /\ UNCHANGED <<rowVars, readers>>

\* Due messages of a channel that is not archived, stamped one after the
\* other, their threads counted, all in one transaction.
PromotedRows(due) ==
    LET at(m) == now + Cardinality({o \in due : o <= m})
        sent == [m \in MessageIds |-> IF m \in due THEN [msg[m] EXCEPT !.st = "live", !.at = at(m), !.ver = @ + 1]
                                      ELSE msg[m]]
        n(p) == Cardinality({m \in due : msg[m].parent = p})
    IN [m \in MessageIds |-> IF n(m) = 0 THEN sent[m] ELSE [sent[m] EXCEPT !.count = @ + n(m), !.ver = @ + 1]]
promoteScheduled(due) ==
    /\ Can("promote") /\ due # {} /\ \A m \in due : msg[m].st = "scheduled"
    /\ ~archived /\ Spend("promote")
    /\ msg' = PromotedRows(due)
    /\ now' = now + Cardinality(due)
    /\ \E order \in InIdOrder(due) : promo' = promo \o order
    /\ UNCHANGED <<reacted, horizon, archived, outbox, call, sweep>> /\ UNCHANGED <<streamVars, readers>>

\* No outbox row: an event the stream does not take is lost.
publishPromoted(ok) ==
    LET m == Head(promo) IN
    /\ promo # <<>> /\ promo' = Tail(promo)
    /\ IF ~GetByID(m) THEN ok /\ UNCHANGED <<menv, streamVars>>
       ELSE IF ok THEN Deliver(Event("new", m), TRUE) /\ UNCHANGED menv
       ELSE Can("fault") /\ Spend("fault") /\ UNCHANGED streamVars
    /\ UNCHANGED <<horizon, archived, outbox, call, sweep>> /\ UNCHANGED <<rowVars, readers>>

\* Retention: the oldest expired rows but those another transaction has locked, and with a
\* root its whole thread, whose rows are waited for.
Stored == {m \in MessageIds : msg[m].st \in {"scheduled", "live", "deleted"}}
Expired == {m \in Stored : msg[m].at < horizon}
Batch(skipped) ==
    LET rows == Expired \ skipped
    IN  {m \in rows : Cardinality({o \in rows : msg[o].at < msg[m].at}) < menv.batch}
\* A fault: the batch goes without the rest of its threads.
TargetsRootsOnly(batch) == batch
Targets(batch) == batch \cup {r \in Stored : msg[r].parent \in batch}
\* A root that stays is charged every reply that goes, also one it did not count.
PurgedRows(targets) ==
    [m \in MessageIds |->
        LET lost == {r \in targets : msg[r].parent = m} IN
        IF m \in targets THEN [msg[m] EXCEPT !.st = IF @ = "scheduled" THEN "dropped" ELSE "purged"]
        ELSE IF lost = {} THEN msg[m]
        ELSE [msg[m] EXCEPT !.count = Max({0, @ - Cardinality(lost)}), !.ver = @ + 1,
                            !.exact = @ /\ \A r \in lost : liveOnly(r)]]
Unindex(targets) == index' = [m \in MessageIds |-> IF m \in targets THEN NoBody ELSE index[m]]
Skippable(skipped) == skipped # {} => Can("skip")

\* The index is emptied inside the transaction, before the rows go.
purgeRetentionBatch(skipped) ==
    LET targets == Targets(Batch(skipped)) IN
    /\ Can("purge") /\ Skippable(skipped) /\ Batch(skipped) # {} /\ Spend("purge")
    /\ msg' = PurgedRows(targets) /\ reacted' = reacted \ targets
    /\ Unindex(targets)
    /\ UNCHANGED <<now, horizon, archived, outbox, call, parked, unindexed, fan, marking, badge, readAt>>
    /\ UNCHANGED <<streamVars, worker>>
\* The commit fails after the index was emptied.
PurgeRollsBack(skipped) ==
    LET targets == Targets(Batch(skipped)) IN
    /\ Can("abort") /\ Skippable(skipped) /\ Batch(skipped) # {} /\ Spend("abort")
    /\ Unindex(targets) /\ unindexed' = unindexed \cup targets
    /\ UNCHANGED <<horizon, archived, outbox, call, parked, fan, marking, badge, readAt>>
    /\ UNCHANGED <<rowVars, streamVars, worker>>
RetentionPasses ==
    /\ Can("age") /\ Spend("age") /\ horizon' = now + 1
    /\ UNCHANGED <<archived, outbox, call>> /\ UNCHANGED <<rowVars, streamVars, readers, worker>>

-----------------------------------------------------------------------------
(* The consumers.                                                          *)

\* message.deleted unindexes, anything else is an upsert of the payload.
Indexed(e) == [index EXCEPT ![e.m] = IF e.type = "deleted" THEN NoBody ELSE e.text]
HandleMessage ==
    /\ toIndex # <<>> /\ index' = Indexed(Head(toIndex)) /\ toIndex' = Tail(toIndex)
    /\ UNCHANGED <<menv, horizon, archived, outbox, recent, announced, toBadge, parked, unindexed, fan, marking, badge,
                   readAt, call>>
    /\ UNCHANGED <<rowVars, worker>>
\* A failed write that acknowledges all the same.
IndexNakAcks ==
    /\ Can("nak") /\ toIndex # <<>> /\ Spend("nak")
    /\ toIndex' = Tail(toIndex)
    /\ UNCHANGED <<horizon, archived, outbox, recent, announced, toBadge, index, parked, unindexed, fan, marking, badge,
                   readAt, call>>
    /\ UNCHANGED <<rowVars, worker>>
\* The handler fails and the event comes back after a delay, behind others.
IndexNak ==
    /\ Can("nak") /\ toIndex # <<>> /\ Spend("nak")
    /\ parked' = parked \cup {[ev |-> Head(toIndex), delivery |-> 2]} /\ toIndex' = Tail(toIndex)
    /\ UNCHANGED <<horizon, archived, outbox, recent, announced, toBadge, index, unindexed, fan, marking, badge, readAt,
                   call>>
    /\ UNCHANGED <<rowVars, worker>>
IndexRedelivered(d) ==
    /\ d \in parked /\ parked' = parked \ {d} /\ index' = Indexed(d.ev)
    /\ UNCHANGED <<menv, horizon, archived, outbox, unindexed, fan, marking, badge, readAt, call>>
    /\ UNCHANGED <<rowVars, streamVars, worker>>
\* Term: the event is gone, and nothing else announces a new message to the index.
GivenUp(e) == unindexed' = IF e.type = "new" THEN unindexed \cup {e.m} ELSE unindexed
\* It fails again: one more delivery, or it was the last one.
IndexFailsAgain(d) ==
    /\ Can("nak") /\ d \in parked /\ Spend("nak")
    /\ IF d.delivery < MaxDeliver
       THEN parked' = (parked \ {d}) \cup {[d EXCEPT !.delivery = @ + 1]} /\ UNCHANGED unindexed
       ELSE parked' = parked \ {d} /\ GivenUp(d.ev)
    /\ UNCHANGED <<horizon, archived, outbox, index, fan, marking, badge, readAt, call>>
    /\ UNCHANGED <<rowVars, streamVars, worker>>
\* The handler calls the event permanently unprocessable.
IndexTerm ==
    /\ Can("term") /\ toIndex # <<>> /\ Spend("term")
    /\ GivenUp(Head(toIndex)) /\ toIndex' = Tail(toIndex)
    /\ UNCHANGED <<horizon, archived, outbox, recent, announced, toBadge, index, parked, fan, marking, badge, readAt,
                   call>>
    /\ UNCHANGED <<rowVars, worker>>

NoCounts == [u \in {} |-> 0]
\* A reply moves no badge; the author's is not moved by a send.
UnreadAudience(e) ==
    IF e.parent # NoMessage THEN NoCounts
    ELSE UnreadCounts(IF e.type = "new" THEN e.by ELSE NoMessage)
FanoutReads ==
    /\ toBadge # <<>> /\ fan = NoCounts
    /\ fan' = UnreadAudience(Head(toBadge)) /\ toBadge' = Tail(toBadge)
    /\ UNCHANGED <<menv, horizon, archived, outbox, recent, announced, toIndex, parked, index, unindexed, marking, badge, readAt,
                   call>>
    /\ UNCHANGED <<rowVars, worker>>
FanoutPublishes ==
    /\ fan # NoCounts /\ fan' = NoCounts
    /\ badge' = [u \in People |-> IF u \in DOMAIN fan THEN fan[u] ELSE badge[u]]
    /\ UNCHANGED <<menv, horizon, archived, outbox, parked, index, unindexed, marking, readAt, call>>
    /\ UNCHANGED <<rowVars, streamVars, worker>>

\* The marker never moves back and never past now.
UpdateReadAt(u, at) == [readAt EXCEPT ![u] = Max({@, Min({at, now})})]
MarkRead(u, at) ==
    /\ Can("read") /\ u \notin DOMAIN marking /\ Spend("read")
    /\ readAt' = UpdateReadAt(u, at)
    /\ marking' = [w \in DOMAIN marking \cup {u} |-> IF w = u THEN UnreadIn(msg, readAt', u) ELSE marking[w]]
    /\ UNCHANGED <<horizon, archived, outbox, parked, index, unindexed, fan, badge, call>>
    /\ UNCHANGED <<rowVars, streamVars, worker>>
emitUnreadUpdate(u) ==
    /\ u \in DOMAIN marking
    /\ badge' = [badge EXCEPT ![u] = marking[u]]
    /\ marking' = [w \in DOMAIN marking \ {u} |-> marking[w]]
    /\ UNCHANGED <<menv, horizon, archived, outbox, parked, index, unindexed, fan, readAt, call>>
    /\ UNCHANGED <<rowVars, streamVars, worker>>

setArchived(v) ==
    /\ Can("archive") /\ archived # v /\ Spend("archive") /\ archived' = v
    /\ UNCHANGED <<horizon, outbox, call>> /\ UNCHANGED <<rowVars, streamVars, readers, worker>>

-----------------------------------------------------------------------------

MessageInit ==
    /\ menv \in MessageEnvironments
    /\ msg = menv.rows
    /\ now = Max({0} \cup {menv.rows[m].at : m \in MessageIds}) /\ horizon = 0
    /\ reacted = {} /\ archived = FALSE
    /\ readAt = [u \in People |-> now]
    /\ outbox = <<>> /\ recent = {} /\ toIndex = <<>> /\ parked = {} /\ unindexed = {} /\ toBadge = <<>>
    /\ announced = {<<"new", m>> : m \in {o \in MessageIds : msg[o].st = "live"}}
    /\ index = [m \in MessageIds |-> IF msg[m].st = "live" THEN msg[m].text ELSE NoBody]
    /\ fan = NoCounts /\ marking = NoCounts /\ badge = [u \in People |-> 0]
    /\ call = [c \in Clients |-> Free] /\ promo = <<>> /\ sweep = <<>>

Requested ==
    \E c \in Clients, u \in menv.authors, m \in MessageIds :
        \/ \E parent \in MessageIds \cup {NoMessage} :
              Send(c, u, m, parent) \/ SendScheduled(c, u, m, parent) \/ ReplyThread(c, u, m, parent)
        \/ \E src \in MessageIds : Forward(c, u, m, src)
        \/ Edit(c, u, m)
        \/ Delete(c, u, m)
        \/ CreateFor(c, u, m)
Touched ==
    \E c \in Clients, m \in MessageIds :
        \/ \E v \in BOOLEAN : v # msg[m].pinned /\ setPinned(c, NoMessage, m, v)
        \/ AddReaction(c, m)
        \/ RemoveReaction(c, m)
        \/ CancelScheduled(m)
Publishing(c) == respondWithMessage(c) \/ RecordOutboxEvent(c) \/ publish(c) \/ RecordOutboxFailure(c)
                 \/ MarkOutboxPublished(c) \/ \E ok \in BOOLEAN : PublishPost(c, ok)
Sweeping == SweepOutbox \/ SweepPublish \/ \E b \in BOOLEAN : SweepFails(b)
Announcing == \E ok \in BOOLEAN : publishPromoted(ok)
Indexing == HandleMessage \/ IndexNak \/ IndexTerm
Redelivering == \E d \in parked : IndexRedelivered(d) \/ IndexFailsAgain(d)
Badging == FanoutReads \/ FanoutPublishes \/ \E u \in People : emitUnreadUpdate(u)
Working ==
    \/ \E due \in SUBSET MessageIds : promoteScheduled(due)
    \/ \E skipped \in SUBSET Expired : purgeRetentionBatch(skipped) \/ PurgeRollsBack(skipped)
    \/ RetentionPasses
    \/ WindowPasses
    \/ \E c \in Clients : ClientCrash(c)
    \/ \E v \in BOOLEAN : setArchived(v)
    \/ \E u \in People, at \in 0..(now + 1) : MarkRead(u, at)

MessageNext == \/ Requested \/ Touched \/ Working \/ Sweeping \/ Announcing \/ Indexing \/ Redelivering \/ Badging
               \/ \E c \in Clients : Publishing(c)

\* A request runs to its end unless its process dies; the worker's loops and
\* consumers keep running; the faults of an environment are finitely many.
MessageFairness ==
    /\ \A c \in Clients : WF_mvars(Publishing(c))
    /\ WF_mvars(Sweeping) /\ WF_mvars(Announcing) /\ WF_mvars(Indexing) /\ WF_mvars(Redelivering)
    /\ WF_mvars(Badging)
MessageSpec == MessageInit /\ [][MessageNext]_mvars /\ MessageFairness

-----------------------------------------------------------------------------
(* Properties.                                                             *)

\* A thread's reply_count is the number of its live replies, whoever sent, scheduled,
\* promoted, deleted or purged them, in whatever order.  It may be less, never more, once
\* retention has taken a reply that was not counted and left the root, whose row another
\* transaction had locked (purgeRetentionBatch).
LiveReplyCount(m) == Cardinality({r \in Replies(m) : liveOnly(r)})
RepliesCounted ==
    \A m \in MessageIds : msg[m].st \in {"live", "deleted"} =>
        msg[m].count <= LiveReplyCount(m) /\ (msg[m].exact => msg[m].count = LiveReplyCount(m))

\* Retention keeps or takes a thread as a whole: no stored reply has lost
\* its root, which would surface it in the timeline as a new message.
ThreadsStayWhole == \A m \in Stored : ~TopLevel(m) => msg[m].parent \in Stored

\* A message nobody has sent is in no event and in no search result, while
\* it waits and after it was cancelled.
UnsentIsUnseen ==
    \A m \in MessageIds : msg[m].st \in {"none", "scheduled", "dropped"} =>
        /\ index[m] = NoBody
        /\ \A e \in announced : e[2] # m

Recorded(m) == \E i \in DOMAIN outbox : outbox[i].key = <<"new", m>>
\* A message whose event reached the outbox becomes findable, over an unreachable stream, a
\* sweep that dies half way, and an indexer that fails fewer than MaxDeliver times: the only
\* ones left out are those whose event was terminated and those a rolled-back purge had
\* already taken out of the index (bindDurable, runRetention).
RecordedIsFindable ==
    []<>("index" \in menv.consumers =>
            \A m \in MessageIds : Recorded(m) /\ liveOnly(m) => index[m] # NoBody \/ m \in unindexed)

Settled == /\ \A c \in Clients : call[c] = Free
           /\ promo = <<>> /\ PendingRows = {} /\ toBadge = <<>> /\ fan = NoCounts /\ marking = NoCounts
\* The badge pushed to each member and the count a fetch would compute agree
\* once the events are consumed, where no read marker raced a push and no
\* event was lost (the environments that set badges).
BadgesAgree == menv.badges /\ Settled => \A u \in People : badge[u] = UnreadCount(u)

\* Threads, their counts, the events and the badges agree.
TimelineSound == RepliesCounted /\ ThreadsStayWhole /\ UnsentIsUnseen /\ BadgesAgree

\* What the outbox's comment promises: a process that dies between the
\* commit and the stream's acknowledgement leaves a row to replay.
CommittedIsRecorded ==
    \A m \in MessageIds :
        liveOnly(m) /\ (\A c \in Clients : call[c] = Free) => Recorded(m) \/ <<"new", m>> \in announced

\* `Decrement reply_count on parents that are not themselves being purged' (worker main.go):
\* reply_count stays the number of live replies.  It fails when the root is skipped and one
\* of the replies that go was deleted or still scheduled.
CountsStayExact ==
    \A m \in MessageIds : msg[m].st \in {"live", "deleted"} => msg[m].count = LiveReplyCount(m)

\* What the promotion's comment says of Send: an archived channel refuses
\* new messages.
ArchivedRefuses == [][archived => \A m \in MessageIds : liveOnly(m)' => msg[m].st = "live"]_mvars
=============================================================================
