-------------------------------- MODULE Inbox --------------------------------
(***************************************************************************)
(* The unified inbox (backend/internal/inbox) of one workspace: the        *)
(* fan-out of events by redelivering consumers, the counters of the items, *)
(* the user's own changes, the digest mail and the reconciler.             *)
(*                                                                         *)
(* Deliver is one transaction: the insert of the events decides which      *)
(* recipients are new, and only their items are counted.  The reconciler's *)
(* SELECT ... FOR UPDATE counts the events its statement saw and compares  *)
(* them with the row as it is when the lock is granted.                    *)
(***************************************************************************)
EXTENDS Integers, FiniteSets, FiniteSetsExt

CONSTANTS
    Users,
    Subjects,
    Msgs,        \* inbox.requested events
    Audience,    \* the recipients of each event
    SubjectOf,   \* the subject each event is about
    Rank,        \* the rank of each event's kind (kindRank)
    Workers,     \* consumer callbacks that run at the same time
    InboxEnvironments \* what a behaviour may consist of, see ienv

ASSUME InboxAssumption ==
    /\ IsFiniteSet(Users)
    /\ Audience \in [Msgs -> SUBSET Users]
    /\ SubjectOf \in [Msgs -> Subjects]
    /\ Rank \in [Msgs -> Nat \ {0}]
    /\ InboxEnvironments \subseteq [prefs : SUBSET [inApp : BOOLEAN, email : BOOLEAN],
                               deliver : Nat, touches : Nat, digests : Nat, recounts : Nat]

VARIABLES
    ienv,      \* this behaviour's preferences and bounds, chosen once
    prefs,    \* inbox_prefs, resolved
    msg,      \* JetStream: the status of each event and its deliveries
    work,     \* each worker's callback
    events,   \* rows of inbox_events: pairs of an event and a recipient
    items,    \* rows of inbox_items
    pushed,   \* how often each recipient was buzzed for each event
    touches,  \* state changes by users so far
    recent,   \* users whose last digest is younger than MinInterval
    digest,   \* the digest job
    mails,    \* digests queued: the user and the events the reader had seen
    digests,  \* runs of the digest job so far
    recount,  \* the reconciler
    recounts  \* runs of the reconciler so far

ivars == <<ienv, prefs, msg, work, events, items, pushed, touches, recent, digest,
          mails, digests, recount, recounts>>
digestVars == <<recent, digest, mails, digests>>
recountVars == <<recount, recounts>>
Prefs == ienv.prefs           \* preferences a user may have
MaxDeliver == ienv.deliver    \* consumerMaxDeliver
MaxTouches == ienv.touches    \* bound of the model: state changes by users
MaxDigests == ienv.digests    \* bound of the model: runs of the digest job
MaxRecounts == ienv.recounts  \* bound of the model: runs of the reconciler

ItemStates == {"unread", "read", "done"}

Keys == Users \X Subjects
NoItem == [state |-> "none", top |-> 0, unread |-> 0, count |-> 0,
           notified |-> FALSE, quiet |-> FALSE]
Exists(k) == items[k].state # "none"
NoRecount == [at |-> "idle", seen |-> {}, rows |-> {}, ids |-> {}]
\* Rows the reconciler's transaction holds.
Held == IF recount.at = "repair" THEN recount.rows ELSE {}
Free == [at |-> "idle", m |-> CHOOSE m \in Msgs : TRUE, wanted |-> {}, fresh |-> {}]

InboxInit ==
    /\ ienv \in InboxEnvironments
    /\ prefs \in [Users -> Prefs]
    /\ msg = [m \in Msgs |-> [status |-> "new", deliveries |-> 0]]
    /\ work = [w \in Workers |-> Free]
    /\ events = {}
    /\ items = [k \in Keys |-> NoItem]
    /\ pushed = [m \in Msgs |-> [u \in Users |-> 0]]
    /\ touches = 0
    /\ recent = {} /\ digest = [at |-> "idle", cand |-> {}, seen |-> {}, user |-> {}]
    /\ mails = {} /\ digests = 0
    /\ recount = NoRecount
    /\ recounts = 0

\* The events behind an item, in a set of event rows.
Behind(k, rows) == {e \in rows : e[2] = k[1] /\ SubjectOf[e[1]] = k[2]}

-----------------------------------------------------------------------------
(* The fan-out.                                                            *)

\* Publish: durable, so the stream keeps it.
Publish(m) ==
    /\ msg[m].status = "new"
    /\ msg' = [msg EXCEPT ![m].status = "queued"]
    /\ UNCHANGED <<ienv, prefs, work, events, items, pushed, touches, digestVars, recountVars>>

\* A worker gets an event, also one that another worker has had for too long.
\* LoadPrefs: in_app = false means no item at all.
Fetch(w, m) ==
    /\ work[w].at = "idle" /\ msg[m].status = "queued" /\ msg[m].deliveries < MaxDeliver
    /\ msg' = [msg EXCEPT ![m].deliveries = @ + 1]
    /\ LET wanted == {u \in Audience[m] : prefs[u].inApp}
       IN  work' = [work EXCEPT ![w] = [at |-> IF wanted = {} THEN "ack" ELSE "insert",
                                        m |-> m, wanted |-> wanted, fresh |-> {}]]
    /\ UNCHANGED <<ienv, prefs, events, items, pushed, touches, digestVars, recountVars>>

\* INSERT ... ON CONFLICT DO NOTHING RETURNING: waits for a transaction that has
\* inserted the same ids and not ended.
InsertEvents(w) ==
    /\ work[w].at = "insert"
    /\ \A v \in Workers \ {w} : ~(work[v].at = "upsert" /\ work[v].m = work[w].m
                                  /\ work[v].fresh \cap work[w].wanted # {})
    /\ work' = [work EXCEPT ![w].at = "upsert",
                            ![w].fresh = {u \in work[w].wanted : <<work[w].m, u>> \notin events}]
    /\ UNCHANGED <<ienv, prefs, msg, events, items, pushed, touches, digestVars, recountVars>>

\* The upsert of an item: unread again, mailable again, one more event, and the
\* highest kind so far.
Delivered(old, m) ==
    [state |-> "unread", top |-> IF old.top > Rank[m] THEN old.top ELSE Rank[m],
     unread |-> old.unread + 1, count |-> old.count + 1,
     notified |-> FALSE, quiet |-> FALSE]

\* Mutant: every recipient's item is counted, also on a redelivery.
UpsertAll(w) ==
    /\ work[w].at = "upsert"
    /\ \A u \in work[w].wanted : <<u, SubjectOf[work[w].m]>> \notin Held
    /\ events' = events \cup {<<work[w].m, u>> : u \in work[w].fresh}
    /\ items' = [k \in Keys |-> IF k[1] \in work[w].wanted /\ k[2] = SubjectOf[work[w].m]
                                THEN Delivered(items[k], work[w].m) ELSE items[k]]
    /\ work' = [work EXCEPT ![w].at = "announce"]
    /\ UNCHANGED <<ienv, prefs, msg, pushed, touches, digestVars, recountVars>>

\* The items of the new recipients, and the commit of both statements.  A row
\* that the reconciler holds is waited for.
UpsertItems(w) ==
    /\ work[w].at = "upsert"
    /\ \A u \in work[w].fresh : <<u, SubjectOf[work[w].m]>> \notin Held
    /\ events' = events \cup {<<work[w].m, u>> : u \in work[w].fresh}
    /\ items' = [k \in Keys |-> IF k[1] \in work[w].fresh /\ k[2] = SubjectOf[work[w].m]
                                THEN Delivered(items[k], work[w].m) ELSE items[k]]
    /\ work' = [work EXCEPT ![w].at = "announce"]
    /\ UNCHANGED <<ienv, prefs, msg, pushed, touches, digestVars, recountVars>>

\* Mutant: a redelivery buzzes everyone again.
AnnounceAll(w) ==
    /\ work[w].at = "announce"
    /\ pushed' = [pushed EXCEPT ![work[w].m] =
                    [u \in Users |-> @[u] + IF u \in work[w].wanted THEN 1 ELSE 0]]
    /\ work' = [work EXCEPT ![w].at = "ack"]
    /\ UNCHANGED <<ienv, prefs, msg, events, items, touches, digestVars, recountVars>>

\* relay and enqueuePush, after the commit, to the new recipients only.
Announce(w) ==
    /\ work[w].at = "announce"
    /\ pushed' = [pushed EXCEPT ![work[w].m] =
                    [u \in Users |-> @[u] + IF u \in work[w].fresh THEN 1 ELSE 0]]
    /\ work' = [work EXCEPT ![w].at = "ack"]
    /\ UNCHANGED <<ienv, prefs, msg, events, items, touches, digestVars, recountVars>>

\* bindDurable: the ack may get lost, and the event is then delivered again.
Ack(w) ==
    /\ work[w].at = "ack"
    /\ \/ msg' = [msg EXCEPT ![work[w].m].status = "done"]
       \/ UNCHANGED msg
    /\ work' = [work EXCEPT ![w] = Free]
    /\ UNCHANGED <<ienv, prefs, events, items, pushed, touches, digestVars, recountVars>>

\* A failed write rolls back and is returned: nak, or term on the last delivery.
HandlerFails(w) ==
    /\ work[w].at \in {"insert", "upsert"}
    /\ msg' = IF msg[work[w].m].deliveries < MaxDeliver \/ msg[work[w].m].status # "queued"
              THEN msg
              ELSE [msg EXCEPT ![work[w].m].status = "dropped"]
    /\ work' = [work EXCEPT ![w] = Free]
    /\ UNCHANGED <<ienv, prefs, events, items, pushed, touches, digestVars, recountVars>>

\* The worker dies; an open transaction rolls back.
WorkerDies(w) ==
    /\ work[w].at # "idle"
    /\ work' = [work EXCEPT ![w] = Free]
    /\ UNCHANGED <<ienv, prefs, msg, events, items, pushed, touches, digestVars, recountVars>>

-----------------------------------------------------------------------------
(* The user.                                                               *)

Unlocked(k) == Exists(k) /\ k \notin Held

\* SetState: also the way back to unread.
SetState(k, state) ==
    /\ Unlocked(k) /\ touches < MaxTouches
    /\ items' = [items EXCEPT ![k].state = state]
    /\ touches' = touches + 1
    /\ UNCHANGED <<ienv, prefs, msg, work, events, pushed, digestVars, recountVars>>

\* ReadAll of a user, and MarkSubjectRead of one subject: unread items only.
MarkRead(u, ss) ==
    /\ touches < MaxTouches
    /\ \E s \in ss : items[<<u, s>>].state = "unread"
    /\ \A s \in ss : <<u, s>> \notin Held
    /\ items' = [k \in Keys |-> IF k[1] = u /\ k[2] \in ss /\ items[k].state = "unread"
                                THEN [items[k] EXCEPT !.state = "read"] ELSE items[k]]
    /\ touches' = touches + 1
    /\ UNCHANGED <<ienv, prefs, msg, work, events, pushed, digestVars, recountVars>>

-----------------------------------------------------------------------------
(* The digest.                                                             *)

\* QuietPeriod has passed since the item's last event.
GoesQuiet(k) ==
    /\ Exists(k) /\ ~items[k].quiet /\ MaxDigests > 0
    /\ items' = [items EXCEPT ![k].quiet = TRUE]
    /\ UNCHANGED <<ienv, prefs, msg, work, events, pushed, touches, digestVars, recountVars>>

IntervalPasses(u) ==
    /\ u \in recent
    /\ recent' = recent \ {u}
    /\ UNCHANGED <<ienv, prefs, msg, work, events, items, pushed, touches, digest, mails, digests, recountVars>>

\* DigestCandidates, under the job's singleton lock.
DigestCandidates ==
    /\ digest.at = "idle" /\ digests < MaxDigests
    /\ LET cand == {k \in Keys : /\ items[k].state = "unread" /\ ~items[k].notified
                                 /\ items[k].quiet /\ k[1] \notin recent}
       IN  /\ cand # {}
           /\ digest' = [at |-> "claim", cand |-> cand, user |-> {},
                         seen |-> UNION {Behind(k, events) : k \in cand}]
    /\ digests' = digests + 1
    /\ UNCHANGED <<ienv, prefs, msg, work, events, items, pushed, touches, recent, mails, recountVars>>

\* ClaimDigest of one user's group: every candidate, mailable or not.
ClaimDigest(u) ==
    /\ digest.at = "claim" /\ \E k \in digest.cand : k[1] = u
    /\ \A k \in digest.cand : k[1] = u => k \notin Held
    /\ items' = [k \in Keys |-> IF k \in digest.cand /\ k[1] = u
                                THEN [items[k] EXCEPT !.notified = TRUE] ELSE items[k]]
    /\ recent' = recent \cup {u}
    /\ digest' = [digest EXCEPT !.at = "send", !.user = {u}]
    /\ UNCHANGED <<ienv, prefs, msg, work, events, pushed, touches, mails, digests, recountVars>>

\* The user's group is done: the next one, or the end of the run.
NextGroup(u) ==
    LET rest == {k \in digest.cand : k[1] # u}
    IN  digest' = IF rest = {} THEN [at |-> "idle", cand |-> {}, seen |-> {}, user |-> {}]
                  ELSE [digest EXCEPT !.at = "claim", !.cand = rest, !.user = {}]

\* The message is rendered from what was read, and queued; email = 'never' ends
\* without one.
SendDigest ==
    /\ digest.at = "send"
    /\ \E u \in digest.user :
        /\ mails' = IF prefs[u].email
                    THEN mails \cup {[n |-> digests, user |-> u,
                                      about |-> {e \in digest.seen : e[2] = u}]}
                    ELSE mails
        /\ NextGroup(u)
    /\ UNCHANGED <<ienv, prefs, msg, work, events, items, pushed, touches, recent, digests, recountVars>>

\* Claimed and not queued: this digest is lost.
DigestLost ==
    /\ digest.at = "send"
    /\ \E u \in digest.user : NextGroup(u)
    /\ UNCHANGED <<ienv, prefs, msg, work, events, items, pushed, touches, recent, mails, digests, recountVars>>

\* The claim fails: the group is skipped.
ClaimFails(u) ==
    /\ digest.at = "claim" /\ \E k \in digest.cand : k[1] = u
    /\ NextGroup(u)
    /\ UNCHANGED <<ienv, prefs, msg, work, events, items, pushed, touches, recent, mails, digests, recountVars>>

\* The job dies.
DigestStops ==
    /\ digest.at # "idle"
    /\ digest' = [at |-> "idle", cand |-> {}, seen |-> {}, user |-> {}]
    /\ UNCHANGED <<ienv, prefs, msg, work, events, items, pushed, touches, recent, mails, digests, recountVars>>

-----------------------------------------------------------------------------
(* The reconciler.                                                         *)

\* The recount starts: it will count the events of this moment.
RecountStarts ==
    /\ recount.at = "idle" /\ recounts < MaxRecounts
    /\ \E k \in Keys : Exists(k)
    /\ recount' = [at |-> "lock", seen |-> events,
                   rows |-> {k \in Keys : Exists(k)}, ids |-> {}]
    /\ recounts' = recounts + 1
    /\ UNCHANGED <<ienv, prefs, msg, work, events, items, pushed, touches, digestVars>>

Drifted(k) == items[k].count # Cardinality(Behind(k, recount.seen))

\* FOR UPDATE has every row: stored counts as they are now against events as
\* they were.
RecountCompares ==
    /\ recount.at = "lock"
    /\ recount' = [recount EXCEPT !.at = "repair", !.ids = {k \in recount.rows : Drifted(k)}]
    /\ UNCHANGED <<ienv, prefs, msg, work, events, items, pushed, touches, digestVars, recounts>>

\* The repair counts again, in a statement of its own, and commits.
RecountRepairs ==
    /\ recount.at = "repair"
    /\ items' = [k \in Keys |->
         IF k \in recount.ids
         THEN LET n == Cardinality(Behind(k, events))
              IN  [items[k] EXCEPT !.count = n,
                                   !.unread = IF n < @ THEN n ELSE @,
                                   !.state = IF n = 0 THEN "read" ELSE @]
         ELSE items[k]]
    /\ recount' = NoRecount
    /\ UNCHANGED <<ienv, prefs, msg, work, events, pushed, touches, digestVars, recounts>>

InboxNext ==
    \/ \E m \in Msgs : Publish(m) \/ \E w \in Workers : Fetch(w, m)
    \/ \E w \in Workers :
        \/ InsertEvents(w) \/ UpsertItems(w) \/ Announce(w) \/ Ack(w)
        \/ HandlerFails(w) \/ WorkerDies(w)
    \/ \E k \in Keys : GoesQuiet(k) \/ \E state \in ItemStates : SetState(k, state)
    \/ \E u \in Users : \E ss \in {Subjects} \cup {{s} : s \in Subjects} : MarkRead(u, ss)
    \/ \E u \in Users : IntervalPasses(u) \/ ClaimDigest(u) \/ ClaimFails(u)
    \/ DigestCandidates \/ SendDigest \/ DigestLost \/ DigestStops
    \/ RecountStarts \/ RecountCompares \/ RecountRepairs

InboxSpec == InboxInit /\ [][InboxNext]_ivars

-----------------------------------------------------------------------------
(* Properties.                                                             *)

\* Type correctness; a request is delivered MaxDeliver times at most, and only
\* recipients who want the event are filed.
InboxTypeOK ==
    /\ prefs \in [Users -> Prefs]
    /\ msg \in [Msgs -> [status : {"new", "queued", "done", "dropped"}, deliveries : 0..MaxDeliver]]
    /\ \A w \in Workers :
        /\ work[w].at \in {"idle", "insert", "upsert", "announce", "ack"}
        /\ work[w].fresh \subseteq work[w].wanted /\ work[w].wanted \subseteq Users
    /\ events \subseteq Msgs \X Users
    /\ items \in [Keys -> [state : ItemStates \cup {"none"}, top : Nat, unread : Nat, count : Nat,
                           notified : BOOLEAN, quiet : BOOLEAN]]
    /\ recent \subseteq Users /\ digest.cand \subseteq Keys
    /\ recount.ids \subseteq recount.rows /\ recount.rows \subseteq Keys

\* The counters of an item are the number of the events behind it, its top_kind
\* is the highest of theirs, and unread never exceeds the count, whatever was
\* redelivered, delivered out of order, rolled back or recounted.
CountsMatchEvents ==
    \A k \in Keys : /\ items[k].count = Cardinality(Behind(k, events))
                    /\ items[k].unread <= items[k].count
                    /\ items[k].top = Max({0} \cup {Rank[e[1]] : e \in Behind(k, events)})

\* A recipient is buzzed at most once for an event, and only when it is filed.
BuzzedOnce ==
    \A m \in Msgs, u \in Users :
        /\ pushed[m][u] <= 1
        /\ pushed[m][u] = 1 => <<m, u>> \in events

\* An acked event is filed for every recipient who wants it.
AckedMeansFiled ==
    \A m \in Msgs : msg[m].status = "done" =>
        \A u \in Audience[m] : prefs[u].inApp => <<m, u>> \in events

\* Nobody gets two digests about exactly the same events of an item that nobody
\* set back: claim-then-send.
NoDigestTwice ==
    \A a, b \in mails : a.user = b.user /\ a.about = b.about => a = b

\* What Deliver's comment says (repository.go:156): a new event makes the item
\* mailable again.  So an item is marked as mailed only when the digest that
\* marked it had read all its events.
MarkedMeansRead ==
    [][\A k \in Keys : ~items[k].notified /\ items'[k].notified
                       => Behind(k, events) \subseteq digest.seen]_ivars

\* The items say what the events say, and an acknowledged event is there.
ItemsSound == InboxTypeOK /\ CountsMatchEvents /\ AckedMeansFiled

\* Nobody is told of the same thing twice, by push or by mail.
ToldOnce == BuzzedOnce /\ NoDigestTwice
==============================================================================
