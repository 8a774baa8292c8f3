------------------------------ MODULE Mailbox ------------------------------
(***************************************************************************)
(* The shared inbox: sending domains and the mailboxes on them, mail that  *)
(* a provider posts (at least once), conversations, and agents' replies,   *)
(* which are rows that a queue consumer and a sweeper bring to the         *)
(* transport.                                                              *)
(*                                                                         *)
(* A host is the sequence of its labels, the top one first, so a domain    *)
(* lies under another exactly when that one is a prefix of it.             *)
(***************************************************************************)
EXTENDS Integers, Sequences, FiniteSets, FiniteSetsExt, SequencesExt

CONSTANTS Hosts,            \* domain names
          Tenants,          \* workspaces
          Boxes,            \* mailbox addresses
          HostOf,           \* the host of each address
          Letters,          \* provider event ids, numbered
          Jobs,             \* slots for requests in flight, numbered
          MaxMails,         \* bound on the messages stored
          MaxAttempts,      \* consumerMaxDeliver: deliveries of one event of the stream
          MailEnvironments  \* initial domains and mailboxes, budgets

VARIABLES menv,     \* the environment, its budgets going down and its clock forward
          domains,  \* mail_domains: owner (0 = no row) and whether verified
          boxes,    \* mailboxes: owner, the domain row they are bound to, next number
          letters,  \* mail customers sent: to which box, from whom, naming which messages
          events,   \* mail_inbound_events
          convs,    \* mail_conversations, in order of their ids
          mails,    \* mail_messages, in the order they were committed
          job,      \* requests in progress
          queue,    \* the durable outbound stream: deliveries each message's event has left
          courier,  \* what the consumer and the sweeper are doing
          handed    \* how often each message was given to the transport

mailvars == <<menv, domains, boxes, letters, events, convs, mails, job, queue, courier, handed>>

NoId == 0
NoHost == <<>>
Couriers == {"consumer", "sweeper"}

\* What a customer's address is good for: the transport takes mail to it, refuses it every
\* time, or there is no address.
Addresses == {"good", "refused", "none"}
IdleJob == [pc |-> "idle", host |-> NoHost, who |-> NoId, box |-> NoId, letter |-> NoId, conv |-> NoId, mail |-> NoId, bound |-> NoHost, at |-> 0]
IdleCourier == [pc |-> "idle", mail |-> NoId, todo |-> {}]
NoLetter == [box |-> NoId, by |-> NoId, from |-> "none", re |-> NoId, refs |-> {}]
NewMail(c, dir, l, t) == [conv |-> c, dir |-> dir, letter |-> l, at |-> t, sent |-> dir = "in", old |-> FALSE]

\* Customers' mail filed before.
OldMail(cs, t) == [conv : DOMAIN cs, dir : {"in"}, letter : {NoId}, at : 0..t, sent : {TRUE}, old : {FALSE}]

DomainRow == [owner : Tenants \cup {NoId}, verified : BOOLEAN]
BoxRow == [owner : Tenants \cup {NoId}, domain : Hosts \cup {NoHost}, next : Nat \ {0}]
ConvRow == [box : Boxes, number : Nat \ {0}, awaiting : BOOLEAN, state : {"open", "pending", "closed"},
            customer : Addresses]

\* A domain and the domains under it, and their one owner.
Related(g, h) == IsPrefix(g, h) \/ IsPrefix(h, g)
OwnersAgree(ds) ==
  \A g, h \in Hosts : ds[g].owner # NoId /\ ds[h].owner # NoId /\ Related(g, h) => ds[g].owner = ds[h].owner

\* The conversations of a mailbox are numbered without holes.
Numbered(cs, bs) ==
  \A b \in Boxes : {cs[c].number : c \in {x \in DOMAIN cs : cs[x].box = b}} = 1..(bs[b].next - 1)

\* Ids are numbers above NoId, and an environment is what earlier requests may have left:
\* each tree of domains with one owner, conversations of mailboxes that exist, numbered
\* without holes, and in them the customers' mail.
ASSUME MailAssumption ==
    /\ MaxMails \in Nat /\ MaxAttempts \in Nat /\ Hosts \subseteq Seq(STRING) /\ HostOf \in [Boxes -> Hosts]
    /\ NoId \notin Tenants \cup Boxes \cup Letters
    /\ \A e \in MailEnvironments :
          /\ e.domains \in [Hosts -> DomainRow] /\ e.boxes \in [Boxes -> BoxRow] /\ e.convs \in Seq(ConvRow)
          /\ OwnersAgree(e.domains) /\ Numbered(e.convs, e.boxes)
          /\ \A c \in DOMAIN e.convs : e.boxes[e.convs[c].box].owner # NoId
          /\ "clock" \in DOMAIN e /\ e.clock \in Nat
          /\ e.mails \in Seq(OldMail(e.convs, e.clock))
          /\ Len(e.mails) <= MaxMails

CanMail(op) == menv.ops[op] > 0
SpendMail(op) == menv' = [menv EXCEPT !.ops[op] = @ - 1]
\* A transaction begins: NOW() is its time until it ends.
StartTx(op) == menv' = [menv EXCEPT !.ops[op] = @ - 1, !.clock = @ + 1]
NOW == menv.clock + 1
FreeJob(j) == j <= menv.slots /\ job[j].pc = "idle" /\ \A i \in Jobs : i < j => job[i].pc # "idle"
ToJob(j, r) == job' = [job EXCEPT ![j] = r]
Bound(b) == boxes[b].domain
SendsFrom(b) == Bound(b) # NoHost /\ domains[Bound(b)].verified

-----------------------------------------------------------------------------
(* Domains and mailboxes.                                                  *)

registrableKey(h) == SubSeq(h, 1, 2)

\* A fault: the name space is not locked.
NamespaceUnlocked(j, h) == TRUE

\* pg_advisory_xact_lock: nobody else is registering in this name space.
NamespaceFree(j, h) ==
  \A i \in Jobs \ {j} : job[i].pc = "domain" => registrableKey(job[i].host) # registrableKey(h)

\* A domain has at least two labels, and nothing in its tree belongs to anybody else.
CreateDomain(j, t, h) ==
  /\ CanMail("domain") /\ FreeJob(j) /\ Len(h) >= 2 /\ NamespaceFree(j, h)
  /\ ~\E g \in Hosts : domains[g].owner \notin {NoId, t} /\ Related(g, h)
  /\ ToJob(j, [IdleJob EXCEPT !.pc = "domain", !.host = h, !.who = t])
  /\ SpendMail("domain")
  /\ UNCHANGED <<domains, boxes, letters, events, convs, mails, queue, courier, handed>>

\* UNIQUE (domain) refuses the exact name.
InsertDomain(j) ==
  LET k == job[j]
  IN  /\ k.pc = "domain"
      /\ domains' = IF domains[k.host].owner # NoId THEN domains
                    ELSE [domains EXCEPT ![k.host] = [owner |-> k.who, verified |-> FALSE]]
      /\ ToJob(j, IdleJob)
      /\ UNCHANGED <<menv, boxes, letters, events, convs, mails, queue, courier, handed>>

\* The TXT record was found: the domain is verified and the workspace's unbound mailboxes
\* on that very host are bound to it.
VerifyDomain(h) ==
  /\ CanMail("verify") /\ domains[h].owner # NoId
  /\ domains' = [domains EXCEPT ![h].verified = TRUE]
  /\ boxes' = [b \in Boxes |-> IF boxes[b].owner = domains[h].owner /\ Bound(b) = NoHost /\ HostOf[b] = h
                               THEN [boxes[b] EXCEPT !.domain = h] ELSE boxes[b]]
  /\ SpendMail("verify")
  /\ UNCHANGED <<letters, events, convs, mails, job, queue, courier, handed>>

DeleteDomainCount(j, h) ==
  /\ CanMail("drop") /\ FreeJob(j) /\ domains[h].owner # NoId
  /\ ~\E b \in Boxes : Bound(b) = h
  /\ ToJob(j, [IdleJob EXCEPT !.pc = "drop", !.host = h])
  /\ SpendMail("drop")
  /\ UNCHANGED <<domains, boxes, letters, events, convs, mails, queue, courier, handed>>

\* ON DELETE SET NULL unbinds whatever was bound since.
DeleteDomain(j) ==
  /\ job[j].pc = "drop"
  /\ domains' = [domains EXCEPT ![job[j].host] = [owner |-> NoId, verified |-> FALSE]]
  /\ boxes' = [b \in Boxes |-> IF Bound(b) = job[j].host THEN [boxes[b] EXCEPT !.domain = NoHost] ELSE boxes[b]]
  /\ ToJob(j, IdleJob)
  /\ UNCHANGED <<menv, letters, events, convs, mails, queue, courier, handed>>

\* The longest registered domain the address lies under decides.
Claims(b) == {h \in Hosts : domains[h].owner # NoId /\ IsPrefix(h, HostOf[b])}
Nearest(S) == CHOOSE h \in S : \A g \in S : Len(g) <= Len(h)

CreateMailbox(j, t, b) ==
  /\ CanMail("box") /\ FreeJob(j) /\ boxes[b].owner = NoId
  /\ Claims(b) # {} => domains[Nearest(Claims(b))].owner = t
  /\ ToJob(j, [IdleJob EXCEPT !.pc = "box", !.who = t, !.box = b, !.bound = IF Claims(b) = {} THEN NoHost ELSE Nearest(Claims(b))])
  /\ SpendMail("box")
  /\ UNCHANGED <<domains, boxes, letters, events, convs, mails, queue, courier, handed>>

\* The foreign key refuses a domain row that has gone, the unique address a second mailbox.
InsertMailbox(j) ==
  LET k == job[j]
  IN  /\ k.pc = "box"
      /\ boxes' = IF boxes[k.box].owner # NoId \/ (k.bound # NoHost /\ domains[k.bound].owner = NoId) THEN boxes
                  ELSE [boxes EXCEPT ![k.box] = [owner |-> k.who, domain |-> k.bound, next |-> 1]]
      /\ ToJob(j, IdleJob)
      /\ UNCHANGED <<menv, domains, letters, events, convs, mails, queue, courier, handed>>

-----------------------------------------------------------------------------
(* Mail coming in.                                                         *)

\* A customer writes to an address; the ingest token belongs to the tenant `by'.  The
\* headers In-Reply-To and References name stored messages of any mailbox (what they name
\* besides is found nowhere), and nobody looks at the sender's address.
CustomerWrites(l, b, t, from, re, refs) ==
  /\ CanMail("write") /\ letters[l] = NoLetter /\ \A k \in Letters : k < l => letters[k] # NoLetter
  /\ <<b, t>> \in menv.posts /\ from \in menv.senders
  /\ letters' = [letters EXCEPT ![l] = [box |-> b, by |-> t, from |-> from, re |-> re, refs |-> refs]]
  /\ SpendMail("write")
  /\ UNCHANGED <<domains, boxes, events, convs, mails, job, queue, courier, handed>>

\* The messages of a mailbox that the headers name, whichever header.
Named(x) == (x.refs \cup {x.re}) \ {NoId}
NamedHere(x) == {m \in DOMAIN mails : m \in Named(x) /\ convs[mails[m].conv].box = x.box}

\* ORDER BY created_at DESC LIMIT 1: of those, the one whose transaction began last.
threadOf(x) ==
  IF NamedHere(x) = {} THEN NoId
  ELSE mails[CHOOSE m \in NamedHere(x) : \A n \in NamedHere(x) : mails[n].at <= mails[m].at].conv

\* The event row is part of the transaction: it is there for others after the commit.
RecordEvent(l) == UNCHANGED events

\* The provider posts, and may post again: a second insert of the same event waits for the
\* first to end.  A duplicate and an address without a mailbox are answered and dropped.
Ingest(j, l) ==
  LET b == letters[l].box
  IN  /\ CanMail("post") /\ FreeJob(j) /\ letters[l] # NoLetter
      /\ ~\E i \in Jobs : job[i].pc = "ingest" /\ job[i].letter = l
      /\ StartTx("post")
      /\ IF l \notin events /\ boxes[b].owner = letters[l].by
         THEN /\ ToJob(j, [IdleJob EXCEPT !.pc = "ingest", !.letter = l, !.box = b, !.conv = threadOf(letters[l]), !.at = NOW])
              /\ RecordEvent(l)
         ELSE UNCHANGED <<job, events>>
      /\ UNCHANGED <<domains, boxes, letters, convs, mails, queue, courier, handed>>

\* A new conversation takes the mailbox's next number; a known one is opened again.
FileMessage(j) ==
  LET k == job[j]
      c == IF k.conv = NoId THEN Len(convs) + 1 ELSE k.conv
  IN  /\ k.pc = "ingest" /\ Len(mails) < MaxMails
      /\ convs' = IF k.conv = NoId
                  THEN Append(convs, [box |-> k.box, number |-> boxes[k.box].next, awaiting |-> TRUE, state |-> "open",
                                      customer |-> letters[k.letter].from])
                  ELSE [convs EXCEPT ![c].awaiting = TRUE, ![c].state = IF @ = "closed" THEN "open" ELSE @]
      /\ boxes' = IF k.conv = NoId THEN [boxes EXCEPT ![k.box].next = @ + 1] ELSE boxes
      /\ mails' = Append(mails, NewMail(c, "in", k.letter, k.at))
      /\ events' = events \cup {k.letter}
      /\ ToJob(j, IdleJob)
      /\ UNCHANGED <<menv, domains, letters, queue, courier, handed>>

\* The transaction is rolled back, or a process dies between two statements of a request.
JobFails(j) ==
  /\ CanMail("fail") /\ job[j].pc # "idle"
  /\ ToJob(j, IdleJob)
  /\ SpendMail("fail")
  /\ UNCHANGED <<domains, boxes, letters, events, convs, mails, queue, courier, handed>>

-----------------------------------------------------------------------------
(* Agents.                                                                 *)

PatchConversation(c, st) ==
  /\ CanMail("patch") /\ convs[c].state # st
  /\ convs' = [convs EXCEPT ![c].state = st]
  /\ SpendMail("patch")
  /\ UNCHANGED <<domains, boxes, letters, events, mails, job, queue, courier, handed>>

\* The reply is stored unsent, with its attachments, in one transaction.

Reply(j, c) ==
  /\ CanMail("reply") /\ FreeJob(j) /\ Len(mails) < MaxMails
  /\ mails' = Append(mails, NewMail(c, "out", NoId, NOW))
  /\ ToJob(j, [IdleJob EXCEPT !.pc = "queue", !.conv = c, !.mail = Len(mails) + 1])
  /\ StartTx("reply")
  /\ UNCHANGED <<domains, boxes, letters, events, convs, queue, courier, handed>>

\* Queue: a publish that fails is only logged.
QueueReply(j) ==
  /\ job[j].pc = "queue"
  /\ ToJob(j, [job[j] EXCEPT !.pc = "mark"])
  /\ \/ queue' = [queue EXCEPT ![job[j].mail] = MaxAttempts] /\ UNCHANGED menv
     \/ CanMail("lost") /\ SpendMail("lost") /\ UNCHANGED queue
  /\ UNCHANGED <<domains, boxes, letters, events, convs, mails, courier, handed>>

MarkAnswered(j) ==
  LET c == job[j].conv
  IN  /\ job[j].pc = "mark"
      /\ convs' = [convs EXCEPT ![c].awaiting = FALSE, ![c].state = IF @ = "open" THEN "pending" ELSE @]
      /\ ToJob(j, IdleJob)
      /\ UNCHANGED <<menv, domains, boxes, letters, events, mails, queue, courier, handed>>

-----------------------------------------------------------------------------
(* Delivery, by the queue's consumer and by the sweeper.                   *)

BoxOf(m) == convs[mails[m].conv].box
Customer(m) == convs[mails[m].conv].customer
Unsent == {m \in DOMAIN mails : mails[m].dir = "out" /\ ~mails[m].sent}
ToCourier(k, r) == courier' = [courier EXCEPT ![k] = r]

\* The consumer acknowledges its message when deliver returns without an error.
Settle(k, m) == queue' = IF k = "consumer" THEN [queue EXCEPT ![m] = 0] ELSE queue
NextOf(k, m) ==
  LET left == courier[k].todo \ {m}
  IN  [pc |-> IF left = {} THEN "idle" ELSE "load", mail |-> NoId, todo |-> left]

\* The stream delivers an event again until it is acknowledged, up to MaxDeliver times.
Handle(m) ==
  /\ courier["consumer"].pc = "idle" /\ queue[m] > 0
  /\ queue' = [queue EXCEPT ![m] = @ - 1]
  /\ ToCourier("consumer", [pc |-> "load", mail |-> NoId, todo |-> {m}])
  /\ UNCHANGED <<menv, domains, boxes, letters, events, convs, mails, job, handed>>

\* A fault: replies that will be refused are selected too.
SweepableAnyDomain(m) == m \in Unsent /\ mails[m].old /\ Customer(m) # "none"

Sweepable(m) == m \in Unsent /\ mails[m].old /\ Customer(m) # "none" /\ SendsFrom(BoxOf(m))

\* The oldest ones first, up to the limit.
SweepUnsent ==
  LET due  == {m \in DOMAIN mails : Sweepable(m)}
      page == {m \in due : Cardinality({n \in due : n < m}) < menv.limit}
  IN  /\ courier["sweeper"].pc = "idle" /\ page # {}
      /\ ToCourier("sweeper", [pc |-> "load", mail |-> NoId, todo |-> page])
      /\ UNCHANGED <<menv, domains, boxes, letters, events, convs, mails, job, queue, handed>>

\* deliver: the row is read; one already sent, to nobody, or from an unverified domain, is
\* let go.
DeliverLoad(k) ==
  LET m == Min(courier[k].todo)
  IN  /\ courier[k].pc = "load"
      /\ IF mails[m].sent \/ Customer(m) = "none" \/ ~SendsFrom(BoxOf(m))
         THEN ToCourier(k, NextOf(k, m)) /\ Settle(k, m)
         ELSE ToCourier(k, [courier[k] EXCEPT !.pc = "send", !.mail = m]) /\ UNCHANGED queue
      /\ UNCHANGED <<menv, domains, boxes, letters, events, convs, mails, job, handed>>

\* The transport takes it, refuses the recipient for good (the consumer's event is
\* terminated), or fails (the event is delivered again while it has a delivery left).  The
\* row stays unsent and the sweeper goes on with the next.
Send(k) ==
  LET m == courier[k].mail
  IN  /\ courier[k].pc = "send"
      /\ \/ /\ Customer(m) = "good" /\ handed' = [handed EXCEPT ![m] = @ + 1]
            /\ ToCourier(k, [courier[k] EXCEPT !.pc = "stamp"]) /\ UNCHANGED <<menv, queue>>
         \/ Customer(m) = "refused" /\ ToCourier(k, NextOf(k, m)) /\ Settle(k, m) /\ UNCHANGED <<menv, handed>>
         \/ CanMail("fault") /\ SpendMail("fault") /\ ToCourier(k, NextOf(k, m)) /\ UNCHANGED <<queue, handed>>
      /\ UNCHANGED <<domains, boxes, letters, events, convs, mails, job>>

\* The stamp; when it fails the message is let go all the same.
Stamp(k) ==
  LET m == courier[k].mail
  IN  /\ courier[k].pc = "stamp"
      /\ \/ mails' = [mails EXCEPT ![m].sent = TRUE] /\ UNCHANGED menv
         \/ CanMail("fault") /\ SpendMail("fault") /\ UNCHANGED mails
      /\ ToCourier(k, NextOf(k, m)) /\ Settle(k, m)
      /\ UNCHANGED <<domains, boxes, letters, events, convs, job, handed>>

\* A worker dies: the consumer's message is redelivered, the sweep starts again later.
CourierDies(k) ==
  /\ CanMail("fail") /\ courier[k].pc # "idle"
  /\ ToCourier(k, IdleCourier)
  /\ SpendMail("fail")
  /\ UNCHANGED <<domains, boxes, letters, events, convs, mails, job, queue, handed>>

\* Two minutes after a reply was stored the sweeper may take it.
TwoMinutes(m) ==
  /\ m \in Unsent /\ ~mails[m].old
  /\ mails' = [mails EXCEPT ![m].old = TRUE]
  /\ UNCHANGED <<menv, domains, boxes, letters, events, convs, job, queue, courier, handed>>

-----------------------------------------------------------------------------
MailInit ==
  /\ menv \in MailEnvironments
  /\ domains = menv.domains /\ boxes = menv.boxes
  /\ letters = [l \in Letters |-> NoLetter]
  /\ convs = menv.convs /\ mails = menv.mails
  /\ events = {} /\ queue = [m \in 1..MaxMails |-> 0]
  /\ handed = [m \in 1..MaxMails |-> 0]
  /\ job = [j \in Jobs |-> IdleJob]
  /\ courier = [k \in Couriers |-> IdleCourier]

Deliver(k) == DeliverLoad(k) \/ Send(k) \/ Stamp(k)
Sweep == SweepUnsent \/ Deliver("sweeper")

MailNext ==
  \/ \E j \in Jobs :
       \/ \E t \in Tenants, h \in Hosts : CreateDomain(j, t, h)
       \/ \E h \in Hosts : DeleteDomainCount(j, h)
       \/ \E t \in Tenants, b \in Boxes : CreateMailbox(j, t, b)
       \/ InsertDomain(j) \/ DeleteDomain(j) \/ InsertMailbox(j)
       \/ (\E l \in Letters : Ingest(j, l)) \/ FileMessage(j) \/ JobFails(j)
       \/ (\E c \in DOMAIN convs : Reply(j, c)) \/ QueueReply(j) \/ MarkAnswered(j)
  \/ \E h \in Hosts : VerifyDomain(h)
  \/ \E l \in Letters, b \in Boxes, t \in Tenants, from \in Addresses :
       \E re \in {NoId} \cup DOMAIN mails, refs \in SUBSET DOMAIN mails :
          re \notin refs /\ CustomerWrites(l, b, t, from, re, refs)
  \/ \E c \in DOMAIN convs : PatchConversation(c, "closed")
  \/ \E m \in DOMAIN mails : Handle(m)
  \/ Sweep \/ Deliver("consumer")
  \/ \E k \in Couriers : CourierDies(k)
  \/ \E m \in DOMAIN mails : TwoMinutes(m)

\* The sweep runs every few minutes on some replica, and time passes.
MailFairness == WF_mailvars(Sweep) /\ \A m \in 1..MaxMails : WF_mailvars(m \in DOMAIN mails /\ TwoMinutes(m))
MailSpec == MailInit /\ [][MailNext]_mailvars /\ MailFairness

-----------------------------------------------------------------------------
(* Properties.                                                             *)

Filed(l) == {m \in DOMAIN mails : mails[m].letter = l}

\* A letter is filed exactly once however often the provider posts it and wherever an
\* attempt dies: the event is on record exactly when the message is there.  Conversation
\* numbers of a mailbox have no holes.  A letter is in a conversation of its own mailbox:
\* the one of the newest message of that mailbox that its headers name, whatever was filed
\* between the look-up and the commit, and when they name none a conversation that the
\* letter began (Ingest, threadOf).
FiledOnce ==
  /\ \A l \in Letters : Cardinality(Filed(l)) = IF l \in events THEN 1 ELSE 0
  /\ Numbered(convs, boxes)
  /\ \A m \in DOMAIN mails : mails[m].letter # NoId =>
       LET x    == letters[mails[m].letter]
           hits == NamedHere(x)
       IN  /\ BoxOf(m) = x.box
           /\ hits # {} => \E n \in hits : mails[n].conv = mails[m].conv /\ \A o \in hits : mails[o].at <= mails[n].at
           /\ hits = {} => \A n \in DOMAIN mails : mails[n].conv = mails[m].conv => m <= n

\* A domain and the domains under it have one owner, however registrations overlap
\* (CreateDomain).
OneTenantPerTree == OwnersAgree(domains)

\* What a conversation shows as sent was given to the transport: no failure and no overlap
\* of consumer and sweeper leaves a stamp on a reply that went nowhere (deliver).
StampedWasSent == \A m \in DOMAIN mails : mails[m].dir = "out" /\ mails[m].sent => handed[m] > 0

Sendable(m) == m \in Unsent /\ SendsFrom(BoxOf(m)) /\ Customer(m) = "good"
Refused == {m \in Unsent : SendsFrom(BoxOf(m)) /\ Customer(m) = "refused"}

\* A reply from a mailbox that may send, to an address that takes mail, is sent whatever
\* the queue lost: the sweeper reaches it past replies that are selected never, and past
\* fewer refused ones than fill its page (SweepUnsent).
RepliesGoOut ==
  []<>(\A m \in Unsent : Sendable(m) => Cardinality({n \in Refused : n < m}) >= menv.limit)

\* Letters, conversations, domains and stamps agree with what came in and went out.
MailSound == FiledOnce /\ OneTenantPerTree /\ StampedWasSent

\* `ONLY MESSAGES THAT CAN ACTUALLY BE SENT' (SweepUnsent), so that nothing starves a
\* newer reply: a page of refused recipients does.
NothingStarves == []<>(\A m \in Unsent : ~Sendable(m))

\* `In-Reply-To first, then References' (Ingest): a letter that answers a message of its
\* mailbox is in that message's conversation.
InReplyToFirst ==
  \A m \in DOMAIN mails : mails[m].letter # NoId =>
     LET x == letters[mails[m].letter] IN x.re \in NamedHere(x) => mails[x.re].conv = mails[m].conv

\* `awaiting_reply ... is the column every "needs attention" view reads' (Reply): a
\* conversation whose newest message is the customer's is waiting for a reply.
NeedsAttention ==
  \A c \in DOMAIN convs :
     LET of == {m \in DOMAIN mails : mails[m].conv = c}
     IN  (\E m \in of : mails[m].dir = "in" /\ \A n \in of : n <= m) /\ (\A j \in Jobs : job[j].conv # c) => convs[c].awaiting
=============================================================================
