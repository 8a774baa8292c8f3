----------------------------- MODULE BytesProof -----------------------------
(***************************************************************************)
(* Proofs about the shared inbox (Mailbox), for any hosts, tenants,        *)
(* mailboxes, letters and requests in flight.                              *)
(***************************************************************************)
EXTENDS Mailbox, FiniteSetTheorems, WellFoundedInduction, TLAPS

(* The inductive invariant, in parts.  What is said of a row is an         *)
(* operator on it and on the tables it depends on: bs the mailboxes, cs    *)
(* the conversations, ms the messages, ls the letters, es the events.      *)

Elements(s) == {s[k] : k \in DOMAIN s}
IsSequence(s) == s \in Seq(Elements(s))

JobRow == [pc : {"idle", "domain", "drop", "box", "ingest", "queue", "mark"}, host : Hosts \cup {NoHost},
           who : Tenants \cup {NoId}, box : Boxes \cup {NoId}, letter : Letters \cup {NoId},
           conv : Nat, mail : Nat, bound : Hosts \cup {NoHost}, at : Nat]
LetterRow == [box : Boxes \cup {NoId}, by : Tenants \cup {NoId}, from : Addresses, re : Nat, refs : SUBSET Nat]
CourierRow == [pc : {"idle", "load", "send", "stamp"}, mail : Nat, todo : SUBSET Nat]
MailFields == {"conv", "dir", "letter", "at", "sent", "old"}

\* What a request is about exists.
PlaceOk(k, cs, ms) ==
    /\ k.pc \in {"domain", "drop"} => k.host \in Hosts
    /\ k.pc \in {"domain", "box"} => k.who \in Tenants
    /\ k.pc = "domain" => Len(k.host) >= 2
    /\ k.pc = "box" => k.box \in Boxes
    /\ k.pc \in {"queue", "mark"} => k.conv \in DOMAIN cs /\ k.mail \in DOMAIN ms
JobInv ==
    /\ job \in [Jobs -> JobRow]
    /\ \A j \in Jobs : PlaceOk(job[j], convs, mails)

\* A registration under way has found nothing of anybody else in its tree, nothing has come
\* since, and nobody else registers in its name space.
ClaimOk(k, ds) ==
    k.pc = "domain" => \A g \in Hosts : ds[g].owner \notin {NoId, k.who} => ~Related(g, k.host)
NamesInv ==
    /\ domains \in [Hosts -> DomainRow] /\ OwnersAgree(domains)
    /\ \A j \in Jobs : ClaimOk(job[j], domains)
    /\ \A i, j \in Jobs : job[i].pc = "domain" /\ job[j].pc = "domain"
                          /\ registrableKey(job[i].host) = registrableKey(job[j].host) => i = j

\* The messages of its own mailbox that a letter names, and a letter in the conversation c
\* of the newest of them.
Hits(x, cs, ms) == {n \in DOMAIN ms : n \in Named(x) /\ cs[ms[n].conv].box = x.box}
InThread(x, c, cs, ms) ==
    Hits(x, cs, ms) # {} =>
        \E n \in Hits(x, cs, ms) : ms[n].conv = c /\ \A o \in Hits(x, cs, ms) : ms[o].at <= ms[n].at

\* A letter that names none began the conversation it is in.
Begins(x, m, cs, ms) ==
    Hits(x, cs, ms) = {} => \A n \in DOMAIN ms : ms[n].conv = ms[m].conv => m <= n

\* A letter whose transaction is open is on no record yet, and the conversation that was
\* found for it is still the one.
IngestOk(k, bs, cs, ms, ls, es) ==
    k.pc = "ingest" =>
        /\ k.letter \in Letters \ es /\ ls[k.letter] # NoLetter /\ ls[k.letter].box = k.box
        /\ k.box \in Boxes /\ bs[k.box].owner # NoId
        /\ k.conv # NoId => k.conv \in DOMAIN cs /\ cs[k.conv].box = k.box
        /\ InThread(ls[k.letter], k.conv, cs, ms)
        /\ Hits(ls[k.letter], cs, ms) = {} => k.conv = NoId

\* Letters were written to an address, with a token, answering what was there.
LettersOk(ls, es, ms) ==
    /\ ls \in [Letters -> LetterRow] /\ es \subseteq Letters
    /\ \A l \in Letters : /\ Named(ls[l]) \subseteq DOMAIN ms
                          /\ ls[l] # NoLetter => ls[l].box \in Boxes /\ ls[l].by \in Tenants

\* The message m is in a conversation, and its letter, if it is of one, is on record.
MailOk(m, cs, ms, ls, es) ==
    /\ DOMAIN ms[m] = MailFields /\ ms[m].conv \in DOMAIN cs /\ ms[m].letter \in Letters \cup {NoId} /\ ms[m].at \in Nat
    /\ ms[m].letter # NoId =>
          /\ ms[m].letter \in es /\ ls[ms[m].letter] # NoLetter
          /\ cs[ms[m].conv].box = ls[ms[m].letter].box
          /\ InThread(ls[ms[m].letter], ms[m].conv, cs, ms) /\ Begins(ls[ms[m].letter], m, cs, ms)

\* Mailboxes, conversations, messages and letters agree, and a letter is being filed by one
\* request.
MailsOk(cs, ms, ls, es) ==
    /\ IsSequence(ms) /\ Len(ms) <= MaxMails
    /\ \A m \in DOMAIN ms : MailOk(m, cs, ms, ls, es)
    /\ \A m, n \in DOMAIN ms : ms[m].letter # NoId /\ ms[m].letter = ms[n].letter => m = n
    /\ \A l \in es : \E m \in DOMAIN ms : ms[m].letter = l
ConvsOk(bs, cs) ==
    /\ bs \in [Boxes -> BoxRow] /\ cs \in Seq(ConvRow) /\ Numbered(cs, bs)
    /\ \A c \in DOMAIN cs : bs[cs[c].box].owner # NoId
FilingInv ==
    /\ ConvsOk(boxes, convs) /\ LettersOk(letters, events, mails) /\ MailsOk(convs, mails, letters, events)
    /\ \A j \in Jobs : IngestOk(job[j], boxes, convs, mails, letters, events)
    /\ \A i, j \in Jobs : job[i].pc = "ingest" /\ job[j].pc = "ingest" /\ job[i].letter = job[j].letter => i = j

\* What the couriers have in hand is there, and what is about to be stamped was handed over.
CourierOk(k, ms, hs) ==
    /\ k.todo \subseteq DOMAIN ms
    /\ k.pc = "load" => k.todo # {}
    /\ k.pc \in {"send", "stamp"} => k.mail \in DOMAIN ms
    /\ k.pc = "stamp" => hs[k.mail] > 0
PostInv ==
    /\ courier \in [Couriers -> CourierRow]
    /\ handed \in [1..MaxMails -> Nat]
    /\ \A k \in Couriers : CourierOk(courier[k], mails, handed)
    /\ StampedWasSent

\* The inductive invariant of the shared inbox.
MailIInv == JobInv /\ NamesInv /\ FilingInv /\ PostInv

\* The clock, which only goes forward.
ClockInv == "clock" \in DOMAIN menv /\ menv.clock \in Nat

-----------------------------------------------------------------------------
(* Facts about sequences, sets of numbers and names.                       *)

\* A set of numbers has a least one.
LEMMA LeastOf ==
    ASSUME NEW S \in SUBSET Nat, S # {}
    PROVE  \E x \in S : \A y \in S : x <= y
<1> DEFINE less == OpToRel(<, Nat)
<1>1. IsWellFoundedOn(less, Nat)
  BY NatLessThanWellFounded
<1>2. \A x, y \in Nat : <<y, x>> \in less <=> y < x
  BY DEF OpToRel
<1> HIDE DEF less
<1>3. PICK x \in S : \A y \in S : <<y, x>> \notin less
  BY <1>1, WFMin
<1>4. ASSUME NEW y \in S PROVE x <= y
  <2>1. x \in Nat /\ y \in Nat
    OBVIOUS
  <2>2. ~(y < x)
    BY <1>2, <1>3, <2>1, Zenon
  <2> QED
    BY <2>1, <2>2
<1> QED
  BY <1>4

LEMMA MinOf ==
    ASSUME NEW S \in SUBSET Nat, S # {}
    PROVE  Min(S) \in S
  BY LeastOf DEF Min

\* Of finitely many rows one is the newest: take a smallest set of rows that is not empty
\* and holds with a row every row that is not older.
LEMMA NewestOf ==
    ASSUME NEW S, IsFiniteSet(S), S # {}, NEW f, \A x \in S : f[x] \in Nat
    PROVE  \E x \in S : \A y \in S : f[y] <= f[x]
<1> DEFINE less == StrictSubsetOrdering(S)
           above(x) == {y \in S : f[x] <= f[y]}
           F == {T \in SUBSET S : \E x \in S : T = above(x)}
<1>1. IsWellFoundedOn(less, FiniteSubsetsOf(S))
  BY FS_StrictSubsetOrderingWellFounded
<1>2. F \subseteq FiniteSubsetsOf(S)
  BY FS_Subset DEF FiniteSubsetsOf
<1>3. F # {}
  OBVIOUS
<1>4. PICK T \in F : \A U \in F : <<U, T>> \notin less
  <2> HIDE DEF F, less
  <2> QED
    BY <1>1, <1>2, <1>3, WFMin
<1>5. PICK x \in S : T = above(x)
  OBVIOUS
<1>6. ASSUME NEW y \in S PROVE f[y] <= f[x]
  <2>1. CASE f[y] <= f[x]
    BY <2>1
  <2>2. CASE f[x] < f[y]
    <3>1. above(y) \in F /\ above(y) \subseteq T /\ x \in T /\ x \notin above(y)
      BY <1>5, <2>2
    <3>2. <<above(y), T>> \in less
      BY <3>1 DEF StrictSubsetOrdering
    <3> QED
      BY <1>4, <3>1, <3>2
  <2> QED
    BY <2>1, <2>2
<1> QED
  BY <1>6

\* The messages grow by one.
LEMMA Appended ==
    ASSUME NEW s, IsSequence(s), NEW x
    PROVE  /\ IsSequence(Append(s, x))
           /\ Len(s) \in Nat /\ DOMAIN s = 1..Len(s)
           /\ Len(Append(s, x)) = Len(s) + 1 /\ DOMAIN Append(s, x) = 1..(Len(s) + 1)
           /\ Append(s, x)[Len(s) + 1] = x
           /\ \A k \in DOMAIN s : Append(s, x)[k] = s[k]
<1> DEFINE E == Elements(s) \cup {x}
           t == Append(s, x)
<1>1. s \in Seq(E)
  <2>1. s \in Seq(Elements(s)) /\ Elements(s) \subseteq E
    BY DEF IsSequence
  <2> QED
    BY <2>1
<1>2. x \in E
  OBVIOUS
<1> HIDE DEF E
<1>3. /\ Len(s) \in Nat /\ DOMAIN s = 1..Len(s)
      /\ t \in Seq(E) /\ Len(t) = Len(s) + 1
      /\ \A k \in 1..Len(s) : t[k] = s[k]
      /\ t[Len(s) + 1] = x
  BY <1>1, <1>2
<1>4. DOMAIN t = 1..(Len(s) + 1)
  BY <1>3
<1> HIDE DEF t
<1>5. \A k \in 1..Len(t) : t[k] \in Elements(t)
  BY <1>3, <1>4 DEF Elements
<1>6. t \in Seq(Elements(t))
  BY <1>3, <1>5
<1> QED
  BY <1>3, <1>4, <1>6 DEF IsSequence, t

\* A message changes.
LEMMA Replaced ==
    ASSUME NEW s, IsSequence(s), NEW t, DOMAIN t = DOMAIN s, t = [j \in DOMAIN t |-> t[j]]
    PROVE  IsSequence(t) /\ Len(t) = Len(s)
<1>1. Len(s) \in Nat /\ DOMAIN s = 1..Len(s)
  BY DEF IsSequence
<1>2. \A j \in 1..Len(s) : t[j] \in Elements(t)
  BY <1>1 DEF Elements
<1>3. t \in Seq(Elements(t)) /\ Len(t) = Len(s)
  BY <1>1, <1>2
<1> QED
  BY <1>3 DEF IsSequence

\* What a conversation's row holds, and what a row that replaces it keeps.
LEMMA ConvFields ==
    ASSUME NEW cs \in Seq(ConvRow), NEW c \in DOMAIN cs
    PROVE  /\ cs[c] \in ConvRow /\ cs[c].box \in Boxes /\ cs[c].number \in Nat \ {0}
           /\ c \in Nat \ {0} /\ Len(cs) \in Nat /\ DOMAIN cs = 1..Len(cs)
<1>1. cs[c] \in ConvRow /\ c \in Nat \ {0} /\ Len(cs) \in Nat /\ DOMAIN cs = 1..Len(cs)
  OBVIOUS
<1> QED
  BY <1>1 DEF ConvRow

LEMMA ConvReplaced ==
    ASSUME NEW cs \in Seq(ConvRow), NEW c \in DOMAIN cs, NEW r \in ConvRow,
           r.box = cs[c].box, r.number = cs[c].number
    PROVE  LET t == [cs EXCEPT ![c] = r]
           IN  /\ t \in Seq(ConvRow) /\ DOMAIN t = DOMAIN cs
               /\ \A d \in DOMAIN cs : t[d].box = cs[d].box /\ t[d].number = cs[d].number
  OBVIOUS

\* Names of one tree are of one name space, if they have two labels.
LEMMA RelatedShareKey ==
    ASSUME NEW g \in Hosts, NEW h \in Hosts, Len(g) >= 2, Len(h) >= 2, Related(g, h)
    PROVE  registrableKey(g) = registrableKey(h)
<1>1. g \in Seq(STRING) /\ h \in Seq(STRING)
  BY MailAssumption
<1>2. ASSUME NEW s \in Seq(STRING), NEW t \in Seq(STRING), Len(s) >= 2, IsPrefix(s, t)
      PROVE  SubSeq(s, 1, 2) = SubSeq(t, 1, 2)
  <2>1. Len(s) \in Nat /\ Len(t) \in Nat /\ Len(s) <= Len(t)
    BY <1>2 DEF IsPrefix
  <2>2. SubSeq(s, 1, Len(s)) = SubSeq(t, 1, Len(s))
    BY <1>2 DEF IsPrefix
  <2>3. /\ \A i \in 1..Len(s) : SubSeq(s, 1, Len(s))[i] = s[i]
        /\ \A i \in 1..Len(s) : SubSeq(t, 1, Len(s))[i] = t[i]
    BY <2>1
  <2>4. \A i \in 1..2 : s[i] = t[i]
    BY <1>2, <2>1, <2>2, <2>3
  <2>5. /\ SubSeq(s, 1, 2) = [i \in 1..2 |-> s[i]]
        /\ SubSeq(t, 1, 2) = [i \in 1..2 |-> t[i]]
    BY <1>2, <2>1
  <2> QED
    BY <2>4, <2>5
<1> QED
  BY <1>1, <1>2 DEF Related, registrableKey

\* The nearest of the domains an address lies under is one of them.
LEMMA NearestIn ==
    ASSUME NEW b \in Boxes, Claims(b) # {}
    PROVE  Nearest(Claims(b)) \in Claims(b)
<1> DEFINE n == Len(HostOf[b])
           away == {n - Len(h) : h \in Claims(b)}
<1>1. \A h \in Claims(b) : h \in Seq(STRING) /\ Len(h) \in Nat /\ Len(h) <= n /\ n \in Nat
  BY MailAssumption DEF Claims, IsPrefix
<1>2. away \in SUBSET Nat /\ away # {}
  BY <1>1
<1>3. PICK d \in away : \A y \in away : d <= y
  BY <1>2, LeastOf
<1>4. PICK h \in Claims(b) : d = n - Len(h)
  OBVIOUS
<1>5. ASSUME NEW g \in Claims(b) PROVE Len(g) <= Len(h)
  <2>1. n - Len(h) <= n - Len(g)
    BY <1>3, <1>4
  <2>2. n \in Nat /\ Len(h) \in Nat /\ Len(g) \in Nat
    BY <1>1
  <2> HIDE DEF n
  <2> QED
    BY <2>1, <2>2
<1> QED
  BY <1>5 DEF Nearest

-----------------------------------------------------------------------------
(* What keeps the parts.                                                   *)

\* An idle request, and an idle courier.
LEMMA IdleFacts ==
    /\ IdleJob \in JobRow /\ IdleJob.pc = "idle"
    /\ IdleCourier \in CourierRow /\ IdleCourier.pc = "idle" /\ IdleCourier.todo = {}
  BY DEF IdleJob, JobRow, IdleCourier, CourierRow, NoId, NoHost

\* One request moves.
LEMMA JobMoves ==
    ASSUME JobInv, NEW j \in Jobs, NEW q \in JobRow, ToJob(j, q), PlaceOk(q, convs', mails'),
           DOMAIN convs \subseteq DOMAIN convs', DOMAIN mails \subseteq DOMAIN mails'
    PROVE  /\ JobInv' /\ job'[j] = q
           /\ \A i \in Jobs : i # j => job'[i] = job[i]
<1>1. /\ job' \in [Jobs -> JobRow] /\ job'[j] = q
      /\ \A i \in Jobs : i # j => job'[i] = job[i]
  BY DEF ToJob, JobInv
<1>2. ASSUME NEW i \in Jobs PROVE PlaceOk(job'[i], convs', mails')
  <2>1. CASE i = j
    BY <1>1, <2>1
  <2>2. CASE i # j
    <3>1. job'[i] = job[i] /\ PlaceOk(job[i], convs, mails)
      BY <1>1, <2>2 DEF JobInv
    <3> QED
      BY <3>1 DEF PlaceOk
  <2> QED
    BY <2>1, <2>2
<1> QED
  BY <1>1, <1>2 DEF JobInv

\* No request moves, and the tables grow.
LEMMA JobsRest ==
    ASSUME JobInv, UNCHANGED job, DOMAIN convs \subseteq DOMAIN convs', DOMAIN mails \subseteq DOMAIN mails'
    PROVE  JobInv'
  BY DEF JobInv, PlaceOk

\* Nobody starts to register, and the domains keep their owners or lose them.
LEMMA NamesKept ==
    ASSUME NamesInv, domains' \in [Hosts -> DomainRow],
           \A h \in Hosts : domains'[h].owner = domains[h].owner \/ domains'[h].owner = NoId,
           \A i \in Jobs : job'[i] = job[i] \/ job'[i].pc # "domain"
    PROVE  NamesInv'
<1>0. OwnersAgree(domains')
  BY DEF NamesInv, OwnersAgree
<1>1. \A i \in Jobs : ClaimOk(job'[i], domains')
  BY DEF NamesInv, ClaimOk
<1>2. \A i, j \in Jobs : job'[i].pc = "domain" /\ job'[j].pc = "domain"
                         /\ registrableKey(job'[i].host) = registrableKey(job'[j].host) => i = j
  BY DEF NamesInv
<1> QED
  BY <1>0, <1>1, <1>2 DEF NamesInv

LEMMA NamesSame ==
    ASSUME NamesInv, UNCHANGED domains, \A i \in Jobs : job'[i] = job[i] \/ job'[i].pc # "domain"
    PROVE  NamesInv'
<1>1. domains' \in [Hosts -> DomainRow] /\ \A h \in Hosts : domains'[h].owner = domains[h].owner
  BY DEF NamesInv
<1> QED
  BY <1>1, NamesKept

\* What a letter names, and the conversation it belongs to, stay what they were when mail
\* and conversations are added.
LEMMA ThreadStays ==
    ASSUME NEW cs, NEW ms, NEW cs2, NEW ms2, NEW x,
           Named(x) \subseteq DOMAIN ms, DOMAIN ms \subseteq DOMAIN ms2,
           \A m \in DOMAIN ms : ms2[m].conv = ms[m].conv /\ ms2[m].at = ms[m].at /\ ms[m].conv \in DOMAIN cs,
           \A n \in DOMAIN ms2 : n \notin DOMAIN ms => \A m \in DOMAIN ms : m <= n,
           \A d \in DOMAIN cs : cs2[d].box = cs[d].box
    PROVE  /\ Hits(x, cs2, ms2) = Hits(x, cs, ms)
           /\ \A c : InThread(x, c, cs, ms) => InThread(x, c, cs2, ms2)
           /\ \A m \in DOMAIN ms : Begins(x, m, cs, ms) => Begins(x, m, cs2, ms2)
<1>1. Hits(x, cs2, ms2) = Hits(x, cs, ms)
  BY DEF Hits
<1>2. Hits(x, cs, ms) \subseteq DOMAIN ms
  BY DEF Hits
<1>3. ASSUME NEW c, InThread(x, c, cs, ms) PROVE InThread(x, c, cs2, ms2)
  <2> PICK H : H = Hits(x, cs, ms)
    OBVIOUS
  <2>1. H # {} => \E n \in H : ms[n].conv = c /\ \A o \in H : ms[o].at <= ms[n].at
    BY <1>3 DEF InThread
  <2>2. H # {} => \E n \in H : ms2[n].conv = c /\ \A o \in H : ms2[o].at <= ms2[n].at
    BY <1>2, <2>1
  <2> QED
    BY <1>1, <2>2 DEF InThread
<1>4. ASSUME NEW m \in DOMAIN ms, Begins(x, m, cs, ms) PROVE Begins(x, m, cs2, ms2)
  BY <1>1, <1>4 DEF Begins
<1> QED
  BY <1>1, <1>3, <1>4

\* Nothing is filed: mailboxes keep their number, conversations their place, letters and
\* messages are added that are not of each other.
LEMMA FilingKept ==
    ASSUME FilingInv, UNCHANGED events,
           boxes' \in [Boxes -> BoxRow],
           \A b \in Boxes : boxes'[b].next = boxes[b].next /\ (boxes[b].owner # NoId => boxes'[b].owner # NoId),
           convs' \in Seq(ConvRow), DOMAIN convs' = DOMAIN convs,
           \A c \in DOMAIN convs : convs'[c].box = convs[c].box /\ convs'[c].number = convs[c].number,
           LettersOk(letters', events, mails'),
           \A l \in Letters : letters[l] # NoLetter => letters'[l] = letters[l],
           IsSequence(mails'), Len(mails') <= MaxMails, DOMAIN mails \subseteq DOMAIN mails',
           \A m \in DOMAIN mails : /\ DOMAIN mails'[m] = MailFields /\ mails'[m].at = mails[m].at
                                   /\ mails'[m].conv = mails[m].conv /\ mails'[m].letter = mails[m].letter,
           \A m \in DOMAIN mails' \ DOMAIN mails :
               /\ DOMAIN mails'[m] = MailFields /\ mails'[m].at \in Nat
               /\ mails'[m].conv \in DOMAIN convs /\ mails'[m].letter = NoId,
           \A j \in Jobs : IngestOk(job'[j], boxes, convs, mails, letters, events),
           \A i, j \in Jobs : job'[i].pc = "ingest" /\ job'[j].pc = "ingest" /\ job'[i].letter = job'[j].letter => i = j
    PROVE  FilingInv'
<1>1. ConvsOk(boxes', convs')
  <2>1. \A b \in Boxes : {convs'[c].number : c \in {x \in DOMAIN convs' : convs'[x].box = b}}
                         = {convs[c].number : c \in {x \in DOMAIN convs : convs[x].box = b}}
    OBVIOUS
  <2>2. Numbered(convs', boxes')
    BY <2>1 DEF FilingInv, ConvsOk, Numbered
  <2>3. convs \in Seq(ConvRow) /\ \A c \in DOMAIN convs : boxes[convs[c].box].owner # NoId
    BY DEF FilingInv, ConvsOk
  <2>4. \A c \in DOMAIN convs : convs[c].box \in Boxes
    BY <2>3, ConvFields
  <2> QED
    BY <2>2, <2>3, <2>4 DEF ConvsOk
<1>2. /\ \A m \in DOMAIN mails : MailOk(m, convs, mails, letters, events)
      /\ LettersOk(letters, events, mails) /\ DOMAIN mails = 1..Len(mails) /\ Len(mails) \in Nat
  BY DEF FilingInv, MailsOk, IsSequence
<1>3. ASSUME NEW l \in Letters, letters[l] # NoLetter
      PROVE  /\ letters'[l] = letters[l] /\ Hits(letters'[l], convs', mails') = Hits(letters[l], convs, mails)
             /\ \A c : InThread(letters[l], c, convs, mails) => InThread(letters'[l], c, convs', mails')
             /\ \A m \in DOMAIN mails : Begins(letters[l], m, convs, mails) => Begins(letters'[l], m, convs', mails')
  <2>1. letters'[l] = letters[l] /\ Named(letters[l]) \subseteq DOMAIN mails
    BY <1>2, <1>3 DEF LettersOk
  <2>2. \A m \in DOMAIN mails : /\ mails'[m].conv = mails[m].conv /\ mails'[m].at = mails[m].at
                                /\ mails[m].conv \in DOMAIN convs
    BY <1>2 DEF MailOk
  <2>3. \A n \in DOMAIN mails' : n \notin DOMAIN mails => \A m \in DOMAIN mails : m <= n
    <3>1. DOMAIN mails' = 1..Len(mails') /\ Len(mails') \in Nat
      BY DEF IsSequence
    <3> QED
      BY <1>2, <3>1
  <2> PICK x : x = letters[l]
    OBVIOUS
  <2> PICK cs2 : cs2 = convs'
    OBVIOUS
  <2> PICK ms2 : ms2 = mails'
    OBVIOUS
  <2>5. /\ Named(x) \subseteq DOMAIN mails /\ DOMAIN mails \subseteq DOMAIN ms2
        /\ \A m \in DOMAIN mails : ms2[m].conv = mails[m].conv /\ ms2[m].at = mails[m].at /\ mails[m].conv \in DOMAIN convs
        /\ \A n \in DOMAIN ms2 : n \notin DOMAIN mails => \A m \in DOMAIN mails : m <= n
        /\ \A d \in DOMAIN convs : cs2[d].box = convs[d].box
    BY <2>1, <2>2, <2>3
  <2>4. /\ Hits(x, cs2, ms2) = Hits(x, convs, mails)
        /\ \A c : InThread(x, c, convs, mails) => InThread(x, c, cs2, ms2)
        /\ \A m \in DOMAIN mails : Begins(x, m, convs, mails) => Begins(x, m, cs2, ms2)
    BY ONLY <2>5, ThreadStays, Zenon
  <2> QED
    BY <2>1, <2>4
<1>4. ASSUME NEW m \in DOMAIN mails' PROVE MailOk(m, convs', mails', letters', events')
  <2>1. CASE m \in DOMAIN mails
    <3>1. /\ MailOk(m, convs, mails, letters, events)
          /\ DOMAIN mails'[m] = MailFields
          /\ mails'[m].conv = mails[m].conv /\ mails'[m].letter = mails[m].letter /\ mails'[m].at = mails[m].at
      BY <1>2, <2>1
    <3>2. CASE mails[m].letter = NoId
      BY <3>1, <3>2 DEF MailOk
    <3>3. CASE mails[m].letter # NoId
      <4>1. mails[m].letter \in Letters /\ letters[mails[m].letter] # NoLetter
        BY <3>1, <3>3 DEF MailOk
      <4>2. letters'[mails[m].letter] = letters[mails[m].letter]
        BY <4>1
      <4>3. /\ InThread(letters[mails[m].letter], mails[m].conv, convs, mails)
            /\ Begins(letters[mails[m].letter], m, convs, mails)
        BY <3>1, <3>3 DEF MailOk
      <4>4. /\ InThread(letters'[mails[m].letter], mails[m].conv, convs', mails')
            /\ Begins(letters'[mails[m].letter], m, convs', mails')
        BY <1>3, <2>1, <4>1, <4>3
      <4> QED
        BY <3>1, <3>3, <4>1, <4>2, <4>4 DEF MailOk
    <3> QED
      BY <3>2, <3>3
  <2>2. CASE m \notin DOMAIN mails
    BY <2>2 DEF MailOk
  <2> QED
    BY <2>1, <2>2
<1>5. \A m, n \in DOMAIN mails' : mails'[m].letter # NoId /\ mails'[m].letter = mails'[n].letter => m = n
  BY DEF FilingInv, MailsOk
<1>6. \A l \in events' : \E m \in DOMAIN mails' : mails'[m].letter = l
  BY DEF FilingInv, MailsOk
<1>7. MailsOk(convs', mails', letters', events')
  BY <1>4, <1>5, <1>6 DEF MailsOk
<1>8. ASSUME NEW j \in Jobs PROVE IngestOk(job'[j], boxes', convs', mails', letters', events')
  <2>1. CASE job'[j].pc # "ingest"
    BY <2>1 DEF IngestOk
  <2>2. CASE job'[j].pc = "ingest"
    <3>1. IngestOk(job'[j], boxes, convs, mails, letters, events)
      OBVIOUS
    <3>2. job'[j].letter \in Letters /\ letters[job'[j].letter] # NoLetter
          /\ InThread(letters[job'[j].letter], job'[j].conv, convs, mails)
      BY <2>2, <3>1 DEF IngestOk
    <3>3. /\ InThread(letters'[job'[j].letter], job'[j].conv, convs', mails')
          /\ Hits(letters'[job'[j].letter], convs', mails') = Hits(letters[job'[j].letter], convs, mails)
      BY <1>3, <3>2
    <3>4. letters'[job'[j].letter] = letters[job'[j].letter]
      BY <3>2
    <3> QED
      BY <2>2, <3>1, <3>3, <3>4 DEF IngestOk
  <2> QED
    BY <2>1, <2>2
<1> QED
  BY <1>1, <1>7, <1>8 DEF FilingInv

\* No table of the filing changes, and no request starts to file.
LEMMA FilingSame ==
    ASSUME FilingInv, UNCHANGED <<boxes, convs, mails, letters, events>>,
           \A j \in Jobs : job'[j] = job[j] \/ job'[j].pc # "ingest"
    PROVE  FilingInv'
<1>1. \A j \in Jobs : IngestOk(job'[j], boxes', convs', mails', letters', events')
  BY DEF FilingInv, IngestOk
<1>2. \A i, j \in Jobs : job'[i].pc = "ingest" /\ job'[j].pc = "ingest" /\ job'[i].letter = job'[j].letter => i = j
  BY DEF FilingInv
<1> QED
  BY <1>1, <1>2 DEF FilingInv

\* Nothing is carried, and messages are at most added, unsent.
LEMMA PostKept ==
    ASSUME PostInv, UNCHANGED <<courier, handed>>, DOMAIN mails \subseteq DOMAIN mails',
           \A m \in DOMAIN mails' : mails'[m].dir = "out" /\ mails'[m].sent =>
               m \in DOMAIN mails /\ mails[m].dir = "out" /\ mails[m].sent
    PROVE  PostInv'
<1>1. \A k \in Couriers : CourierOk(courier'[k], mails', handed')
  BY DEF PostInv, CourierOk
<1>2. StampedWasSent'
  BY DEF PostInv, StampedWasSent
<1> QED
  BY <1>1, <1>2 DEF PostInv

\* A courier moves.
LEMMA CourierMoves ==
    ASSUME PostInv, NEW k \in Couriers, NEW r \in CourierRow, ToCourier(k, r),
           DOMAIN mails \subseteq DOMAIN mails',
           handed' \in [1..MaxMails -> Nat], \A m \in 1..MaxMails : handed[m] <= handed'[m],
           DOMAIN mails \subseteq 1..MaxMails,
           CourierOk(r, mails', handed'), StampedWasSent'
    PROVE  PostInv'
<1>1. /\ courier' \in [Couriers -> CourierRow] /\ courier'[k] = r
      /\ \A i \in Couriers : i # k => courier'[i] = courier[i]
  BY DEF ToCourier, PostInv
<1>2. ASSUME NEW i \in Couriers PROVE CourierOk(courier'[i], mails', handed')
  <2>1. CASE i = k
    BY <1>1, <2>1
  <2>2. CASE i # k
    <3>1. courier'[i] = courier[i] /\ CourierOk(courier[i], mails, handed) /\ handed \in [1..MaxMails -> Nat]
      BY <1>1, <2>2 DEF PostInv
    <3>2. courier[i].pc = "stamp" => handed'[courier[i].mail] > 0
      <4>1. courier[i].pc = "stamp" => courier[i].mail \in 1..MaxMails /\ handed[courier[i].mail] > 0
        BY <3>1 DEF CourierOk
      <4> QED
        BY <3>1, <4>1
    <3> QED
      BY <3>1, <3>2 DEF CourierOk
  <2> QED
    BY <2>1, <2>2
<1> QED
  BY <1>1, <1>2 DEF PostInv

\* A request moves that neither registers nor files, or stops; no table changes.
LEMMA QuietMove ==
    ASSUME MailIInv, NEW j \in Jobs, NEW q \in JobRow, ToJob(j, q), PlaceOk(q, convs, mails),
           q.pc \notin {"domain", "ingest"},
           UNCHANGED <<domains, boxes, letters, events, convs, mails, courier, handed>>
    PROVE  MailIInv'
<1>1. JobInv' /\ job'[j] = q /\ \A i \in Jobs : i # j => job'[i] = job[i]
  BY JobMoves DEF MailIInv
<1>2. NamesInv'
  BY <1>1, NamesSame DEF MailIInv
<1>3. FilingInv'
  BY <1>1, FilingSame DEF MailIInv
<1>4. PostInv'
  BY PostKept DEF MailIInv
<1> QED
  BY <1>1, <1>2, <1>3, <1>4 DEF MailIInv

-----------------------------------------------------------------------------
(* The steps: domains and mailboxes.                                       *)

\* The tables are what their types say.
LEMMA MailFacts ==
    ASSUME MailIInv
    PROVE  /\ IsSequence(mails) /\ DOMAIN mails = 1..Len(mails)
           /\ Len(mails) \in Nat /\ Len(mails) <= MaxMails /\ MaxMails \in Nat /\ DOMAIN mails \subseteq 1..MaxMails
           /\ boxes \in [Boxes -> BoxRow] /\ convs \in Seq(ConvRow)
           /\ \A m \in DOMAIN mails : /\ DOMAIN mails[m] = MailFields /\ mails[m].conv \in DOMAIN convs
                                      /\ m \in Nat \ {0} /\ mails[m].at \in Nat
<1>2. IsSequence(mails) /\ Len(mails) <= MaxMails
  BY DEF MailIInv, FilingInv, MailsOk
<1>3. Len(mails) \in Nat /\ DOMAIN mails = 1..Len(mails)
  BY <1>2 DEF IsSequence
<1>4. MaxMails \in Nat
  BY MailAssumption
<1>5. DOMAIN mails \subseteq 1..MaxMails
  BY <1>2, <1>3, <1>4
<1>6. boxes \in [Boxes -> BoxRow] /\ convs \in Seq(ConvRow)
  BY DEF MailIInv, FilingInv, ConvsOk
<1>7. \A m \in DOMAIN mails : /\ DOMAIN mails[m] = MailFields /\ mails[m].conv \in DOMAIN convs
                              /\ mails[m].at \in Nat
  BY DEF MailIInv, FilingInv, MailsOk, MailOk
<1> QED
  BY <1>2, <1>3, <1>4, <1>5, <1>6, <1>7

LEMMA CreateDomainStep ==
    ASSUME MailIInv, NEW j \in Jobs, NEW t \in Tenants, NEW h \in Hosts, CreateDomain(j, t, h)
    PROVE  MailIInv'
<1> DEFINE q == [IdleJob EXCEPT !.pc = "domain", !.host = h, !.who = t]
<1>1. q \in JobRow /\ q.pc = "domain" /\ q.host = h /\ q.who = t
  BY DEF IdleJob, JobRow, NoId, NoHost
<1>2. ToJob(j, q) /\ UNCHANGED <<domains, boxes, letters, events, convs, mails, courier, handed>>
  BY DEF CreateDomain
<1> HIDE DEF q
<1>3. PlaceOk(q, convs', mails')
  BY <1>1 DEF PlaceOk, CreateDomain
<1>4. JobInv' /\ job'[j] = q /\ \A i \in Jobs : i # j => job'[i] = job[i]
  BY <1>1, <1>2, <1>3, JobMoves DEF MailIInv
<1>5. ClaimOk(q, domains')
  BY <1>1, <1>2 DEF ClaimOk, CreateDomain
<1>6. \A i \in Jobs : ClaimOk(job'[i], domains')
  BY <1>2, <1>4, <1>5 DEF MailIInv, NamesInv
<1>7. \A i \in Jobs : i # j /\ job'[i].pc = "domain" => registrableKey(job'[i].host) # registrableKey(h)
  BY <1>4 DEF CreateDomain, NamespaceFree
<1>8. ASSUME NEW i \in Jobs, NEW n \in Jobs, job'[i].pc = "domain", job'[n].pc = "domain",
             registrableKey(job'[i].host) = registrableKey(job'[n].host)
      PROVE  i = n
  <2>1. CASE i = j
    BY <1>1, <1>4, <1>7, <1>8, <2>1
  <2>2. CASE n = j
    BY <1>1, <1>4, <1>7, <1>8, <2>2
  <2>3. CASE i # j /\ n # j
    <3>1. job'[i] = job[i] /\ job'[n] = job[n]
      BY <1>4, <2>3
    <3> QED
      BY <1>8, <3>1 DEF MailIInv, NamesInv
  <2> QED
    BY <2>1, <2>2, <2>3
<1>9. NamesInv'
  BY <1>2, <1>6, <1>8 DEF MailIInv, NamesInv
<1>10. FilingInv'
  BY <1>1, <1>2, <1>4, FilingSame DEF MailIInv
<1>11. PostInv'
  BY <1>2, PostKept DEF MailIInv, PostInv
<1> QED
  BY <1>4, <1>9, <1>10, <1>11 DEF MailIInv

LEMMA InsertDomainStep ==
    ASSUME MailIInv, NEW j \in Jobs, InsertDomain(j)
    PROVE  MailIInv'
<1>1. ToJob(j, IdleJob) /\ UNCHANGED <<boxes, letters, events, convs, mails, courier, handed>>
  BY DEF InsertDomain
<1>2. IdleJob \in JobRow /\ PlaceOk(IdleJob, convs, mails) /\ IdleJob.pc = "idle"
  BY IdleFacts DEF PlaceOk
<1>a. CASE domains' = domains
  BY <1>1, <1>2, <1>a, QuietMove
<1>b. CASE domains' # domains
  <2> PICK k : k = job[j]
    OBVIOUS
  <2> PICK row : row = [owner |-> k.who, verified |-> FALSE]
    OBVIOUS
  <2>1. k.pc = "domain" /\ domains' = [domains EXCEPT ![k.host] = row] /\ domains[k.host].owner = NoId
    BY <1>b DEF InsertDomain
  <2>2. k.host \in Hosts /\ k.who \in Tenants /\ Len(k.host) >= 2
    BY <2>1 DEF MailIInv, JobInv, PlaceOk
  <2>3. domains \in [Hosts -> DomainRow] /\ OwnersAgree(domains)
    BY DEF MailIInv, NamesInv
  <2>4. row \in DomainRow /\ row.owner = k.who
    BY <2>2 DEF DomainRow
  <2>5. /\ domains' \in [Hosts -> DomainRow] /\ domains'[k.host] = row
        /\ \A g \in Hosts : g # k.host => domains'[g] = domains[g]
    BY <2>1, <2>2, <2>3, <2>4
  <2>6. JobInv' /\ job'[j] = IdleJob /\ \A i \in Jobs : i # j => job'[i] = job[i]
    <3>1. PlaceOk(IdleJob, convs', mails')
      BY <1>1, <1>2
    <3> QED
      BY <1>1, <1>2, <3>1, JobMoves DEF MailIInv
  <2>7. \A g \in Hosts : domains[g].owner \notin {NoId, k.who} => ~Related(g, k.host) /\ ~Related(k.host, g)
    BY <2>1 DEF MailIInv, NamesInv, ClaimOk, Related
  <2>8. OwnersAgree(domains')
    <3> SUFFICES ASSUME NEW g \in Hosts, NEW h \in Hosts, domains'[g].owner # NoId, domains'[h].owner # NoId,
                        Related(g, h)
                 PROVE  domains'[g].owner = domains'[h].owner
      BY DEF OwnersAgree
    <3>1. CASE g = k.host /\ h = k.host
      BY <3>1
    <3>2. CASE g = k.host /\ h # k.host
      BY <2>4, <2>5, <2>7, <3>2
    <3>3. CASE g # k.host /\ h = k.host
      BY <2>4, <2>5, <2>7, <3>3
    <3>4. CASE g # k.host /\ h # k.host
      BY <2>3, <2>5, <3>4 DEF OwnersAgree
    <3> QED
      BY <3>1, <3>2, <3>3, <3>4
  <2>9. ASSUME NEW i \in Jobs PROVE ClaimOk(job'[i], domains')
    <3>1. CASE job'[i].pc # "domain"
      BY <3>1 DEF ClaimOk
    <3>2. CASE job'[i].pc = "domain"
      <4>1. i # j /\ job'[i] = job[i]
        BY <1>2, <2>6, <3>2
      <4>2. job[i].host \in Hosts /\ Len(job[i].host) >= 2
        BY <3>2, <4>1 DEF MailIInv, JobInv, PlaceOk
      <4>3. registrableKey(job[i].host) # registrableKey(k.host)
        BY <2>1, <3>2, <4>1 DEF MailIInv, NamesInv
      <4>4. ~Related(k.host, job[i].host)
        BY <2>2, <4>2, <4>3, RelatedShareKey
      <4>5. ClaimOk(job[i], domains)
        BY DEF MailIInv, NamesInv
      <4> QED
        BY <2>5, <3>2, <4>1, <4>4, <4>5 DEF ClaimOk
    <3> QED
      BY <3>1, <3>2
  <2>10. NamesInv'
    <3>1. \A i, n \in Jobs : job'[i].pc = "domain" /\ job'[n].pc = "domain"
                             /\ registrableKey(job'[i].host) = registrableKey(job'[n].host) => i = n
      BY <1>2, <2>6 DEF MailIInv, NamesInv
    <3> QED
      BY <2>5, <2>8, <2>9, <3>1 DEF NamesInv
  <2>11. FilingInv'
    BY <1>1, <1>2, <2>6, FilingSame DEF MailIInv
  <2>12. PostInv'
    BY <1>1, PostKept DEF MailIInv
  <2> QED
    BY <2>6, <2>10, <2>11, <2>12 DEF MailIInv
<1> QED
  BY <1>a, <1>b

\* Mailboxes are bound and unbound, and domains keep or lose their owners.
LEMMA BindingStep ==
    ASSUME MailIInv, JobInv', NEW to \in [Boxes -> Hosts \cup {NoHost}],
           boxes' = [b \in Boxes |-> [boxes[b] EXCEPT !.domain = to[b]]],
           domains' \in [Hosts -> DomainRow],
           \A h \in Hosts : domains'[h].owner = domains[h].owner \/ domains'[h].owner = NoId,
           \A i \in Jobs : job'[i] = job[i] \/ job'[i].pc \notin {"domain", "ingest"},
           UNCHANGED <<letters, events, convs, mails, courier, handed>>
    PROVE  MailIInv'
<1>1. NamesInv'
  BY NamesKept DEF MailIInv
<1>2. boxes \in [Boxes -> BoxRow]
  BY MailFacts
<1>3. ASSUME NEW b \in Boxes
      PROVE  boxes'[b] \in BoxRow /\ boxes'[b].next = boxes[b].next /\ boxes'[b].owner = boxes[b].owner
  BY <1>2 DEF BoxRow
<1>4. boxes' \in [Boxes -> BoxRow]
  BY <1>3
<1>5. convs \in Seq(ConvRow) /\ IsSequence(mails) /\ Len(mails) <= MaxMails
      /\ \A m \in DOMAIN mails : DOMAIN mails[m] = MailFields
  BY MailFacts
<1>6. LettersOk(letters, events, mails)
  BY DEF MailIInv, FilingInv
<1>7. \A i \in Jobs : IngestOk(job'[i], boxes, convs, mails, letters, events)
  BY DEF MailIInv, FilingInv, IngestOk
<1>8. \A i, n \in Jobs : job'[i].pc = "ingest" /\ job'[n].pc = "ingest" /\ job'[i].letter = job'[n].letter => i = n
  BY DEF MailIInv, FilingInv
<1>9. FilingInv'
  BY <1>3, <1>4, <1>5, <1>6, <1>7, <1>8, FilingKept DEF MailIInv
<1>10. PostInv'
  BY PostKept DEF MailIInv, PostInv
<1> QED
  BY <1>1, <1>9, <1>10 DEF MailIInv

LEMMA VerifyDomainStep ==
    ASSUME MailIInv, NEW h \in Hosts, VerifyDomain(h)
    PROVE  MailIInv'
<1> DEFINE to == [b \in Boxes |-> IF boxes[b].owner = domains[h].owner /\ Bound(b) = NoHost /\ HostOf[b] = h
                                  THEN h ELSE boxes[b].domain]
<1>1. boxes \in [Boxes -> BoxRow] /\ domains \in [Hosts -> DomainRow]
  BY MailFacts DEF MailIInv, NamesInv
<1>2. \A b \in Boxes : boxes[b].domain \in Hosts \cup {NoHost} /\ [boxes[b] EXCEPT !.domain = boxes[b].domain] = boxes[b]
  BY <1>1 DEF BoxRow
<1>3. to \in [Boxes -> Hosts \cup {NoHost}]
  BY <1>2
<1>4. boxes' = [b \in Boxes |-> [boxes[b] EXCEPT !.domain = to[b]]]
  <2>1. boxes' = [b \in Boxes |-> IF boxes[b].owner = domains[h].owner /\ Bound(b) = NoHost /\ HostOf[b] = h
                                  THEN [boxes[b] EXCEPT !.domain = h] ELSE boxes[b]]
    BY DEF VerifyDomain
  <2>2. ASSUME NEW b \in Boxes
        PROVE  (IF boxes[b].owner = domains[h].owner /\ Bound(b) = NoHost /\ HostOf[b] = h
                THEN [boxes[b] EXCEPT !.domain = h] ELSE boxes[b]) = [boxes[b] EXCEPT !.domain = to[b]]
    <3>1. CASE boxes[b].owner = domains[h].owner /\ Bound(b) = NoHost /\ HostOf[b] = h
      BY <3>1
    <3>2. CASE ~(boxes[b].owner = domains[h].owner /\ Bound(b) = NoHost /\ HostOf[b] = h)
      BY <1>2, <3>2
    <3> QED
      BY <3>1, <3>2
  <2> QED
    BY <2>1, <2>2
<1> HIDE DEF to
<1>5. /\ domains' \in [Hosts -> DomainRow]
      /\ \A g \in Hosts : domains'[g].owner = domains[g].owner
  <2>1. domains' = [domains EXCEPT ![h] = [domains[h] EXCEPT !.verified = TRUE]]
    BY DEF VerifyDomain
  <2>2. [domains[h] EXCEPT !.verified = TRUE] \in DomainRow /\ [domains[h] EXCEPT !.verified = TRUE].owner = domains[h].owner
    BY <1>1 DEF DomainRow
  <2> QED
    BY <1>1, <2>1, <2>2
<1>6. UNCHANGED <<letters, events, convs, mails, job, courier, handed>>
  BY DEF VerifyDomain
<1>7. JobInv'
  BY <1>6, JobsRest DEF MailIInv
<1> QED
  BY <1>3, <1>4, <1>5, <1>6, <1>7, BindingStep

LEMMA DeleteDomainCountStep ==
    ASSUME MailIInv, NEW j \in Jobs, NEW h \in Hosts, DeleteDomainCount(j, h)
    PROVE  MailIInv'
<1> DEFINE q == [IdleJob EXCEPT !.pc = "drop", !.host = h]
<1>1. q \in JobRow /\ q.pc = "drop" /\ q.host = h
  BY DEF IdleJob, JobRow, NoId, NoHost
<1>2. ToJob(j, q) /\ UNCHANGED <<domains, boxes, letters, events, convs, mails, courier, handed>>
  BY DEF DeleteDomainCount
<1> HIDE DEF q
<1>3. PlaceOk(q, convs, mails)
  BY <1>1, <1>2, MailFacts DEF PlaceOk
<1> QED
  BY <1>1, <1>2, <1>3, QuietMove

LEMMA DeleteDomainStep ==
    ASSUME MailIInv, NEW j \in Jobs, DeleteDomain(j)
    PROVE  MailIInv'
<1> PICK h : h = job[j].host
  OBVIOUS
<1> DEFINE to == [b \in Boxes |-> IF Bound(b) = h THEN NoHost ELSE boxes[b].domain]
<1>1. boxes \in [Boxes -> BoxRow] /\ domains \in [Hosts -> DomainRow]
  BY MailFacts DEF MailIInv, NamesInv
<1>2. \A b \in Boxes : boxes[b].domain \in Hosts \cup {NoHost} /\ [boxes[b] EXCEPT !.domain = boxes[b].domain] = boxes[b]
  BY <1>1 DEF BoxRow
<1>3. to \in [Boxes -> Hosts \cup {NoHost}]
  BY <1>2
<1>4. boxes' = [b \in Boxes |-> [boxes[b] EXCEPT !.domain = to[b]]]
  <2>1. boxes' = [b \in Boxes |-> IF Bound(b) = h THEN [boxes[b] EXCEPT !.domain = NoHost] ELSE boxes[b]]
    BY DEF DeleteDomain
  <2>2. ASSUME NEW b \in Boxes
        PROVE  (IF Bound(b) = h THEN [boxes[b] EXCEPT !.domain = NoHost] ELSE boxes[b])
               = [boxes[b] EXCEPT !.domain = to[b]]
    <3>1. CASE Bound(b) = h
      BY <3>1
    <3>2. CASE Bound(b) # h
      BY <1>2, <3>2
    <3> QED
      BY <3>1, <3>2
  <2> QED
    BY <2>1, <2>2
<1> HIDE DEF to
<1>5. /\ domains' \in [Hosts -> DomainRow]
      /\ \A g \in Hosts : domains'[g].owner = domains[g].owner \/ domains'[g].owner = NoId
  <2> PICK row : row = [owner |-> NoId, verified |-> FALSE]
    OBVIOUS
  <2>1. domains' = [domains EXCEPT ![h] = row] /\ row \in DomainRow /\ row.owner = NoId
    BY DEF DeleteDomain, DomainRow
  <2> QED
    BY <1>1, <2>1
<1>6. ToJob(j, IdleJob) /\ UNCHANGED <<letters, events, convs, mails, courier, handed>>
  BY DEF DeleteDomain
<1>7. IdleJob \in JobRow /\ PlaceOk(IdleJob, convs', mails') /\ IdleJob.pc = "idle"
  BY IdleFacts DEF PlaceOk
<1>8. JobInv' /\ job'[j] = IdleJob /\ \A i \in Jobs : i # j => job'[i] = job[i]
  BY <1>6, <1>7, JobMoves DEF MailIInv
<1> QED
  BY <1>3, <1>4, <1>5, <1>6, <1>7, <1>8, BindingStep

LEMMA CreateMailboxStep ==
    ASSUME MailIInv, NEW j \in Jobs, NEW t \in Tenants, NEW b \in Boxes, CreateMailbox(j, t, b)
    PROVE  MailIInv'
<1> PICK near : near = IF Claims(b) = {} THEN NoHost ELSE Nearest(Claims(b))
  OBVIOUS
<1>1. near \in Hosts \cup {NoHost}
  <2>1. CASE Claims(b) = {}
    BY <2>1
  <2>2. CASE Claims(b) # {}
    BY <2>2, NearestIn DEF Claims
  <2> QED
    BY <2>1, <2>2
<1> DEFINE q == [IdleJob EXCEPT !.pc = "box", !.who = t, !.box = b, !.bound = near]
<1>2. q \in JobRow /\ q.pc = "box" /\ q.who = t /\ q.box = b
  BY <1>1 DEF IdleJob, JobRow, NoId, NoHost
<1>3. ToJob(j, q) /\ UNCHANGED <<domains, boxes, letters, events, convs, mails, courier, handed>>
  BY DEF CreateMailbox
<1> HIDE DEF q
<1>4. PlaceOk(q, convs, mails)
  BY <1>2, <1>3, MailFacts DEF PlaceOk
<1> QED
  BY <1>2, <1>3, <1>4, QuietMove

\* A mailbox nobody has holds no conversation, so its numbers start at one.
LEMMA FreshNumbers ==
    ASSUME MailIInv, NEW b \in Boxes, boxes[b].owner = NoId
    PROVE  boxes[b].next = 1
<1>1. boxes[b].next \in Nat \ {0}
  BY MailFacts DEF BoxRow
<1>2. {x \in DOMAIN convs : convs[x].box = b} = {}
  BY DEF MailIInv, FilingInv, ConvsOk
<1>3. {convs[c].number : c \in {x \in DOMAIN convs : convs[x].box = b}} = 1..(boxes[b].next - 1)
  BY DEF MailIInv, FilingInv, ConvsOk, Numbered
<1>4. 1..(boxes[b].next - 1) = {}
  BY <1>2, <1>3
<1>5. 1 \notin 1..(boxes[b].next - 1)
  BY <1>4
<1> QED
  BY <1>1, <1>5

LEMMA InsertMailboxStep ==
    ASSUME MailIInv, NEW j \in Jobs, InsertMailbox(j)
    PROVE  MailIInv'
<1>1. ToJob(j, IdleJob) /\ UNCHANGED <<domains, letters, events, convs, mails, courier, handed>>
  BY DEF InsertMailbox
<1>2. IdleJob \in JobRow /\ PlaceOk(IdleJob, convs, mails) /\ IdleJob.pc = "idle"
  BY IdleFacts DEF PlaceOk
<1>a. CASE boxes' = boxes
  BY <1>1, <1>2, <1>a, QuietMove
<1>b. CASE boxes' # boxes
  <2> PICK k : k = job[j]
    OBVIOUS
  <2> PICK row : row = [owner |-> k.who, domain |-> k.bound, next |-> 1]
    OBVIOUS
  <2>1. k.pc = "box" /\ boxes[k.box].owner = NoId /\ boxes' = [boxes EXCEPT ![k.box] = row]
    BY <1>b DEF InsertMailbox
  <2>2. k.who \in Tenants /\ k.box \in Boxes /\ k.bound \in Hosts \cup {NoHost} /\ NoId \notin Tenants
    <3>1. k \in JobRow /\ PlaceOk(k, convs, mails)
      BY DEF MailIInv, JobInv
    <3>2. k.bound \in Hosts \cup {NoHost}
      BY <3>1 DEF JobRow
    <3>3. NoId \notin Tenants
      BY MailAssumption
    <3> QED
      BY <2>1, <3>1, <3>2, <3>3 DEF PlaceOk
  <2>3. row \in BoxRow /\ row.owner # NoId /\ row.next = 1
    BY <2>2 DEF BoxRow
  <2>4. boxes \in [Boxes -> BoxRow] /\ boxes[k.box].next = 1
    BY <2>1, <2>2, MailFacts, FreshNumbers
  <2>5. /\ boxes' \in [Boxes -> BoxRow]
        /\ \A b \in Boxes : boxes'[b].next = boxes[b].next /\ (boxes[b].owner # NoId => boxes'[b].owner # NoId)
    BY <2>1, <2>2, <2>3, <2>4
  <2>6. JobInv' /\ job'[j] = IdleJob /\ \A i \in Jobs : i # j => job'[i] = job[i]
    <3>1. PlaceOk(IdleJob, convs', mails')
      BY <1>1, <1>2
    <3> QED
      BY <1>1, <1>2, <3>1, JobMoves DEF MailIInv
  <2>7. NamesInv'
    BY <1>1, <1>2, <2>6, NamesSame DEF MailIInv
  <2>8. convs \in Seq(ConvRow) /\ IsSequence(mails) /\ Len(mails) <= MaxMails
        /\ \A m \in DOMAIN mails : DOMAIN mails[m] = MailFields
    BY MailFacts
  <2>9. LettersOk(letters, events, mails)
    BY DEF MailIInv, FilingInv
  <2>10. \A i \in Jobs : IngestOk(job'[i], boxes, convs, mails, letters, events)
    BY <1>2, <2>6 DEF MailIInv, FilingInv, IngestOk
  <2>11. \A i, n \in Jobs : job'[i].pc = "ingest" /\ job'[n].pc = "ingest" /\ job'[i].letter = job'[n].letter => i = n
    BY <1>2, <2>6 DEF MailIInv, FilingInv
  <2>12. FilingInv'
    BY <1>1, <2>5, <2>8, <2>9, <2>10, <2>11, FilingKept DEF MailIInv
  <2>13. PostInv'
    BY <1>1, PostKept DEF MailIInv
  <2> QED
    BY <2>6, <2>7, <2>12, <2>13 DEF MailIInv
<1> QED
  BY <1>a, <1>b

-----------------------------------------------------------------------------
(* The steps: mail coming in.                                              *)

LEMMA CustomerWritesStep ==
    ASSUME MailIInv, NEW l \in Letters, NEW b \in Boxes, NEW t \in Tenants, NEW from \in Addresses,
           NEW re \in {NoId} \cup DOMAIN mails, NEW refs \in SUBSET DOMAIN mails,
           CustomerWrites(l, b, t, from, re, refs)
    PROVE  MailIInv'
<1> PICK x : x = [box |-> b, by |-> t, from |-> from, re |-> re, refs |-> refs]
  OBVIOUS
<1>1. /\ letters[l] = NoLetter /\ letters' = [letters EXCEPT ![l] = x]
      /\ UNCHANGED <<domains, boxes, events, convs, mails, job, courier, handed>>
  BY DEF CustomerWrites
<1>2. JobInv' /\ NamesInv'
  BY <1>1, JobsRest, NamesSame DEF MailIInv
<1>3. /\ convs \in Seq(ConvRow) /\ IsSequence(mails) /\ DOMAIN mails = 1..Len(mails)
      /\ Len(mails) \in Nat /\ Len(mails) <= MaxMails
      /\ \A m \in DOMAIN mails : DOMAIN mails[m] = MailFields
      /\ boxes \in [Boxes -> BoxRow]
  BY MailFacts
<1>4. LettersOk(letters, events, mails)
  BY DEF MailIInv, FilingInv
<1>5. re \in Nat /\ refs \in SUBSET Nat
  BY <1>3 DEF NoId
<1>6. x \in LetterRow /\ x.box = b /\ x.by = t /\ x.re = re /\ x.refs = refs
  BY <1>5 DEF LetterRow
<1>7. /\ letters' \in [Letters -> LetterRow] /\ letters'[l] = x
      /\ \A i \in Letters : i # l => letters'[i] = letters[i]
  BY <1>1, <1>4, <1>6 DEF LettersOk
<1>8. LettersOk(letters', events, mails')
  <2>1. Named(x) \subseteq DOMAIN mails
    BY <1>6 DEF Named
  <2> QED
    BY <1>1, <1>4, <1>6, <1>7, <2>1 DEF LettersOk
<1>9. \A i \in Letters : letters[i] # NoLetter => letters'[i] = letters[i]
  BY <1>1, <1>7
<1>10. /\ \A i \in Jobs : IngestOk(job'[i], boxes, convs, mails, letters, events)
       /\ \A i, n \in Jobs : job'[i].pc = "ingest" /\ job'[n].pc = "ingest" /\ job'[i].letter = job'[n].letter => i = n
  BY <1>1 DEF MailIInv, FilingInv
<1>11. FilingInv'
  BY <1>1, <1>3, <1>8, <1>9, <1>10, FilingKept DEF MailIInv
<1>12. PostInv'
  BY <1>1, PostKept DEF MailIInv, PostInv
<1> QED
  BY <1>2, <1>11, <1>12 DEF MailIInv

\* The conversation found for a letter: that of the newest message it names, or none.
LEMMA ThreadFound ==
    ASSUME MailIInv, NEW l \in Letters
    PROVE  LET x == letters[l]
           IN  /\ threadOf(x) # NoId => threadOf(x) \in DOMAIN convs /\ convs[threadOf(x)].box = x.box
               /\ InThread(x, threadOf(x), convs, mails)
               /\ Hits(x, convs, mails) = {} => threadOf(x) = NoId
<1> PICK x : x = letters[l]
  OBVIOUS
<1> PICK H : H = Hits(x, convs, mails)
  OBVIOUS
<1>1. /\ DOMAIN mails = 1..Len(mails) /\ Len(mails) \in Nat
      /\ \A m \in DOMAIN mails : mails[m].conv \in DOMAIN convs /\ mails[m].at \in Nat
  BY MailFacts
<1>2. NamedHere(x) = H
  BY DEF NamedHere, Hits
<1>3. H \subseteq DOMAIN mails /\ \A m \in H : convs[mails[m].conv].box = x.box
  BY DEF Hits
<1>4. CASE H = {}
  <2>1. threadOf(x) = NoId
    BY <1>2, <1>4 DEF threadOf
  <2> QED
    BY <1>4, <2>1 DEF InThread
<1>5. CASE H # {}
  <2> PICK f : f = [m \in H |-> mails[m].at]
    OBVIOUS
  <2>1. IsFiniteSet(H)
    <3>1. IsFiniteSet(1..Len(mails))
      BY <1>1, FS_Interval
    <3> QED
      BY <1>1, <1>3, <3>1, FS_Subset
  <2>2. \A m \in H : f[m] = mails[m].at /\ f[m] \in Nat
    BY <1>1, <1>3
  <2>3. \E m \in H : \A n \in H : f[n] <= f[m]
    BY <1>5, <2>1, <2>2, NewestOf
  <2>4. \E m \in H : \A n \in H : mails[n].at <= mails[m].at
    BY <2>2, <2>3
  <2> PICK top : top = CHOOSE m \in H : \A n \in H : mails[n].at <= mails[m].at
    OBVIOUS
  <2>5. top \in H /\ \A n \in H : mails[n].at <= mails[top].at
    BY <2>4
  <2>6. threadOf(x) = mails[top].conv
    BY <1>2, <1>5 DEF threadOf
  <2>7. InThread(x, threadOf(x), convs, mails)
    BY <2>5, <2>6 DEF InThread
  <2> QED
    BY <1>1, <1>3, <1>5, <2>5, <2>6, <2>7
<1> QED
  BY <1>4, <1>5

LEMMA IngestStep ==
    ASSUME MailIInv, ClockInv, NEW j \in Jobs, NEW l \in Letters, Ingest(j, l)
    PROVE  MailIInv'
<1> PICK b : b = letters[l].box
  OBVIOUS
<1>1. UNCHANGED <<domains, boxes, letters, events, convs, mails, courier, handed>>
  BY DEF Ingest, RecordEvent
<1>a. CASE UNCHANGED job
  <2>1. JobInv' /\ NamesInv' /\ FilingInv' /\ PostInv'
    BY <1>a, <1>1, JobsRest, NamesSame, FilingSame, PostKept DEF MailIInv
  <2> QED
    BY <2>1 DEF MailIInv
<1>b. CASE job' # job
  <2> PICK thread : thread = threadOf(letters[l])
    OBVIOUS
  <2> PICK now : now = NOW
    OBVIOUS
  <2>0. now \in Nat
    BY DEF NOW, ClockInv
  <2> DEFINE q == [IdleJob EXCEPT !.pc = "ingest", !.letter = l, !.box = b, !.conv = thread, !.at = now]
  <2>1. /\ ToJob(j, q) /\ l \notin events /\ boxes[b].owner = letters[l].by /\ letters[l] # NoLetter
        /\ ~\E i \in Jobs : job[i].pc = "ingest" /\ job[i].letter = l
    BY <1>b DEF Ingest
  <2>2. LettersOk(letters, events, mails)
    BY DEF MailIInv, FilingInv
  <2>3. b \in Boxes /\ letters[l].by \in Tenants /\ NoId \notin Tenants
    BY <2>1, <2>2, MailAssumption DEF LettersOk
  <2>4. thread # NoId => thread \in DOMAIN convs /\ convs[thread].box = b
    BY ThreadFound
  <2>5. InThread(letters[l], thread, convs, mails) /\ (Hits(letters[l], convs, mails) = {} => thread = NoId)
    BY ThreadFound
  <2>6. thread \in Nat
    <3>1. convs \in Seq(ConvRow)
      BY MailFacts
    <3> QED
      BY <2>4, <3>1 DEF NoId
  <2>7. q \in JobRow /\ q.pc = "ingest" /\ q.letter = l /\ q.box = b /\ q.conv = thread
    BY <2>0, <2>3, <2>6 DEF IdleJob, JobRow, NoId, NoHost
  <2> HIDE DEF q
  <2>8. PlaceOk(q, convs', mails')
    BY <2>7 DEF PlaceOk
  <2>9. JobInv' /\ job'[j] = q /\ \A i \in Jobs : i # j => job'[i] = job[i]
    BY <1>1, <2>1, <2>7, <2>8, JobMoves DEF MailIInv
  <2>10. NamesInv'
    BY <1>1, <2>7, <2>9, NamesSame DEF MailIInv
  <2>11. IngestOk(q, boxes, convs, mails, letters, events)
    BY <2>1, <2>3, <2>4, <2>5, <2>7 DEF IngestOk
  <2>12. \A i \in Jobs : IngestOk(job'[i], boxes, convs, mails, letters, events)
    BY <2>9, <2>11 DEF MailIInv, FilingInv
  <2>13. \A i, n \in Jobs : job'[i].pc = "ingest" /\ job'[n].pc = "ingest" /\ job'[i].letter = job'[n].letter => i = n
    BY <2>1, <2>7, <2>9 DEF MailIInv, FilingInv
  <2>14. FilingInv'
    BY <1>1, <2>12, <2>13 DEF MailIInv, FilingInv
  <2>15. PostInv'
    BY <1>1, PostKept DEF MailIInv
  <2> QED
    BY <2>9, <2>10, <2>14, <2>15 DEF MailIInv
<1> QED
  BY <1>a, <1>b

\* A new conversation has its mailbox's next number; an old one keeps its own.
LEMMA NumberTaken ==
    ASSUME MailIInv, NEW b \in Boxes, boxes[b].owner # NoId, NEW r \in ConvRow,
           r.box = b, r.number = boxes[b].next,
           convs' = Append(convs, r), boxes' = [boxes EXCEPT ![b].next = @ + 1]
    PROVE  /\ ConvsOk(boxes', convs')
           /\ \A d \in Boxes : boxes'[d].owner = boxes[d].owner
           /\ DOMAIN convs' = DOMAIN convs \cup {Len(convs) + 1} /\ convs'[Len(convs) + 1] = r
           /\ \A d \in DOMAIN convs : convs'[d] = convs[d]
<1>1. convs \in Seq(ConvRow) /\ boxes \in [Boxes -> BoxRow]
  BY MailFacts
<1>2. /\ convs' \in Seq(ConvRow) /\ DOMAIN convs' = DOMAIN convs \cup {Len(convs) + 1}
      /\ convs'[Len(convs) + 1] = r /\ \A d \in DOMAIN convs : convs'[d] = convs[d]
      /\ Len(convs) + 1 \notin DOMAIN convs
  BY <1>1
<1>3. boxes[b].next \in Nat \ {0}
  BY <1>1 DEF BoxRow
<1>4. /\ boxes' \in [Boxes -> BoxRow] /\ boxes'[b].next = boxes[b].next + 1
      /\ \A d \in Boxes : boxes'[d].owner = boxes[d].owner /\ (d # b => boxes'[d] = boxes[d])
  <2> PICK n : n = boxes[b].next + 1
    OBVIOUS
  <2> PICK old : old = boxes[b]
    OBVIOUS
  <2> PICK row : row = [old EXCEPT !.next = n]
    OBVIOUS
  <2>0. n \in Nat \ {0} /\ old \in BoxRow
    BY <1>1, <1>3
  <2>1. row \in BoxRow /\ row.next = n /\ row.owner = old.owner
    BY <2>0 DEF BoxRow
  <2>2. boxes' = [boxes EXCEPT ![b] = row]
    OBVIOUS
  <2> QED
    BY <1>1, <2>1, <2>2
<1>5. ASSUME NEW d \in Boxes
      PROVE  {convs'[c].number : c \in {x \in DOMAIN convs' : convs'[x].box = d}} = 1..(boxes'[d].next - 1)
  <2> DEFINE had == {convs[c].number : c \in {x \in DOMAIN convs : convs[x].box = d}}
             have == {convs'[c].number : c \in {x \in DOMAIN convs' : convs'[x].box = d}}
  <2>1. had = 1..(boxes[d].next - 1)
    BY DEF MailIInv, FilingInv, ConvsOk, Numbered
  <2>2. CASE d # b
    <3>1. have = had
      BY <1>2, <2>2
    <3> QED
      BY <1>4, <2>1, <2>2, <3>1
  <2>3. CASE d = b
    <3>1. have = had \cup {boxes[b].next}
      BY <1>2, <2>3
    <3> HIDE DEF had, have
    <3>2. (1..(boxes[b].next - 1)) \cup {boxes[b].next} = 1..((boxes[b].next + 1) - 1)
      BY <1>3
    <3>3. have = 1..(boxes'[d].next - 1)
      BY <1>4, <2>1, <2>3, <3>1, <3>2
    <3> QED
      BY <3>3 DEF have
  <2> QED
    BY <2>2, <2>3
<1>6. Numbered(convs', boxes')
  BY <1>5 DEF Numbered
<1>7. ASSUME NEW c \in DOMAIN convs' PROVE boxes'[convs'[c].box].owner # NoId
  <2>1. CASE c \in DOMAIN convs
    <3>1. convs[c].box \in Boxes /\ boxes[convs[c].box].owner # NoId
      BY <1>1, <2>1, ConvFields DEF MailIInv, FilingInv, ConvsOk
    <3> QED
      BY <1>2, <1>4, <2>1, <3>1
  <2>2. CASE c = Len(convs) + 1
    BY <1>2, <1>4, <2>2
  <2> QED
    BY <1>2, <2>1, <2>2
<1> QED
  BY <1>2, <1>4, <1>6, <1>7 DEF ConvsOk

LEMMA FileMessageStep ==
    ASSUME MailIInv, NEW j \in Jobs, FileMessage(j)
    PROVE  MailIInv'
<1> PICK k : k = job[j]
  OBVIOUS
<1> PICK l : l = k.letter
  OBVIOUS
<1> PICK c : c = IF k.conv = NoId THEN Len(convs) + 1 ELSE k.conv
  OBVIOUS
<1> PICK mail : mail = NewMail(c, "in", l, k.at)
  OBVIOUS
<1>1. /\ k.pc = "ingest" /\ Len(mails) < MaxMails /\ mails' = Append(mails, mail) /\ events' = events \cup {l}
      /\ ToJob(j, IdleJob) /\ UNCHANGED <<domains, letters, courier, handed>>
  BY DEF FileMessage
<1>2. /\ IsSequence(mails) /\ DOMAIN mails = 1..Len(mails) /\ Len(mails) \in Nat /\ MaxMails \in Nat
      /\ boxes \in [Boxes -> BoxRow] /\ convs \in Seq(ConvRow)
      /\ \A m \in DOMAIN mails : mails[m].conv \in DOMAIN convs
  BY MailFacts
<1>3. IngestOk(k, boxes, convs, mails, letters, events)
  BY DEF MailIInv, FilingInv
<1>4. /\ l \in Letters \ events /\ letters[l] # NoLetter /\ letters[l].box = k.box
      /\ k.box \in Boxes /\ boxes[k.box].owner # NoId
      /\ k.conv # NoId => k.conv \in DOMAIN convs /\ convs[k.conv].box = k.box
      /\ InThread(letters[l], k.conv, convs, mails) /\ (Hits(letters[l], convs, mails) = {} => k.conv = NoId)
  BY <1>1, <1>3 DEF IngestOk
<1>5. /\ DOMAIN mail = MailFields /\ mail.conv = c /\ mail.dir = "in" /\ mail.letter = l /\ mail.at \in Nat
  <2>1. k.at \in Nat
    BY DEF MailIInv, JobInv, JobRow
  <2> QED
    BY <2>1 DEF NewMail, MailFields
<1>6. /\ IsSequence(mails') /\ Len(mails') = Len(mails) + 1 /\ DOMAIN mails' = 1..(Len(mails) + 1)
      /\ mails'[Len(mails) + 1] = mail /\ \A m \in DOMAIN mails : mails'[m] = mails[m]
  BY <1>1, <1>2, Appended
<1>7. /\ ConvsOk(boxes', convs') /\ DOMAIN convs \subseteq DOMAIN convs'
      /\ c \in DOMAIN convs' /\ convs'[c].box = k.box
      /\ \A d \in DOMAIN convs : convs'[d].box = convs[d].box
      /\ \A d \in Boxes : boxes'[d].owner = boxes[d].owner
  <2>1. CASE k.conv = NoId
    <3> PICK r : r = [box |-> k.box, number |-> boxes[k.box].next, awaiting |-> TRUE, state |-> "open",
                   customer |-> letters[l].from]
      OBVIOUS
    <3>1. convs' = Append(convs, r) /\ boxes' = [boxes EXCEPT ![k.box].next = @ + 1] /\ c = Len(convs) + 1
      BY <2>1 DEF FileMessage
    <3>2. boxes[k.box].next \in Nat \ {0}
      BY <1>2, <1>4 DEF BoxRow
    <3>3. r \in ConvRow /\ r.box = k.box /\ r.number = boxes[k.box].next
      <4>1. letters[l].from \in Addresses
        BY <1>4 DEF MailIInv, FilingInv, LettersOk, LetterRow
      <4> QED
        BY <1>4, <3>2, <4>1 DEF ConvRow
    <3>4. /\ ConvsOk(boxes', convs')
          /\ \A d \in Boxes : boxes'[d].owner = boxes[d].owner
          /\ DOMAIN convs' = DOMAIN convs \cup {Len(convs) + 1} /\ convs'[Len(convs) + 1] = r
          /\ \A d \in DOMAIN convs : convs'[d] = convs[d]
      BY <1>4, <3>1, <3>3, NumberTaken
    <3> QED
      BY <3>1, <3>3, <3>4
  <2>2. CASE k.conv # NoId
    <3> PICK old : old = convs[c]
      OBVIOUS
    <3> PICK st : st = IF old.state = "closed" THEN "open" ELSE old.state
      OBVIOUS
    <3> PICK r : r = [old EXCEPT !.awaiting = TRUE, !.state = st]
      OBVIOUS
    <3>1. c \in DOMAIN convs /\ c = k.conv /\ old \in ConvRow
      BY <1>2, <1>4, <2>2, ConvFields
    <3>2. convs' = [convs EXCEPT ![c] = r] /\ boxes' = boxes
      BY <1>2, <2>2, <3>1 DEF FileMessage
    <3>3. r \in ConvRow /\ r.box = convs[c].box /\ r.number = convs[c].number
      BY <3>1 DEF ConvRow
    <3>4. /\ convs' \in Seq(ConvRow) /\ DOMAIN convs' = DOMAIN convs
          /\ \A d \in DOMAIN convs : convs'[d].box = convs[d].box /\ convs'[d].number = convs[d].number
      BY <1>2, <3>1, <3>2, <3>3, ConvReplaced
    <3>5. ConvsOk(boxes', convs')
      <4>1. \A b \in Boxes : {convs'[d].number : d \in {x \in DOMAIN convs' : convs'[x].box = b}}
                             = {convs[d].number : d \in {x \in DOMAIN convs : convs[x].box = b}}
        BY <3>4
      <4>2. Numbered(convs', boxes')
        BY <3>2, <4>1 DEF MailIInv, FilingInv, ConvsOk, Numbered
      <4>3. \A d \in DOMAIN convs' : boxes'[convs'[d].box].owner # NoId
        BY <3>2, <3>4 DEF MailIInv, FilingInv, ConvsOk
      <4> QED
        BY <1>2, <3>2, <3>4, <4>2, <4>3 DEF ConvsOk
    <3> QED
      BY <1>4, <3>1, <3>2, <3>4, <3>5
  <2> QED
    BY <2>1, <2>2
<1>8. LettersOk(letters, events, mails)
  BY DEF MailIInv, FilingInv
<1>9. ASSUME NEW x \in Letters
      PROVE  /\ letters'[x] = letters[x] /\ Hits(letters[x], convs', mails') = Hits(letters[x], convs, mails)
             /\ \A d : InThread(letters[x], d, convs, mails) => InThread(letters[x], d, convs', mails')
             /\ \A m \in DOMAIN mails : Begins(letters[x], m, convs, mails) => Begins(letters[x], m, convs', mails')
  <2>1. letters'[x] = letters[x] /\ Named(letters[x]) \subseteq DOMAIN mails
    BY <1>1, <1>8 DEF LettersOk
  <2>2. \A m \in DOMAIN mails : /\ mails'[m].conv = mails[m].conv /\ mails'[m].at = mails[m].at
                                /\ mails[m].conv \in DOMAIN convs
    BY <1>2, <1>6
  <2>3. DOMAIN mails \subseteq DOMAIN mails' /\ \A n \in DOMAIN mails' : n \notin DOMAIN mails => \A m \in DOMAIN mails : m <= n
    BY <1>2, <1>6
  <2> PICK y : y = letters[x]
    OBVIOUS
  <2> PICK cs2 : cs2 = convs'
    OBVIOUS
  <2> PICK ms2 : ms2 = mails'
    OBVIOUS
  <2>5. /\ Named(y) \subseteq DOMAIN mails /\ DOMAIN mails \subseteq DOMAIN ms2
        /\ \A m \in DOMAIN mails : ms2[m].conv = mails[m].conv /\ ms2[m].at = mails[m].at /\ mails[m].conv \in DOMAIN convs
        /\ \A n \in DOMAIN ms2 : n \notin DOMAIN mails => \A m \in DOMAIN mails : m <= n
        /\ \A d \in DOMAIN convs : cs2[d].box = convs[d].box
    BY <1>7, <2>1, <2>2, <2>3
  <2>4. /\ Hits(y, cs2, ms2) = Hits(y, convs, mails)
        /\ \A d : InThread(y, d, convs, mails) => InThread(y, d, cs2, ms2)
        /\ \A m \in DOMAIN mails : Begins(y, m, convs, mails) => Begins(y, m, cs2, ms2)
    BY ONLY <2>5, ThreadStays, Zenon
  <2> QED
    BY <2>1, <2>4
<1>10. InThread(letters[l], c, convs, mails)
  <2>1. CASE k.conv # NoId
    BY <1>4, <2>1
  <2>2. CASE k.conv = NoId
    <3>1. \A n \in Hits(letters[l], convs, mails) : mails[n].conv \in DOMAIN convs
      BY <1>2 DEF Hits
    <3>2. NoId \notin DOMAIN convs
      BY <1>2 DEF NoId
    <3>3. Hits(letters[l], convs, mails) = {}
      BY <1>4, <2>2, <3>1, <3>2 DEF InThread
    <3> QED
      BY <3>3 DEF InThread
  <2> QED
    BY <2>1, <2>2
<1>11. LettersOk(letters', events', mails')
  <2>1. \A x \in Letters : Named(letters[x]) \subseteq DOMAIN mails'
    BY <1>2, <1>6, <1>8 DEF LettersOk
  <2> QED
    BY <1>1, <1>4, <1>8, <2>1 DEF LettersOk
<1>12. ASSUME NEW m \in DOMAIN mails' PROVE MailOk(m, convs', mails', letters', events')
  <2>1. CASE m \in DOMAIN mails
    <3>1. MailOk(m, convs, mails, letters, events) /\ mails'[m] = mails[m]
      BY <1>6, <2>1 DEF MailIInv, FilingInv, MailsOk
    <3>2. CASE mails[m].letter = NoId
      BY <1>7, <3>1, <3>2 DEF MailOk
    <3>3. CASE mails[m].letter # NoId
      <4>1. /\ mails[m].letter \in Letters /\ InThread(letters[mails[m].letter], mails[m].conv, convs, mails)
            /\ Begins(letters[mails[m].letter], m, convs, mails)
        BY <3>1, <3>3 DEF MailOk
      <4>2. /\ InThread(letters'[mails[m].letter], mails[m].conv, convs', mails')
            /\ Begins(letters'[mails[m].letter], m, convs', mails')
        BY <1>9, <2>1, <4>1
      <4> QED
        BY <1>1, <1>7, <3>1, <3>3, <4>2 DEF MailOk
    <3> QED
      BY <3>2, <3>3
  <2>2. CASE m = Len(mails) + 1
    <3>1. InThread(letters'[l], c, convs', mails')
      BY <1>4, <1>9, <1>10
    <3>2. /\ DOMAIN mails'[m] = MailFields /\ mails'[m].conv = c /\ mails'[m].letter = l /\ mails'[m].at \in Nat
      BY <1>5, <1>6, <2>2
    <3>3. l \in events' /\ letters'[l] # NoLetter /\ letters'[l].box = k.box /\ l \in Letters
      BY <1>1, <1>4
    <3>4. c \in DOMAIN convs' /\ convs'[c].box = k.box
      BY <1>7
    <3>5. Begins(letters'[l], m, convs', mails')
      <4> SUFFICES ASSUME Hits(letters'[l], convs', mails') = {}, NEW n \in DOMAIN mails', mails'[n].conv = c
                   PROVE  m <= n
        BY <3>2 DEF Begins
      <4>1. k.conv = NoId
        BY <1>4, <1>9
      <4>2. c \notin DOMAIN convs
        BY <1>2, <4>1
      <4>3. n \notin DOMAIN mails
        BY <1>2, <1>6, <4>2
      <4> QED
        BY <1>2, <1>6, <2>2, <4>3
    <3> QED
      BY <3>1, <3>2, <3>3, <3>4, <3>5 DEF MailOk
  <2> QED
    BY <1>2, <1>6, <2>1, <2>2
<1>13. \A m \in DOMAIN mails : mails[m].letter # l
  BY <1>4, MailAssumption DEF MailIInv, FilingInv, MailsOk, MailOk
<1>14. \A m, n \in DOMAIN mails' : mails'[m].letter # NoId /\ mails'[m].letter = mails'[n].letter => m = n
  <2>1. \A m \in DOMAIN mails' : m \in DOMAIN mails \/ m = Len(mails) + 1
    BY <1>2, <1>6
  <2>2. mails'[Len(mails) + 1].letter = l
    BY <1>5, <1>6
  <2>3. \A m, n \in DOMAIN mails : mails[m].letter # NoId /\ mails[m].letter = mails[n].letter => m = n
    BY DEF MailIInv, FilingInv, MailsOk
  <2> QED
    BY <1>6, <1>13, <2>1, <2>2, <2>3
<1>15. \A x \in events' : \E m \in DOMAIN mails' : mails'[m].letter = x
  <2>1. \A x \in events : \E m \in DOMAIN mails : mails[m].letter = x
    BY DEF MailIInv, FilingInv, MailsOk
  <2>2. Len(mails) + 1 \in DOMAIN mails' /\ mails'[Len(mails) + 1].letter = l /\ DOMAIN mails \subseteq DOMAIN mails'
    BY <1>2, <1>5, <1>6
  <2> QED
    BY <1>1, <1>6, <2>1, <2>2
<1>16. MailsOk(convs', mails', letters', events')
  <2>1. Len(mails') <= MaxMails
    BY <1>1, <1>2, <1>6
  <2> QED
    BY <1>6, <1>12, <1>14, <1>15, <2>1 DEF MailsOk
<1>17. JobInv' /\ job'[j] = IdleJob /\ \A i \in Jobs : i # j => job'[i] = job[i]
  <2>1. IdleJob \in JobRow /\ PlaceOk(IdleJob, convs', mails')
    BY IdleFacts DEF PlaceOk
  <2>2. DOMAIN mails \subseteq DOMAIN mails'
    BY <1>2, <1>6
  <2> QED
    BY <1>1, <1>7, <2>1, <2>2, JobMoves DEF MailIInv
<1>18. ASSUME NEW i \in Jobs PROVE IngestOk(job'[i], boxes', convs', mails', letters', events')
  <2>1. CASE job'[i].pc # "ingest"
    BY <2>1 DEF IngestOk
  <2>2. CASE job'[i].pc = "ingest"
    <3>1. i # j /\ job'[i] = job[i]
      BY <1>17, <2>2, IdleFacts
    <3>2. job[i].letter # l
      BY <1>1, <2>2, <3>1 DEF MailIInv, FilingInv
    <3>3. IngestOk(job[i], boxes, convs, mails, letters, events)
      BY DEF MailIInv, FilingInv
    <3>4. /\ InThread(letters'[job[i].letter], job[i].conv, convs', mails')
          /\ Hits(letters'[job[i].letter], convs', mails') = Hits(letters[job[i].letter], convs, mails)
      BY <1>9, <2>2, <3>1, <3>3 DEF IngestOk
    <3> QED
      BY <1>1, <1>7, <2>2, <3>1, <3>2, <3>3, <3>4 DEF IngestOk
  <2> QED
    BY <2>1, <2>2
<1>19. \A i, n \in Jobs : job'[i].pc = "ingest" /\ job'[n].pc = "ingest" /\ job'[i].letter = job'[n].letter => i = n
  BY <1>17, IdleFacts DEF MailIInv, FilingInv
<1>20. FilingInv'
  BY <1>7, <1>11, <1>16, <1>18, <1>19 DEF FilingInv
<1>21. NamesInv'
  BY <1>1, <1>17, IdleFacts, NamesSame DEF MailIInv
<1>22. PostInv'
  <2>1. \A m \in DOMAIN mails' : mails'[m].dir = "out" /\ mails'[m].sent =>
               m \in DOMAIN mails /\ mails[m].dir = "out" /\ mails[m].sent
    BY <1>2, <1>5, <1>6
  <2>2. DOMAIN mails \subseteq DOMAIN mails'
    BY <1>1, <1>2, <1>6
  <2> QED
    BY <1>1, <2>1, <2>2, PostKept DEF MailIInv
<1> QED
  BY <1>17, <1>20, <1>21, <1>22 DEF MailIInv

LEMMA JobFailsStep ==
    ASSUME MailIInv, NEW j \in Jobs, JobFails(j)
    PROVE  MailIInv'
<1>1. ToJob(j, IdleJob) /\ UNCHANGED <<domains, boxes, letters, events, convs, mails, courier, handed>>
  BY DEF JobFails
<1>2. IdleJob \in JobRow /\ PlaceOk(IdleJob, convs, mails) /\ IdleJob.pc = "idle"
  BY <1>1, IdleFacts, MailFacts DEF PlaceOk
<1> QED
  BY <1>1, <1>2, QuietMove

-----------------------------------------------------------------------------
(* The steps: agents.                                                      *)

\* Conversations change state, messages are added that are of no letter, requests move that
\* neither register nor file.
LEMMA AgentStep ==
    ASSUME MailIInv, JobInv', convs' \in Seq(ConvRow), DOMAIN convs' = DOMAIN convs,
           \A c \in DOMAIN convs : convs'[c].box = convs[c].box /\ convs'[c].number = convs[c].number,
           IsSequence(mails'), Len(mails') <= MaxMails, Len(mails) <= Len(mails'), DOMAIN mails \subseteq DOMAIN mails',
           \A m \in DOMAIN mails : /\ DOMAIN mails'[m] = MailFields /\ mails'[m].at = mails[m].at
                                   /\ mails'[m].conv = mails[m].conv /\ mails'[m].letter = mails[m].letter,
           \A m \in DOMAIN mails' \ DOMAIN mails :
               /\ DOMAIN mails'[m] = MailFields /\ mails'[m].at \in Nat
               /\ mails'[m].conv \in DOMAIN convs /\ mails'[m].letter = NoId,
           \A i \in Jobs : job'[i] = job[i] \/ job'[i].pc \notin {"domain", "ingest"},
           UNCHANGED <<domains, boxes, letters, events>>, PostInv'
    PROVE  MailIInv'
<1>1. NamesInv'
  BY NamesSame DEF MailIInv
<1>2. boxes \in [Boxes -> BoxRow] /\ Len(mails) \in Nat
  BY MailFacts
<1>3. LettersOk(letters', events, mails')
  <2>1. LettersOk(letters, events, mails)
    BY DEF MailIInv, FilingInv
  <2>2. \A l \in Letters : Named(letters[l]) \subseteq DOMAIN mails'
    BY <2>1 DEF LettersOk
  <2> QED
    BY <2>1, <2>2 DEF LettersOk
<1>4. \A i \in Jobs : IngestOk(job'[i], boxes, convs, mails, letters, events)
  BY DEF MailIInv, FilingInv, IngestOk
<1>5. \A i, n \in Jobs : job'[i].pc = "ingest" /\ job'[n].pc = "ingest" /\ job'[i].letter = job'[n].letter => i = n
  BY DEF MailIInv, FilingInv
<1>6. /\ boxes' \in [Boxes -> BoxRow]
      /\ \A b \in Boxes : boxes'[b].next = boxes[b].next /\ (boxes[b].owner # NoId => boxes'[b].owner # NoId)
      /\ \A l \in Letters : letters[l] # NoLetter => letters'[l] = letters[l]
  BY <1>2
<1>7. FilingInv'
  BY <1>3, <1>4, <1>5, <1>6, FilingKept DEF MailIInv
<1> QED
  BY <1>1, <1>7 DEF MailIInv

\* A conversation changes, and a request is done at most.
LEMMA ConversationChanges ==
    ASSUME MailIInv, JobInv', NEW c \in DOMAIN convs, NEW r \in ConvRow, r.box = convs[c].box, r.number = convs[c].number,
           convs' = [convs EXCEPT ![c] = r],
           \A i \in Jobs : job'[i] = job[i] \/ job'[i].pc \notin {"domain", "ingest"},
           UNCHANGED <<domains, boxes, letters, events, mails, courier, handed>>
    PROVE  MailIInv'
<1>1. /\ convs \in Seq(ConvRow) /\ IsSequence(mails) /\ Len(mails) \in Nat /\ Len(mails) <= MaxMails
     
      /\ \A m \in DOMAIN mails : DOMAIN mails[m] = MailFields
  BY MailFacts
<1>2. /\ convs' \in Seq(ConvRow) /\ DOMAIN convs' = DOMAIN convs
      /\ \A d \in DOMAIN convs : convs'[d].box = convs[d].box /\ convs'[d].number = convs[d].number
  BY <1>1, ConvReplaced
<1>3. PostInv'
  BY <1>1, PostKept DEF MailIInv
<1>4. Len(mails) <= Len(mails')
  BY <1>1
<1> QED
  BY <1>1, <1>2, <1>3, <1>4, AgentStep

LEMMA PatchStep ==
    ASSUME MailIInv, NEW c \in DOMAIN convs, PatchConversation(c, "closed")
    PROVE  MailIInv'
<1> PICK old : old = convs[c]
  OBVIOUS
<1> PICK r : r = [old EXCEPT !.state = "closed"]
  OBVIOUS
<1>1. old \in ConvRow
  BY MailFacts, ConvFields
<1>2. r \in ConvRow /\ r.box = convs[c].box /\ r.number = convs[c].number
  BY <1>1 DEF ConvRow
<1>3. convs' = [convs EXCEPT ![c] = r] /\ UNCHANGED <<domains, boxes, letters, events, mails, job, courier, handed>>
  BY DEF PatchConversation
<1>4. DOMAIN convs' = DOMAIN convs
  BY <1>3
<1>5. JobInv'
  BY <1>3, <1>4, JobsRest DEF MailIInv
<1> QED
  BY <1>2, <1>3, <1>5, ConversationChanges

LEMMA MarkAnsweredStep ==
    ASSUME MailIInv, NEW j \in Jobs, MarkAnswered(j)
    PROVE  MailIInv'
<1> PICK c : c = job[j].conv
  OBVIOUS
<1>1. c \in DOMAIN convs
  BY DEF MarkAnswered, MailIInv, JobInv, PlaceOk
<1> PICK old : old = convs[c]
  OBVIOUS
<1> PICK st : st = IF old.state = "open" THEN "pending" ELSE old.state
  OBVIOUS
<1> PICK r : r = [old EXCEPT !.awaiting = FALSE, !.state = st]
  OBVIOUS
<1>2. old \in ConvRow /\ convs \in Seq(ConvRow)
  BY <1>1, MailFacts, ConvFields
<1>3. r \in ConvRow /\ r.box = convs[c].box /\ r.number = convs[c].number
  BY <1>2 DEF ConvRow
<1>4. ToJob(j, IdleJob) /\ UNCHANGED <<domains, boxes, letters, events, mails, courier, handed>>
  BY DEF MarkAnswered
<1>5. convs' = [convs EXCEPT ![c] = r]
  BY <1>1, <1>2 DEF MarkAnswered
<1>6. DOMAIN convs' = DOMAIN convs
  BY <1>5
<1>7. IdleJob \in JobRow /\ PlaceOk(IdleJob, convs', mails') /\ IdleJob.pc = "idle"
  BY IdleFacts DEF PlaceOk
<1>8. JobInv' /\ job'[j] = IdleJob /\ \A i \in Jobs : i # j => job'[i] = job[i]
  BY <1>4, <1>6, <1>7, JobMoves DEF MailIInv
<1> QED
  BY <1>1, <1>3, <1>4, <1>5, <1>7, <1>8, ConversationChanges

LEMMA ReplyStep ==
    ASSUME MailIInv, ClockInv, NEW j \in Jobs, NEW c \in DOMAIN convs, Reply(j, c)
    PROVE  MailIInv'
<1> PICK mail : mail = NewMail(c, "out", NoId, NOW)
  OBVIOUS
<1> PICK n : n = Len(mails) + 1
  OBVIOUS
<1> DEFINE q == [IdleJob EXCEPT !.pc = "queue", !.conv = c, !.mail = n]
<1>1. /\ Len(mails) < MaxMails /\ mails' = Append(mails, mail) /\ ToJob(j, q)
      /\ UNCHANGED <<domains, boxes, letters, events, convs, courier, handed>>
  BY DEF Reply
<1>2. /\ IsSequence(mails) /\ DOMAIN mails = 1..Len(mails) /\ Len(mails) \in Nat /\ MaxMails \in Nat
      /\ convs \in Seq(ConvRow)
      /\ \A m \in DOMAIN mails : DOMAIN mails[m] = MailFields
  BY MailFacts
<1>3. DOMAIN mail = MailFields /\ mail.conv = c /\ mail.letter = NoId /\ ~mail.sent /\ mail.at \in Nat
  <2>1. NOW \in Nat
    BY DEF NOW, ClockInv
  <2> QED
    BY <2>1 DEF NewMail, MailFields
<1>4. /\ IsSequence(mails') /\ Len(mails') = Len(mails) + 1 /\ DOMAIN mails' = 1..(Len(mails) + 1)
      /\ mails'[n] = mail /\ \A m \in DOMAIN mails : mails'[m] = mails[m]
  BY <1>1, <1>2, Appended
<1>5. /\ \A m \in DOMAIN mails' : m \in DOMAIN mails \/ m = n
      /\ n \in DOMAIN mails' /\ n \in Nat /\ DOMAIN mails \subseteq DOMAIN mails'
      /\ Len(mails') <= MaxMails /\ Len(mails) <= Len(mails')
  BY <1>1, <1>2, <1>4
<1>6. c \in Nat
  BY <1>2
<1>7. q \in JobRow /\ q.pc = "queue" /\ q.conv = c /\ q.mail = n
  BY <1>5, <1>6 DEF IdleJob, JobRow, NoId, NoHost
<1> HIDE DEF q
<1>8. PlaceOk(q, convs', mails')
  BY <1>1, <1>5, <1>7 DEF PlaceOk
<1>9. JobInv' /\ job'[j] = q /\ \A i \in Jobs : i # j => job'[i] = job[i]
  BY <1>1, <1>5, <1>7, <1>8, JobMoves DEF MailIInv
<1>10. PostInv'
  <2>1. \A m \in DOMAIN mails' : mails'[m].dir = "out" /\ mails'[m].sent =>
               m \in DOMAIN mails /\ mails[m].dir = "out" /\ mails[m].sent
    BY <1>3, <1>4, <1>5
  <2> QED
    BY <1>1, <1>5, <2>1, PostKept DEF MailIInv
<1>11. /\ \A m \in DOMAIN mails : /\ DOMAIN mails'[m] = MailFields /\ mails'[m].at = mails[m].at
                                  /\ mails'[m].conv = mails[m].conv /\ mails'[m].letter = mails[m].letter
       /\ \A m \in DOMAIN mails' \ DOMAIN mails :
               /\ DOMAIN mails'[m] = MailFields /\ mails'[m].at \in Nat
               /\ mails'[m].conv \in DOMAIN convs /\ mails'[m].letter = NoId
  BY <1>2, <1>3, <1>4, <1>5
<1>12. /\ convs' \in Seq(ConvRow) /\ DOMAIN convs' = DOMAIN convs
       /\ \A d \in DOMAIN convs : convs'[d].box = convs[d].box /\ convs'[d].number = convs[d].number
       /\ \A i \in Jobs : job'[i] = job[i] \/ job'[i].pc \notin {"domain", "ingest"}
  BY <1>1, <1>2, <1>7, <1>9
<1> QED
  BY <1>1, <1>4, <1>5, <1>9, <1>10, <1>11, <1>12, AgentStep

LEMMA QueueReplyStep ==
    ASSUME MailIInv, NEW j \in Jobs, QueueReply(j)
    PROVE  MailIInv'
<1> PICK k : k = job[j]
  OBVIOUS
<1> DEFINE q == [k EXCEPT !.pc = "mark"]
<1>1. /\ k.pc = "queue" /\ ToJob(j, q)
      /\ UNCHANGED <<domains, boxes, letters, events, convs, mails, courier, handed>>
  BY DEF QueueReply
<1>2. k \in JobRow /\ k.conv \in DOMAIN convs /\ k.mail \in DOMAIN mails
  BY <1>1 DEF MailIInv, JobInv, PlaceOk
<1>3. q \in JobRow /\ q.pc = "mark" /\ q.conv = k.conv /\ q.mail = k.mail
  BY <1>2 DEF JobRow
<1> HIDE DEF q
<1>4. PlaceOk(q, convs, mails)
  BY <1>1, <1>2, <1>3, MailFacts DEF PlaceOk
<1> QED
  BY <1>1, <1>3, <1>4, QuietMove

-----------------------------------------------------------------------------
(* The steps: delivery.                                                    *)

\* A courier moves and no message changes.
LEMMA CarryStep ==
    ASSUME MailIInv, NEW k \in Couriers, NEW r \in CourierRow, ToCourier(k, r),
           handed' \in [1..MaxMails -> Nat],
           \A m \in 1..MaxMails : handed[m] <= handed'[m], CourierOk(r, mails, handed'),
           UNCHANGED <<domains, boxes, letters, events, convs, mails, job>>
    PROVE  MailIInv'
<1>1. JobInv' /\ NamesInv' /\ FilingInv'
  BY JobsRest, NamesSame, FilingSame DEF MailIInv
<1>2. DOMAIN mails \subseteq 1..MaxMails /\ handed \in [1..MaxMails -> Nat]
  BY MailFacts DEF MailIInv, PostInv
<1>3. StampedWasSent'
  BY <1>2 DEF MailIInv, PostInv, StampedWasSent
<1>4. PostInv'
  BY <1>2, <1>3, CourierMoves DEF MailIInv
<1> QED
  BY <1>1, <1>4 DEF MailIInv

\* One message is changed, in what the letters and the conversations do not look at.
LEMMA MessageChanges ==
    ASSUME MailIInv, NEW m \in DOMAIN mails, NEW r, mails' = [mails EXCEPT ![m] = r],
           DOMAIN r = MailFields, r.at = mails[m].at, r.conv = mails[m].conv, r.letter = mails[m].letter,
           UNCHANGED <<domains, boxes, letters, events, convs, job>>, PostInv'
    PROVE  MailIInv'
<1>1. /\ IsSequence(mails) /\ Len(mails) \in Nat /\ Len(mails) <= MaxMails /\ convs \in Seq(ConvRow)
      /\ \A n \in DOMAIN mails : DOMAIN mails[n] = MailFields
  BY MailFacts
<1>2. /\ IsSequence(mails') /\ DOMAIN mails' = DOMAIN mails /\ Len(mails') = Len(mails) /\ mails'[m] = r
      /\ \A n \in DOMAIN mails : n # m => mails'[n] = mails[n]
  <2>1. /\ DOMAIN mails' = DOMAIN mails /\ mails' = [n \in DOMAIN mails' |-> mails'[n]] /\ mails'[m] = r
        /\ \A n \in DOMAIN mails : n # m => mails'[n] = mails[n]
    OBVIOUS
  <2>2. IsSequence(mails') /\ Len(mails') = Len(mails)
    BY <1>1, <2>1, Replaced
  <2> QED
    BY <2>1, <2>2
<1>3. JobInv'
  BY <1>2, JobsRest DEF MailIInv
<1>4. \A n \in DOMAIN mails : /\ DOMAIN mails'[n] = MailFields /\ mails'[n].at = mails[n].at
                              /\ mails'[n].conv = mails[n].conv /\ mails'[n].letter = mails[n].letter
  BY <1>1, <1>2
<1>5. Len(mails) <= Len(mails') /\ Len(mails') <= MaxMails
  BY <1>1, <1>2
<1> QED
  BY <1>1, <1>2, <1>3, <1>4, <1>5, AgentStep

\* What a courier does next is there.
LEMMA NextIsOk ==
    ASSUME MailIInv, NEW k \in Couriers, NEW m, NEW hs
    PROVE  NextOf(k, m) \in CourierRow /\ CourierOk(NextOf(k, m), mails, hs)
<1> PICK left : left = courier[k].todo \ {m}
  OBVIOUS
<1>1. courier[k] \in CourierRow /\ courier[k].todo \subseteq DOMAIN mails
  BY DEF MailIInv, PostInv, CourierOk
<1>2. left \in SUBSET Nat /\ left \subseteq DOMAIN mails
  BY <1>1 DEF CourierRow
<1>3. NextOf(k, m) = [pc |-> IF left = {} THEN "idle" ELSE "load", mail |-> NoId, todo |-> left]
  BY DEF NextOf
<1>4. NextOf(k, m) \in CourierRow
  BY <1>2, <1>3 DEF CourierRow, NoId
<1> PICK r : r = NextOf(k, m)
  OBVIOUS
<1>5. r.todo = left /\ r.pc \in {"idle", "load"} /\ (r.pc = "load" => left # {})
  BY <1>3
<1>6. CourierOk(r, mails, hs)
  BY <1>2, <1>5 DEF CourierOk
<1> QED
  BY <1>4, <1>6

\* The counts are numbers.
LEMMA HandedFacts ==
    ASSUME MailIInv
    PROVE  handed \in [1..MaxMails -> Nat] /\ \A m \in 1..MaxMails : handed[m] <= handed[m]
<1>1. handed \in [1..MaxMails -> Nat]
  BY DEF MailIInv, PostInv
<1> QED
  BY <1>1

LEMMA TakeStep ==
    ASSUME MailIInv, NEW k \in Couriers, NEW S, S \subseteq DOMAIN mails, S # {},
           ToCourier(k, [pc |-> "load", mail |-> NoId, todo |-> S]),
           UNCHANGED <<menv, domains, boxes, letters, events, convs, mails, job, handed>>
    PROVE  MailIInv'
<1> PICK r : r = [pc |-> "load", mail |-> NoId, todo |-> S]
  OBVIOUS
<1>1. S \in SUBSET Nat
  BY MailFacts
<1>2. r \in CourierRow /\ r.pc = "load" /\ r.todo = S
  BY <1>1 DEF CourierRow, NoId
<1>3. CourierOk(r, mails, handed')
  BY <1>2 DEF CourierOk
<1>4. handed' \in [1..MaxMails -> Nat] /\ \A m \in 1..MaxMails : handed[m] <= handed'[m]
  BY HandedFacts
<1> QED
  BY <1>2, <1>3, <1>4, CarryStep

LEMMA HandleStep ==
    ASSUME MailIInv, NEW m \in DOMAIN mails, Handle(m)
    PROVE  MailIInv'
<1> PICK S : S = {m}
  OBVIOUS
<1>1. S \subseteq DOMAIN mails /\ S # {}
  OBVIOUS
<1>2. /\ ToCourier("consumer", [pc |-> "load", mail |-> NoId, todo |-> S])
      /\ UNCHANGED <<menv, domains, boxes, letters, events, convs, mails, job, handed>>
  BY DEF Handle
<1> QED
  BY <1>1, <1>2, TakeStep DEF Couriers

LEMMA SweepUnsentStep ==
    ASSUME MailIInv, SweepUnsent
    PROVE  MailIInv'
<1> DEFINE due == {m \in DOMAIN mails : Sweepable(m)}
           page == {m \in due : Cardinality({n \in due : n < m}) < menv.limit}
<1>1. /\ page # {} /\ ToCourier("sweeper", [pc |-> "load", mail |-> NoId, todo |-> page])
      /\ UNCHANGED <<menv, domains, boxes, letters, events, convs, mails, job, handed>>
  BY DEF SweepUnsent
<1>2. page \subseteq DOMAIN mails
  OBVIOUS
<1> HIDE DEF page
<1> PICK S : S = page
  OBVIOUS
<1> QED
  BY <1>1, <1>2, TakeStep DEF Couriers

LEMMA DeliverLoadStep ==
    ASSUME MailIInv, NEW k \in Couriers, DeliverLoad(k)
    PROVE  MailIInv'
<1> PICK m : m = Min(courier[k].todo)
  OBVIOUS
<1>1. /\ courier[k].pc = "load"
      /\ UNCHANGED <<menv, domains, boxes, letters, events, convs, mails, job, handed>>
      /\ \/ ToCourier(k, NextOf(k, m))
         \/ ToCourier(k, [courier[k] EXCEPT !.pc = "send", !.mail = m])
  BY DEF DeliverLoad
<1>2. courier[k] \in CourierRow /\ CourierOk(courier[k], mails, handed)
  BY DEF MailIInv, PostInv
<1>3. m \in courier[k].todo /\ m \in DOMAIN mails /\ m \in Nat
  BY <1>1, <1>2, MinOf DEF CourierRow, CourierOk
<1>4. handed' \in [1..MaxMails -> Nat] /\ \A n \in 1..MaxMails : handed[n] <= handed'[n]
  BY <1>1, HandedFacts
<1>5. CASE ToCourier(k, NextOf(k, m))
  <2> PICK r : r = NextOf(k, m)
    OBVIOUS
  <2>1. r \in CourierRow /\ CourierOk(r, mails, handed') /\ ToCourier(k, r)
    BY <1>5, NextIsOk
  <2> QED
    BY <1>1, <1>4, <2>1, CarryStep
<1>6. CASE ToCourier(k, [courier[k] EXCEPT !.pc = "send", !.mail = m])
  <2> PICK r : r = [courier[k] EXCEPT !.pc = "send", !.mail = m]
    OBVIOUS
  <2>1. r \in CourierRow /\ r.pc = "send" /\ r.mail = m /\ r.todo = courier[k].todo
    BY <1>2, <1>3 DEF CourierRow
  <2>2. CourierOk(r, mails, handed')
    BY <1>2, <1>3, <2>1 DEF CourierOk
  <2>3. ToCourier(k, r)
    BY <1>6
  <2> QED
    BY <1>1, <1>4, <2>1, <2>2, <2>3, CarryStep
<1> QED
  BY <1>1, <1>5, <1>6

LEMMA SendStep ==
    ASSUME MailIInv, NEW k \in Couriers, Send(k)
    PROVE  MailIInv'
<1> PICK m : m = courier[k].mail
  OBVIOUS
<1>1. /\ courier[k].pc = "send" /\ UNCHANGED <<domains, boxes, letters, events, convs, mails, job>>
      /\ \/ handed' = [handed EXCEPT ![m] = @ + 1] /\ ToCourier(k, [courier[k] EXCEPT !.pc = "stamp"])
         \/ ToCourier(k, NextOf(k, m)) /\ UNCHANGED handed
  BY DEF Send
<1>2. courier[k] \in CourierRow /\ CourierOk(courier[k], mails, handed)
  BY DEF MailIInv, PostInv
<1>3. m \in 1..MaxMails /\ m \in DOMAIN mails /\ handed \in [1..MaxMails -> Nat]
  BY <1>1, <1>2, MailFacts DEF CourierOk, MailIInv, PostInv
<1>4. CASE handed' = [handed EXCEPT ![m] = @ + 1] /\ ToCourier(k, [courier[k] EXCEPT !.pc = "stamp"])
  <2> PICK r : r = [courier[k] EXCEPT !.pc = "stamp"]
    OBVIOUS
  <2>1. r \in CourierRow /\ r.pc = "stamp" /\ r.mail = m /\ r.todo = courier[k].todo
    BY <1>2 DEF CourierRow
  <2>2. handed' \in [1..MaxMails -> Nat] /\ (\A n \in 1..MaxMails : handed[n] <= handed'[n]) /\ handed'[m] > 0
    BY <1>3, <1>4
  <2>3. CourierOk(r, mails, handed')
    BY <1>2, <1>3, <2>1, <2>2 DEF CourierOk
  <2>4. ToCourier(k, r)
    BY <1>4
  <2> QED
    BY <1>1, <1>3, <2>1, <2>2, <2>3, <2>4, CarryStep
<1>5. CASE ToCourier(k, NextOf(k, m)) /\ UNCHANGED handed
  <2> PICK r : r = NextOf(k, m)
    OBVIOUS
  <2>1. r \in CourierRow /\ CourierOk(r, mails, handed') /\ ToCourier(k, r)
    BY <1>5, NextIsOk
  <2>2. handed' \in [1..MaxMails -> Nat] /\ \A n \in 1..MaxMails : handed[n] <= handed'[n]
    BY <1>5, HandedFacts
  <2> QED
    BY <1>1, <1>3, <2>1, <2>2, CarryStep
<1> QED
  BY <1>1, <1>4, <1>5

LEMMA StampStep ==
    ASSUME MailIInv, NEW k \in Couriers, Stamp(k)
    PROVE  MailIInv'
<1> PICK m : m = courier[k].mail
  OBVIOUS
<1>1. /\ courier[k].pc = "stamp" /\ UNCHANGED <<domains, boxes, letters, events, convs, job, handed>>
      /\ ToCourier(k, NextOf(k, m))
      /\ mails' = [mails EXCEPT ![m].sent = TRUE] \/ UNCHANGED mails
  BY DEF Stamp
<1>2. courier[k] \in CourierRow /\ CourierOk(courier[k], mails, handed)
  BY DEF MailIInv, PostInv
<1>3. m \in DOMAIN mails /\ handed[m] > 0
  BY <1>1, <1>2 DEF CourierOk
<1>4. handed' \in [1..MaxMails -> Nat] /\ \A n \in 1..MaxMails : handed[n] <= handed'[n]
  BY <1>1, HandedFacts
<1> PICK r : r = NextOf(k, m)
  OBVIOUS
<1>6. r \in CourierRow /\ CourierOk(r, mails, handed') /\ ToCourier(k, r)
  BY <1>1, NextIsOk
<1>7. CASE UNCHANGED mails
  BY <1>1, <1>4, <1>6, <1>7, CarryStep
<1>8. CASE mails' = [mails EXCEPT ![m].sent = TRUE]
  <2> PICK old : old = mails[m]
    OBVIOUS
  <2> PICK x : x = [old EXCEPT !.sent = TRUE]
    OBVIOUS
  <2>1. IsSequence(mails) /\ DOMAIN old = MailFields /\ DOMAIN mails \subseteq 1..MaxMails
    BY <1>3, MailFacts
  <2>2. mails' = [mails EXCEPT ![m] = x]
    BY <1>8
  <2>3. DOMAIN x = MailFields /\ x.conv = old.conv /\ x.letter = old.letter /\ x.dir = old.dir /\ x.at = old.at
    BY <2>1 DEF MailFields
  <2>4. DOMAIN mails' = DOMAIN mails /\ mails'[m] = x /\ \A n \in DOMAIN mails : n # m => mails'[n] = mails[n]
    BY <1>3, <2>2
  <2>5. StampedWasSent'
    BY <1>1, <1>3, <2>4 DEF MailIInv, PostInv, StampedWasSent
  <2>6. CourierOk(r, mails', handed')
    BY <1>6, <2>4 DEF CourierOk
  <2>7. PostInv'
    BY <1>4, <1>6, <2>1, <2>4, <2>5, <2>6, CourierMoves DEF MailIInv
  <2> QED
    BY <1>1, <1>3, <2>2, <2>3, <2>7, MessageChanges
<1> QED
  BY <1>1, <1>7, <1>8

LEMMA CourierDiesStep ==
    ASSUME MailIInv, NEW k \in Couriers, CourierDies(k)
    PROVE  MailIInv'
<1>1. ToCourier(k, IdleCourier) /\ UNCHANGED <<domains, boxes, letters, events, convs, mails, job, handed>>
  BY DEF CourierDies
<1>2. IdleCourier \in CourierRow /\ CourierOk(IdleCourier, mails, handed')
  BY IdleFacts DEF CourierOk
<1>3. handed' \in [1..MaxMails -> Nat] /\ \A n \in 1..MaxMails : handed[n] <= handed'[n]
  BY <1>1, HandedFacts
<1> QED
  BY <1>1, <1>2, <1>3, CarryStep

LEMMA TwoMinutesStep ==
    ASSUME MailIInv, NEW m \in DOMAIN mails, TwoMinutes(m)
    PROVE  MailIInv'
<1> PICK old : old = mails[m]
  OBVIOUS
<1> PICK x : x = [old EXCEPT !.old = TRUE]
  OBVIOUS
<1>1. DOMAIN old = MailFields
  BY MailFacts
<1>2. /\ mails' = [mails EXCEPT ![m] = x]
      /\ UNCHANGED <<menv, domains, boxes, letters, events, convs, job, courier, handed>>
  BY DEF TwoMinutes
<1>3. /\ DOMAIN x = MailFields /\ x.conv = old.conv /\ x.letter = old.letter
      /\ x.dir = old.dir /\ x.sent = old.sent /\ x.at = old.at
  BY <1>1 DEF MailFields
<1>4. DOMAIN mails' = DOMAIN mails /\ mails'[m] = x /\ \A n \in DOMAIN mails : n # m => mails'[n] = mails[n]
  BY <1>2
<1>5. PostInv'
  <2>1. \A n \in DOMAIN mails' : mails'[n].dir = "out" /\ mails'[n].sent =>
               n \in DOMAIN mails /\ mails[n].dir = "out" /\ mails[n].sent
    BY <1>3, <1>4
  <2> QED
    BY <1>1, <1>2, <1>4, <2>1, PostKept DEF MailIInv
<1> QED
  BY <1>2, <1>3, <1>5, MessageChanges

-----------------------------------------------------------------------------
(* The theorem.                                                            *)

LEMMA MailStart ==
    ASSUME MailInit
    PROVE  MailIInv
<1>1. PICK e \in MailEnvironments :
        /\ e = menv /\ domains = e.domains /\ boxes = e.boxes /\ convs = e.convs /\ mails = e.mails
  BY DEF MailInit
<1>0. /\ MaxMails \in Nat
      /\ e.domains \in [Hosts -> DomainRow] /\ e.boxes \in [Boxes -> BoxRow] /\ e.convs \in Seq(ConvRow)
      /\ OwnersAgree(e.domains) /\ Numbered(e.convs, e.boxes)
      /\ \A c \in DOMAIN e.convs : e.boxes[e.convs[c].box].owner # NoId
      /\ e.mails \in Seq(OldMail(e.convs, e.clock)) /\ Len(e.mails) <= MaxMails
      /\ e.clock \in Nat
  BY MailAssumption
<1>2. /\ MaxMails \in Nat
      /\ domains \in [Hosts -> DomainRow] /\ boxes \in [Boxes -> BoxRow] /\ convs \in Seq(ConvRow)
      /\ OwnersAgree(domains) /\ Numbered(convs, boxes)
      /\ \A c \in DOMAIN convs : boxes[convs[c].box].owner # NoId
      /\ mails \in Seq(OldMail(convs, e.clock)) /\ Len(mails) <= MaxMails
      /\ e.clock \in Nat
  BY <1>0, <1>1
<1>3. /\ letters = [l \in Letters |-> NoLetter] /\ events = {}
      /\ handed = [m \in 1..MaxMails |-> 0]
      /\ job = [j \in Jobs |-> IdleJob] /\ courier = [k \in Couriers |-> IdleCourier]
  BY DEF MailInit
<1>4. \A m \in DOMAIN mails : mails[m] \in OldMail(convs, e.clock)
  BY <1>2
<1>5. \A m \in DOMAIN mails : /\ DOMAIN mails[m] = MailFields /\ mails[m].conv \in DOMAIN convs
                              /\ mails[m].letter = NoId /\ mails[m].dir = "in" /\ mails[m].at \in Nat
  <2> TAKE m \in DOMAIN mails
  <2> PICK x : x = mails[m]
    OBVIOUS
  <2> PICK D : D = DOMAIN convs
    OBVIOUS
  <2> PICK T : T = 0..e.clock
    OBVIOUS
  <2>1. x \in [conv : D, dir : {"in"}, letter : {NoId}, at : T, sent : {TRUE}, old : {FALSE}]
    BY <1>4 DEF OldMail
  <2>2. /\ DOMAIN x = {"conv", "dir", "letter", "at", "sent", "old"}
        /\ x.conv \in D /\ x.letter = NoId /\ x.dir = "in" /\ x.at \in T
    BY <2>1
  <2>3. T \subseteq Nat
    BY <1>2
  <2> QED
    BY <2>2, <2>3 DEF MailFields
<1>6. IsSequence(mails)
  <2>1. Len(mails) \in Nat /\ DOMAIN mails = 1..Len(mails)
    BY <1>2
  <2>2. \A m \in 1..Len(mails) : mails[m] \in Elements(mails)
    BY <2>1 DEF Elements
  <2>3. mails = [m \in 1..Len(mails) |-> mails[m]]
    BY <1>2
  <2> QED
    BY <2>1, <2>2, <2>3 DEF IsSequence
<1>7. JobInv
  <2>1. \A j \in Jobs : job[j] = IdleJob /\ PlaceOk(IdleJob, convs, mails)
    BY <1>3, IdleFacts DEF PlaceOk
  <2> QED
    BY <1>3, <2>1, IdleFacts DEF JobInv
<1>8. NamesInv
  BY <1>2, <1>3, IdleFacts DEF NamesInv, ClaimOk
<1>9. LettersOk(letters, events, mails)
  <2>1. NoLetter \in LetterRow /\ Named(NoLetter) = {}
    BY DEF NoLetter, LetterRow, NoId, Named, Addresses
  <2>3. \A l \in Letters : letters[l] = NoLetter /\ Named(letters[l]) \subseteq DOMAIN mails
    BY <1>3, <2>1
  <2> QED
    BY <1>3, <2>1, <2>3 DEF LettersOk
<1>10. MailsOk(convs, mails, letters, events)
  BY <1>2, <1>3, <1>5, <1>6 DEF MailsOk, MailOk
<1>11. FilingInv
  <2>1. ConvsOk(boxes, convs)
    BY <1>2 DEF ConvsOk
  <2>2. \A j \in Jobs : job[j].pc = "idle"
    BY <1>3, IdleFacts
  <2> QED
    BY <1>9, <1>10, <2>1, <2>2 DEF FilingInv, IngestOk
<1>12. PostInv
  <2>1. \A k \in Couriers : courier[k] = IdleCourier /\ CourierOk(IdleCourier, mails, handed)
    BY <1>3, IdleFacts DEF CourierOk
  <2>2. StampedWasSent
    BY <1>5 DEF StampedWasSent
  <2>3. handed \in [1..MaxMails -> Nat]
    BY <1>3
  <2>4. courier \in [Couriers -> CourierRow]
    BY <1>3, IdleFacts
  <2> QED
    BY <1>3, <2>1, <2>2, <2>3, <2>4 DEF PostInv
<1> QED
  BY <1>7, <1>8, <1>11, <1>12 DEF MailIInv

LEMMA ClockStep ==
    ASSUME ClockInv, [MailNext]_mailvars
    PROVE  ClockInv'
<1>1. ASSUME UNCHANGED menv \/ \E op : SpendMail(op) \/ StartTx(op) PROVE ClockInv'
  <2>1. CASE UNCHANGED menv
    BY <2>1 DEF ClockInv
  <2>2. ASSUME NEW op, SpendMail(op) PROVE ClockInv'
    <3>1. DOMAIN menv' = DOMAIN menv /\ menv'.clock = menv.clock
      BY <2>2 DEF SpendMail, ClockInv
    <3> QED
      BY <3>1 DEF ClockInv
  <2>3. ASSUME NEW op, StartTx(op) PROVE ClockInv'
    <3>1. DOMAIN menv' = DOMAIN menv /\ menv'.clock = menv.clock + 1
      BY <2>3 DEF StartTx, ClockInv
    <3> QED
      BY <3>1 DEF ClockInv
  <2> QED
    BY <1>1, <2>1, <2>2, <2>3
<1>2. CASE UNCHANGED mailvars
  BY <1>1, <1>2 DEF mailvars
<1>3. ASSUME NEW j \in Jobs,
             \/ \E t \in Tenants, h \in Hosts : CreateDomain(j, t, h)
             \/ \E h \in Hosts : DeleteDomainCount(j, h)
             \/ \E t \in Tenants, b \in Boxes : CreateMailbox(j, t, b)
             \/ InsertDomain(j) \/ DeleteDomain(j) \/ InsertMailbox(j)
             \/ (\E l \in Letters : Ingest(j, l)) \/ FileMessage(j) \/ JobFails(j)
             \/ (\E c \in DOMAIN convs : Reply(j, c)) \/ QueueReply(j) \/ MarkAnswered(j)
      PROVE  UNCHANGED menv \/ \E op : SpendMail(op) \/ StartTx(op)
  BY <1>3, Zenon DEF CreateDomain, DeleteDomainCount, CreateMailbox, InsertDomain, DeleteDomain, InsertMailbox, Ingest, FileMessage,
                     JobFails, Reply, QueueReply, MarkAnswered
<1>4. ASSUME \/ \E h \in Hosts : VerifyDomain(h)
             \/ \E l \in Letters, b \in Boxes, t \in Tenants, from \in Addresses :
                  \E re \in {NoId} \cup DOMAIN mails, refs \in SUBSET DOMAIN mails :
                     re \notin refs /\ CustomerWrites(l, b, t, from, re, refs)
             \/ \E c \in DOMAIN convs : PatchConversation(c, "closed")
             \/ \E m \in DOMAIN mails : Handle(m) \/ TwoMinutes(m)
             \/ SweepUnsent \/ \E k \in Couriers : CourierDies(k)
      PROVE  UNCHANGED menv \/ \E op : SpendMail(op) \/ StartTx(op)
  BY <1>4, Zenon DEF VerifyDomain, CustomerWrites, PatchConversation, Handle, TwoMinutes, SweepUnsent, CourierDies
<1>5. ASSUME NEW k, Deliver(k)
      PROVE  UNCHANGED menv \/ \E op : SpendMail(op) \/ StartTx(op)
  BY <1>5, Zenon DEF Deliver, DeliverLoad, Send, Stamp
<1> QED
  BY <1>1, <1>2, <1>3, <1>4, <1>5 DEF MailNext, Sweep

LEMMA MailStep ==
    ASSUME MailIInv, ClockInv, [MailNext]_mailvars
    PROVE  MailIInv'
<1>1. CASE UNCHANGED mailvars
  <2>1. UNCHANGED <<menv, domains, boxes, letters, events, convs, mails, job, courier, handed>>
    BY <1>1 DEF mailvars
  <2>2. JobInv' /\ NamesInv' /\ FilingInv' /\ PostInv'
    BY <2>1, MailFacts, JobsRest, NamesSame, FilingSame, PostKept DEF MailIInv
  <2> QED
    BY <2>2 DEF MailIInv
<1>2. ASSUME NEW j \in Jobs, NEW t \in Tenants, NEW h \in Hosts, CreateDomain(j, t, h) PROVE MailIInv'
  BY <1>2, CreateDomainStep
<1>3. ASSUME NEW j \in Jobs, NEW h \in Hosts, DeleteDomainCount(j, h) PROVE MailIInv'
  BY <1>3, DeleteDomainCountStep
<1>4. ASSUME NEW j \in Jobs, NEW t \in Tenants, NEW b \in Boxes, CreateMailbox(j, t, b) PROVE MailIInv'
  BY <1>4, CreateMailboxStep
<1>5. ASSUME NEW j \in Jobs, InsertDomain(j) \/ DeleteDomain(j) \/ InsertMailbox(j) PROVE MailIInv'
  BY <1>5, InsertDomainStep, DeleteDomainStep, InsertMailboxStep
<1>6. ASSUME NEW j \in Jobs, NEW l \in Letters, Ingest(j, l) PROVE MailIInv'
  BY <1>6, IngestStep
<1>7. ASSUME NEW j \in Jobs, FileMessage(j) \/ JobFails(j) \/ QueueReply(j) \/ MarkAnswered(j) PROVE MailIInv'
  BY <1>7, FileMessageStep, JobFailsStep, QueueReplyStep, MarkAnsweredStep
<1>8. ASSUME NEW j \in Jobs, NEW c \in DOMAIN convs, Reply(j, c) PROVE MailIInv'
  BY <1>8, ReplyStep
<1>9. ASSUME NEW h \in Hosts, VerifyDomain(h) PROVE MailIInv'
  BY <1>9, VerifyDomainStep
<1>10. ASSUME NEW l \in Letters, NEW b \in Boxes, NEW t \in Tenants, NEW from \in Addresses,
              NEW re \in {NoId} \cup DOMAIN mails, NEW refs \in SUBSET DOMAIN mails,
              CustomerWrites(l, b, t, from, re, refs)
       PROVE  MailIInv'
  BY <1>10, CustomerWritesStep
<1>11. ASSUME NEW c \in DOMAIN convs, PatchConversation(c, "closed") PROVE MailIInv'
  BY <1>11, PatchStep
<1>12. ASSUME NEW m \in DOMAIN mails, Handle(m) PROVE MailIInv'
  BY <1>12, HandleStep
<1>13. ASSUME NEW k \in Couriers, Deliver(k) \/ CourierDies(k) PROVE MailIInv'
  BY <1>13, DeliverLoadStep, SendStep, StampStep, CourierDiesStep DEF Deliver
<1>14. ASSUME NEW m \in DOMAIN mails, TwoMinutes(m) PROVE MailIInv'
  BY <1>14, TwoMinutesStep
<1>15. "consumer" \in Couriers /\ "sweeper" \in Couriers
  BY DEF Couriers
<1>16. ASSUME Sweep \/ Deliver("consumer") PROVE MailIInv'
  BY <1>13, <1>15, <1>16, SweepUnsentStep DEF Sweep
<1> QED
  BY <1>1, <1>2, <1>3, <1>4, <1>5, <1>6, <1>7, <1>8, <1>9, <1>10, <1>11, <1>12, <1>13, <1>14, <1>16 DEF MailNext

LEMMA MailSoundHere ==
    ASSUME MailIInv
    PROVE  MailSound
<1>1. OneTenantPerTree /\ StampedWasSent
  BY DEF MailIInv, NamesInv, PostInv, OneTenantPerTree
<1>2. ASSUME NEW l \in Letters PROVE Cardinality(Filed(l)) = IF l \in events THEN 1 ELSE 0
  <2>1. NoId \notin Letters
    BY MailAssumption
  <2>2. /\ \A m, n \in DOMAIN mails : mails[m].letter # NoId /\ mails[m].letter = mails[n].letter => m = n
        /\ \A x \in events : \E m \in DOMAIN mails : mails[m].letter = x
        /\ \A m \in DOMAIN mails : mails[m].letter # NoId => mails[m].letter \in events
    BY DEF MailIInv, FilingInv, MailsOk, MailOk
  <2>3. CASE l \in events
    <3>1. PICK m \in DOMAIN mails : mails[m].letter = l
      BY <2>2, <2>3
    <3>2. Filed(l) = {m}
      BY <2>1, <2>2, <3>1 DEF Filed
    <3> QED
      BY <2>3, <3>2, FS_Singleton
  <2>4. CASE l \notin events
    <3>1. Filed(l) = {}
      BY <2>1, <2>2, <2>4 DEF Filed
    <3> QED
      BY <2>4, <3>1, FS_EmptySet
  <2> QED
    BY <2>3, <2>4
<1>3. Numbered(convs, boxes)
  BY DEF MailIInv, FilingInv, ConvsOk
<1>4. ASSUME NEW m \in DOMAIN mails, mails[m].letter # NoId
      PROVE  LET x == letters[mails[m].letter]
                 hits == NamedHere(x)
             IN  /\ BoxOf(m) = x.box
                 /\ hits # {} => \E n \in hits : mails[n].conv = mails[m].conv /\ \A o \in hits : mails[o].at <= mails[n].at
                 /\ hits = {} => \A n \in DOMAIN mails : mails[n].conv = mails[m].conv => m <= n
  <2>1. MailOk(m, convs, mails, letters, events)
    BY DEF MailIInv, FilingInv, MailsOk
  <2> QED
    BY <1>4, <2>1 DEF MailOk, InThread, Begins, Hits, NamedHere, BoxOf
<1>5. FiledOnce
  BY <1>2, <1>3, <1>4 DEF FiledOnce
<1> QED
  BY <1>1, <1>5 DEF MailSound

\* However providers repeat themselves, requests die and workers overlap: a letter is filed
\* exactly once, in the conversation of the newest message of its mailbox that it names or
\* in one that it began (Ingest, threadOf), conversation numbers have no holes, a tree of
\* domains has one owner (CreateDomain), and what is stamped as sent was given to the
\* transport (deliver).
THEOREM MailAlwaysSound == MailSpec => []MailSound
<1>1. MailInit => MailIInv /\ ClockInv
  <2>1. ASSUME MailInit PROVE ClockInv
    <3>1. PICK e \in MailEnvironments : e = menv
      BY <2>1 DEF MailInit
    <3>2. "clock" \in DOMAIN e /\ e.clock \in Nat
      BY MailAssumption
    <3> QED
      BY <3>1, <3>2 DEF ClockInv
  <2> QED
    BY <2>1, MailStart
<1>2. MailIInv /\ ClockInv /\ [MailNext]_mailvars => MailIInv' /\ ClockInv'
  BY MailStep, ClockStep
<1>3. MailIInv => MailSound
  BY MailSoundHere
<1> QED
  BY <1>1, <1>2, <1>3, PTL DEF MailSpec

=============================================================================
