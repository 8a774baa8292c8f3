----------------------------- MODULE RosterProof -----------------------------
(***************************************************************************)
(* Proofs about Roster, for any workspace, any number of members and       *)
(* channels and any number of requests in flight.                          *)
(***************************************************************************)
EXTENDS Roster, TLAPS

(* The inductive invariant, in parts.                                      *)

TaskRow == [pc : {"rest", "decided", "telling"}, op : Operations \cup {"none"},
            by : Members \cup {0}, who : Members \cup {0}, c : ChannelIds \cup {0},
            role : {"", "admin", "member", "archived", "open"}, from : SUBSET ChannelIds]

RowsInv ==
    /\ wrole \in [Members -> {"", "member", "admin", "owner"}]
    /\ chan \in [ChannelIds -> ChannelRow]
    /\ crole \in [ChannelIds -> [Members -> {"", "member", "admin"}]]
    /\ task \in [Tasks -> TaskRow]
    /\ asking \subseteq Members \X ChannelIds \X Replicas
    /\ subs \subseteq Members \X ChannelIds \X Replicas

\* What a request decided and can still rely on: a channel that exists goes on to
\* exist and never becomes a direct message, so the requests that change a roster
\* never touch one.
DecidedInv ==
    \A t \in Tasks : task[t].pc # "rest" =>
        /\ task[t].by \in Members /\ task[t].who \in Members
        /\ task[t].op \in {"join", "add", "leave", "archive"} => task[t].c \in ChannelIds
        /\ task[t].op \in {"join", "add", "leave"} => chan[task[t].c].kind \notin {"none", "dm"}
        /\ task[t].op \in {"add", "role"} => task[t].role \in {"admin", "member"}

\* A channel that does not exist has no members.
NoGhosts == \A c \in ChannelIds, u \in Members : chan[c].kind = "none" => crole[c][u] = ""

\* One direct message per pair, with the pair's members and nobody else.
DmInv ==
    /\ \A c, d \in ChannelIds :
          chan[c].kind = "dm" /\ chan[d].kind = "dm" /\ chan[c].pair = chan[d].pair => c = d
    /\ \A c \in ChannelIds, u \in Members : chan[c].kind = "dm" =>
          /\ u \in chan[c].pair \ evicted => crole[c][u] # ""
          /\ u \notin chan[c].pair => crole[c][u] = ""

\* A request has yet to tell the hub about a subscription.
Telling(s) == \E t \in Tasks : task[t].pc = "telling" /\ <<s[1], s[2]>> \in Revoked(t)
\* A revocation is on its way to the replica of a subscription.
OnTheWire(s) == \E w \in wire : <<s[1], s[2]>> \in w[1] /\ s[3] = w[2]

\* A subscription that outlives its membership is about to be cut, by the request
\* that ended the membership or by a revocation on the wire, or none reaches it.
CutInv == \A s \in subs \ adrift : crole[s[2]][s[1]] # "" \/ Telling(s) \/ OnTheWire(s)

\* The inductive invariant of the membership.
RosterIInv == RowsInv /\ OneOwner /\ DecidedInv /\ NoGhosts /\ DmInv /\ CutInv

-----------------------------------------------------------------------------
(* Facts that several steps share.                                         *)

\* A request ends, or goes on to tell the hub: it is still about the same thing.
LEMMA TaskMoves ==
    ASSUME RowsInv, DecidedInv, NEW t \in Tasks, NEW q \in TaskRow,
           task' = [task EXCEPT ![t] = q],
           \/ q.pc = "rest"
           \/ /\ task[t].pc # "rest" /\ q.op = task[t].op /\ q.by = task[t].by
              /\ q.who = task[t].who /\ q.c = task[t].c /\ q.role = task[t].role,
           \A c \in ChannelIds : chan[c].kind # "none" => chan'[c].kind = chan[c].kind
    PROVE  /\ task' \in [Tasks -> TaskRow] /\ task'[t] = q /\ DecidedInv'
           /\ \A u \in Tasks : u # t => task'[u] = task[u]
<1>1. /\ task' \in [Tasks -> TaskRow] /\ task'[t] = q
      /\ \A u \in Tasks : u # t => task'[u] = task[u]
  BY DEF RowsInv
<1>2. ASSUME NEW u \in Tasks, task'[u].pc # "rest"
      PROVE  /\ task'[u].by \in Members /\ task'[u].who \in Members
             /\ task'[u].op \in {"join", "add", "leave", "archive"} => task'[u].c \in ChannelIds
             /\ task'[u].op \in {"join", "add", "leave"} => chan'[task'[u].c].kind \notin {"none", "dm"}
             /\ task'[u].op \in {"add", "role"} => task'[u].role \in {"admin", "member"}
  <2>1. /\ task[u].pc # "rest" /\ task'[u].op = task[u].op /\ task'[u].by = task[u].by
        /\ task'[u].who = task[u].who /\ task'[u].c = task[u].c
        /\ task'[u].role = task[u].role
    BY <1>1, <1>2
  <2> QED
    BY <2>1 DEF DecidedInv
<1> QED
  BY <1>1, <1>2 DEF DecidedInv

\* A request at its end.
LEMMA TaskEnds ==
    ASSUME RowsInv, DecidedInv, NEW t \in Tasks, Ends(t),
           \A c \in ChannelIds : chan[c].kind # "none" => chan'[c].kind = chan[c].kind
    PROVE  /\ task' \in [Tasks -> TaskRow] /\ task'[t].pc = "rest" /\ DecidedInv'
           /\ \A u \in Tasks : u # t => task'[u] = task[u]
<1>1. AtRest \in TaskRow /\ AtRest.pc = "rest"
  BY DEF AtRest, TaskRow
<1> HIDE DEF AtRest
<1> QED
  BY <1>1, TaskMoves DEF Ends

\* A request that has committed and will tell the hub.
LEMMA TaskTells ==
    ASSUME RowsInv, DecidedInv, NEW t \in Tasks, Tells(t), task[t].pc # "rest",
           \A c \in ChannelIds : chan[c].kind # "none" => chan'[c].kind = chan[c].kind
    PROVE  /\ task' \in [Tasks -> TaskRow] /\ task'[t] = [task[t] EXCEPT !.pc = "telling"]
           /\ DecidedInv' /\ \A u \in Tasks : u # t => task'[u] = task[u]
<1> DEFINE q == [task[t] EXCEPT !.pc = "telling"]
<1>1. task[t] \in TaskRow
  BY DEF RowsInv
<1>2. /\ q \in TaskRow /\ q.op = task[t].op /\ q.by = task[t].by
      /\ q.who = task[t].who /\ q.c = task[t].c /\ q.role = task[t].role
  BY <1>1 DEF TaskRow
<1>3. task' = [task EXCEPT ![t] = q]
  BY DEF Tells
<1> HIDE DEF q
<1>4. /\ task' \in [Tasks -> TaskRow] /\ task'[t] = q /\ DecidedInv'
      /\ \A u \in Tasks : u # t => task'[u] = task[u]
  BY <1>2, <1>3, TaskMoves
<1> QED
  BY <1>4 DEF q

\* A request that has yet to tell the hub still has.
LEMMA StillTelling ==
    ASSUME NEW s, \A t \in Tasks : task[t].pc = "telling" => task'[t] = task[t]
    PROVE  Telling(s) => Telling(s)'
<1> SUFFICES ASSUME NEW t \in Tasks, task[t].pc = "telling", <<s[1], s[2]>> \in Revoked(t)
             PROVE  task'[t].pc = "telling" /\ <<s[1], s[2]>> \in Revoked(t)'
  BY Zenon DEF Telling
<1>1. task'[t] = task[t]
  OBVIOUS
<1> QED
  BY <1>1 DEF Revoked

\* Memberships that only grow, and a hub that is not told anything, cut nobody.
LEMMA CutKept ==
    ASSUME RowsInv, CutInv, UNCHANGED <<adrift, subs, wire>>,
           \A c \in ChannelIds, u \in Members : crole[c][u] # "" => crole'[c][u] # "",
           \A t \in Tasks : task[t].pc = "telling" => task'[t] = task[t]
    PROVE  CutInv'
<1> SUFFICES ASSUME NEW s \in subs \ adrift
             PROVE  crole'[s[2]][s[1]] # "" \/ Telling(s)' \/ OnTheWire(s)'
  BY DEF CutInv
<1>1. s[2] \in ChannelIds /\ s[1] \in Members
  BY DEF RowsInv
<1>2. CASE crole[s[2]][s[1]] # ""
  BY <1>1, <1>2
<1>3. Telling(s) => Telling(s)'
  BY StillTelling
<1>4. OnTheWire(s) => OnTheWire(s)'
  BY DEF OnTheWire
<1> QED
  BY <1>2, <1>3, <1>4 DEF CutInv

\* The channels and their rosters stay sound when kinds and pairs stay and
\* rosters grow in no direct message and in no channel that does not exist.
LEMMA DmKept ==
    ASSUME RowsInv, NoGhosts, DmInv, evicted \subseteq evicted',
           \A c \in ChannelIds : chan'[c].kind = chan[c].kind /\ chan'[c].pair = chan[c].pair,
           \A c \in ChannelIds, u \in Members : chan[c].kind \in {"none", "dm"} =>
               \/ crole'[c][u] = crole[c][u]
               \/ crole'[c][u] = "" /\ u \in evicted'
    PROVE  NoGhosts' /\ DmInv'
<1>1. NoGhosts'
  BY DEF NoGhosts
<1>2. DmInv'
  <2>1. ASSUME NEW c \in ChannelIds, NEW d \in ChannelIds, chan'[c].kind = "dm",
               chan'[d].kind = "dm", chan'[c].pair = chan'[d].pair
        PROVE  c = d
    <3>1. chan[c].kind = "dm" /\ chan[d].kind = "dm" /\ chan[c].pair = chan[d].pair
      BY <2>1
    <3> QED
      BY <3>1 DEF DmInv
  <2>2. ASSUME NEW c \in ChannelIds, NEW u \in Members, chan'[c].kind = "dm"
        PROVE  /\ u \in chan'[c].pair \ evicted' => crole'[c][u] # ""
               /\ u \notin chan'[c].pair => crole'[c][u] = ""
    <3>1. chan[c].kind = "dm" /\ chan'[c].pair = chan[c].pair
      BY <2>2
    <3>2. /\ u \in chan[c].pair \ evicted => crole[c][u] # ""
          /\ u \notin chan[c].pair => crole[c][u] = ""
      BY <3>1, Zenon DEF DmInv
    <3> QED
      BY <3>1, <3>2
  <2> QED
    BY <2>1, <2>2, Zenon DEF DmInv
<1> QED
  BY <1>1, <1>2

\* A channel with the next id leaves every other channel as it was.
LEMMA NewChannel ==
    ASSUME RowsInv, NoGhosts, DmInv, NEW c \in NextId, NEW row \in ChannelRow,
           NEW roster \in [Members -> {"", "member", "admin"}],
           row.kind # "none", UNCHANGED evicted,
           chan' = [chan EXCEPT ![c] = row], crole' = [crole EXCEPT ![c] = roster],
           row.kind = "dm" =>
               /\ \A d \in ChannelIds : chan[d].kind = "dm" => chan[d].pair # row.pair
               /\ \A u \in Members : roster[u] # "" <=> u \in row.pair
    PROVE  /\ chan' \in [ChannelIds -> ChannelRow]
           /\ crole' \in [ChannelIds -> [Members -> {"", "member", "admin"}]]
           /\ NoGhosts' /\ DmInv'
           /\ \A d \in ChannelIds : chan[d].kind # "none" => chan'[d].kind = chan[d].kind
           /\ \A d \in ChannelIds, u \in Members : crole[d][u] # "" => crole'[d][u] # ""
<1>1. c \in ChannelIds /\ chan[c].kind = "none"
  BY DEF NextId
<1>2. /\ chan' \in [ChannelIds -> ChannelRow] /\ chan'[c] = row
      /\ crole' \in [ChannelIds -> [Members -> {"", "member", "admin"}]] /\ crole'[c] = roster
      /\ \A d \in ChannelIds : d # c => chan'[d] = chan[d] /\ crole'[d] = crole[d]
  BY <1>1 DEF RowsInv
<1>3. NoGhosts'
  BY <1>1, <1>2 DEF NoGhosts
<1>4. DmInv'
  <2>1. ASSUME NEW d \in ChannelIds, NEW e \in ChannelIds, chan'[d].kind = "dm",
               chan'[e].kind = "dm", chan'[d].pair = chan'[e].pair
        PROVE  d = e
    <3>1. \A x \in ChannelIds : x # c /\ chan'[x].kind = "dm" =>
              chan[x].kind = "dm" /\ chan'[x].pair = chan[x].pair
      BY <1>2
    <3>2. CASE d # c /\ e # c
      <4>1. chan[d].kind = "dm" /\ chan[e].kind = "dm" /\ chan[d].pair = chan[e].pair
        BY <2>1, <3>1, <3>2
      <4> QED
        BY <4>1 DEF DmInv
    <3>3. \A x \in ChannelIds : x # c /\ chan'[x].kind = "dm" /\ row.kind = "dm" =>
              chan'[x].pair # row.pair
      BY <3>1
    <3> QED
      BY <1>2, <2>1, <3>2, <3>3
  <2>2. ASSUME NEW d \in ChannelIds, NEW u \in Members, chan'[d].kind = "dm"
        PROVE  /\ u \in chan'[d].pair \ evicted' => crole'[d][u] # ""
               /\ u \notin chan'[d].pair => crole'[d][u] = ""
    <3>1. CASE d = c
      BY <1>2, <2>2, <3>1
    <3>2. CASE d # c
      <4>1. chan[d].kind = "dm" /\ chan'[d] = chan[d] /\ crole'[d] = crole[d]
        BY <1>2, <2>2, <3>2
      <4>2. /\ u \in chan[d].pair \ evicted => crole[d][u] # ""
            /\ u \notin chan[d].pair => crole[d][u] = ""
        BY <4>1, Zenon DEF DmInv
      <4> QED
        BY <4>1, <4>2
    <3> QED
      BY <3>1, <3>2
  <2> QED
    BY <2>1, <2>2, Zenon DEF DmInv
<1>5. \A d \in ChannelIds : chan[d].kind # "none" => chan'[d].kind = chan[d].kind
  BY <1>1, <1>2, Zenon
<1>6. ASSUME NEW d \in ChannelIds, NEW u \in Members, crole[d][u] # ""
      PROVE  crole'[d][u] # ""
  <2>1. d # c
    BY <1>1, <1>6 DEF NoGhosts
  <2>2. crole'[d] = crole[d]
    BY <1>2, <2>1
  <2> QED
    BY <1>6, <2>2
<1> QED
  BY <1>2, <1>3, <1>4, <1>5, <1>6

-----------------------------------------------------------------------------
(* The steps.                                                              *)

\* A request reads, and decides.
LEMMA DecideStep ==
    ASSUME RosterIInv, NEW t \in Tasks, NEW op \in Operations, NEW by \in Members,
           NEW who \in Members, NEW c \in ChannelsOf(op), NEW role \in RolesOf(op),
           Decide(t, op, by, who, c, role)
    PROVE  RosterIInv'
<1> DEFINE q == [pc |-> "decided", op |-> op, by |-> by, who |-> who, c |-> c,
                 role |-> role, from |-> {}]
<1>1. /\ task[t] = AtRest /\ Decides(op, by, who, c, role)
      /\ task' = [task EXCEPT ![t] = q]
      /\ UNCHANGED <<wrole, owner, chan, crole, asking, subs, wire, adrift, evicted>>
  BY DEF Decide, rowsVars, socketVars
<1>2. /\ c \in ChannelIds \cup {0}
      /\ op \in {"join", "add", "leave", "archive"} => c \in ChannelIds
      /\ role \in {"", "admin", "member", "archived", "open"}
      /\ op \in {"add", "role"} => role \in {"admin", "member"}
  BY DEF ChannelsOf, RolesOf
<1>3. op \in {"join", "add", "leave"} => chan[c].kind \notin {"none", "dm"}
  BY <1>1 DEF Decides, Join, AddMemberRequest, Leave, RemoveMemberRequest, checkDeparture,
     resolveChannel, IsDM
<1>4. q \in TaskRow
  BY <1>2 DEF TaskRow
<1>5. /\ q.pc = "decided" /\ q.op = op /\ q.by = by /\ q.who = who /\ q.c = c
      /\ q.role = role
  OBVIOUS
<1> HIDE DEF q
<1>6. /\ task' \in [Tasks -> TaskRow] /\ task'[t] = q
      /\ \A u \in Tasks : u # t => task'[u] = task[u]
  BY <1>1, <1>4 DEF RosterIInv, RowsInv
<1>7. RowsInv' /\ OneOwner' /\ NoGhosts' /\ DmInv'
  <2>1. RowsInv' /\ OneOwner'
    BY <1>1, <1>6 DEF RosterIInv, RowsInv, OneOwner
  <2> QED
    BY <1>1, <2>1, DmKept DEF RosterIInv
<1>8. DecidedInv'
  <2>1. DecidedInv /\ chan' = chan
    BY <1>1 DEF RosterIInv
  <2> QED
    BY <1>2, <1>3, <1>5, <1>6, <2>1 DEF DecidedInv
<1>9. CutInv'
  <2>1. AtRest.pc = "rest"
    BY DEF AtRest
  <2>2. task[t].pc # "telling"
    BY <1>1, <2>1
  <2>3. \A u \in Tasks : task[u].pc = "telling" => task'[u] = task[u]
    BY <1>6, <2>2
  <2> QED
    BY <1>1, <2>3, CutKept DEF RosterIInv
<1> QED
  BY <1>7, <1>8, <1>9 DEF RosterIInv

\* A row is inserted, or kept as it is.
LEMMA AddStep ==
    ASSUME RosterIInv, NEW t \in Tasks, AddMember(t)
    PROVE  RosterIInv'
<1> USE DEF RosterIInv
<1> DEFINE k == task[t].c
           w == task[t].who
           new == IF crole[k][w] # "" THEN crole[k][w]
                  ELSE IF task[t].op = "join" THEN "member" ELSE task[t].role
<1>1. /\ task[t].pc = "decided" /\ task[t].op \in {"add", "join"} /\ Ends(t)
      /\ crole' = [crole EXCEPT ![k][w] = new]
      /\ UNCHANGED <<wrole, owner, chan, asking, subs, wire, adrift, evicted>>
  BY DEF AddMember, Job, Elsewhere, socketVars
<1>2. /\ k \in ChannelIds /\ w \in Members /\ chan[k].kind \notin {"none", "dm"}
      /\ new \in {"member", "admin"}
  <2>1. /\ k \in ChannelIds /\ w \in Members /\ chan[k].kind \notin {"none", "dm"}
        /\ task[t].op = "add" => task[t].role \in {"member", "admin"}
    BY <1>1 DEF DecidedInv
  <2>2. crole[k][w] \in {"", "member", "admin"}
    BY <2>1 DEF RowsInv
  <2> QED
    BY <1>1, <2>1, <2>2
<1>3. /\ crole' \in [ChannelIds -> [Members -> {"", "member", "admin"}]]
      /\ crole'[k][w] = new
      /\ \A c \in ChannelIds, u \in Members : c # k \/ u # w => crole'[c][u] = crole[c][u]
  <2> HIDE DEF k, w, new
  <2> QED
    BY <1>1, <1>2 DEF RowsInv
<1> HIDE DEF k, w, new
<1>4. /\ task' \in [Tasks -> TaskRow] /\ task'[t].pc = "rest" /\ DecidedInv'
      /\ \A u \in Tasks : u # t => task'[u] = task[u]
  BY <1>1, TaskEnds
<1>5. RowsInv' /\ OneOwner'
  BY <1>1, <1>3, <1>4 DEF RowsInv, OneOwner
<1>6. NoGhosts' /\ DmInv'
  BY <1>1, <1>2, <1>3, DmKept
<1>7. CutInv'
  <2>1. \A c \in ChannelIds, u \in Members : crole[c][u] # "" => crole'[c][u] # ""
    BY <1>2, <1>3
  <2>2. \A u \in Tasks : task[u].pc = "telling" => task'[u] = task[u]
    BY <1>1, <1>4
  <2> QED
    BY <1>1, <2>1, <2>2, CutKept
<1> QED
  BY <1>4, <1>5, <1>6, <1>7

\* A row is deleted; a subscription that it authorized is about to be cut.
LEMMA RemoveStep ==
    ASSUME RosterIInv, NEW t \in Tasks, RemoveMember(t)
    PROVE  RosterIInv'
<1> USE DEF RosterIInv
<1> DEFINE k == task[t].c
           w == task[t].who
<1>1. /\ task[t].pc = "decided" /\ task[t].op = "leave"
      /\ crole' = [crole EXCEPT ![k][w] = ""]
      /\ IF crole[k][w] # "" THEN Tells(t) ELSE Ends(t)
      /\ UNCHANGED <<wrole, owner, chan, asking, subs, wire, adrift, evicted>>
  BY DEF RemoveMember, Job, Elsewhere, socketVars, isChannelMember, ChannelRole
<1>2. k \in ChannelIds /\ w \in Members /\ chan[k].kind \notin {"none", "dm"}
  BY <1>1 DEF DecidedInv
<1>3. /\ crole' \in [ChannelIds -> [Members -> {"", "member", "admin"}]]
      /\ crole'[k][w] = ""
      /\ \A c \in ChannelIds, u \in Members : c # k \/ u # w => crole'[c][u] = crole[c][u]
  <2> HIDE DEF k, w
  <2> QED
    BY <1>1, <1>2 DEF RowsInv
<1>4. /\ task' \in [Tasks -> TaskRow] /\ DecidedInv'
      /\ \A u \in Tasks : u # t => task'[u] = task[u]
      /\ crole[k][w] # "" => task'[t] = [task[t] EXCEPT !.pc = "telling"]
  BY <1>1, TaskEnds, TaskTells
<1>5. RowsInv' /\ OneOwner'
  BY <1>1, <1>3, <1>4 DEF RowsInv, OneOwner
<1>6. NoGhosts' /\ DmInv'
  <2> HIDE DEF k, w
  <2> QED
    BY <1>1, <1>2, <1>3, DmKept
<1>7. CutInv'
  <2>1. CASE crole[k][w] = ""
    <3>1. \A c \in ChannelIds, u \in Members : crole[c][u] # "" => crole'[c][u] # ""
      BY <1>2, <1>3, <2>1
    <3>2. \A u \in Tasks : task[u].pc = "telling" => task'[u] = task[u]
      BY <1>1, <1>4
    <3> QED
      BY <1>1, <3>1, <3>2, CutKept
  <2>2. CASE crole[k][w] # ""
    <3>1. task'[t].pc = "telling" /\ task'[t].op = "leave" /\ task'[t].c = k /\ task'[t].who = w
      BY <1>1, <1>4, <2>2 DEF RowsInv, TaskRow
    <3> HIDE DEF k, w
    <3>2. ASSUME NEW s \in subs \ adrift
          PROVE  crole'[s[2]][s[1]] # "" \/ Telling(s)' \/ OnTheWire(s)'
      <4>1. s[2] \in ChannelIds /\ s[1] \in Members
        BY DEF RowsInv
      <4>2. CASE s[2] = k /\ s[1] = w
        <5>1. <<s[1], s[2]>> \in Revoked(t)'
          BY <3>1, <4>2 DEF Revoked
        <5> QED
          BY <3>1, <5>1 DEF Telling
      <4>3. CASE ~(s[2] = k /\ s[1] = w)
        <5>1. crole'[s[2]][s[1]] = crole[s[2]][s[1]]
          BY <1>3, <4>1, <4>3
        <5>2. \A u \in Tasks : task[u].pc = "telling" => task'[u] = task[u]
          BY <1>1, <1>4
        <5>3. (Telling(s) => Telling(s)') /\ (OnTheWire(s) => OnTheWire(s)')
          BY <1>1, <5>2, StillTelling DEF OnTheWire
        <5> QED
          BY <5>1, <5>3 DEF CutInv
      <4> QED
        BY <4>2, <4>3
    <3> QED
      BY <1>1, <3>2 DEF CutInv
  <2> QED
    BY <2>1, <2>2
<1> QED
  BY <1>4, <1>5, <1>6, <1>7

\* A channel is archived or opened again.
LEMMA ArchiveStep ==
    ASSUME RosterIInv, NEW t \in Tasks, SetArchived(t)
    PROVE  RosterIInv'
<1> USE DEF RosterIInv
<1> DEFINE k == task[t].c
           b == task[t].role = "archived"
<1>1. /\ task[t].pc = "decided" /\ task[t].op = "archive"
      /\ chan' = [chan EXCEPT ![k].archived = b]
      /\ Tells(t) \/ Ends(t)
      /\ UNCHANGED <<wrole, owner, crole, asking, subs, wire, adrift, evicted>>
  BY DEF SetArchived, Job, Elsewhere, socketVars
<1>2. k \in ChannelIds /\ b \in BOOLEAN
  BY <1>1 DEF DecidedInv
<1>3. /\ chan' \in [ChannelIds -> ChannelRow]
      /\ \A c \in ChannelIds : chan'[c].kind = chan[c].kind /\ chan'[c].pair = chan[c].pair
  <2> HIDE DEF k, b
  <2> QED
    BY <1>1, <1>2, ZenonT(60) DEF RowsInv, ChannelRow
<1> HIDE DEF k, b
<1>4. /\ task' \in [Tasks -> TaskRow] /\ DecidedInv'
      /\ \A u \in Tasks : u # t => task'[u] = task[u]
  BY <1>1, <1>3, TaskEnds, TaskTells
<1>5. RowsInv' /\ OneOwner'
  BY <1>1, <1>3, <1>4 DEF RowsInv, OneOwner
<1>6. NoGhosts' /\ DmInv'
  BY <1>1, <1>3, DmKept
<1>7. CutInv'
  <2>1. \A u \in Tasks : task[u].pc = "telling" => task'[u] = task[u]
    BY <1>1, <1>4
  <2> QED
    BY <1>1, <2>1, CutKept
<1> QED
  BY <1>4, <1>5, <1>6, <1>7

\* OneOwner, member by member.
LEMMA OwnerByMember ==
    OneOwner <=> owner \in Members /\ \A u \in Members : wrole[u] = "owner" <=> u = owner
BY DEF OneOwner

\* Steps of a request that change workspace roles and no channel, and end.
LEMMA RoleMoves ==
    ASSUME RosterIInv, NEW t \in Tasks, Ends(t), task[t].pc = "decided",
           UNCHANGED <<chan, crole, asking, subs, wire, adrift, evicted>>,
           wrole' \in [Members -> {"", "member", "admin", "owner"}], OneOwner'
    PROVE  RosterIInv'
<1> USE DEF RosterIInv
<1>1. /\ task' \in [Tasks -> TaskRow] /\ DecidedInv'
      /\ \A u \in Tasks : u # t => task'[u] = task[u]
  BY TaskEnds
<1>2. RowsInv'
  BY <1>1 DEF RowsInv
<1>3. NoGhosts' /\ DmInv'
  BY DmKept
<1>4. CutInv'
  <2>1. \A u \in Tasks : task[u].pc = "telling" => task'[u] = task[u]
    BY <1>1
  <2> QED
    BY <2>1, CutKept
<1> QED
  BY <1>1, <1>2, <1>3, <1>4

\* A role change never makes or unmakes an owner.
LEMMA RoleStep ==
    ASSUME RosterIInv, NEW t \in Tasks, UpdateMemberRole(t)
    PROVE  RosterIInv'
<1> DEFINE w == task[t].who
           new == IF wrole[w] \in {"", "owner"} THEN wrole[w] ELSE task[t].role
<1>1. /\ task[t].pc = "decided" /\ task[t].op = "role" /\ Ends(t)
      /\ wrole' = [wrole EXCEPT ![w] = new]
      /\ UNCHANGED <<owner, chan, crole, asking, subs, wire, adrift, evicted>>
  BY DEF UpdateMemberRole, Job, Elsewhere, socketVars
<1>2. /\ w \in Members /\ task[t].role \in {"admin", "member"}
      /\ wrole \in [Members -> {"", "member", "admin", "owner"}] /\ OneOwner
  BY <1>1 DEF RosterIInv, DecidedInv, RowsInv
<1>3. new \in {"", "member", "admin", "owner"} /\ (new = "owner" <=> wrole[w] = "owner")
  BY <1>2
<1> HIDE DEF w, new
<1>4. /\ wrole' \in [Members -> {"", "member", "admin", "owner"}]
      /\ \A u \in Members : wrole'[u] = "owner" <=> wrole[u] = "owner"
  BY <1>1, <1>2, <1>3
<1>5. OneOwner'
  BY <1>1, <1>2, <1>4 DEF OneOwner
<1> QED
  BY <1>1, <1>4, <1>5, RoleMoves

\* A transfer demotes the owner there is, and names the new one.
LEMMA TransferStep ==
    ASSUME RosterIInv, NEW t \in Tasks, TransferOwnership(t)
    PROVE  RosterIInv'
<1> DEFINE b == task[t].by
           w == task[t].who
<1>1. /\ task[t].pc = "decided" /\ Ends(t)
      /\ \/ wrole[b] = "owner" /\ owner' = w
            /\ wrole' = [wrole EXCEPT ![b] = "admin", ![w] = "owner"]
         \/ UNCHANGED <<wrole, owner>>
      /\ UNCHANGED <<chan, crole, asking, subs, wire, adrift, evicted>>
  BY DEF TransferOwnership, Job, Elsewhere, socketVars
<1>2. /\ b \in Members /\ w \in Members
      /\ wrole \in [Members -> {"", "member", "admin", "owner"}] /\ OneOwner
  BY <1>1 DEF RosterIInv, DecidedInv, RowsInv
<1>3. owner \in Members /\ \A u \in Members : wrole[u] = "owner" <=> u = owner
  BY <1>2, OwnerByMember
<1> HIDE DEF b, w
<1>4. wrole' \in [Members -> {"", "member", "admin", "owner"}] /\ OneOwner'
  <2>1. CASE UNCHANGED <<wrole, owner>>
    BY <1>2, <2>1 DEF OneOwner
  <2>2. CASE /\ wrole[b] = "owner" /\ owner' = w
             /\ wrole' = [wrole EXCEPT ![b] = "admin", ![w] = "owner"]
    <3>1. wrole' \in [Members -> {"", "member", "admin", "owner"}]
      BY <1>2, <2>2
    <3>2. \A u \in Members : wrole'[u] = "owner" <=> u = w
      BY <1>2, <1>3, <2>2
    <3> QED
      BY <1>2, <2>2, <3>1, <3>2, ZenonT(60) DEF OneOwner
  <2> QED
    BY <1>1, <2>1, <2>2
<1> QED
  BY <1>1, <1>4, RoleMoves

\* An eviction takes the workspace row and every channel row, and will cut the
\* subscriptions those rows authorized.
LEMMA EvictStep ==
    ASSUME RosterIInv, NEW t \in Tasks, EvictMember(t)
    PROVE  RosterIInv'
<1> USE DEF RosterIInv
<1> DEFINE w == task[t].who
           from == {c \in ChannelIds : crole[c][w] # ""}
           q == [task[t] EXCEPT !.pc = "telling", !.from = from]
<1>1. /\ task[t].pc = "decided" /\ task[t].op = "evict"
      /\ UNCHANGED <<owner, chan, asking, subs, wire, adrift>>
  BY DEF EvictMember, Job, Elsewhere, socketVars
<1>2. w \in Members
  BY <1>1 DEF DecidedInv
<1>3. CASE wrole[w] \in {"", "owner"}
  <2>1. Ends(t) /\ UNCHANGED <<wrole, crole, evicted>>
    BY <1>3 DEF EvictMember
  <2>2. OneOwner' /\ wrole' \in [Members -> {"", "member", "admin", "owner"}]
    BY <1>1, <2>1 DEF OneOwner, RowsInv
  <2> QED
    BY <1>1, <2>1, <2>2, RoleMoves
<1>4. CASE wrole[w] \notin {"", "owner"}
  <2>1. /\ wrole' = [wrole EXCEPT ![w] = ""]
        /\ crole' = [c \in ChannelIds |-> [crole[c] EXCEPT ![w] = ""]]
        /\ evicted' = evicted \cup {w}
        /\ task' = [task EXCEPT ![t].pc = "telling", ![t].from = from]
    BY <1>4 DEF EvictMember, isChannelMember, ChannelRole
  <2>2. /\ wrole' \in [Members -> {"", "member", "admin", "owner"}]
        /\ \A u \in Members : wrole'[u] = "owner" <=> wrole[u] = "owner"
    BY <1>2, <1>4, <2>1 DEF RowsInv
  <2>3. /\ crole' \in [ChannelIds -> [Members -> {"", "member", "admin"}]]
        /\ \A c \in ChannelIds : crole'[c][w] = ""
        /\ \A c \in ChannelIds, u \in Members : u # w => crole'[c][u] = crole[c][u]
    BY <1>2, <2>1 DEF RowsInv
  <2>4. task[t] \in TaskRow /\ from \in SUBSET ChannelIds
    BY DEF RowsInv
  <2>5. task' = [task EXCEPT ![t] = q]
    BY <2>1, <2>4 DEF RowsInv
  <2>6. \A c \in ChannelIds : c \in from <=> crole[c][w] # ""
    OBVIOUS
  <2> HIDE DEF from
  <2>7. /\ q \in TaskRow /\ q.op = task[t].op /\ q.by = task[t].by /\ q.who = w
        /\ q.c = task[t].c /\ q.role = task[t].role /\ q.pc = "telling" /\ q.from = from
    BY <2>4 DEF TaskRow
  <2> HIDE DEF q
  <2>8. /\ task' \in [Tasks -> TaskRow] /\ task'[t] = q /\ DecidedInv'
        /\ \A u \in Tasks : u # t => task'[u] = task[u]
    BY <1>1, <2>5, <2>7, TaskMoves
  <2>9. RowsInv' /\ OneOwner'
    BY <1>1, <2>2, <2>3, <2>8 DEF RowsInv, OneOwner
  <2>10. NoGhosts' /\ DmInv'
    <3> HIDE DEF w
    <3> QED
      BY <1>1, <2>1, <2>3, DmKept
  <2>11. ASSUME NEW s \in subs \ adrift
         PROVE  crole'[s[2]][s[1]] # "" \/ Telling(s)' \/ OnTheWire(s)'
    <3>1. s[2] \in ChannelIds /\ s[1] \in Members
      BY DEF RowsInv
    <3>2. (Telling(s) => Telling(s)') /\ (OnTheWire(s) => OnTheWire(s)')
      <4>1. \A u \in Tasks : task[u].pc = "telling" => task'[u] = task[u]
        BY <1>1, <2>8
      <4> QED
        BY <1>1, <4>1, StillTelling DEF OnTheWire
    <3>3. CASE s[1] = w /\ crole[s[2]][s[1]] # ""
      <4>1. s[2] \in from /\ task'[t].op = "evict" /\ task'[t].who = w /\ task'[t].from = from
        BY <1>1, <2>6, <2>7, <2>8, <3>1, <3>3
      <4> HIDE DEF w
      <4>2. task'[t].pc = "telling" /\ <<s[1], s[2]>> \in Revoked(t)'
        BY <2>7, <2>8, <3>3, <4>1 DEF Revoked
      <4> QED
        BY <4>2 DEF Telling
    <3>4. CASE s[1] # w /\ crole[s[2]][s[1]] # ""
      BY <2>3, <3>1, <3>4
    <3>5. CASE crole[s[2]][s[1]] = ""
      BY <3>2, <3>5 DEF CutInv
    <3> QED
      BY <3>3, <3>4, <3>5
  <2>12. CutInv'
    BY <1>1, <2>11 DEF CutInv
  <2> QED
    BY <2>8, <2>9, <2>10, <2>12
<1> QED
  BY <1>3, <1>4

\* The hub is told: what the request had to cut is cut.
LEMMA TellStep ==
    ASSUME RosterIInv, NEW t \in Tasks, emitMemberLeft(t)
    PROVE  RosterIInv'
<1> USE DEF RosterIInv
<1>1. /\ task[t].pc = "telling" /\ Ends(t)
      /\ subs' = subs \ revokeLocal(Revoked(t), Home[t])
      /\ wire' = wire \cup {<<Revoked(t), r>> : r \in Replicas \ {Home[t]}}
      /\ UNCHANGED <<wrole, owner, chan, crole, asking, adrift, evicted>>
  BY DEF emitMemberLeft, rowsVars
<1>2. /\ task' \in [Tasks -> TaskRow] /\ DecidedInv'
      /\ \A u \in Tasks : u # t => task'[u] = task[u]
  BY <1>1, TaskEnds
<1>3. RowsInv' /\ OneOwner'
  BY <1>1, <1>2 DEF RowsInv, OneOwner
<1>4. NoGhosts' /\ DmInv'
  BY <1>1, DmKept
<1>5. ASSUME NEW s \in subs' \ adrift
      PROVE  crole[s[2]][s[1]] # "" \/ Telling(s)' \/ OnTheWire(s)'
  <2>1. s \in subs \ adrift /\ s \in Members \X ChannelIds \X Replicas
    BY <1>1 DEF RowsInv
  <2>2. OnTheWire(s) => OnTheWire(s)'
    BY <1>1 DEF OnTheWire
  <2>3. CASE <<s[1], s[2]>> \in Revoked(t)
    <3>1. s[3] \in Replicas \ {Home[t]}
      BY <1>1, <1>5, <2>1, <2>3 DEF revokeLocal
    <3>2. <<Revoked(t), s[3]>> \in wire'
      BY <1>1, <3>1
    <3> QED
      BY <2>3, <3>2 DEF OnTheWire
  <2>4. CASE <<s[1], s[2]>> \notin Revoked(t)
    <3>1. ASSUME NEW u \in Tasks, task[u].pc = "telling", <<s[1], s[2]>> \in Revoked(u)
          PROVE  task'[u].pc = "telling" /\ <<s[1], s[2]>> \in Revoked(u)'
      <4>1. u # t /\ task'[u] = task[u]
        BY <1>2, <2>4, <3>1
      <4> QED
        BY <3>1, <4>1 DEF Revoked
    <3>2. Telling(s) => Telling(s)'
      BY <3>1, Zenon DEF Telling
    <3> QED
      BY <2>1, <2>2, <3>2 DEF CutInv
  <2> QED
    BY <2>3, <2>4
<1>6. CutInv'
  BY <1>1, <1>5 DEF CutInv
<1> QED
  BY <1>2, <1>3, <1>4, <1>6

\* A revocation arrives, or is lost and its subscriptions are adrift.
LEMMA WireStep ==
    ASSUME RosterIInv, NEW w \in wire, handleRevoke(w) \/ LoseRevoke(w)
    PROVE  RosterIInv'
<1> USE DEF RosterIInv
<1>1. /\ wire' = wire \ {w}
      /\ UNCHANGED <<wrole, owner, chan, crole, asking, task, evicted>>
      /\ \/ subs' = subs \ revokeLocal(w[1], w[2]) /\ adrift' = adrift
         \/ subs' = subs /\ adrift' = adrift \cup revokeLocal(w[1], w[2])
  BY DEF handleRevoke, LoseRevoke, rowsVars
<1>2. RowsInv' /\ OneOwner'
  BY <1>1 DEF RowsInv, OneOwner
<1>3. NoGhosts' /\ DmInv'
  BY <1>1, DmKept
<1>4. DecidedInv'
  BY <1>1 DEF DecidedInv
<1>5. ASSUME NEW s \in subs' \ adrift'
      PROVE  crole[s[2]][s[1]] # "" \/ Telling(s)' \/ OnTheWire(s)'
  <2>1. s \in subs \ adrift /\ s \notin revokeLocal(w[1], w[2])
    BY <1>1
  <2>2. Telling(s) => Telling(s)'
    BY <1>1, StillTelling
  <2>3. OnTheWire(s) => OnTheWire(s)'
    BY <1>1, <2>1 DEF OnTheWire, revokeLocal
  <2> QED
    BY <2>1, <2>2, <2>3 DEF CutInv
<1>6. CutInv'
  BY <1>1, <1>5 DEF CutInv
<1> QED
  BY <1>2, <1>3, <1>4, <1>6

\* A process dies; what its requests had to tell is told by nobody.
LEMMA DieStep ==
    ASSUME RosterIInv, NEW r \in Replicas, Die(r)
    PROVE  RosterIInv'
<1> USE DEF RosterIInv
<1>1. /\ task' = [t \in Tasks |-> IF Home[t] = r THEN AtRest ELSE task[t]]
      /\ subs' = {s \in subs : s[3] # r} /\ asking' = {s \in asking : s[3] # r}
      /\ wire' = {w \in wire : w[2] # r} /\ adrift' = adrift \cup Untold(r)
      /\ UNCHANGED <<wrole, owner, chan, crole, evicted>>
  BY DEF Die, rowsVars
<1>2. AtRest \in TaskRow /\ AtRest.pc = "rest"
  BY DEF AtRest, TaskRow
<1> HIDE DEF AtRest
<1>3. /\ task' \in [Tasks -> TaskRow]
      /\ \A t \in Tasks : task'[t].pc # "rest" => Home[t] # r
      /\ \A t \in Tasks : Home[t] # r => task'[t] = task[t]
  BY <1>1, <1>2 DEF RowsInv
<1>4. RowsInv' /\ OneOwner'
  BY <1>1, <1>3 DEF RowsInv, OneOwner
<1>5. NoGhosts' /\ DmInv'
  BY <1>1, DmKept
<1>6. DecidedInv'
  BY <1>1, <1>3 DEF DecidedInv
<1>7. ASSUME NEW s \in subs' \ adrift'
      PROVE  crole[s[2]][s[1]] # "" \/ Telling(s)' \/ OnTheWire(s)'
  <2>1. s \in subs \ adrift /\ s[3] # r /\ s \notin Untold(r)
    BY <1>1, <1>7
  <2>2. ASSUME NEW t \in Tasks, task[t].pc = "telling", <<s[1], s[2]>> \in Revoked(t)
        PROVE  task'[t].pc = "telling" /\ <<s[1], s[2]>> \in Revoked(t)'
    <3>1. Home[t] # r
      BY <2>1, <2>2 DEF Untold
    <3>2. task'[t] = task[t]
      BY <1>3, <3>1
    <3> QED
      BY <2>2, <3>2 DEF Revoked
  <2>3. Telling(s) => Telling(s)'
    BY <2>2, Zenon DEF Telling
  <2>4. OnTheWire(s) => OnTheWire(s)'
    BY <1>1, <2>1 DEF OnTheWire
  <2> QED
    BY <2>1, <2>3, <2>4 DEF CutInv
<1>8. CutInv'
  BY <1>1, <1>7 DEF CutInv
<1> QED
  BY <1>4, <1>5, <1>6, <1>8

\* A direct message is opened: the pair's own, or a new one with both in it.
LEMMA DmStep ==
    ASSUME RosterIInv, NEW t \in Tasks, EnsureDM(t)
    PROVE  RosterIInv'
<1> USE DEF RosterIInv
<1> DEFINE pair == {task[t].by, task[t].who}
           roster == [u \in Members |-> IF u \in pair THEN "admin" ELSE ""]
           row == [kind |-> "dm", pair |-> pair, archived |-> FALSE]
<1>1. /\ task[t].pc = "decided" /\ Ends(t)
      /\ UNCHANGED <<wrole, owner, asking, subs, wire, adrift, evicted>>
  BY DEF EnsureDM, Job, Elsewhere, socketVars
<1>2. pair \in SUBSET Members
  BY <1>1 DEF DecidedInv
<1>3. CASE UNCHANGED <<chan, crole>>
  <2>1. OneOwner' /\ wrole' \in [Members -> {"", "member", "admin", "owner"}]
    BY <1>1 DEF OneOwner, RowsInv
  <2> QED
    BY <1>1, <1>3, <2>1, RoleMoves
<1>4. ASSUME NEW c \in NextId, DmOf(pair) = {},
             chan' = [chan EXCEPT ![c] = row], crole' = [crole EXCEPT ![c] = roster]
      PROVE  RosterIInv'
  <2>1. \A d \in ChannelIds : chan[d].kind = "dm" => chan[d].pair # pair
    BY <1>4 DEF DmOf
  <2>2. roster \in [Members -> {"", "member", "admin"}]
    OBVIOUS
  <2>3. \A u \in Members : roster[u] # "" <=> u \in pair
    OBVIOUS
  <2> HIDE DEF pair, roster
  <2>4. row \in ChannelRow /\ row.kind = "dm" /\ row.pair = pair
    BY <1>2, Zenon DEF ChannelRow
  <2> HIDE DEF row
  <2>5. /\ chan' \in [ChannelIds -> ChannelRow]
        /\ crole' \in [ChannelIds -> [Members -> {"", "member", "admin"}]]
        /\ NoGhosts' /\ DmInv'
        /\ \A d \in ChannelIds : chan[d].kind # "none" => chan'[d].kind = chan[d].kind
        /\ \A d \in ChannelIds, u \in Members : crole[d][u] # "" => crole'[d][u] # ""
    <3>1. /\ row.kind = "dm" => \A d \in ChannelIds : chan[d].kind = "dm" => chan[d].pair # row.pair
          /\ row.kind = "dm" => \A u \in Members : roster[u] # "" <=> u \in row.pair
          /\ row.kind # "none"
      BY <2>1, <2>3, <2>4
    <3> QED
      BY <1>1, <1>4, <2>2, <2>4, <3>1, NewChannel
  <2>6. /\ task' \in [Tasks -> TaskRow] /\ DecidedInv'
        /\ \A u \in Tasks : u # t => task'[u] = task[u]
    BY <1>1, <2>5, TaskEnds
  <2>7. RowsInv' /\ OneOwner'
    BY <1>1, <2>5, <2>6 DEF RowsInv, OneOwner
  <2>8. CutInv'
    <3>1. \A u \in Tasks : task[u].pc = "telling" => task'[u] = task[u]
      BY <1>1, <2>6
    <3> QED
      BY <1>1, <2>5, <3>1, CutKept
  <2> QED
    BY <2>5, <2>6, <2>7, <2>8
<1>5. \/ UNCHANGED <<chan, crole>>
      \/ /\ DmOf(pair) = {}
         /\ \E c \in NextId : chan' = [chan EXCEPT ![c] = row] /\ crole' = [crole EXCEPT ![c] = roster]
  BY Zenon DEF EnsureDM
<1> QED
  BY <1>3, <1>4, <1>5

\* A named channel starts with its creator.
LEMMA CreateStep ==
    ASSUME RosterIInv, NEW by \in Members, NEW kind \in {"public", "private"},
           CreateWithOwner(by, kind)
    PROVE  RosterIInv'
<1> USE DEF RosterIInv
<1>1. UNCHANGED <<wrole, owner, task, asking, subs, wire, adrift, evicted>>
  BY DEF CreateWithOwner, socketVars
<1>2. PICK c \in NextId :
          /\ chan' = [chan EXCEPT ![c] = [kind |-> kind, pair |-> {}, archived |-> FALSE]]
          /\ crole' = [crole EXCEPT ![c][by] = "admin"]
  BY DEF CreateWithOwner
<1> DEFINE roster == [crole[c] EXCEPT ![by] = "admin"]
           row == [kind |-> kind, pair |-> {}, archived |-> FALSE]
<1>3. c \in ChannelIds /\ crole[c] \in [Members -> {"", "member", "admin"}]
  BY DEF NextId, RowsInv
<1>4. crole' = [crole EXCEPT ![c] = roster] /\ roster \in [Members -> {"", "member", "admin"}]
  BY <1>2, <1>3 DEF RowsInv
<1>5. row \in ChannelRow /\ row.kind = kind
  <2>1. {} \in SUBSET Members /\ kind \in {"none", "public", "private", "group", "dm"}
    OBVIOUS
  <2> QED
    BY <2>1, Zenon DEF ChannelRow
<1>6. chan' = [chan EXCEPT ![c] = row]
  BY <1>2
<1> HIDE DEF roster, row
<1>7. /\ chan' \in [ChannelIds -> ChannelRow]
      /\ crole' \in [ChannelIds -> [Members -> {"", "member", "admin"}]]
      /\ NoGhosts' /\ DmInv'
      /\ \A d \in ChannelIds : chan[d].kind # "none" => chan'[d].kind = chan[d].kind
      /\ \A d \in ChannelIds, u \in Members : crole[d][u] # "" => crole'[d][u] # ""
  <2>1. row.kind # "dm" /\ row.kind # "none"
    BY <1>5
  <2> QED
    BY <1>1, <1>4, <1>5, <1>6, <2>1, NewChannel
<1>8. RowsInv' /\ OneOwner'
  BY <1>1, <1>7 DEF RowsInv, OneOwner
<1>9. DecidedInv'
  BY <1>1, <1>7 DEF DecidedInv
<1>10. CutInv'
  BY <1>1, <1>7, CutKept
<1> QED
  BY <1>7, <1>8, <1>9, <1>10

\* Invitations, blocks and the sockets.
LEMMA OtherSteps ==
    ASSUME RosterIInv
    PROVE  /\ \A u \in Members : Invited(u) => RosterIInv'
           /\ \A u \in Members, r \in Replicas : recheckSubscriptions(u, r) => RosterIInv'
           /\ \A u, v \in Members : BlockUser(u, v) \/ UnblockUser(u, v) => RosterIInv'
           /\ \A c \in ChannelIds, u \in Members, r \in Replicas : AskToSubscribe(c, u, r) => RosterIInv'
           /\ \A s \in asking : Subscribe(s) => RosterIInv'
           /\ UNCHANGED rvars => RosterIInv'
<1> USE DEF RosterIInv, rowsVars, socketVars
<1>1. ASSUME UNCHANGED <<chan, crole, task, evicted>>, RowsInv', OneOwner', CutInv'
      PROVE  RosterIInv'
  <2>1. NoGhosts' /\ DmInv'
    BY <1>1, DmKept
  <2>2. DecidedInv'
    BY <1>1 DEF DecidedInv
  <2> QED
    BY <1>1, <2>1, <2>2
<1>2. ASSUME NEW u \in Members, Invited(u) PROVE RosterIInv'
  <2>1. /\ wrole' = [wrole EXCEPT ![u] = "member"] /\ wrole[u] = ""
        /\ UNCHANGED <<owner, chan, crole, task, asking, subs, wire, adrift, evicted>>
    BY <1>2 DEF Invited, isWorkspaceMember
  <2>2. /\ RowsInv' /\ \A v \in Members : wrole'[v] = "owner" <=> wrole[v] = "owner"
    BY <2>1 DEF RowsInv
  <2>3. OneOwner' /\ CutInv'
    BY <2>1, <2>2, CutKept DEF OneOwner
  <2> QED
    BY <1>1, <2>1, <2>2, <2>3
<1>3. ASSUME UNCHANGED <<wrole, owner, chan, crole, task, asking, subs, wire, adrift, evicted>>
      PROVE  RosterIInv'
  <2>1. RowsInv' /\ OneOwner' /\ CutInv'
    BY <1>3, CutKept DEF RowsInv, OneOwner
  <2> QED
    BY <1>1, <1>3, <2>1
<1>4. ASSUME NEW u \in Members, NEW v \in Members, BlockUser(u, v) \/ UnblockUser(u, v)
      PROVE  RosterIInv'
  BY <1>3, <1>4 DEF BlockUser, UnblockUser
<1>5. ASSUME NEW c \in ChannelIds, NEW u \in Members, NEW r \in Replicas, AskToSubscribe(c, u, r)
      PROVE  RosterIInv'
  <2>1. /\ asking' = asking \cup {<<u, c, r>>}
        /\ UNCHANGED <<wrole, owner, chan, crole, task, subs, wire, adrift, evicted>>
    BY <1>5 DEF AskToSubscribe
  <2>2. RowsInv' /\ OneOwner'
    <3>1. <<u, c, r>> \in Members \X ChannelIds \X Replicas
      OBVIOUS
    <3>2. asking' \subseteq Members \X ChannelIds \X Replicas
      BY <2>1, <3>1 DEF RowsInv
    <3> QED
      BY <2>1, <3>2 DEF RowsInv, OneOwner
  <2>3. CutInv'
    BY <2>1, CutKept
  <2> QED
    BY <1>1, <2>1, <2>2, <2>3
<1>6. ASSUME UNCHANGED <<chan, crole, wrole, owner, task, wire, evicted>>, asking' \subseteq asking,
             subs' \subseteq Members \X ChannelIds \X Replicas,
             \A s \in subs' \ adrift' : s \in subs \ adrift \/ crole[s[2]][s[1]] # ""
      PROVE  RosterIInv'
  <2>1. RowsInv' /\ OneOwner'
    BY <1>6 DEF RowsInv, OneOwner
  <2>2. ASSUME NEW s \in subs' \ adrift'
        PROVE  crole[s[2]][s[1]] # "" \/ Telling(s)' \/ OnTheWire(s)'
    <3>1. (Telling(s) => Telling(s)') /\ (OnTheWire(s) => OnTheWire(s)')
      BY <1>6, StillTelling DEF OnTheWire
    <3> QED
      BY <1>6, <3>1 DEF CutInv
  <2>3. CutInv'
    BY <1>6, <2>2 DEF CutInv
  <2> QED
    BY <1>1, <1>6, <2>1, <2>3
<1>7. ASSUME NEW s \in asking, Subscribe(s) PROVE RosterIInv'
  <2>1. s \in Members \X ChannelIds \X Replicas
    BY DEF RowsInv
  <2>2. /\ UNCHANGED <<chan, crole, wrole, owner, task, wire, evicted>>
        /\ asking' \subseteq asking /\ subs' = subs \cup {s}
        /\ \/ crole[s[2]][s[1]] # "" /\ adrift' = adrift \ {s}
           \/ adrift' = adrift \cup {s}
    BY <1>7 DEF Subscribe, isChannelMember, ChannelRole
  <2>3. \A x \in subs' \ adrift' : x \in subs \ adrift \/ crole[x[2]][x[1]] # ""
    BY <2>2
  <2> QED
    BY <1>6, <2>1, <2>2, <2>3 DEF RowsInv
<1>8. ASSUME NEW u \in Members, NEW r \in Replicas, recheckSubscriptions(u, r) PROVE RosterIInv'
  BY <1>6, <1>8 DEF recheckSubscriptions, RowsInv
<1>9. ASSUME UNCHANGED rvars PROVE RosterIInv'
  BY <1>3, <1>9 DEF rvars
<1> QED
  BY <1>2, <1>4, <1>5, <1>7, <1>8, <1>9

-----------------------------------------------------------------------------
(* The theorem.                                                            *)

\* A workspace starts sound.
LEMMA RosterInitInv == RosterInit => RosterIInv
<1> SUFFICES ASSUME RosterInit PROVE RosterIInv
  OBVIOUS
<1>1. renv \in RosterEnvironments /\ wrole = renv.wrole /\ chan = renv.chan /\ crole = renv.crole
  BY DEF RosterInit
<1>2. /\ wrole \in [Members -> {"", "member", "admin", "owner"}]
      /\ chan \in [ChannelIds -> ChannelRow]
      /\ crole \in [ChannelIds -> [Members -> {"", "member", "admin"}]]
      /\ NoGhosts
  BY <1>1, RosterAssumption DEF NoGhosts
<1>3. AtRest \in TaskRow /\ AtRest.pc = "rest"
  BY DEF AtRest, TaskRow
<1>4. \A t \in Tasks : task[t] = AtRest
  BY DEF RosterInit
<1>5. RowsInv /\ DecidedInv /\ CutInv
  <2> HIDE DEF AtRest
  <2> QED
    BY <1>2, <1>3, <1>4 DEF RosterInit, RowsInv, DecidedInv, CutInv
<1>6. OneOwner
  <2>1. PICK u \in Members : \A v \in Members : wrole[v] = "owner" <=> v = u
    <3>1. \E u \in Members : \A v \in Members : renv.wrole[v] = "owner" <=> v = u
      BY <1>1, RosterAssumption
    <3> QED
      BY <1>1, <3>1
  <2>2. owner = CHOOSE v \in Members : wrole[v] = "owner"
    BY <1>1 DEF RosterInit
  <2>3. owner = u
    BY <2>1, <2>2
  <2> QED
    BY <2>1, <2>3 DEF OneOwner
<1>7. DmInv
  <2>1. ASSUME NEW c \in ChannelIds, NEW d \in ChannelIds, chan[c].kind = "dm",
               chan[d].kind = "dm", chan[c].pair = chan[d].pair
        PROVE  c = d
    <3>1. \A x, y \in ChannelIds :
             renv.chan[x].kind = "dm" /\ renv.chan[y].kind = "dm" /\ renv.chan[x].pair = renv.chan[y].pair => x = y
      BY <1>1, RosterAssumption, Zenon
    <3> QED
      BY <1>1, <2>1, <3>1
  <2>2. \A c \in ChannelIds, u \in Members :
           chan[c].kind = "dm" => (crole[c][u] # "" <=> u \in chan[c].pair)
    BY <1>1, RosterAssumption, Zenon
  <2> QED
    BY <2>1, <2>2 DEF DmInv
<1> QED
  BY <1>2, <1>5, <1>6, <1>7 DEF RosterIInv

\* The inductive invariant implies the property.
LEMMA RosterInvImplies ==
    ASSUME RosterIInv
    PROVE  RosterSound
<1> USE DEF RosterIInv, isChannelMember, ChannelRole
<1>1. OneDmPerPair
  <2> SUFFICES ASSUME NEW c \in ChannelIds, chan[c].kind = "dm"
               PROVE  /\ DmOf(chan[c].pair) = {c}
                      /\ \A u \in chan[c].pair \ evicted : crole[c][u] # ""
                      /\ \A u \in Members \ chan[c].pair : ~(crole[c][u] # "")
    BY DEF OneDmPerPair
  <2>1. DmOf(chan[c].pair) = {c}
    <3>1. \A d \in ChannelIds : chan[d].kind = "dm" /\ chan[d].pair = chan[c].pair => d = c
      BY DEF DmInv
    <3> QED
      BY <3>1 DEF DmOf
  <2>2. chan[c].pair \subseteq Members
    BY DEF RowsInv, ChannelRow
  <2> QED
    BY <2>1, <2>2 DEF DmInv
<1>2. LeaversHearNothing
  <2>1. AtRest.pc = "rest"
    BY DEF AtRest
  <2> QED
    BY <2>1 DEF LeaversHearNothing, CutInv, Telling, OnTheWire
<1> QED
  BY <1>1, <1>2 DEF RosterSound

\* However requests overlap between what they read and what they write, a
\* workspace has one owner, two people share one direct message with nobody else
\* in it, and with no request on its way and no revocation on the wire the live
\* subscriptions are members', save the ones no revocation reached: recorded after
\* it, lost by NATS, or never sent by a process that died.
THEOREM RosterAlwaysSound == RosterSpec => []RosterSound
<1>1. RosterIInv /\ [RosterNext]_rvars => RosterIInv'
  <2> SUFFICES ASSUME RosterIInv, [RosterNext]_rvars PROVE RosterIInv'
    OBVIOUS
  <2>1. ASSUME NEW t \in Tasks, NEW op \in Operations, NEW by \in Members,
               NEW who \in Members, NEW c \in ChannelsOf(op), NEW role \in RolesOf(op),
               Decide(t, op, by, who, c, role)
        PROVE  RosterIInv'
    BY <2>1, DecideStep
  <2>2. ASSUME NEW t \in Tasks,
               \/ AddMember(t) \/ RemoveMember(t) \/ SetArchived(t) \/ UpdateMemberRole(t)
               \/ EvictMember(t) \/ TransferOwnership(t) \/ EnsureDM(t) \/ emitMemberLeft(t)
        PROVE  RosterIInv'
    BY <2>2, AddStep, RemoveStep, ArchiveStep, RoleStep, EvictStep, TransferStep, DmStep,
       TellStep
  <2>3. ASSUME NEW u \in Members, NEW kind \in {"public", "private"}, CreateWithOwner(u, kind)
        PROVE  RosterIInv'
    BY <2>3, CreateStep
  <2>4. ASSUME NEW w \in wire, handleRevoke(w) \/ LoseRevoke(w) PROVE RosterIInv'
    BY <2>4, WireStep
  <2>5. ASSUME NEW r \in Replicas, Die(r) PROVE RosterIInv'
    BY <2>5, DieStep
  <2> QED
    BY <2>1, <2>2, <2>3, <2>4, <2>5, OtherSteps DEF RosterNext
<1>2. RosterIInv => RosterSound
  BY RosterInvImplies
<1> QED
  BY <1>1, <1>2, RosterInitInv, PTL DEF RosterSpec

==============================================================================
