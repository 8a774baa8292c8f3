---------------------------- MODULE RealtimeProof ----------------------------
(***************************************************************************)
(* Proofs about the hubs (RoomHub), for any replicas, connections, users,  *)
(* rooms and channels and any number of updates, questions and changes of  *)
(* access, and about the send buffer of a client (ClientSend), for any     *)
(* number of sending goroutines, capacity and limit of consecutive drops.  *)
(***************************************************************************)
EXTENDS RoomHub, ClientSend, FiniteSetTheorems, WellFoundedInduction, TLAPS

(***************************************************************************)
(* The hubs.                                                               *)
(***************************************************************************)


(* The inductive invariant, in parts.                                      *)

Phases == {"new", "offered", "received", "serving", "closed"}

\* The database and the bounds.
AccessInv ==
    /\ henv \in HubEnvironments
    /\ access \in [Users -> [Topics -> Levels]]
    /\ changes \in 0..MaxChanges

\* Registered connections are live and at home, and a join or a recheck under way
\* belongs to a live connection.
ConnInv ==
    /\ phase \in [Conns -> Phases] /\ down \subseteq Replicas
    /\ clients \in [Replicas -> SUBSET Conns]
    /\ \A r \in Replicas : \A c \in clients[r] : phase[c] = "serving" /\ HomeOf[c] = r
    /\ member \in [Conns -> [Topics -> Levels]]
    /\ joining \in [Conns -> [t : Topics \cup {"none"}, level : Levels]]
    /\ \A c \in Conns : joining[c] # NoJoin =>
          phase[c] = "serving" /\ joining[c].t \in Topics /\ joining[c].level # "none"
    /\ checking \subseteq [c : Conns, t : Topics, level : Levels]
    /\ \A k \in checking : phase[k.c] = "serving"

\* What is on its way: at most one envelope for each update or question and replica.
BusInv ==
    /\ updates \in 0..MaxUpdates /\ asks \in 0..MaxAsks
    /\ \A e \in bus :
          /\ e.to \in Replicas
          /\ e.kind = "workspace" => e.user \in Users
          /\ e.kind = "revoke" => e.user \in Users /\ e.t \in Topics
          /\ e.kind = "update" => e.t \in Rooms /\ e.n \in 1..updates
          /\ e.kind = "leader" => e.t \in Rooms /\ e.n \in 1..asks
    /\ \A e, f \in bus :
          e.kind = f.kind /\ e.kind \in {"update", "leader"} /\ e.n = f.n /\ e.to = f.to => e = f

\* While an envelope that a replica will not skip is on its way there, nobody there
\* has its update.
SeenInv ==
    /\ seen \in [Conns -> [1..MaxUpdates -> Nat]]
    /\ AtMostOnce
    /\ \A c \in Conns, n \in 1..MaxUpdates : n > updates => seen[c][n] = 0
    /\ \A e \in bus, c \in Conns :
          e.kind = "update" /\ e.origin # e.to /\ HomeOf[c] = e.to => seen[c][e.n] = 0

\* The same for a question to the leaders.
AskedInv ==
    /\ asked \in [Conns -> [1..MaxAsks -> Nat]]
    /\ OneLeaderPerReplica
    /\ \A c \in Conns, n \in 1..MaxAsks : n > asks => asked[c][n] = 0
    /\ \A e \in bus, c \in Conns :
          e.kind = "leader" /\ e.origin # e.to /\ HomeOf[c] = e.to => asked[c][e.n] = 0

\* Whoever is owed an update is still a registered member of its room, and has it or
\* has an envelope on its way that will not be skipped.
DueInv ==
    /\ due \in [Conns -> SUBSET (Rooms \X (1..updates))]
    /\ \A c \in Conns : \A d \in due[c] :
          /\ c \in clients[HomeOf[c]] /\ member[c][d[1]] # "none"
          /\ \A e \in bus : e.kind = "update" /\ e.n = d[2] => e.t = d[1]
          /\ "lose" \notin Faults =>
                \/ seen[c][d[2]] = 1
                \/ \E e \in bus : e.kind = "update" /\ e.n = d[2] /\ e.to = HomeOf[c] /\ e.origin # e.to

\* The inductive invariant of the hub.
HubIInv == AccessInv /\ ConnInv /\ BusInv /\ SeenInv /\ AskedInv /\ DueInv

-----------------------------------------------------------------------------
(* Facts that several steps share.                                         *)

\* The least connection of a set is one of it.
LEMMA LeastConn ==
    ASSUME NEW S, S \subseteq Conns, S # {}
    PROVE  Min(S) \in S
<1>1. S \subseteq Nat
  BY RoomHubAssumption
<1> DEFINE less == OpToRel(<, Nat)
<1>2. IsWellFoundedOn(less, Nat)
  BY NatLessThanWellFounded
<1>3. \A x, y \in Nat : <<y, x>> \in less <=> y < x
  BY DEF OpToRel
<1> HIDE DEF less
<1>4. PICK x \in S : \A y \in S : <<y, x>> \notin less
  BY <1>1, <1>2, WFMin
<1>5. ASSUME NEW y \in S PROVE x <= y
  <2>1. x \in Nat /\ y \in Nat
    BY <1>1
  <2>2. ~(y < x)
    BY <1>3, <1>4, <2>1, Zenon
  <2> QED
    BY <2>1, <2>2
<1> QED
  BY <1>5 DEF Min

\* A published message: one envelope for each replica.
LEMMA Published ==
    ASSUME NEW kind, NEW origin, NEW u, NEW t, NEW n, Publish(kind, origin, u, t, n)
    PROVE  /\ bus \subseteq bus'
           /\ \A e \in bus' : e \notin bus =>
                 /\ e.kind = kind /\ e.origin = origin /\ e.to \in Replicas
                 /\ e.user = u /\ e.t = t /\ e.n = n
           /\ \A e, f \in bus' : e \notin bus /\ f \notin bus /\ e.to = f.to => e = f
           /\ \A to \in Replicas : \E e \in bus' :
                 e.kind = kind /\ e.origin = origin /\ e.to = to /\ e.n = n /\ e.t = t
<1>1. bus' = bus \cup {Envelope(kind, origin, to, u, t, n) : to \in Replicas}
  BY DEF Publish
<1>2. \A to : LET e == Envelope(kind, origin, to, u, t, n)
              IN  /\ e.kind = kind /\ e.origin = origin /\ e.to = to
                  /\ e.user = u /\ e.t = t /\ e.n = n
  BY DEF Envelope
<1>3. \A e \in bus' : e \notin bus =>
          \E to \in Replicas : e = Envelope(kind, origin, to, u, t, n)
  BY <1>1
<1>4. \A to \in Replicas : Envelope(kind, origin, to, u, t, n) \in bus'
  BY <1>1
<1> QED
  BY <1>1, <1>2, <1>3, <1>4

\* The bounds of the behaviour.
LEMMA Bounds ==
    ASSUME AccessInv
    PROVE  MaxChanges \in Nat /\ MaxUpdates \in Nat /\ MaxAsks \in Nat
BY RoomHubAssumption DEF AccessInv, MaxChanges, MaxUpdates, MaxAsks

\* Only revocations are sent; anything may arrive or get lost.
OnlyRevocations ==
    \A e \in bus' : e \notin bus =>
        /\ e.kind \in {"revoke", "workspace"} /\ e.to \in Replicas /\ e.user \in Users
        /\ e.kind = "revoke" => e.t \in Topics

LEMMA TrafficKept ==
    ASSUME BusInv, SeenInv, AskedInv, OnlyRevocations,
           UNCHANGED <<henv, updates, seen, asks, asked>>
    PROVE  BusInv' /\ SeenInv' /\ AskedInv'
<1>1. MaxUpdates' = MaxUpdates /\ MaxAsks' = MaxAsks
  BY DEF MaxUpdates, MaxAsks
<1>2. BusInv'
  BY <1>1 DEF BusInv, OnlyRevocations
<1>3. SeenInv'
  BY <1>1 DEF SeenInv, OnlyRevocations, AtMostOnce
<1>4. AskedInv'
  BY <1>1 DEF AskedInv, OnlyRevocations, OneLeaderPerReplica
<1> QED
  BY <1>2, <1>3, <1>4

\* Who stays a registered member stays owed what it was owed.
LEMMA DueKept ==
    ASSUME DueInv, UNCHANGED <<henv, updates, seen>>, due' \in [Conns -> SUBSET (Rooms \X (1..updates))],
           OnlyRevocations,
           \A e \in bus : e \notin bus' => e.kind # "update" \/ "lose" \in Faults,
           \A c \in Conns : \A d \in due'[c] :
               d \in due[c] /\ c \in clients'[HomeOf[c]] /\ member'[c][d[1]] # "none"
    PROVE  DueInv'
<1>1. Faults' = Faults
  BY DEF Faults
<1>2. ASSUME NEW c \in Conns, NEW d \in due'[c]
      PROVE  /\ \A e \in bus' : e.kind = "update" /\ e.n = d[2] => e.t = d[1]
             /\ "lose" \notin Faults =>
                  \/ seen[c][d[2]] = 1
                  \/ \E e \in bus' : e.kind = "update" /\ e.n = d[2] /\ e.to = HomeOf[c] /\ e.origin # e.to
  <2>1. d \in due[c]
    OBVIOUS
  <2> QED
    BY <2>1 DEF DueInv, OnlyRevocations
<1> QED
  BY <1>1, <1>2 DEF DueInv

\* Connections and memberships move; nobody loses one that is owed an update.
LEMMA ConnMoves ==
    ASSUME HubIInv, ConnInv', UNCHANGED <<henv, access, changes, bus, updates, due, seen, asks, asked>>,
           \A r \in Replicas : clients[r] \subseteq clients'[r],
           \A c \in Conns, t \in Rooms : member[c][t] # "none" => member'[c][t] # "none"
    PROVE  HubIInv'
<1> USE DEF HubIInv
<1>1. AccessInv'
  BY DEF AccessInv, MaxChanges
<1>2. BusInv' /\ SeenInv' /\ AskedInv'
  BY TrafficKept DEF OnlyRevocations
<1>3. due \in [Conns -> SUBSET (Rooms \X (1..updates))]
  BY DEF DueInv
<1>4. ASSUME NEW c \in Conns, NEW d \in due[c]
      PROVE  c \in clients'[HomeOf[c]] /\ member'[c][d[1]] # "none"
  <2>1. d[1] \in Rooms /\ HomeOf[c] \in Replicas
    BY <1>3, RoomHubAssumption
  <2> QED
    BY <2>1 DEF DueInv
<1>5. DueInv'
  BY <1>3, <1>4, DueKept DEF OnlyRevocations
<1> QED
  BY <1>1, <1>2, <1>5

-----------------------------------------------------------------------------
(* Connections.                                                            *)

\* A connection comes: offered, received, turned away, registered.
LEMMA ComeStep ==
    ASSUME HubIInv, NEW c \in Conns
    PROVE  Connect(c) \/ Receive(c) \/ TurnAway(c) \/ Register(c) => HubIInv'
<1> USE DEF HubIInv
<1>1. ASSUME NEW p \in Phases, phase[c] # "serving", phase' = [phase EXCEPT ![c] = p],
             UNCHANGED <<henv, access, changes, down, roomVars, bus, dataVars>>,
             clients' = clients \/ (p = "serving" /\ clients' = [clients EXCEPT ![HomeOf[c]] = @ \cup {c}])
      PROVE  HubIInv'
  <2> USE DEF roomVars, dataVars
  <2>1. HomeOf[c] \in Replicas
    BY RoomHubAssumption
  <2>2. /\ phase' \in [Conns -> Phases] /\ phase'[c] = p
        /\ \A d \in Conns : phase[d] = "serving" => phase'[d] = "serving"
    BY <1>1 DEF ConnInv
  <2>3. /\ clients' \in [Replicas -> SUBSET Conns]
        /\ \A r \in Replicas : clients[r] \subseteq clients'[r]
        /\ \A r \in Replicas : \A d \in clients'[r] : d \in clients[r] \/ (d = c /\ p = "serving" /\ r = HomeOf[c])
    <3>1. CASE clients' = clients
      BY <3>1 DEF ConnInv
    <3>2. CASE p = "serving" /\ clients' = [clients EXCEPT ![HomeOf[c]] = @ \cup {c}]
      <4>1. \A r \in Replicas : clients'[r] = IF r = HomeOf[c] THEN clients[r] \cup {c} ELSE clients[r]
        BY <3>2 DEF ConnInv
      <4>2. clients' \in [Replicas -> SUBSET Conns]
        BY <2>1, <3>2 DEF ConnInv
      <4> QED
        BY <3>2, <4>1, <4>2
    <3> QED
      BY <1>1, <3>1, <3>2
  <2>4. \A r \in Replicas : \A d \in clients'[r] : phase'[d] = "serving" /\ HomeOf[d] = r
    BY <2>2, <2>3 DEF ConnInv
  <2>5. ConnInv'
    BY <1>1, <2>2, <2>3, <2>4 DEF ConnInv
  <2> QED
    BY <1>1, <2>3, <2>5, ConnMoves
<1>2. {"offered", "received", "closed", "serving"} \subseteq Phases
  BY DEF Phases
<1>3. CASE Connect(c)
  BY <1>1, <1>2, <1>3 DEF Connect
<1>4. CASE Receive(c)
  BY <1>1, <1>2, <1>4 DEF Receive
<1>5. CASE TurnAway(c)
  BY <1>1, <1>2, <1>5 DEF TurnAway
<1>6. CASE Register(c)
  BY <1>1, <1>2, <1>6 DEF Register
<1> QED
  BY <1>3, <1>4, <1>5, <1>6

\* Connections go: nothing of theirs is left.
LEMMA GoneStep ==
    ASSUME HubIInv
    PROVE  /\ \A c \in Conns : Disconnect(c) => HubIInv'
           /\ \A r \in Replicas : Shutdown(r) => HubIInv'
<1> USE DEF HubIInv
<1>1. ASSUME NEW S \in SUBSET Conns, Ended(S), clients' \in [Replicas -> SUBSET Conns], down' \subseteq Replicas,
             \A r \in Replicas : clients'[r] = clients[r] \ S,
             UNCHANGED <<henv, access, changes, member, bus, updates, seen, asks, asked>>
      PROVE  HubIInv'
  <2>1. AccessInv'
    BY <1>1 DEF AccessInv, MaxChanges
  <2>2. BusInv' /\ SeenInv' /\ AskedInv'
    BY <1>1, TrafficKept DEF OnlyRevocations
  <2>3. /\ phase' \in [Conns -> Phases]
        /\ \A c \in Conns \ S : phase'[c] = phase[c]
    BY <1>1 DEF ConnInv, Ended, Phases
  <2>4. /\ joining' \in [Conns -> [t : Topics \cup {"none"}, level : Levels]]
        /\ \A c \in Conns : c \in S => joining'[c] = NoJoin
        /\ \A c \in Conns \ S : joining'[c] = joining[c]
    <3>1. NoJoin \in [t : Topics \cup {"none"}, level : Levels]
      BY DEF NoJoin, Levels
    <3> QED
      BY <1>1, <3>1 DEF ConnInv, Ended
  <2>5. checking' \subseteq checking /\ \A k \in checking' : k.c \notin S
    BY <1>1 DEF Ended
  <2>6. ConnInv'
    <3>1. \A r \in Replicas : \A c \in clients'[r] : phase'[c] = "serving" /\ HomeOf[c] = r
      BY <1>1, <2>3 DEF ConnInv
    <3>2. \A c \in Conns : joining'[c] # NoJoin =>
              phase'[c] = "serving" /\ joining'[c].t \in Topics /\ joining'[c].level # "none"
      BY <2>3, <2>4 DEF ConnInv
    <3>3. \A k \in checking' : phase'[k.c] = "serving"
      BY <2>3, <2>5 DEF ConnInv
    <3> QED
      BY <1>1, <2>3, <2>4, <2>5, <3>1, <3>2, <3>3 DEF ConnInv
  <2>7. /\ due' \in [Conns -> SUBSET (Rooms \X (1..updates))]
        /\ \A c \in Conns : \A d \in due'[c] : d \in due[c] /\ c \notin S
    BY <1>1 DEF Ended, DueInv
  <2>8. ASSUME NEW c \in Conns, NEW d \in due'[c]
        PROVE  d \in due[c] /\ c \in clients'[HomeOf[c]] /\ member'[c][d[1]] # "none"
    <3>1. HomeOf[c] \in Replicas /\ d \in due[c] /\ c \notin S
      BY <2>7, RoomHubAssumption
    <3> QED
      BY <1>1, <3>1 DEF DueInv
  <2>9. DueInv'
    BY <1>1, <2>7, <2>8, DueKept DEF OnlyRevocations
  <2> QED
    BY <2>1, <2>2, <2>6, <2>9
<1>2. ASSUME NEW c \in Conns, Disconnect(c) PROVE HubIInv'
  <2>1. HomeOf[c] \in Replicas
    BY RoomHubAssumption
  <2>2. /\ clients' = [clients EXCEPT ![HomeOf[c]] = @ \ {c}] /\ Ended({c}) /\ down' = down
        /\ UNCHANGED <<henv, access, changes, member, bus, updates, seen, asks, asked>>
    BY <1>2 DEF Disconnect
  <2>3. clients' \in [Replicas -> SUBSET Conns] /\ \A r \in Replicas : clients'[r] = clients[r] \ {c}
    <3>1. \A r \in Replicas : r # HomeOf[c] => c \notin clients[r]
      BY DEF ConnInv
    <3> QED
      BY <2>1, <2>2, <3>1 DEF ConnInv
  <2>4. {c} \in SUBSET Conns /\ down' \subseteq Replicas
    BY <2>2 DEF ConnInv
  <2> QED
    BY <1>1, <2>2, <2>3, <2>4
<1>3. ASSUME NEW r \in Replicas, Shutdown(r) PROVE HubIInv'
  <2>1. /\ clients' = [clients EXCEPT ![r] = {}] /\ Ended(clients[r]) /\ down' = down \cup {r}
        /\ UNCHANGED <<henv, access, changes, member, bus, updates, seen, asks, asked>>
    BY <1>3 DEF Shutdown
  <2>2. clients[r] \in SUBSET Conns /\ down' \subseteq Replicas
    BY <2>1 DEF ConnInv
  <2>3. clients' \in [Replicas -> SUBSET Conns] /\ \A q \in Replicas : clients'[q] = clients[q] \ clients[r]
    <3>1. \A q \in Replicas : q # r => clients[q] \ clients[r] = clients[q]
      BY DEF ConnInv
    <3>2. \A q \in Replicas : clients'[q] = IF q = r THEN {} ELSE clients[q]
      BY <2>1 DEF ConnInv
    <3>3. clients' \in [Replicas -> SUBSET Conns]
      BY <2>1 DEF ConnInv
    <3> QED
      BY <3>1, <3>2, <3>3
  <2> QED
    BY <1>1, <2>1, <2>2, <2>3
<1> QED
  BY <1>2, <1>3

-----------------------------------------------------------------------------
(* Membership, access and revocation.                                      *)

\* A join is authorized and recorded, a recheck reads the access.
LEMMA JoinStep ==
    ASSUME HubIInv, NEW c \in Conns
    PROVE  /\ Record(c) => HubIInv'
           /\ \A t \in Topics : Authorize(c, t) \/ RecheckRead(c, t) => HubIInv'
<1> USE DEF HubIInv, connVars, dataVars
<1>0. UserOf[c] \in Users /\ member \in [Conns -> [Topics -> Levels]]
  BY RoomHubAssumption DEF ConnInv
<1>1. CASE Record(c)
  <2> DEFINE t == joining[c].t
             level == joining[c].level
  <2>1. /\ t \in Topics /\ level \in Levels /\ level # "none"
    BY <1>1 DEF ConnInv, Record
  <2>2. /\ member' = [member EXCEPT ![c][t] = level] /\ joining' = [joining EXCEPT ![c] = NoJoin]
        /\ UNCHANGED <<henv, access, changes, phase, clients, down, checking, bus, updates, due, seen, asks, asked>>
    BY <1>1 DEF Record
  <2> HIDE DEF t, level
  <2>3. /\ member' \in [Conns -> [Topics -> Levels]]
        /\ \A d \in Conns, s \in Topics : member[d][s] # "none" => member'[d][s] # "none"
    BY <1>0, <2>1, <2>2
  <2>4. NoJoin \in [t : Topics \cup {"none"}, level : Levels]
    BY DEF NoJoin, Levels
  <2>5. /\ joining' \in [Conns -> [t : Topics \cup {"none"}, level : Levels]]
        /\ \A d \in Conns : joining'[d] = NoJoin \/ joining'[d] = joining[d]
    BY <2>2, <2>4 DEF ConnInv
  <2>6. ConnInv'
    BY <2>2, <2>3, <2>5 DEF ConnInv
  <2>7. \A d \in Conns, s \in Rooms : member[d][s] # "none" => member'[d][s] # "none"
    BY <2>3 DEF Topics
  <2> QED
    BY <2>2, <2>6, <2>7, ConnMoves
<1>2. ASSUME NEW t \in Topics, Authorize(c, t) PROVE HubIInv'
  <2> DEFINE j == [t |-> t, level |-> access[UserOf[c]][t]]
  <2>1. /\ joining' = [joining EXCEPT ![c] = j] /\ phase[c] = "serving" /\ access[UserOf[c]][t] # "none"
        /\ UNCHANGED <<henv, access, changes, phase, clients, down, member, checking, bus, updates, due, seen, asks, asked>>
    BY <1>2 DEF Authorize, Serving
  <2>2. /\ j \in [t : Topics \cup {"none"}, level : Levels]
        /\ j.t \in Topics /\ j.level # "none"
    BY <1>0, <2>1 DEF AccessInv
  <2> HIDE DEF j
  <2>3. ConnInv'
    BY <2>1, <2>2 DEF ConnInv
  <2> QED
    BY <2>1, <2>3, ConnMoves
<1>3. ASSUME NEW t \in Topics, RecheckRead(c, t) PROVE HubIInv'
  <2> DEFINE k == [c |-> c, t |-> t, level |-> access[UserOf[c]][t]]
  <2>1. /\ checking' = checking \cup {k} /\ phase[c] = "serving"
        /\ UNCHANGED <<henv, access, changes, phase, clients, down, member, joining, bus, updates, due, seen, asks, asked>>
    BY <1>3 DEF RecheckRead, Serving
  <2>2. k \in [c : Conns, t : Topics, level : Levels] /\ k.c = c
    BY <1>0 DEF AccessInv
  <2> HIDE DEF k
  <2>3. ConnInv'
    BY <2>1, <2>2 DEF ConnInv
  <2> QED
    BY <2>1, <2>3, ConnMoves
<1> QED
  BY <1>1, <1>2, <1>3

\* What Drop leaves.
LEMMA Dropped ==
    ASSUME HubIInv, NEW S \in SUBSET Conns, NEW t \in Topics, Drop(S, t)
    PROVE  /\ member' \in [Conns -> [Topics -> Levels]]
           /\ \A c \in Conns, s \in Topics : member'[c][s] = member[c][s] \/ (c \in S /\ s = t)
           /\ \A c \in Conns, s \in Topics : member'[c][s] # "none" => member[c][s] # "none"
           /\ due' \in [Conns -> SUBSET (Rooms \X (1..updates))]
           /\ \A c \in Conns : \A d \in due'[c] : d \in due[c] /\ (c \in S => d[1] # t)
<1>1. member \in [Conns -> [Topics -> Levels]] /\ "none" \in Levels
      /\ due \in [Conns -> SUBSET (Rooms \X (1..updates))]
  BY DEF HubIInv, ConnInv, DueInv, Levels
<1>2. ASSUME NEW c \in Conns
      PROVE  /\ member'[c] \in [Topics -> Levels]
             /\ \A s \in Topics : member'[c][s] = member[c][s] \/ (c \in S /\ s = t /\ member'[c][s] = "none")
             /\ due'[c] \in SUBSET (Rooms \X (1..updates))
             /\ \A d \in due'[c] : d \in due[c] /\ (c \in S => d[1] # t)
  <2>1. CASE c \in S
    <3>1. member'[c] = [member[c] EXCEPT ![t] = "none"] /\ due'[c] = {d \in due[c] : d[1] # t}
      BY <2>1 DEF Drop
    <3> QED
      BY <1>1, <2>1, <3>1
  <2>2. CASE c \notin S
    <3>1. member'[c] = member[c] /\ due'[c] = due[c]
      BY <2>2 DEF Drop
    <3> QED
      BY <1>1, <2>2, <3>1
  <2> QED
    BY <2>1, <2>2
<1>3. /\ member' = [c \in Conns |-> member'[c]] /\ due' = [c \in Conns |-> due'[c]]
  BY DEF Drop
<1>4. member' \in [Conns -> [Topics -> Levels]] /\ due' \in [Conns -> SUBSET (Rooms \X (1..updates))]
  BY <1>2, <1>3
<1> QED
  BY <1>2, <1>4

\* Memberships end, with what was owed to them.
LEMMA CutOff ==
    ASSUME HubIInv, AccessInv', OnlyRevocations,
           \A e \in bus : e \notin bus' => e.kind # "update" \/ "lose" \in Faults,
           UNCHANGED <<henv, phase, clients, down, joining, updates, seen, asks, asked>>,
           checking' \subseteq [c : Conns, t : Topics, level : Levels],
           \A k \in checking' : phase[k.c] = "serving",
           member' \in [Conns -> [Topics -> Levels]],
           due' \in [Conns -> SUBSET (Rooms \X (1..updates))],
           \A c \in Conns : \A d \in due'[c] : d \in due[c] /\
               (member[c][d[1]] # "none" => member'[c][d[1]] # "none")
    PROVE  HubIInv'
<1> USE DEF HubIInv
<1>1. BusInv' /\ SeenInv' /\ AskedInv'
  BY TrafficKept
<1>2. ConnInv'
  BY DEF ConnInv
<1>3. ASSUME NEW c \in Conns, NEW d \in due'[c]
      PROVE  d \in due[c] /\ c \in clients'[HomeOf[c]] /\ member'[c][d[1]] # "none"
  BY DEF DueInv
<1>4. DueInv'
  BY <1>3, DueKept
<1> QED
  BY <1>1, <1>2, <1>4

LEMMA DropStep ==
    ASSUME HubIInv, NEW S \in SUBSET Conns, NEW t \in Topics, Drop(S, t), AccessInv', OnlyRevocations,
           \A e \in bus : e \notin bus' => e.kind # "update",
           UNCHANGED <<henv, phase, clients, down, joining, updates, seen, asks, asked>>,
           checking' \subseteq checking
    PROVE  HubIInv'
<1>1. /\ member' \in [Conns -> [Topics -> Levels]]
      /\ \A c \in Conns, s \in Topics : member'[c][s] = member[c][s] \/ (c \in S /\ s = t)
      /\ due' \in [Conns -> SUBSET (Rooms \X (1..updates))]
      /\ \A c \in Conns : \A d \in due'[c] : d \in due[c] /\ (c \in S => d[1] # t)
  BY Dropped
<1>2. ASSUME NEW c \in Conns, NEW d \in due'[c]
      PROVE  d \in due[c] /\ (member[c][d[1]] # "none" => member'[c][d[1]] # "none")
  <2>1. d[1] \in Topics
    BY <1>1 DEF Topics
  <2> QED
    BY <1>1, <2>1
<1>3. /\ checking' \subseteq [c : Conns, t : Topics, level : Levels]
      /\ \A k \in checking' : phase[k.c] = "serving"
  BY DEF HubIInv, ConnInv
<1> QED
  BY <1>1, <1>2, <1>3, CutOff

\* A client leaves, a recheck is applied.
LEMMA LeaveStep ==
    ASSUME HubIInv
    PROVE  /\ \A c \in Conns, t \in Topics : Leave(c, t) => HubIInv'
           /\ \A k \in checking : RecheckApply(k) => HubIInv'
<1> USE DEF HubIInv, connVars
<1>0. ASSUME UNCHANGED <<henv, access, changes, bus>>
      PROVE  AccessInv' /\ OnlyRevocations
  BY <1>0 DEF AccessInv, MaxChanges, OnlyRevocations
<1>1. ASSUME NEW c \in Conns, NEW t \in Topics, Leave(c, t) PROVE HubIInv'
  <2>1. /\ Drop({c}, t) /\ {c} \in SUBSET Conns
        /\ UNCHANGED <<henv, access, changes, phase, clients, down, joining, checking, bus, updates, seen, asks, asked>>
    BY <1>1 DEF Leave
  <2> QED
    BY <1>0, <2>1, DropStep
<1>2. ASSUME NEW k \in checking, RecheckApply(k) PROVE HubIInv'
  <2>1. k.c \in Conns /\ k.t \in Topics /\ k.level \in Levels /\ member \in [Conns -> [Topics -> Levels]]
    BY DEF ConnInv
  <2>2. /\ checking' \subseteq checking
        /\ UNCHANGED <<henv, access, changes, phase, clients, down, joining, bus, updates, seen, asks, asked>>
    BY <1>2 DEF RecheckApply
  <2>3. CASE k.level = "none"
    <3>1. Drop({k.c}, k.t) /\ {k.c} \in SUBSET Conns
      BY <1>2, <2>1, <2>3 DEF RecheckApply
    <3> QED
      BY <1>0, <2>1, <2>2, <3>1, DropStep
  <2>4. CASE k.level # "none"
    <3>1. /\ member' = member \/ member' = [member EXCEPT ![k.c][k.t] = k.level]
          /\ due' = due
      BY <1>2, <2>4 DEF RecheckApply
    <3>2. /\ member' \in [Conns -> [Topics -> Levels]]
          /\ \A c \in Conns, t \in Topics : member[c][t] # "none" => member'[c][t] # "none"
      BY <2>1, <2>4, <3>1
    <3>3. \A c \in Conns, t \in Rooms : member[c][t] # "none" => member'[c][t] # "none"
      BY <3>2 DEF Topics
    <3>4. ConnInv'
      BY <2>2, <3>2 DEF ConnInv
    <3> QED
      BY <2>2, <3>1, <3>3, <3>4, ConnMoves
  <2> QED
    BY <2>3, <2>4
<1> QED
  BY <1>1, <1>2

\* Access changes, and a topic is revoked.
LEMMA RevokeStep ==
    ASSUME HubIInv
    PROVE  /\ \A u \in Users, t \in Topics, level \in Levels : ChangeAccess(u, t, level) => HubIInv'
           /\ \A r \in Replicas, u \in Users, t \in Topics : Revoke(r, u, t) => HubIInv'
           /\ \A e \in bus : RevokeArrives(e) => HubIInv'
<1> USE DEF HubIInv, connVars, roomVars, dataVars
<1>0. ASSUME NEW u \in Users, NEW t \in Topics, NEW level \in Levels, changes < MaxChanges,
             access' = [access EXCEPT ![u][t] = level], changes' = changes + 1, henv' = henv
      PROVE  AccessInv'
  BY <1>0, Bounds DEF AccessInv, MaxChanges
<1>1. ASSUME NEW u \in Users, NEW t \in Topics, NEW level \in Levels, ChangeAccess(u, t, level)
      PROVE  HubIInv'
  <2>1. /\ AccessInv'
        /\ UNCHANGED <<henv, phase, clients, down, member, joining, checking, bus, updates, due, seen, asks, asked>>
    BY <1>0, <1>1 DEF ChangeAccess
  <2>2. BusInv' /\ SeenInv' /\ AskedInv'
    BY <2>1, TrafficKept DEF OnlyRevocations
  <2>3. ConnInv'
    BY <2>1 DEF ConnInv
  <2>4. DueInv'
    BY <2>1 DEF DueInv, Faults
  <2> QED
    BY <2>1, <2>2, <2>3, <2>4
<1>2. ASSUME NEW r \in Replicas, NEW u \in Users, NEW t \in Topics, Revoke(r, u, t) PROVE HubIInv'
  <2> DEFINE S == ConnsOf(r, u) \cap Targets(r, t)
  <2>1. /\ Drop(S, t) /\ Publish("revoke", r, u, t, 0)
        /\ changes < MaxChanges /\ access' = [access EXCEPT ![u][t] = "none"] /\ changes' = changes + 1
        /\ UNCHANGED <<henv, phase, clients, down, joining, checking, updates, seen, asks, asked>>
    BY <1>2 DEF Revoke
  <2>2. S \in SUBSET Conns
    BY DEF ConnsOf, Targets, ConnInv
  <2>3. AccessInv'
    BY <1>0, <2>1 DEF Levels
  <2>4. OnlyRevocations /\ bus \subseteq bus'
    BY <2>1, Published DEF OnlyRevocations
  <2> HIDE DEF S
  <2> QED
    BY <2>1, <2>2, <2>3, <2>4, DropStep
<1>3. ASSUME NEW e \in bus, RevokeArrives(e) PROVE HubIInv'
  <2>1. /\ e.to \in Replicas /\ e.t \in Topics /\ e.kind = "revoke"
        /\ bus' = bus \ {e}
        /\ UNCHANGED <<henv, access, changes, phase, clients, down, joining, checking, updates, seen, asks, asked>>
    BY <1>3 DEF RevokeArrives, BusInv
  <2>2. /\ AccessInv' /\ OnlyRevocations
        /\ \A f \in bus : f \notin bus' => f.kind # "update"
    BY <2>1 DEF AccessInv, MaxChanges, OnlyRevocations
  <2>3. CASE UNCHANGED <<member, due>>
    <3>1. /\ checking' \subseteq [c : Conns, t : Topics, level : Levels]
          /\ \A k \in checking' : phase[k.c] = "serving"
          /\ member' \in [Conns -> [Topics -> Levels]]
          /\ due' \in [Conns -> SUBSET (Rooms \X (1..updates))]
      BY <2>1, <2>3 DEF ConnInv, DueInv
    <3> QED
      BY <2>1, <2>2, <2>3, <3>1, CutOff
  <2>4. CASE Drop(ConnsOf(e.to, e.user) \cap Targets(e.to, e.t), e.t)
    <3> DEFINE S == ConnsOf(e.to, e.user) \cap Targets(e.to, e.t)
    <3>1. S \in SUBSET Conns /\ Drop(S, e.t)
      BY <2>1, <2>4 DEF ConnsOf, Targets, ConnInv
    <3> HIDE DEF S
    <3> QED
      BY <2>1, <2>2, <3>1, DropStep
  <2> QED
    BY <1>3, <2>3, <2>4 DEF RevokeArrives
<1> QED
  BY <1>1, <1>2, <1>3

\* What a user who leaves the workspace loses on one replica.
LEMMA WorkspaceCutStep ==
    ASSUME HubIInv, NEW r \in Replicas, NEW u \in Users, WorkspaceCut(r, u), AccessInv', OnlyRevocations,
           \A e \in bus : e \notin bus' => e.kind # "update",
           UNCHANGED <<henv, phase, clients, down, joining, updates, seen, asks, asked>>
    PROVE  HubIInv'
<1> USE DEF HubIInv
<1> DEFINE S == ConnsOf(r, u)
           cut(c) == [t \in Topics |-> IF t \in Channels THEN "none" ELSE member[c][t]]
           more == {[c |-> x[1], t |-> x[2], level |-> access'[u][x[2]]] :
                      x \in {y \in S \X Rooms : member[y[1]][y[2]] # "none"}}
<1>1. /\ member' = [c \in Conns |-> IF c \in S THEN cut(c) ELSE member[c]]
      /\ checking' = checking \cup more /\ due' = due
  BY DEF WorkspaceCut
<1>2. S \subseteq Conns /\ \A c \in S : phase[c] = "serving"
  BY DEF ConnsOf, ConnInv
<1>3. /\ member \in [Conns -> [Topics -> Levels]] /\ "none" \in Levels /\ access' \in [Users -> [Topics -> Levels]]
      /\ due \in [Conns -> SUBSET (Rooms \X (1..updates))]
  BY DEF ConnInv, AccessInv, DueInv, Levels
<1> HIDE DEF S
<1>4. \A c \in Conns : cut(c) \in [Topics -> Levels]
  BY <1>3
<1>5. member' \in [Conns -> [Topics -> Levels]]
  <2> HIDE DEF cut
  <2> QED
    BY <1>1, <1>3, <1>4
<1>6. \A c \in Conns, t \in Rooms : member'[c][t] = member[c][t]
  <2>1. \A c \in Conns, t \in Rooms : cut(c)[t] = member[c][t]
    BY RoomHubAssumption DEF Topics
  <2> HIDE DEF cut
  <2> QED
    BY <1>1, <2>1
<1>7. ASSUME NEW k \in more PROVE k \in [c : Conns, t : Topics, level : Levels] /\ phase[k.c] = "serving"
  <2>1. PICK x \in S \X Rooms : k = [c |-> x[1], t |-> x[2], level |-> access'[u][x[2]]]
    OBVIOUS
  <2>2. x[1] \in S /\ x[2] \in Topics
    BY DEF Topics
  <2> QED
    BY <1>2, <1>3, <2>1, <2>2
<1> HIDE DEF more
<1>8. /\ checking' \subseteq [c : Conns, t : Topics, level : Levels]
      /\ \A k \in checking' : phase[k.c] = "serving"
  BY <1>1, <1>7 DEF ConnInv
<1>9. ASSUME NEW c \in Conns, NEW d \in due'[c]
      PROVE  d \in due[c] /\ (member[c][d[1]] # "none" => member'[c][d[1]] # "none")
  <2>1. d \in due[c]
    BY <1>1
  <2>2. d[1] \in Rooms
    BY <1>3, <2>1
  <2> QED
    BY <1>6, <2>1, <2>2
<1> QED
  BY <1>1, <1>3, <1>5, <1>8, <1>9, CutOff

\* A user leaves the workspace.
LEMMA WorkspaceStep ==
    ASSUME HubIInv
    PROVE  /\ \A r \in Replicas, u \in Users : RevokeWorkspace(r, u) => HubIInv'
           /\ \A e \in bus : WorkspaceArrives(e) => HubIInv'
<1> USE DEF HubIInv, connVars
<1>1. ASSUME NEW r \in Replicas, NEW u \in Users, RevokeWorkspace(r, u) PROVE HubIInv'
  <2>1. /\ WorkspaceCut(r, u) /\ Publish("workspace", r, u, "none", 0)
        /\ changes < MaxChanges /\ changes' = changes + 1
        /\ access' = [access EXCEPT ![u] = [t \in Topics |-> "none"]]
        /\ UNCHANGED <<henv, phase, clients, down, joining, updates, seen, asks, asked>>
    BY <1>1 DEF RevokeWorkspace
  <2>2. AccessInv'
    BY <2>1, Bounds DEF AccessInv, MaxChanges, Levels
  <2>3. OnlyRevocations /\ bus \subseteq bus'
    BY <2>1, Published DEF OnlyRevocations
  <2> QED
    BY <2>1, <2>2, <2>3, WorkspaceCutStep
<1>2. ASSUME NEW e \in bus, WorkspaceArrives(e) PROVE HubIInv'
  <2>1. /\ e.to \in Replicas /\ e.user \in Users /\ e.kind = "workspace"
        /\ bus' = bus \ {e}
        /\ UNCHANGED <<henv, access, changes, phase, clients, down, joining, updates, seen, asks, asked>>
    BY <1>2 DEF WorkspaceArrives, BusInv
  <2>2. /\ AccessInv' /\ OnlyRevocations
        /\ \A f \in bus : f \notin bus' => f.kind # "update"
    BY <2>1 DEF AccessInv, MaxChanges, OnlyRevocations
  <2>3. CASE UNCHANGED <<member, checking, due>>
    <3>1. /\ checking' \subseteq [c : Conns, t : Topics, level : Levels]
          /\ \A k \in checking' : phase[k.c] = "serving"
          /\ member' \in [Conns -> [Topics -> Levels]]
          /\ due' \in [Conns -> SUBSET (Rooms \X (1..updates))]
      BY <2>3 DEF ConnInv, DueInv
    <3> QED
      BY <2>1, <2>2, <2>3, <3>1, CutOff
  <2>4. CASE WorkspaceCut(e.to, e.user)
    BY <2>1, <2>2, <2>4, WorkspaceCutStep
  <2> QED
    BY <1>2, <2>3, <2>4 DEF WorkspaceArrives
<1> QED
  BY <1>1, <1>2

-----------------------------------------------------------------------------
(* Fan-out.                                                                *)

\* The connections an update reaches on a replica that has not had it.
LEMMA GotFacts ==
    ASSUME SeenInv, NEW S \in SUBSET Conns, NEW n \in 1..MaxUpdates, Got(S, n),
           \A c \in S : seen[c][n] = 0, henv' = henv
    PROVE  /\ seen' \in [Conns -> [1..MaxUpdates -> Nat]] /\ AtMostOnce'
           /\ \A c \in Conns, m \in 1..MaxUpdates :
                 seen'[c][m] = IF c \in S /\ m = n THEN 1 ELSE seen[c][m]
<1>1. seen \in [Conns -> [1..MaxUpdates -> Nat]]
  BY DEF SeenInv
<1>2. ASSUME NEW c \in Conns
      PROVE  /\ seen'[c] \in [1..MaxUpdates -> Nat]
             /\ \A m \in 1..MaxUpdates : seen'[c][m] = IF c \in S /\ m = n THEN 1 ELSE seen[c][m]
  <2>1. CASE c \in S
    <3>1. seen'[c] = [seen[c] EXCEPT ![n] = @ + 1] /\ seen[c][n] = 0
      BY <2>1 DEF Got
    <3>2. seen'[c] = [seen[c] EXCEPT ![n] = 1] /\ seen[c] \in [1..MaxUpdates -> Nat]
      BY <1>1, <3>1
    <3>3. ASSUME NEW f, NEW g \in [1..MaxUpdates -> Nat], f = [g EXCEPT ![n] = 1]
          PROVE  /\ f \in [1..MaxUpdates -> Nat]
                 /\ \A m \in 1..MaxUpdates : f[m] = IF m = n THEN 1 ELSE g[m]
      BY <3>3
    <3>4. /\ seen'[c] \in [1..MaxUpdates -> Nat]
          /\ \A m \in 1..MaxUpdates : seen'[c][m] = IF m = n THEN 1 ELSE seen[c][m]
      BY <3>2, <3>3
    <3> QED
      BY <2>1, <3>4
  <2>2. CASE c \notin S
    <3>1. seen'[c] = seen[c]
      BY <2>2 DEF Got
    <3> QED
      BY <1>1, <2>2, <3>1
  <2> QED
    BY <2>1, <2>2
<1>3. seen' = [c \in Conns |-> seen'[c]]
  BY DEF Got
<1>4. seen' \in [Conns -> [1..MaxUpdates -> Nat]]
  BY <1>2, <1>3
<1>5. MaxUpdates' = MaxUpdates
  BY DEF MaxUpdates
<1>6. AtMostOnce'
  BY <1>2, <1>5 DEF AtMostOnce, SeenInv
<1> QED
  BY <1>2, <1>4, <1>6

\* A writer's update: delivered here, published to the others.
LEMMA UpdateStep ==
    ASSUME HubIInv, NEW c \in Conns, NEW t \in Topics, Update(c, t)
    PROVE  HubIInv'
<1> USE DEF HubIInv, connVars, roomVars
<1> DEFINE n == updates + 1
           home == HomeOf[c]
           S == Targets(home, t)
<1>1. /\ t \in Rooms /\ updates < MaxUpdates /\ updates' = n /\ Got(S, n)
      /\ due' = [d \in Conns |-> IF \E r \in Replicas : d \in Targets(r, t)
                                 THEN due[d] \cup {<<t, n>>} ELSE due[d]]
      /\ Publish("update", home, UserOf[c], t, n)
      /\ UNCHANGED <<henv, access, changes, phase, clients, down, member, joining, checking, asks, asked>>
  BY DEF Update
<1>2. /\ MaxUpdates \in Nat /\ MaxAsks \in Nat /\ updates \in Nat /\ n \in 1..MaxUpdates /\ home \in Replicas
      /\ MaxUpdates' = MaxUpdates /\ MaxAsks' = MaxAsks /\ Faults' = Faults
      /\ 1..updates \subseteq 1..n /\ n \notin 1..updates
  BY <1>1, Bounds, RoomHubAssumption DEF BusInv, MaxUpdates, MaxAsks, Faults
<1>3. /\ bus \subseteq bus'
      /\ \A e \in bus' : e \notin bus =>
            e.kind = "update" /\ e.origin = home /\ e.to \in Replicas /\ e.t = t /\ e.n = n
      /\ \A e, f \in bus' : e \notin bus /\ f \notin bus /\ e.to = f.to => e = f
      /\ \A to \in Replicas : \E e \in bus' :
            e.kind = "update" /\ e.origin = home /\ e.to = to /\ e.n = n /\ e.t = t
  BY <1>1, Published
<1>4. \A r \in Replicas : \A d \in Targets(r, t) : d \in Conns /\ d \in clients[r] /\ HomeOf[d] = r /\ member[d][t] # "none"
  BY DEF Targets, ConnInv
<1>5. S \in SUBSET Conns /\ \A d \in S : HomeOf[d] = home
  BY <1>2, <1>4
<1>6. \A d \in Conns : seen[d][n] = 0
  BY <1>2 DEF SeenInv
<1> HIDE DEF n, home, S
<1>7. /\ seen' \in [Conns -> [1..MaxUpdates -> Nat]] /\ AtMostOnce'
      /\ \A d \in Conns, m \in 1..MaxUpdates : seen'[d][m] = IF d \in S /\ m = n THEN 1 ELSE seen[d][m]
  <2>1. SeenInv /\ (\A d \in S : seen[d][n] = 0) /\ henv' = henv
    BY <1>1, <1>5, <1>6
  <2> QED
    BY <1>1, <1>2, <1>5, <2>1, GotFacts, ZenonT(60)
<1>8. AccessInv' /\ ConnInv'
  BY <1>1 DEF AccessInv, ConnInv, MaxChanges
<1>9. BusInv'
  <2>1. updates' \in 0..MaxUpdates' /\ asks' \in 0..MaxAsks'
    BY <1>1, <1>2 DEF BusInv
  <2>2. ASSUME NEW e \in bus'
        PROVE  /\ e.to \in Replicas
               /\ e.kind = "workspace" => e.user \in Users
               /\ e.kind = "revoke" => e.user \in Users /\ e.t \in Topics
               /\ e.kind = "update" => e.t \in Rooms /\ e.n \in 1..n
               /\ e.kind = "leader" => e.t \in Rooms /\ e.n \in 1..asks
    <3>1. CASE e \in bus
      BY <1>2, <3>1 DEF BusInv
    <3>2. CASE e \notin bus
      <4>1. n \in 1..n
        BY <1>2
      <4> QED
        BY <1>1, <1>3, <3>2, <4>1
    <3> QED
      BY <3>1, <3>2
  <2>3. ASSUME NEW e \in bus', NEW f \in bus', e.kind = f.kind, e.kind \in {"update", "leader"},
               e.n = f.n, e.to = f.to
        PROVE  e = f
    <3>1. \A x \in bus : x.kind = "update" => x.n # n
      BY <1>2 DEF BusInv
    <3>2. CASE e \in bus /\ f \in bus
      BY <2>3, <3>2 DEF BusInv
    <3>3. CASE e \notin bus /\ f \notin bus
      BY <1>3, <2>3, <3>3
    <3>4. CASE e \in bus /\ f \notin bus
      BY <1>3, <2>3, <3>1, <3>4
    <3>5. CASE e \notin bus /\ f \in bus
      BY <1>3, <2>3, <3>1, <3>5
    <3> QED
      BY <3>2, <3>3, <3>4, <3>5
  <2> QED
    BY <1>1, <2>1, <2>2, <2>3 DEF BusInv
<1>10. SeenInv'
  <2>1. ASSUME NEW d \in Conns, NEW m \in 1..MaxUpdates, m > n PROVE seen'[d][m] = 0
    <3>1. m # n /\ m > updates
      BY <1>2, <2>1 DEF n
    <3> QED
      BY <1>7, <3>1 DEF SeenInv
  <2>2. ASSUME NEW e \in bus', NEW d \in Conns, e.kind = "update", e.origin # e.to, HomeOf[d] = e.to
        PROVE  seen'[d][e.n] = 0
    <3>1. CASE e \in bus
      <4>1. e.n \in 1..MaxUpdates /\ e.n # n /\ seen[d][e.n] = 0
        BY <1>2, <2>2, <3>1 DEF BusInv, SeenInv
      <4> QED
        BY <1>7, <4>1
    <3>2. CASE e \notin bus
      <4>1. e.n = n /\ e.to # home
        BY <1>3, <2>2, <3>2
      <4>2. d \notin S
        BY <1>5, <2>2, <4>1
      <4> QED
        BY <1>2, <1>6, <1>7, <4>1, <4>2
    <3> QED
      BY <3>1, <3>2
  <2> QED
    BY <1>1, <1>2, <1>7, <2>1, <2>2 DEF SeenInv
<1>11. AskedInv'
  <2>1. \A e \in bus' : e.kind = "leader" => e \in bus
    BY <1>3
  <2> QED
    BY <1>1, <1>2, <2>1 DEF AskedInv, OneLeaderPerReplica
<1>12. DueInv'
  <2>1. /\ due \in [Conns -> SUBSET (Rooms \X (1..updates))]
        /\ <<t, n>> \in Rooms \X (1..n)
    BY <1>1, <1>2 DEF DueInv
  <2>2. due' \in [Conns -> SUBSET (Rooms \X (1..n))]
    <3>1. \A d \in Conns : due[d] \subseteq Rooms \X (1..n)
      BY <1>2, <2>1
    <3>2. \A d \in Conns : due'[d] \subseteq Rooms \X (1..n)
      BY <1>1, <2>1, <3>1
    <3> QED
      BY <1>1, <3>2
  <2>3. ASSUME NEW d \in Conns, NEW x \in due'[d]
        PROVE  /\ d \in clients[HomeOf[d]] /\ member[d][x[1]] # "none"
               /\ \A e \in bus' : e.kind = "update" /\ e.n = x[2] => e.t = x[1]
               /\ "lose" \notin Faults =>
                     \/ seen'[d][x[2]] = 1
                     \/ \E e \in bus' : e.kind = "update" /\ e.n = x[2] /\ e.to = HomeOf[d] /\ e.origin # e.to
    <3>1. CASE x \in due[d]
      <4>1. x[2] \in 1..updates /\ x[2] # n /\ x[2] \in 1..MaxUpdates
        BY <1>2, <2>1, <3>1
      <4>2. \A e \in bus' : e.kind = "update" /\ e.n = x[2] => e \in bus
        BY <1>3, <4>1
      <4>3. seen'[d][x[2]] = seen[d][x[2]]
        BY <1>7, <4>1
      <4> QED
        BY <1>3, <3>1, <4>2, <4>3 DEF DueInv
    <3>2. CASE x \notin due[d]
      <4>1. x = <<t, n>> /\ \E r \in Replicas : d \in Targets(r, t)
        BY <1>1, <3>2
      <4>2. d \in Targets(HomeOf[d], t) /\ HomeOf[d] \in Replicas
        BY <1>4, <4>1
      <4>3. x[1] = t /\ x[2] = n
        BY <4>1
      <4>4. \A e \in bus' : e.kind = "update" /\ e.n = n => e.t = t
        <5>1. \A e \in bus : e.kind = "update" => e.n # n
          BY <1>2 DEF BusInv
        <5> QED
          BY <1>3, <5>1
      <4>5. CASE HomeOf[d] = home
        BY <1>2, <1>4, <1>7, <4>2, <4>3, <4>4, <4>5 DEF S
      <4>6. CASE HomeOf[d] # home
        BY <1>3, <1>4, <4>2, <4>3, <4>4, <4>6
      <4> QED
        BY <4>5, <4>6
    <3> QED
      BY <3>1, <3>2
  <2> QED
    BY <1>1, <1>2, <2>2, <2>3 DEF DueInv
<1> QED
  BY <1>8, <1>9, <1>10, <1>11, <1>12

\* An update reaches a replica, which skips its own.
LEMMA UpdateArrivesStep ==
    ASSUME HubIInv, NEW e \in bus, UpdateArrives(e)
    PROVE  HubIInv'
<1> USE DEF HubIInv, connVars, roomVars
<1> DEFINE n == e.n
           S == Targets(e.to, e.t)
<1>1. /\ e.kind = "update" /\ bus' = bus \ {e}
      /\ UNCHANGED <<henv, access, changes, phase, clients, down, member, joining, checking, updates, due, asks, asked>>
      /\ e.origin = e.to => seen' = seen
      /\ e.origin # e.to => Got(S, n)
  BY DEF UpdateArrives
<1>2. /\ MaxUpdates \in Nat /\ e.to \in Replicas /\ n \in 1..updates /\ n \in 1..MaxUpdates
      /\ MaxUpdates' = MaxUpdates /\ Faults' = Faults /\ updates \in Nat
  BY <1>1, Bounds DEF BusInv, MaxUpdates, Faults
<1>3. AccessInv' /\ ConnInv'
  BY <1>1 DEF AccessInv, ConnInv, MaxChanges
<1>4. BusInv'
  BY <1>1 DEF BusInv, MaxUpdates, MaxAsks
<1>5. AskedInv'
  BY <1>1 DEF AskedInv, OneLeaderPerReplica, MaxAsks
<1>6. \A c \in S : c \in Conns /\ c \in clients[e.to] /\ HomeOf[c] = e.to
  BY <1>2 DEF Targets, ConnInv
<1>7. CASE e.origin = e.to
  <2>1. SeenInv'
    BY <1>1, <1>2, <1>7 DEF SeenInv, AtMostOnce
  <2>2. ASSUME NEW c \in Conns, NEW d \in due[c], "lose" \notin Faults
        PROVE  \/ seen'[c][d[2]] = 1
               \/ \E f \in bus' : f.kind = "update" /\ f.n = d[2] /\ f.to = HomeOf[c] /\ f.origin # f.to
    <3>1. \/ seen[c][d[2]] = 1
          \/ \E f \in bus : f.kind = "update" /\ f.n = d[2] /\ f.to = HomeOf[c] /\ f.origin # f.to
      BY <2>2 DEF DueInv
    <3> QED
      BY <1>1, <1>7, <3>1
  <2>3. DueInv'
    BY <1>1, <1>2, <2>2 DEF DueInv
  <2> QED
    BY <1>3, <1>4, <1>5, <2>1, <2>3
<1>8. CASE e.origin # e.to
  <2>1. /\ S \in SUBSET Conns /\ Got(S, n)
        /\ \A c \in S : seen[c][n] = 0
    BY <1>1, <1>6, <1>8 DEF SeenInv
  <2> HIDE DEF n, S
  <2>2. /\ seen' \in [Conns -> [1..MaxUpdates -> Nat]] /\ AtMostOnce'
        /\ \A c \in Conns, m \in 1..MaxUpdates : seen'[c][m] = IF c \in S /\ m = n THEN 1 ELSE seen[c][m]
    BY <1>1, <1>2, <2>1, GotFacts
  <2>3. SeenInv'
    <3>1. ASSUME NEW c \in Conns, NEW m \in 1..MaxUpdates, m > updates PROVE seen'[c][m] = 0
      <4>1. m # n
        BY <1>2, <3>1
      <4> QED
        BY <2>2, <3>1, <4>1 DEF SeenInv
    <3>2. ASSUME NEW f \in bus', NEW c \in Conns, f.kind = "update", f.origin # f.to, HomeOf[c] = f.to
          PROVE  seen'[c][f.n] = 0
      <4>1. f \in bus /\ f # e /\ f.n \in 1..MaxUpdates /\ seen[c][f.n] = 0
        BY <1>1, <1>2, <3>2 DEF BusInv, SeenInv
      <4>2. ~(f.n = n /\ c \in S)
        BY <1>1, <1>6, <3>2, <4>1 DEF BusInv, n, S
      <4> QED
        BY <2>2, <4>1, <4>2
    <3> QED
      BY <1>1, <1>2, <2>2, <3>1, <3>2 DEF SeenInv
  <2>4. ASSUME NEW c \in Conns, NEW d \in due[c], "lose" \notin Faults
        PROVE  \/ seen'[c][d[2]] = 1
               \/ \E f \in bus' : f.kind = "update" /\ f.n = d[2] /\ f.to = HomeOf[c] /\ f.origin # f.to
    <3>1. d[2] \in 1..updates /\ d[2] \in 1..MaxUpdates /\ c \in clients[HomeOf[c]] /\ member[c][d[1]] # "none"
      BY <1>2, <2>4 DEF DueInv, BusInv
    <3>2. CASE seen[c][d[2]] = 1
      BY <2>2, <3>1, <3>2
    <3>3. CASE \E f \in bus : f.kind = "update" /\ f.n = d[2] /\ f.to = HomeOf[c] /\ f.origin # f.to
      <4>1. PICK f \in bus : f.kind = "update" /\ f.n = d[2] /\ f.to = HomeOf[c] /\ f.origin # f.to
        BY <3>3
      <4>2. CASE f = e
        <5>1. e.t = d[1] /\ n = d[2] /\ HomeOf[c] = e.to
          BY <1>1, <4>1, <4>2 DEF DueInv, n
        <5>2. c \in S
          BY <3>1, <5>1 DEF S, Targets
        <5> QED
          BY <2>2, <3>1, <5>1, <5>2
      <4>3. CASE f # e
        BY <1>1, <4>1, <4>3
      <4> QED
        BY <4>2, <4>3
    <3> QED
      BY <2>4, <3>2, <3>3 DEF DueInv
  <2>5. DueInv'
    BY <1>1, <1>2, <2>4 DEF DueInv
  <2> QED
    BY <1>3, <1>4, <1>5, <2>3, <2>5
<1> QED
  BY <1>7, <1>8

\* The leader of a replica is asked a question nobody there was asked.
LEMMA AskLeaderFacts ==
    ASSUME AskedInv, ConnInv, NEW r \in Replicas, NEW t \in Topics, NEW n \in 1..MaxAsks,
           AskLeader(r, t, n), \A c \in Conns : HomeOf[c] = r => asked[c][n] = 0, henv' = henv
    PROVE  /\ asked' \in [Conns -> [1..MaxAsks -> Nat]] /\ OneLeaderPerReplica'
           /\ \A c \in Conns, m \in 1..MaxAsks : m # n \/ HomeOf[c] # r => asked'[c][m] = asked[c][m]
<1>0. MaxAsks' = MaxAsks /\ asked \in [Conns -> [1..MaxAsks -> Nat]]
  BY DEF MaxAsks, AskedInv
<1>1. CASE Targets(r, t) = {}
  <2>1. asked' = asked
    BY <1>1 DEF AskLeader
  <2> QED
    BY <1>0, <2>1 DEF AskedInv, OneLeaderPerReplica
<1>2. CASE Targets(r, t) # {}
  <2> DEFINE c == Min(Targets(r, t))
  <2>1. \A d \in Targets(r, t) : d \in Conns /\ HomeOf[d] = r
    BY DEF Targets, ConnInv
  <2>2. c \in Conns /\ HomeOf[c] = r
    BY <1>2, <2>1, LeastConn
  <2>3. asked' = [asked EXCEPT ![c][n] = @ + 1]
    BY <1>2 DEF AskLeader
  <2> HIDE DEF c
  <2>4. asked[c] \in [1..MaxAsks -> Nat] /\ asked[c][n] = 0
    BY <1>0, <2>2
  <2>5. asked' = [asked EXCEPT ![c] = [asked[c] EXCEPT ![n] = 1]]
    BY <1>0, <2>2, <2>3, <2>4
  <2>6. ASSUME NEW f \in [1..MaxAsks -> Nat]
        PROVE  /\ [f EXCEPT ![n] = 1] \in [1..MaxAsks -> Nat]
               /\ \A m \in 1..MaxAsks : [f EXCEPT ![n] = 1][m] = IF m = n THEN 1 ELSE f[m]
    OBVIOUS
  <2> DEFINE row == [asked[c] EXCEPT ![n] = 1]
  <2>7. row \in [1..MaxAsks -> Nat] /\ \A m \in 1..MaxAsks : row[m] = IF m = n THEN 1 ELSE asked[c][m]
    BY <2>4, <2>6
  <2> HIDE DEF row
  <2>8. asked' = [asked EXCEPT ![c] = row]
    BY <2>5 DEF row
  <2>9. /\ asked' \in [Conns -> [1..MaxAsks -> Nat]]
        /\ \A d \in Conns, m \in 1..MaxAsks :
              asked'[d][m] = IF d = c /\ m = n THEN 1 ELSE asked[d][m]
    BY <1>0, <2>2, <2>7, <2>8
  <2>10. ASSUME NEW m \in 1..MaxAsks, NEW d \in Conns, NEW x \in Conns
         PROVE  /\ asked'[d][m] <= 1
                /\ asked'[d][m] = 1 /\ asked'[x][m] = 1 /\ HomeOf[d] = HomeOf[x] => d = x
    <3>1. /\ asked[d][m] <= 1 /\ asked[x][m] <= 1
          /\ asked[d][m] = 1 /\ asked[x][m] = 1 /\ HomeOf[d] = HomeOf[x] => d = x
      BY DEF AskedInv, OneLeaderPerReplica
    <3>2. CASE m # n
      BY <2>9, <3>1, <3>2
    <3>3. CASE m = n
      <4>1. HomeOf[d] = r => asked[d][m] = 0
        BY <3>3
      <4>2. HomeOf[x] = r => asked[x][m] = 0
        BY <3>3
      <4> QED
        BY <2>2, <2>9, <3>1, <3>3, <4>1, <4>2
    <3> QED
      BY <3>2, <3>3
  <2>11. OneLeaderPerReplica'
    BY <1>0, <2>10 DEF OneLeaderPerReplica
  <2> QED
    BY <2>2, <2>9, <2>11
<1> QED
  BY <1>1, <1>2

\* A question is published, by a hub that has asked its own leader or by the worker.
LEMMA AskStep ==
    ASSUME HubIInv, NEW t \in Topics
    PROVE  /\ \A r \in Replicas : Ask(r, t) => HubIInv'
           /\ AskFromWorker(t) => HubIInv'
<1> USE DEF HubIInv, connVars, roomVars
<1> DEFINE n == asks + 1
<1>1. ASSUME NEW r, t \in Rooms, asks < MaxAsks, asks' = n, Publish("leader", r, "none", t, n),
             UNCHANGED <<henv, access, changes, phase, clients, down, member, joining, checking, updates, due, seen>>,
             \/ asked' = asked
             \/ r \in Replicas /\ AskLeader(r, t, n)
      PROVE  HubIInv'
  <2>1. /\ MaxAsks \in Nat /\ asks \in Nat /\ n \in 1..MaxAsks /\ MaxAsks' = MaxAsks /\ MaxUpdates' = MaxUpdates
        /\ 1..asks \subseteq 1..n /\ n \notin 1..asks /\ n \in 1..n
    BY <1>1, Bounds DEF BusInv, MaxAsks, MaxUpdates
  <2>2. /\ bus \subseteq bus'
        /\ \A e \in bus' : e \notin bus =>
              e.kind = "leader" /\ e.origin = r /\ e.to \in Replicas /\ e.t = t /\ e.n = n
        /\ \A e, f \in bus' : e \notin bus /\ f \notin bus /\ e.to = f.to => e = f
    BY <1>1, Published
  <2>3. \A c \in Conns : asked[c][n] = 0
    BY <2>1 DEF AskedInv
  <2>4. /\ asked' \in [Conns -> [1..MaxAsks -> Nat]] /\ OneLeaderPerReplica'
        /\ \A c \in Conns, m \in 1..MaxAsks :
              m # n \/ HomeOf[c] # r \/ asked' = asked => asked'[c][m] = asked[c][m]
    <3>1. CASE asked' = asked
      BY <1>1, <2>1, <3>1 DEF AskedInv, OneLeaderPerReplica
    <3>2. CASE r \in Replicas /\ AskLeader(r, t, n)
      <4> HIDE DEF n
      <4>1. /\ AskedInv /\ ConnInv /\ henv' = henv
            /\ \A c \in Conns : HomeOf[c] = r => asked[c][n] = 0
        BY <1>1, <2>3
      <4>2. /\ asked' \in [Conns -> [1..MaxAsks -> Nat]] /\ OneLeaderPerReplica'
            /\ \A c \in Conns, m \in 1..MaxAsks : m # n \/ HomeOf[c] # r => asked'[c][m] = asked[c][m]
        BY <2>1, <3>2, <4>1, AskLeaderFacts
      <4> QED
        BY <4>2
    <3> QED
      BY <1>1, <3>1, <3>2
  <2> HIDE DEF n
  <2>5. AccessInv' /\ ConnInv'
    BY <1>1 DEF AccessInv, ConnInv, MaxChanges
  <2>6. BusInv'
    <3>1. updates' \in 0..MaxUpdates' /\ asks' \in 0..MaxAsks'
      BY <1>1, <2>1 DEF BusInv
    <3>2. ASSUME NEW e \in bus'
          PROVE  /\ e.to \in Replicas
                 /\ e.kind = "workspace" => e.user \in Users
                 /\ e.kind = "revoke" => e.user \in Users /\ e.t \in Topics
                 /\ e.kind = "update" => e.t \in Rooms /\ e.n \in 1..updates
                 /\ e.kind = "leader" => e.t \in Rooms /\ e.n \in 1..n
      <4>1. CASE e \in bus
        BY <2>1, <4>1 DEF BusInv
      <4>2. CASE e \notin bus
        BY <1>1, <2>1, <2>2, <4>2
      <4> QED
        BY <4>1, <4>2
    <3>3. ASSUME NEW e \in bus', NEW f \in bus', e.kind = f.kind, e.kind \in {"update", "leader"},
                 e.n = f.n, e.to = f.to
          PROVE  e = f
      <4>1. \A x \in bus : x.kind = "leader" => x.n # n
        BY <2>1 DEF BusInv
      <4>2. CASE e \in bus /\ f \in bus
        BY <3>3, <4>2 DEF BusInv
      <4>3. CASE e \notin bus /\ f \notin bus
        BY <2>2, <3>3, <4>3
      <4>4. CASE e \in bus /\ f \notin bus
        BY <2>2, <3>3, <4>1, <4>4
      <4>5. CASE e \notin bus /\ f \in bus
        BY <2>2, <3>3, <4>1, <4>5
      <4> QED
        BY <4>2, <4>3, <4>4, <4>5
    <3> QED
      BY <1>1, <3>1, <3>2, <3>3 DEF BusInv
  <2>7. \A e \in bus' : e.kind = "update" => e \in bus
    BY <2>2
  <2>8. SeenInv'
    BY <1>1, <2>1, <2>7 DEF SeenInv, AtMostOnce
  <2>9. AskedInv'
    <3>1. ASSUME NEW c \in Conns, NEW m \in 1..MaxAsks, m > n PROVE asked'[c][m] = 0
      <4>1. m # n /\ m > asks
        BY <2>1, <3>1 DEF n
      <4> QED
        BY <2>4, <4>1 DEF AskedInv
    <3>2. ASSUME NEW e \in bus', NEW c \in Conns, e.kind = "leader", e.origin # e.to, HomeOf[c] = e.to
          PROVE  asked'[c][e.n] = 0
      <4>1. CASE e \in bus
        <5>1. e.n \in 1..MaxAsks /\ e.n # n /\ asked[c][e.n] = 0
          BY <2>1, <3>2, <4>1 DEF BusInv, AskedInv
        <5> QED
          BY <2>4, <5>1
      <4>2. CASE e \notin bus
        <5>1. e.n = n /\ e.to # r
          BY <2>2, <3>2, <4>2
        <5> QED
          BY <2>1, <2>3, <2>4, <3>2, <5>1
      <4> QED
        BY <4>1, <4>2
    <3> QED
      BY <1>1, <2>1, <2>4, <3>1, <3>2 DEF AskedInv
  <2>10. DueInv'
    <3>1. Faults' = Faults
      BY <1>1 DEF Faults
    <3>2. ASSUME NEW c \in Conns, NEW d \in due[c]
          PROVE  /\ \A e \in bus' : e.kind = "update" /\ e.n = d[2] => e.t = d[1]
                 /\ "lose" \notin Faults =>
                       \/ seen[c][d[2]] = 1
                       \/ \E e \in bus' : e.kind = "update" /\ e.n = d[2] /\ e.to = HomeOf[c] /\ e.origin # e.to
      BY <2>2, <2>7 DEF DueInv
    <3> QED
      BY <1>1, <3>1, <3>2 DEF DueInv
  <2> QED
    BY <2>5, <2>6, <2>8, <2>9, <2>10
<1>2. ASSUME NEW r \in Replicas, Ask(r, t) PROVE HubIInv'
  BY <1>1, <1>2 DEF Ask
<1>3. CASE AskFromWorker(t)
  BY <1>1, <1>3 DEF AskFromWorker
<1> QED
  BY <1>2, <1>3

\* A question reaches a replica, or NATS loses something.
LEMMA AskArrivesStep ==
    ASSUME HubIInv, NEW e \in bus
    PROVE  AskArrives(e) \/ Lose(e) => HubIInv'
<1> USE DEF HubIInv, connVars, roomVars, dataVars
<1>1. ASSUME bus' = bus \ {e}, e.kind # "update" \/ "lose" \in Faults,
             UNCHANGED <<henv, access, changes, phase, clients, down, member, joining, checking, updates, due, seen, asks>>
      PROVE  AccessInv' /\ ConnInv' /\ BusInv' /\ SeenInv' /\ DueInv'
  <2>1. AccessInv' /\ ConnInv'
    BY <1>1 DEF AccessInv, ConnInv, MaxChanges
  <2>2. BusInv'
    BY <1>1 DEF BusInv, MaxUpdates, MaxAsks
  <2>3. SeenInv'
    BY <1>1 DEF SeenInv, AtMostOnce, MaxUpdates
  <2>4. DueInv'
    <3>1. /\ OnlyRevocations /\ \A f \in bus : f \notin bus' => f.kind # "update" \/ "lose" \in Faults
      BY <1>1 DEF OnlyRevocations
    <3>2. due' \in [Conns -> SUBSET (Rooms \X (1..updates))]
      BY <1>1 DEF DueInv
    <3>3. ASSUME NEW c \in Conns, NEW d \in due'[c]
          PROVE  d \in due[c] /\ c \in clients'[HomeOf[c]] /\ member'[c][d[1]] # "none"
      BY <1>1 DEF DueInv
    <3> QED
      BY <1>1, <3>1, <3>2, <3>3, DueKept
  <2> QED
    BY <2>1, <2>2, <2>3, <2>4
<1>2. CASE Lose(e)
  <2>1. /\ "lose" \in Faults /\ bus' = bus \ {e} /\ asked' = asked
        /\ UNCHANGED <<henv, access, changes, phase, clients, down, member, joining, checking, updates, due, seen, asks>>
    BY <1>2 DEF Lose
  <2>2. AskedInv'
    BY <2>1 DEF AskedInv, OneLeaderPerReplica, MaxAsks
  <2> QED
    BY <1>1, <2>1, <2>2
<1>3. CASE AskArrives(e)
  <2>1. /\ e.kind = "leader" /\ bus' = bus \ {e}
        /\ UNCHANGED <<henv, access, changes, phase, clients, down, member, joining, checking, updates, due, seen, asks>>
        /\ e.origin = e.to => asked' = asked
        /\ e.origin # e.to => AskLeader(e.to, e.t, e.n)
    BY <1>3 DEF AskArrives
  <2>2. /\ MaxAsks \in Nat /\ e.to \in Replicas /\ e.t \in Topics /\ e.n \in 1..asks /\ e.n \in 1..MaxAsks
        /\ MaxAsks' = MaxAsks /\ asks \in Nat
    BY <2>1, Bounds DEF BusInv, MaxAsks, Topics
  <2>3. CASE e.origin = e.to
    <3>1. AskedInv'
      BY <2>1, <2>2, <2>3 DEF AskedInv, OneLeaderPerReplica
    <3> QED
      BY <1>1, <2>1, <3>1
  <2>4. CASE e.origin # e.to
    <3>1. /\ AskedInv /\ ConnInv /\ henv' = henv /\ AskLeader(e.to, e.t, e.n)
          /\ \A c \in Conns : HomeOf[c] = e.to => asked[c][e.n] = 0
      BY <2>1, <2>4 DEF AskedInv
    <3>2. /\ asked' \in [Conns -> [1..MaxAsks -> Nat]] /\ OneLeaderPerReplica'
          /\ \A c \in Conns, m \in 1..MaxAsks : m # e.n \/ HomeOf[c] # e.to => asked'[c][m] = asked[c][m]
      BY <2>2, <3>1, AskLeaderFacts
    <3>3. ASSUME NEW c \in Conns, NEW m \in 1..MaxAsks, m > asks PROVE asked'[c][m] = 0
      <4>1. m # e.n
        BY <2>2, <3>3
      <4> QED
        BY <3>2, <3>3, <4>1 DEF AskedInv
    <3>4. ASSUME NEW f \in bus', NEW c \in Conns, f.kind = "leader", f.origin # f.to, HomeOf[c] = f.to
          PROVE  asked'[c][f.n] = 0
      <4>1. f \in bus /\ f # e /\ f.n \in 1..MaxAsks /\ asked[c][f.n] = 0
        BY <2>1, <2>2, <3>4 DEF BusInv, AskedInv
      <4>2. f.n # e.n \/ HomeOf[c] # e.to
        BY <2>1, <3>4, <4>1 DEF BusInv
      <4> QED
        BY <3>2, <4>1, <4>2
    <3>5. AskedInv'
      BY <2>1, <2>2, <3>2, <3>3, <3>4 DEF AskedInv
    <3> QED
      BY <1>1, <2>1, <3>5
  <2> QED
    BY <2>3, <2>4
<1> QED
  BY <1>2, <1>3

-----------------------------------------------------------------------------
(* The theorems.                                                           *)

LEMMA HubInitInv == HubInit => HubIInv
<1> SUFFICES ASSUME HubInit PROVE HubIInv
  OBVIOUS
<1> USE DEF HubInit
<1>1. AccessInv
  <2>1. MaxChanges \in Nat
    BY RoomHubAssumption DEF MaxChanges
  <2> QED
    BY <2>1 DEF AccessInv, Levels
<1>2. MaxUpdates \in Nat /\ MaxAsks \in Nat
  BY <1>1, Bounds
<1>3. ConnInv
  <2>1. NoJoin \in [t : Topics \cup {"none"}, level : Levels]
    BY DEF NoJoin, Levels
  <2> HIDE DEF NoJoin
  <2>2. /\ phase \in [Conns -> Phases] /\ down \subseteq Replicas /\ clients \in [Replicas -> SUBSET Conns]
        /\ \A r \in Replicas : clients[r] = {}
    BY DEF Phases
  <2>3. member \in [Conns -> [Topics -> Levels]]
    BY DEF Levels
  <2>4. joining \in [Conns -> [t : Topics \cup {"none"}, level : Levels]] /\ \A c \in Conns : joining[c] = NoJoin
    BY <2>1
  <2> QED
    BY <2>2, <2>3, <2>4 DEF ConnInv
<1>4. BusInv
  BY <1>2 DEF BusInv
<1>5. SeenInv
  BY <1>2 DEF SeenInv, AtMostOnce
<1>6. AskedInv
  BY <1>2 DEF AskedInv, OneLeaderPerReplica
<1>7. DueInv
  BY DEF DueInv
<1> QED
  BY <1>1, <1>3, <1>4, <1>5, <1>6, <1>7 DEF HubIInv

LEMMA HubInvImplies == HubIInv => HubDelivers
<1> SUFFICES ASSUME HubIInv PROVE HubDelivers
  OBVIOUS
<1> USE DEF HubIInv
<1>1. HubTypeOK
  <2>1. access \in [Users -> [Topics -> Levels]] /\ changes \in 0..MaxChanges
    BY DEF AccessInv
  <2>2. /\ phase \in [Conns -> {"new", "offered", "received", "serving", "closed"}] /\ down \subseteq Replicas
        /\ \A r \in Replicas : clients[r] \subseteq {c \in Conns : Serving(c) /\ HomeOf[c] = r}
        /\ member \in [Conns -> [Topics -> Levels]]
    BY DEF ConnInv, Phases, Serving
  <2>3. ASSUME NEW c \in Conns, joining[c] # NoJoin PROVE Serving(c) /\ joining[c].t \in Topics
    BY <2>3 DEF ConnInv, Serving
  <2>4. ASSUME NEW k \in checking PROVE Serving(k.c) /\ k.t \in Topics /\ k.level \in Levels
    BY DEF ConnInv, Serving
  <2>5. /\ due \in [Conns -> SUBSET (Rooms \X (1..updates))]
        /\ seen \in [Conns -> [1..MaxUpdates -> Nat]] /\ asked \in [Conns -> [1..MaxAsks -> Nat]]
    BY DEF DueInv, SeenInv, AskedInv
  <2> QED
    BY <2>1, <2>2, <2>3, <2>4, <2>5, Zenon DEF HubTypeOK
<1>2. AtMostOnce /\ OneLeaderPerReplica
  BY DEF SeenInv, AskedInv
<1>3. MembersMissNothing
  BY DEF DueInv, MembersMissNothing
<1> QED
  BY <1>1, <1>2, <1>3 DEF HubDelivers

LEMMA HubInductive == HubIInv /\ [HubNext]_hubvars => HubIInv'
<1> SUFFICES ASSUME HubIInv, [HubNext]_hubvars PROVE HubIInv'
  OBVIOUS
<1>1. CASE UNCHANGED hubvars
  <2>1. UNCHANGED <<henv, access, changes, phase, clients, down, member, joining, checking, bus, updates,
                    due, seen, asks, asked>>
    BY <1>1 DEF hubvars
  <2>2. ConnInv'
    BY <2>1 DEF HubIInv, ConnInv
  <2> QED
    BY <2>1, <2>2, ConnMoves
<1>2. CASE HubNext
  <2>1. ASSUME NEW c \in Conns,
               \/ Connect(c) \/ Receive(c) \/ TurnAway(c) \/ Register(c) \/ Disconnect(c) \/ Record(c)
        PROVE  HubIInv'
    BY <2>1, ComeStep, GoneStep, JoinStep
  <2>2. ASSUME NEW c \in Conns, NEW t \in Topics,
               Authorize(c, t) \/ Leave(c, t) \/ RecheckRead(c, t) \/ Update(c, t)
        PROVE  HubIInv'
    BY <2>2, JoinStep, LeaveStep, UpdateStep
  <2>3. ASSUME NEW e \in bus,
               \/ RevokeArrives(e) \/ WorkspaceArrives(e) \/ UpdateArrives(e)
               \/ AskArrives(e) \/ Lose(e)
        PROVE  HubIInv'
    BY <2>3, RevokeStep, WorkspaceStep, UpdateArrivesStep, AskArrivesStep
  <2>4. ASSUME NEW r \in Replicas, Shutdown(r) PROVE HubIInv'
    BY <2>4, GoneStep
  <2>5. ASSUME NEW k \in checking, RecheckApply(k) PROVE HubIInv'
    BY <2>5, LeaveStep
  <2>6. ASSUME NEW u \in Users, NEW t \in Topics, NEW level \in Levels, ChangeAccess(u, t, level) PROVE HubIInv'
    BY <2>6, RevokeStep
  <2>7. ASSUME NEW r \in Replicas, NEW u \in Users, RevokeWorkspace(r, u) PROVE HubIInv'
    BY <2>7, WorkspaceStep
  <2>8. ASSUME NEW r \in Replicas, NEW u \in Users, NEW t \in Topics, Revoke(r, u, t) PROVE HubIInv'
    BY <2>8, RevokeStep
  <2>9. ASSUME NEW t \in Topics, AskFromWorker(t) \/ \E r \in Replicas : Ask(r, t) PROVE HubIInv'
    BY <2>9, AskStep
  <2> QED
    BY <1>2, <2>1, <2>2, <2>3, <2>4, <2>5, <2>6, <2>7, <2>8, <2>9 DEF HubNext
<1> QED
  BY <1>1, <1>2

\* An update reaches every member once, on every replica, and a question for a leader
\* one connection of each replica: BroadcastToRoom, the bridge with its origin guard
\* and SendToRoomLeader, under any order of NATS, joins, revocations and shutdowns.
THEOREM HubAlwaysDelivers == HubSpec => []HubDelivers
<1>1. HubIInv => HubDelivers
  BY HubInvImplies
<1> QED
  BY <1>1, HubInitInv, HubInductive, PTL DEF HubSpec

\* Who may begin a membership: only Record, with the join that the client asked for.
LEMMA OnlyRecordBegins ==
    ASSUME HubIInv, HubNext, NEW c \in Conns, NEW t \in Topics,
           member[c][t] = "none", member'[c][t] # "none"
    PROVE  joining[c].t = t /\ joining'[c] = NoJoin
<1> USE DEF connVars, roomVars, dataVars
<1>0. member \in [Conns -> [Topics -> Levels]] /\ joining \in [Conns -> [t : Topics \cup {"none"}, level : Levels]]
  BY DEF HubIInv, ConnInv
<1>1. member' # member
  OBVIOUS
<1>2. ASSUME NEW S, NEW s, Drop(S, s) PROVE FALSE
  <2>1. member'[c] = member[c] \/ member'[c] = [member[c] EXCEPT ![s] = "none"]
    BY <1>2 DEF Drop
  <2> QED
    BY <1>0, <2>1
<1>3. ASSUME NEW r, NEW u, WorkspaceCut(r, u) PROVE FALSE
  <2>1. \/ member'[c] = member[c]
        \/ member'[c] = [s \in Topics |-> IF s \in Channels THEN "none" ELSE member[c][s]]
    BY <1>3 DEF WorkspaceCut
  <2> QED
    BY <1>0, <2>1
<1>4. ASSUME NEW d \in Conns, Record(d) PROVE joining[c].t = t /\ joining'[c] = NoJoin
  <2>1. member' = [member EXCEPT ![d][joining[d].t] = joining[d].level]
        /\ joining' = [joining EXCEPT ![d] = NoJoin]
    BY <1>4 DEF Record
  <2>2. d = c /\ joining[d].t = t
    BY <1>0, <2>1
  <2> HIDE DEF NoJoin
  <2> QED
    BY <1>0, <2>1, <2>2
<1>5. ASSUME NEW k \in checking, RecheckApply(k) PROVE FALSE
  <2>1. ~Drop({k.c}, k.t)
    BY <1>2
  <2>2. member[k.c][k.t] # "none" /\ member' = [member EXCEPT ![k.c][k.t] = k.level]
    BY <1>1, <1>5, <2>1 DEF RecheckApply
  <2> QED
    BY <1>0, <2>2
<1>6. ASSUME NEW d \in Conns, NEW s \in Topics, Leave(d, s) PROVE FALSE
  BY <1>2, <1>6 DEF Leave
<1>7. ASSUME NEW r \in Replicas, NEW u \in Users, NEW s \in Topics, Revoke(r, u, s) PROVE FALSE
  BY <1>2, <1>7 DEF Revoke
<1>8. ASSUME NEW r \in Replicas, NEW u \in Users, RevokeWorkspace(r, u) PROVE FALSE
  BY <1>3, <1>8 DEF RevokeWorkspace
<1>9. ASSUME NEW e \in bus, RevokeArrives(e) PROVE FALSE
  BY <1>1, <1>2, <1>9 DEF RevokeArrives
<1>10. ASSUME NEW e \in bus, WorkspaceArrives(e) PROVE FALSE
  BY <1>1, <1>3, <1>10 DEF WorkspaceArrives
<1>11. ASSUME \/ \E d \in Conns : \/ Connect(d) \/ Receive(d) \/ TurnAway(d) \/ Register(d) \/ Disconnect(d)
              \/ \E d \in Conns, s \in Topics : Authorize(d, s) \/ RecheckRead(d, s) \/ Update(d, s)
              \/ \E r \in Replicas : Shutdown(r)
              \/ \E u \in Users, s \in Topics, level \in Levels : ChangeAccess(u, s, level)
              \/ \E r \in Replicas, s \in Topics : Ask(r, s)
              \/ \E s \in Topics : AskFromWorker(s)
              \/ \E e \in bus : UpdateArrives(e) \/ AskArrives(e) \/ Lose(e)
       PROVE  member' = member
  BY <1>11 DEF Connect, Receive, TurnAway, Register, Disconnect, Authorize, RecheckRead, Update, Shutdown,
     ChangeAccess, Ask, AskFromWorker, UpdateArrives, AskArrives, Lose
<1> QED
  BY <1>1, <1>4, <1>5, <1>6, <1>7, <1>8, <1>9, <1>10, <1>11 DEF HubNext

\* A membership begins only with a join the client asked for: setRoomWrite refreshes
\* what is there and never re-creates what has ended meanwhile.
THEOREM EndedStaysEnded == HubSpec => NoResurrection
<1>1. HubIInv /\ [HubNext]_hubvars =>
        [\A c \in Conns, t \in Topics :
            member[c][t] = "none" /\ member'[c][t] # "none" =>
                joining[c].t = t /\ joining'[c] = NoJoin]_hubvars
  BY OnlyRecordBegins
<1> QED
  BY <1>1, HubInitInv, HubInductive, PTL DEF HubSpec, NoResurrection

(***************************************************************************)
(* The send buffer of a client.                                            *)
(***************************************************************************)


\* The numbers that are through sendFrame: all of them, but for the one whose
\* sender is between taking it and handing it over.
Busy == \E g \in Senders : held[g] # 0
Through == IF Busy THEN seq - 1 ELSE seq

(* The inductive invariant, in parts.                                      *)

ClientTypeOK ==
    /\ seq \in Nat /\ held \in [Senders -> Nat] /\ send \in Seq(Nat)
    /\ drops \in Nat /\ closing \in BOOLEAN /\ lastSeq \in Nat
    /\ dropped \subseteq 1..Through /\ lastSeq \in 0..Through

\* sendMu: one sender at a time is between its number and the channel, and that
\* number is the last one given.
SendMuInv ==
    /\ \A g, h \in Senders : held[g] # 0 /\ held[h] # 0 => g = h
    /\ \A g \in Senders : held[g] # 0 => held[g] = seq

\* The channel holds, in order, frames that are later than what the app saw and
\* were not dropped.
BufferInv ==
    /\ Len(send) <= SendBuffer
    /\ \A i \in 1..Len(send) :
          /\ send[i] \in 1..Through /\ send[i] > lastSeq /\ send[i] \notin dropped
          /\ \A j \in 1..Len(send) : i < j => send[i] < send[j]

\* Every number handed over was dropped, is in the channel or is behind what the
\* app saw; the first frame of a connection always finds room.
FateInv ==
    /\ \A n \in 1..Through :
          n \in dropped \/ n <= lastSeq \/ \E i \in 1..Len(send) : send[i] = n
    /\ lastSeq \notin dropped
    /\ lastSeq = 0 /\ Through > 0 => Len(send) > 0 /\ send[1] = 1

\* drops is the length of the run of dropped numbers that ends at the last one
\* handed over.
RunInv ==
    /\ drops <= Through
    /\ Through - drops \notin dropped
    /\ drops >= MaxDrops => closing

\* A refetch began after the last one that got its answers, and no later than now.
FetchInv ==
    /\ inFlight \in BOOLEAN /\ cooling \in BOOLEAN
    /\ began \in 0..lastSeq /\ fetched \in 0..began /\ stale \subseteq told

\* The inductive invariant of one connection.
ClientIInv ==
    /\ ClientTypeOK /\ SendMuInv /\ BufferInv /\ FateInv /\ RunInv /\ FetchInv
    /\ DropsAreNoticed

-----------------------------------------------------------------------------
(* One lemma per action: it keeps every part of the invariant.             *)

\* Init establishes the invariant.
LEMMA ClientInitInv == ClientInit => ClientIInv
<1> SUFFICES ASSUME ClientInit PROVE ClientIInv
  OBVIOUS
<1>1. Through = 0
  BY DEF ClientInit, Through, Busy
<1>2. ClientTypeOK
  <2>1. closing \in BOOLEAN /\ held \in [Senders -> Nat]
    BY DEF ClientInit
  <2>2. seq \in Nat /\ send \in Seq(Nat) /\ drops \in Nat /\ lastSeq \in Nat
    BY DEF ClientInit
  <2>3. dropped \subseteq 1..Through /\ lastSeq \in 0..Through
    BY <1>1 DEF ClientInit
  <2> QED
    BY <2>1, <2>2, <2>3 DEF ClientTypeOK
<1>3. SendMuInv
  BY DEF ClientInit, SendMuInv
<1>4. BufferInv /\ FateInv /\ RunInv
  BY <1>1, ClientSendAssumption DEF ClientInit, BufferInv, FateInv, RunInv
<1>5. DropsAreNoticed
  BY ClientSendAssumption DEF ClientInit, DropsAreNoticed, EveryDropIsNoticed, SlowClientIsClosed, StaleIsRecent
<1>6. FetchInv
  <2>1. inFlight \in BOOLEAN /\ cooling \in BOOLEAN /\ stale \subseteq told
    BY DEF ClientInit
  <2>2. began \in 0..lastSeq /\ fetched \in 0..began
    BY DEF ClientInit
  <2> QED
    BY <2>1, <2>2 DEF FetchInv
<1> QED
  BY <1>2, <1>3, <1>4, <1>5, <1>6 DEF ClientIInv

\* A step of a sender leaves the app alone.
LEMMA AppAtRest ==
    ASSUME ClientIInv, UNCHANGED appvars
    PROVE  FetchInv' /\ StaleIsRecent'
BY DEF ClientIInv, FetchInv, DropsAreNoticed, StaleIsRecent, appvars

\* sendFrame takes a number: nothing else moves, and the number is not through yet.
LEMMA TakeStep ==
    ASSUME ClientIInv, NEW g \in Senders, Take(g)
    PROVE  ClientIInv'
<1> USE ClientSendAssumption
<1>1. ~Busy /\ Through = seq /\ Through' = seq /\ seq' = seq + 1 /\ seq \in Nat
  BY DEF ClientIInv, ClientTypeOK, Take, Through, Busy
<1>2. ClientTypeOK' /\ SendMuInv'
  BY <1>1 DEF ClientIInv, ClientTypeOK, SendMuInv, Take, appvars
<1>3. BufferInv' /\ FateInv' /\ RunInv'
  BY <1>1 DEF ClientIInv, BufferInv, FateInv, RunInv, Take, appvars
<1>4. EveryDropIsNoticed' /\ FetchInv' /\ StaleIsRecent'
  BY AppAtRest DEF ClientIInv, DropsAreNoticed, EveryDropIsNoticed, Take, appvars
<1>5. SlowClientIsClosed'
  <2> SUFFICES ASSUME NEW n \in 0..(seq' - MaxDrops),
                      (n + 1)..(n + MaxDrops) \subseteq dropped
               PROVE  closing
    BY DEF SlowClientIsClosed, Take
  <2>1. n + MaxDrops \in dropped
    OBVIOUS
  <2>2. n + MaxDrops <= seq
    BY <1>1, <2>1 DEF ClientIInv, ClientTypeOK
  <2> QED
    BY <1>1, <2>2 DEF ClientIInv, DropsAreNoticed, SlowClientIsClosed
<1> QED
  BY <1>2, <1>3, <1>4, <1>5 DEF ClientIInv, DropsAreNoticed

\* What a sender that hands over its frame finds: its number is the next one.
LEMMA HandOver ==
    ASSUME ClientIInv, NEW g \in Senders, held[g] # 0,
           held' = [held EXCEPT ![g] = 0], seq' = seq
    PROVE  /\ Through \in Nat /\ held[g] = Through + 1
           /\ Through' = Through + 1
           /\ held' \in [Senders -> Nat] /\ SendMuInv'
<1>1. Busy /\ held[g] = seq /\ seq \in Nat /\ seq # 0
  BY DEF ClientIInv, ClientTypeOK, SendMuInv, Busy
<1>2. Through = seq - 1
  BY <1>1 DEF Through
<1>3. ~Busy'
  BY DEF ClientIInv, ClientTypeOK, SendMuInv, Busy
<1>4. Through' = seq
  BY <1>3 DEF Through
<1>5. held' \in [Senders -> Nat] /\ SendMuInv'
  BY <1>3 DEF ClientIInv, ClientTypeOK, SendMuInv, Busy
<1> QED
  BY <1>1, <1>2, <1>4, <1>5

\* trySend with room: the frame follows every other one in the channel.
LEMMA EnqueueStep ==
    ASSUME ClientIInv, NEW g \in Senders, Enqueue(g)
    PROVE  ClientIInv'
<1> USE ClientSendAssumption
<1> DEFINE n == held[g]
<1>1. /\ Through \in Nat /\ n = Through + 1 /\ Through' = Through + 1
      /\ held' \in [Senders -> Nat] /\ SendMuInv'
  BY HandOver DEF Enqueue
<1>2. /\ send \in Seq(Nat) /\ send' = Append(send, n) /\ Len(send) < SendBuffer
      /\ drops' = 0 /\ dropped' = dropped /\ lastSeq' = lastSeq
      /\ seq' = seq /\ closing' = closing /\ told' = told
      /\ seq \in Nat /\ closing \in BOOLEAN /\ lastSeq \in 0..Through /\ dropped \subseteq 1..Through
  BY DEF ClientIInv, ClientTypeOK, Enqueue, appvars
<1>3. /\ send' \in Seq(Nat) /\ Len(send') = Len(send) + 1 /\ send'[Len(send) + 1] = n
      /\ \A i \in 1..Len(send) : send'[i] = send[i]
  BY <1>1, <1>2
<1> HIDE DEF n
<1>4. ClientTypeOK'
  BY <1>1, <1>2, <1>3 DEF ClientTypeOK
<1>5. BufferInv'
  <2>1. Len(send') <= SendBuffer
    BY <1>2, <1>3
  <2>2. ASSUME NEW i \in 1..Len(send')
        PROVE  send'[i] \in 1..Through' /\ send'[i] > lastSeq' /\ send'[i] \notin dropped'
    <3>1. CASE i \in 1..Len(send)
      BY <1>1, <1>2, <1>3, <3>1 DEF ClientIInv, BufferInv
    <3>2. CASE i = Len(send) + 1
      BY <1>1, <1>2, <1>3, <3>2
    <3> QED
      BY <1>2, <1>3, <3>1, <3>2
  <2>3. ASSUME NEW i \in 1..Len(send'), NEW j \in 1..Len(send'), i < j
        PROVE  send'[i] < send'[j]
    <3>0. i \in 1..Len(send)
      BY <1>2, <1>3, <2>3
    <3>1. CASE j \in 1..Len(send)
      BY <1>3, <2>3, <3>0, <3>1 DEF ClientIInv, BufferInv
    <3>2. CASE j = Len(send) + 1
      BY <1>1, <1>3, <3>0, <3>2 DEF ClientIInv, BufferInv
    <3> QED
      BY <1>2, <1>3, <3>1, <3>2
  <2> QED
    BY <2>1, <2>2, <2>3 DEF BufferInv
<1>6. FateInv'
  <2>1. ASSUME NEW m \in 1..Through'
        PROVE  m \in dropped' \/ m <= lastSeq' \/ \E i \in 1..Len(send') : send'[i] = m
    <3>1. CASE m = n
      BY <1>2, <1>3, <3>1
    <3>2. CASE m # n
      <4>1. m \in 1..Through
        BY <1>1, <3>2
      <4>2. m \in dropped \/ m <= lastSeq \/ \E i \in 1..Len(send) : send[i] = m
        BY <4>1 DEF ClientIInv, FateInv
      <4> QED
        BY <1>2, <1>3, <4>2
    <3> QED
      BY <3>1, <3>2
  <2>2. lastSeq' = 0 => Len(send') > 0 /\ send'[1] = 1
    <3>1. CASE Through = 0
      BY <1>1, <1>2, <1>3, <3>1 DEF ClientIInv, BufferInv
    <3>2. CASE Through > 0
      BY <1>2, <1>3, <3>2 DEF ClientIInv, FateInv
    <3> QED
      BY <1>1, <3>1, <3>2
  <2> QED
    BY <1>2, <2>1, <2>2 DEF ClientIInv, FateInv
<1>7. RunInv'
  BY <1>1, <1>2 DEF RunInv
<1>8. FetchInv' /\ StaleIsRecent'
  BY AppAtRest DEF Enqueue
<1>9. EveryDropIsNoticed' /\ SlowClientIsClosed'
  BY <1>2 DEF ClientIInv, DropsAreNoticed, EveryDropIsNoticed, SlowClientIsClosed
<1> QED
  BY <1>1, <1>4, <1>5, <1>6, <1>7, <1>8, <1>9 DEF ClientIInv, DropsAreNoticed

\* trySend without room: the frame is the newest dropped one, and a run of
\* MaxDrops that ends with it makes the counter reach the limit.
LEMMA FrameDropStep ==
    ASSUME ClientIInv, NEW g \in Senders, DropFrame(g)
    PROVE  ClientIInv'
<1> USE ClientSendAssumption
<1> DEFINE n == held[g]
<1>1. /\ Through \in Nat /\ n = Through + 1 /\ Through' = Through + 1
      /\ held' \in [Senders -> Nat] /\ SendMuInv'
  BY HandOver DEF DropFrame
<1>2. /\ send \in Seq(Nat) /\ send' = send /\ Len(send) = SendBuffer
      /\ drops' = drops + 1 /\ dropped' = dropped \cup {n} /\ lastSeq' = lastSeq
      /\ seq' = seq /\ closing' = (closing \/ drops + 1 >= MaxDrops) /\ told' = told
      /\ seq \in Nat /\ closing \in BOOLEAN /\ lastSeq \in 0..Through
      /\ dropped \subseteq 1..Through /\ drops \in Nat
  BY DEF ClientIInv, ClientTypeOK, DropFrame, appvars
<1>3. closing' \in BOOLEAN /\ (closing => closing') /\ (drops + 1 >= MaxDrops => closing')
  BY <1>2
<1> HIDE DEF n
<1>4. ClientTypeOK'
  <2>1. dropped' \subseteq 1..Through' /\ lastSeq' \in 0..Through'
    BY <1>1, <1>2
  <2> QED
    BY <1>1, <1>2, <1>3, <2>1 DEF ClientTypeOK
<1>5. BufferInv'
  BY <1>1, <1>2 DEF ClientIInv, BufferInv
<1>6. FateInv'
  <2>1. ASSUME NEW m \in 1..Through'
        PROVE  m \in dropped' \/ m <= lastSeq' \/ \E i \in 1..Len(send') : send'[i] = m
    BY <1>1, <1>2 DEF ClientIInv, FateInv
  <2>2. lastSeq' \notin dropped'
    BY <1>1, <1>2 DEF ClientIInv, FateInv
  <2>3. lastSeq' = 0 => Len(send') > 0 /\ send'[1] = 1
    <3> SUFFICES ASSUME lastSeq = 0 PROVE Len(send) > 0 /\ send[1] = 1
      BY <1>2
    <3>1. Len(send) > 0
      BY <1>2
    <3>2. send[1] \in 1..Through
      BY <3>1, <1>2 DEF ClientIInv, BufferInv
    <3> QED
      BY <1>1, <3>1, <3>2 DEF ClientIInv, FateInv
  <2> QED
    BY <2>1, <2>2, <2>3 DEF FateInv
<1>7. RunInv'
  <2>1. drops' <= Through' /\ Through' - drops' = Through - drops
    BY <1>1, <1>2 DEF ClientIInv, RunInv
  <2>2. Through - drops # n
    BY <1>1, <1>2
  <2> QED
    BY <1>2, <1>3, <2>1, <2>2 DEF ClientIInv, RunInv
<1>8. EveryDropIsNoticed' /\ FetchInv' /\ StaleIsRecent'
  BY <1>1, <1>2, AppAtRest DEF ClientIInv, DropsAreNoticed, EveryDropIsNoticed, DropFrame
<1>9. SlowClientIsClosed'
  <2> SUFFICES ASSUME NEW m \in 0..(seq - MaxDrops),
                      (m + 1)..(m + MaxDrops) \subseteq dropped'
               PROVE  closing'
    BY <1>2 DEF SlowClientIsClosed
  <2>1. CASE m + MaxDrops # n
    <3>1. m + MaxDrops \in dropped'
      OBVIOUS
    <3>2. (m + 1)..(m + MaxDrops) \subseteq dropped
      BY <1>1, <1>2, <2>1, <3>1
    <3> QED
      BY <1>3, <3>2 DEF ClientIInv, DropsAreNoticed, SlowClientIsClosed
  <2>2. CASE m + MaxDrops = n
    <3>1. Through - drops \notin (m + 1)..(m + MaxDrops)
      BY <1>1, <1>2 DEF ClientIInv, RunInv
    <3>2. drops + 1 >= MaxDrops
      BY <1>1, <1>2, <2>2, <3>1
    <3> QED
      BY <1>3, <3>2
  <2> QED
    BY <2>1, <2>2
<1> QED
  BY <1>1, <1>4, <1>5, <1>6, <1>7, <1>8, <1>9 DEF ClientIInv, DropsAreNoticed

\* The write pump: the numbers the app jumps over are exactly the dropped ones.
LEMMA WriteStep ==
    ASSUME ClientIInv, Write
    PROVE  ClientIInv'
<1> USE ClientSendAssumption
<1> DEFINE n == Head(send)
           gap == IF lastSeq # 0 THEN (lastSeq + 1)..(n - 1) ELSE {}
<1>1. /\ seq' = seq /\ held' = held /\ drops' = drops /\ closing' = closing /\ dropped' = dropped
      /\ send # <<>> /\ send' = Tail(send) /\ send \in Seq(Nat)
      /\ lastSeq' = IF n > lastSeq THEN n ELSE lastSeq
      /\ told' = told \cup gap /\ stale' = stale \cup gap /\ fetched' = fetched
      /\ IF gap # {} THEN resync(n) ELSE UNCHANGED <<inFlight, cooling, began>>
  BY DEF ClientIInv, ClientTypeOK, Write
<1>2. Through' = Through /\ Through \in Int
  BY <1>1 DEF ClientIInv, ClientTypeOK, Through, Busy
<1>3. /\ Len(send) \in Nat /\ Len(send) > 0 /\ n = send[1]
      /\ send' \in Seq(Nat) /\ Len(send') = Len(send) - 1
      /\ \A i \in 1..Len(send') : send'[i] = send[i + 1]
  BY <1>1
<1>4. n \in 1..Through /\ n > lastSeq /\ n \notin dropped
  BY <1>3 DEF ClientIInv, BufferInv
<1>5. lastSeq' = n /\ lastSeq \in Nat /\ dropped \subseteq Nat
  BY <1>1, <1>4 DEF ClientIInv, ClientTypeOK
<1> HIDE DEF n
<1>6. ClientTypeOK' /\ SendMuInv'
  BY <1>1, <1>2, <1>3, <1>4, <1>5 DEF ClientIInv, ClientTypeOK, SendMuInv
<1>7. \A i \in 1..Len(send') : i + 1 \in 1..Len(send) /\ 1 < i + 1
  BY <1>3
<1>8. BufferInv'
  <2>1. ASSUME NEW i \in 1..Len(send')
        PROVE  send'[i] \in 1..Through' /\ send'[i] > lastSeq' /\ send'[i] \notin dropped'
    BY <1>1, <1>2, <1>3, <1>5, <1>7 DEF ClientIInv, BufferInv
  <2>2. ASSUME NEW i \in 1..Len(send'), NEW j \in 1..Len(send'), i < j
        PROVE  send'[i] < send'[j]
    <3>1. i + 1 < j + 1
      BY <2>2
    <3> QED
      BY <1>3, <1>7, <3>1 DEF ClientIInv, BufferInv
  <2> QED
    BY <1>3, <2>1, <2>2 DEF ClientIInv, BufferInv
<1>9. FateInv'
  <2>1. ASSUME NEW m \in 1..Through', m \notin dropped', ~(m <= lastSeq')
        PROVE  \E i \in 1..Len(send') : send'[i] = m
    <3>1. PICK i \in 1..Len(send) : send[i] = m
      BY <1>1, <1>2, <1>4, <1>5, <2>1 DEF ClientIInv, FateInv
    <3>2. i # 1
      BY <1>3, <1>4, <1>5, <2>1, <3>1
    <3>3. i - 1 \in 1..Len(send') /\ send'[i - 1] = m
      BY <1>3, <3>1, <3>2
    <3> QED
      BY <3>3
  <2> QED
    BY <1>1, <1>4, <1>5, <2>1 DEF FateInv
<1>10. RunInv'
  BY <1>1, <1>2 DEF ClientIInv, RunInv
<1>11. \A m \in (lastSeq + 1)..(n - 1) : m \in dropped
  <2> SUFFICES ASSUME NEW m \in (lastSeq + 1)..(n - 1), m \notin dropped PROVE FALSE
    OBVIOUS
  <2>1. PICK i \in 1..Len(send) : send[i] = m
    BY <1>2, <1>4, <1>5 DEF ClientIInv, FateInv
  <2>2. i = 1 \/ 1 < i
    BY <1>3
  <2>3. n <= send[i]
    BY <1>3, <1>4, <2>1, <2>2 DEF ClientIInv, BufferInv
  <2> QED
    BY <1>4, <1>5, <2>1, <2>3
<1>12. EveryDropIsNoticed'
  <2>1. told = {m \in dropped : m < lastSeq} /\ lastSeq \notin dropped
    BY DEF ClientIInv, DropsAreNoticed, EveryDropIsNoticed, FateInv
  <2>2. CASE lastSeq = 0
    <3>1. n = 1
      BY <1>2, <1>3, <1>4, <2>2 DEF ClientIInv, FateInv
    <3>2. \A m \in dropped : ~(m < 0) /\ ~(m < 1)
      BY DEF ClientIInv, ClientTypeOK
    <3> QED
      BY <1>1, <1>5, <2>1, <2>2, <3>1, <3>2 DEF EveryDropIsNoticed
  <2>3. CASE lastSeq # 0
    <3>1. told' = told \cup ((lastSeq + 1)..(n - 1))
      BY <1>1, <2>3
    <3>2. ASSUME NEW m PROVE m \in told' <=> m \in dropped /\ m < n
      <4>1. CASE m \in dropped
        <5>1. m \in Nat /\ m # lastSeq
          BY <1>5, <2>1, <4>1
        <5> QED
          BY <1>4, <1>5, <2>1, <3>1, <4>1, <5>1
      <4>2. CASE m \notin dropped
        BY <1>11, <2>1, <3>1, <4>2
      <4> QED
        BY <4>1, <4>2
    <3> QED
      BY <1>1, <1>5, <3>2 DEF EveryDropIsNoticed
  <2> QED
    BY <2>2, <2>3
<1>13. SlowClientIsClosed'
  BY <1>1 DEF ClientIInv, DropsAreNoticed, SlowClientIsClosed
<1>14. /\ inFlight \in BOOLEAN /\ cooling \in BOOLEAN /\ began \in 0..lastSeq
       /\ fetched \in 0..began /\ stale \subseteq told /\ \A m \in stale : fetched < m
  BY DEF ClientIInv, FetchInv, DropsAreNoticed, StaleIsRecent
<1>15. inFlight' \in BOOLEAN /\ cooling' \in BOOLEAN
  BY <1>1, <1>14 DEF resync
<1>16. began' \in {began, n}
  BY <1>1 DEF resync
<1>17. began' \in 0..lastSeq' /\ fetched' \in 0..began'
  BY <1>1, <1>4, <1>5, <1>14, <1>16
<1>18. FetchInv'
  BY <1>1, <1>14, <1>15, <1>17 DEF FetchInv
<1>19. \A m \in gap : lastSeq < m
  BY <1>5
<1>20. StaleIsRecent'
  BY <1>1, <1>5, <1>14, <1>19 DEF StaleIsRecent
<1> QED
  BY <1>6, <1>8, <1>9, <1>10, <1>12, <1>13, <1>18, <1>20 DEF ClientIInv, DropsAreNoticed

\* A refetch for another reason begins, ends, or may be repeated: nothing of the connection moves.
LEMMA FetchStep ==
    ASSUME ClientIInv, Refetch \/ RefetchDone \/ CooldownEnds
    PROVE  ClientIInv'
<1>1. UNCHANGED <<seq, held, send, drops, closing, dropped, lastSeq, told>>
  BY DEF Refetch, RefetchDone, CooldownEnds
<1>2. ClientTypeOK' /\ SendMuInv' /\ BufferInv' /\ FateInv' /\ RunInv'
  BY <1>1 DEF ClientIInv, ClientTypeOK, SendMuInv, BufferInv, FateInv, RunInv, Through, Busy
<1>3. EveryDropIsNoticed' /\ SlowClientIsClosed'
  BY <1>1 DEF ClientIInv, DropsAreNoticed, EveryDropIsNoticed, SlowClientIsClosed
<1>4. /\ inFlight \in BOOLEAN /\ cooling \in BOOLEAN /\ began \in 0..lastSeq
      /\ fetched \in 0..began /\ stale \subseteq told /\ \A m \in stale : fetched < m
      /\ lastSeq \in Nat
  BY DEF ClientIInv, ClientTypeOK, FetchInv, DropsAreNoticed, StaleIsRecent
<1>5. inFlight' \in BOOLEAN /\ cooling' \in BOOLEAN
  BY <1>4 DEF Refetch, RefetchDone, CooldownEnds, resync
<1>6. /\ began' \in 0..lastSeq /\ fetched' \in 0..began'
      /\ stale' \subseteq told /\ \A m \in stale' : fetched' < m
  <2>1. CASE Refetch
    BY <1>4, <2>1 DEF Refetch, resync
  <2>2. CASE RefetchDone
    BY <1>4, <2>2 DEF RefetchDone
  <2>3. CASE CooldownEnds
    BY <1>4, <2>3 DEF CooldownEnds
  <2> QED
    BY <2>1, <2>2, <2>3
<1>7. FetchInv' /\ StaleIsRecent'
  BY <1>1, <1>5, <1>6 DEF FetchInv, StaleIsRecent
<1> QED
  BY <1>2, <1>3, <1>7 DEF ClientIInv, DropsAreNoticed

-----------------------------------------------------------------------------
(* The theorem.                                                            *)

\* A full send buffer never loses a frame silently, however many goroutines
\* send at once: the open documents are told of exactly the numbers that were
\* dropped before the last one the app saw (trackSeq), the stores lack only what
\* was dropped since their last successful refetch began (resync), and MaxDrops
\* drops in a row close the connection (trySend).
THEOREM ClientDropsNoticed == ClientSpec => []DropsAreNoticed
<1>1. ClientIInv /\ [ClientNext]_clientvars => ClientIInv'
  <2> SUFFICES ASSUME ClientIInv, [ClientNext]_clientvars PROVE ClientIInv'
    OBVIOUS
  <2>1. CASE UNCHANGED clientvars
    BY <2>1 DEF clientvars, appvars, ClientIInv, ClientTypeOK, SendMuInv, BufferInv, FateInv, RunInv,
       FetchInv, DropsAreNoticed, EveryDropIsNoticed, SlowClientIsClosed, StaleIsRecent, Through, Busy
  <2> QED
    BY <2>1, TakeStep, EnqueueStep, FrameDropStep, WriteStep, FetchStep DEF ClientNext
<1>2. ClientIInv => DropsAreNoticed
  BY DEF ClientIInv
<1> QED
  BY ClientInitInv, <1>1, <1>2, PTL DEF ClientSpec
=============================================================================
