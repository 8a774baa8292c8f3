------------------------------- MODULE RoomHub -------------------------------
(***************************************************************************)
(* The WebSocket hubs of all replicas (backend/internal/ws): registration  *)
(* and shutdown, collaboration rooms and channel subscriptions, fan-out    *)
(* over NATS with the origin guard, room leaders, revocation and the       *)
(* periodic recheck.                                                       *)
(*                                                                         *)
(* A connection's read pump authorizes a join in one step and records it   *)
(* in a later one; a recheck reads the access in one step and applies it   *)
(* in a later one; everything else the hub does may happen in between.     *)
(***************************************************************************)
EXTENDS Integers, FiniteSets, FiniteSetsExt

CONSTANTS
    Conns,       \* connections, by id; the order of the ids elects the leader
    Users, Replicas,
    UserOf,      \* the user of each connection
    HomeOf,      \* the replica of each connection
    Rooms,       \* collaboration documents
    Channels,
    HubEnvironments \* what a behaviour may meet, see henv

Topics == Rooms \cup Channels
Levels == {"none", "read", "write"}

ASSUME RoomHubAssumption ==
    /\ Conns \subseteq Nat /\ IsFiniteSet(Conns)
    /\ UserOf \in [Conns -> Users]
    /\ HomeOf \in [Conns -> Replicas]
    /\ Rooms \cap Channels = {}
    /\ HubEnvironments \subseteq [faults : SUBSET {"lose", "shutdown"}, conns : SUBSET Conns, topics : SUBSET Topics,
                               changes : Nat, updates : Nat, asks : Nat]

VARIABLES
    henv,       \* this behaviour's faults and bounds, chosen once
    access,    \* the database: what each user may do with each topic
    changes,   \* changes of access so far
    phase,     \* of each connection: new, offered, received, serving, closed
    clients,   \* each replica's registry
    down,      \* replicas whose Shutdown has taken its list of clients
    member,    \* Client.rooms and Client.subscriptions
    joining,   \* a join that is authorized and not yet recorded
    checking,  \* rechecks whose access is read and not yet applied
    bus,       \* NATS: envelopes on their way to a replica
    updates,   \* updates broadcast so far
    due,       \* updates each connection must get: it was a member at the time
    seen,      \* how often each connection got each update
    asks,      \* leader requests so far
    asked      \* how often each connection got each leader request

hubvars == <<henv, access, changes, phase, clients, down, member, joining, checking,
          bus, updates, due, seen, asks, asked>>
connVars == <<phase, clients, down>>
roomVars == <<member, joining, checking>>
dataVars == <<updates, due, seen, asks, asked>>

Faults == henv.faults
MaxChanges == henv.changes  \* bound of the model: changes of access
MaxUpdates == henv.updates  \* bound of the model: updates broadcast to a room
MaxAsks == henv.asks        \* bound of the model: leader requests

NoJoin == [t |-> "none", level |-> "none"]

HubInit ==
    /\ henv \in HubEnvironments
    /\ access = [u \in Users |-> [t \in Topics |-> IF t \in henv.topics THEN "write" ELSE "none"]]
    /\ changes = 0
    /\ phase = [c \in Conns |-> "new"]
    /\ clients = [r \in Replicas |-> {}]
    /\ down = {}
    /\ member = [c \in Conns |-> [t \in Topics |-> "none"]]
    /\ joining = [c \in Conns |-> NoJoin]
    /\ checking = {}
    /\ bus = {}
    /\ updates = 0
    /\ due = [c \in Conns |-> {}]
    /\ seen = [c \in Conns |-> [n \in 1..MaxUpdates |-> 0]]
    /\ asks = 0
    /\ asked = [c \in Conns |-> [n \in 1..MaxAsks |-> 0]]

Serving(c) == phase[c] = "serving"
\* The registered connections of a replica that are in a topic (roomTargets).
Targets(r, t) == {c \in clients[r] : member[c][t] # "none"}

-----------------------------------------------------------------------------
(* Connections.                                                            *)

\* HandleWebSocket: the client is offered to the hub.
Connect(c) ==
    /\ phase[c] = "new" /\ c \in henv.conns
    /\ phase' = [phase EXCEPT ![c] = "offered"]
    /\ UNCHANGED <<henv, access, changes, clients, down, roomVars, bus, dataVars>>

\* Run's select receives the client: possible until Run has noticed done, and a
\* select with both ready picks either.
Receive(c) ==
    /\ phase[c] = "offered"
    /\ phase' = [phase EXCEPT ![c] = "received"]
    /\ UNCHANGED <<henv, access, changes, clients, down, roomVars, bus, dataVars>>

\* The handler's select sees done instead and turns the connection away.
TurnAway(c) ==
    /\ phase[c] = "offered"
    /\ HomeOf[c] \in down
    /\ phase' = [phase EXCEPT ![c] = "closed"]
    /\ UNCHANGED <<henv, access, changes, clients, down, roomVars, bus, dataVars>>

\* Run takes the lock and adds the client; its pumps run.
Register(c) ==
    /\ phase[c] = "received"
    /\ phase' = [phase EXCEPT ![c] = "serving"]
    /\ clients' = [clients EXCEPT ![HomeOf[c]] = @ \cup {c}]
    /\ UNCHANGED <<henv, access, changes, down, roomVars, bus, dataVars>>

\* What ends with a connection: a join or recheck under way finds it gone.
Ended(S) ==
    /\ phase' = [c \in Conns |-> IF c \in S THEN "closed" ELSE phase[c]]
    /\ joining' = [c \in Conns |-> IF c \in S THEN NoJoin ELSE joining[c]]
    /\ checking' = {k \in checking : k.c \notin S}
    /\ due' = [c \in Conns |-> IF c \in S THEN {} ELSE due[c]]

\* The socket closes and the read pump unregisters it.
Disconnect(c) ==
    /\ Serving(c)
    /\ Ended({c})
    /\ clients' = [clients EXCEPT ![HomeOf[c]] = @ \ {c}]
    /\ UNCHANGED <<henv, access, changes, down, member, bus, updates, seen, asks, asked>>

\* Shutdown empties the registry and closes the connections it held.
Shutdown(r) ==
    /\ "shutdown" \in Faults
    /\ r \notin down
    /\ down' = down \cup {r}
    /\ Ended(clients[r])
    /\ clients' = [clients EXCEPT ![r] = {}]
    /\ UNCHANGED <<henv, access, changes, member, bus, updates, seen, asks, asked>>

-----------------------------------------------------------------------------
(* Membership.                                                             *)

\* A join or a subscribe is authorized; a denial answers with an error and
\* changes nothing.
Authorize(c, t) ==
    /\ Serving(c)
    /\ joining[c] = NoJoin
    /\ access[UserOf[c]][t] # "none"
    /\ joining' = [joining EXCEPT ![c] = [t |-> t, level |-> access[UserOf[c]][t]]]
    /\ UNCHANGED <<henv, access, changes, connVars, member, checking, bus, dataVars>>

\* ... and recorded (JoinRoom, Subscribe).
Record(c) ==
    /\ joining[c] # NoJoin
    /\ member' = [member EXCEPT ![c][joining[c].t] = joining[c].level]
    /\ joining' = [joining EXCEPT ![c] = NoJoin]
    /\ UNCHANGED <<henv, access, changes, connVars, checking, bus, dataVars>>

\* Connections S lose their membership of topic t.
Drop(S, t) ==
    /\ member' = [c \in Conns |-> IF c \in S THEN [member[c] EXCEPT ![t] = "none"]
                                             ELSE member[c]]
    /\ due' = [c \in Conns |-> IF c \in S THEN {d \in due[c] : d[1] # t} ELSE due[c]]

\* The client leaves (handleCollabLeave, unsubscribe).
Leave(c, t) ==
    /\ Serving(c)
    /\ joining[c] = NoJoin
    /\ member[c][t] # "none"
    /\ Drop({c}, t)
    /\ UNCHANGED <<henv, access, changes, connVars, joining, checking, bus, updates,
                   seen, asks, asked>>

\* recheckRooms, recheckSubscriptions: the access of a live membership is read.
RecheckRead(c, t) ==
    /\ Serving(c)
    /\ member[c][t] # "none"
    /\ \A k \in checking : k.c # c
    /\ checking' = checking \cup {[c |-> c, t |-> t, level |-> access[UserOf[c]][t]]}
    /\ UNCHANGED <<henv, access, changes, connVars, member, joining, bus, dataVars>>

\* Mutant: the refreshed flag re-creates a membership that ended meanwhile.
ApplyResurrects(k) ==
    /\ k \in checking
    /\ checking' = checking \ {k}
    /\ member' = [member EXCEPT ![k.c][k.t] = k.level]
    /\ UNCHANGED <<henv, access, changes, connVars, joining, bus, dataVars>>

\* Mutant: a membership that may not read any more is left to the revocation.
ApplyKeeps(k) ==
    /\ k \in checking
    /\ checking' = checking \ {k}
    /\ member' = IF k.level # "none" /\ member[k.c][k.t] # "none"
                   THEN [member EXCEPT ![k.c][k.t] = k.level] ELSE member
    /\ UNCHANGED <<henv, access, changes, connVars, joining, bus, dataVars>>

\* ... and applied: the membership ends, or its write flag is refreshed if it
\* is still there (setRoomWrite).  A subscription has no flag.
RecheckApply(k) ==
    /\ k \in checking
    /\ checking' = checking \ {k}
    /\ IF k.level = "none"
         THEN Drop({k.c}, k.t)
         ELSE /\ member' = IF k.t \in Rooms /\ member[k.c][k.t] # "none"
                             THEN [member EXCEPT ![k.c][k.t] = k.level] ELSE member
              /\ UNCHANGED due
    /\ UNCHANGED <<henv, access, changes, connVars, joining, bus, updates, seen, asks, asked>>

-----------------------------------------------------------------------------
(* Access and revocation.                                                  *)

Envelope(kind, origin, to, u, t, n) ==
    [kind |-> kind, origin |-> origin, to |-> to, user |-> u, t |-> t, n |-> n]

\* One envelope for every replica, the publisher's own included.
Publish(kind, origin, u, t, n) ==
    bus' = bus \cup {Envelope(kind, origin, to, u, t, n) : to \in Replicas}

ConnsOf(r, u) == {c \in clients[r] : UserOf[c] = u}

\* A user's access changes without a revocation: a grant, a demotion, or a
\* change nobody hooked.
ChangeAccess(u, t, level) ==
    /\ changes < MaxChanges
    /\ changes' = changes + 1
    /\ t \in henv.topics /\ level # access[u][t]
    /\ t \in Channels => level # "read"
    /\ access' = [access EXCEPT ![u][t] = level]
    /\ UNCHANGED <<henv, connVars, roomVars, bus, dataVars>>

\* Access is withdrawn by a request on replica r, and RevokeRoom or
\* RevokeChannelSubscription cuts the user off there and publishes.
Revoke(r, u, t) ==
    /\ changes < MaxChanges
    /\ changes' = changes + 1
    /\ access[u][t] # "none"
    /\ access' = [access EXCEPT ![u][t] = "none"]
    /\ Drop(ConnsOf(r, u) \cap Targets(r, t), t)
    /\ Publish("revoke", r, u, t, 0)
    /\ UNCHANGED <<henv, connVars, joining, checking, updates, seen, asks, asked>>

\* The revoke envelope reaches a replica (revokeRoomLocal, revokeLocal).
RevokeArrives(e) ==
    /\ e \in bus
    /\ e.kind = "revoke"
    /\ bus' = bus \ {e}
    /\ IF e.origin = e.to THEN UNCHANGED <<member, due>>
       ELSE Drop(ConnsOf(e.to, e.user) \cap Targets(e.to, e.t), e.t)
    /\ UNCHANGED <<henv, access, changes, connVars, joining, checking, updates, seen,
                   asks, asked>>

\* What revokeWorkspaceLocal does on replica r: subscriptions end, the rooms of
\* those connections are rechecked.
WorkspaceCut(r, u) ==
    LET S == ConnsOf(r, u)
    IN  /\ member' = [c \in Conns |-> IF c \in S
                        THEN [t \in Topics |-> IF t \in Channels THEN "none" ELSE member[c][t]]
                        ELSE member[c]]
        /\ checking' = checking \cup
             {[c |-> x[1], t |-> x[2], level |-> access'[u][x[2]]] :
                x \in {y \in S \X Rooms : member[y[1]][y[2]] # "none"}}
        /\ UNCHANGED due

\* RevokeWorkspaceMembership on replica r: the user loses everything.
RevokeWorkspace(r, u) ==
    /\ changes < MaxChanges
    /\ changes' = changes + 1
    /\ \E t \in Topics : access[u][t] # "none"
    /\ access' = [access EXCEPT ![u] = [t \in Topics |-> "none"]]
    /\ WorkspaceCut(r, u)
    /\ Publish("workspace", r, u, "none", 0)
    /\ UNCHANGED <<henv, connVars, joining, updates, seen, asks, asked>>

WorkspaceArrives(e) ==
    /\ e \in bus
    /\ e.kind = "workspace"
    /\ bus' = bus \ {e}
    /\ UNCHANGED access
    /\ IF e.origin = e.to THEN UNCHANGED <<member, checking, due>>
       ELSE WorkspaceCut(e.to, e.user)
    /\ UNCHANGED <<henv, changes, connVars, joining, updates, seen, asks, asked>>

-----------------------------------------------------------------------------
(* Fan-out.                                                                *)

\* Connections S get update n.
Got(S, n) == seen' = [c \in Conns |-> IF c \in S THEN [seen[c] EXCEPT ![n] = @ + 1]
                                                 ELSE seen[c]]

\* handleCollabUpdate: a writer's update is broadcast to the room here and
\* published to the others (BroadcastToRoom).
Update(c, t) ==
    /\ Serving(c)
    /\ joining[c] = NoJoin
    /\ t \in Rooms
    /\ member[c][t] = "write"
    /\ updates < MaxUpdates
    /\ updates' = updates + 1
    /\ Got(Targets(HomeOf[c], t), updates + 1)
    /\ due' = [d \in Conns |-> IF \E r \in Replicas : d \in Targets(r, t)
                                 THEN due[d] \cup {<<t, updates + 1>>} ELSE due[d]]
    /\ Publish("update", HomeOf[c], UserOf[c], t, updates + 1)
    /\ UNCHANGED <<henv, access, changes, connVars, roomVars, asks, asked>>

\* Mutant: a replica's own publish is delivered again.
UpdateEchoes(e) ==
    /\ e \in bus
    /\ e.kind = "update"
    /\ bus' = bus \ {e}
    /\ Got(Targets(e.to, e.t), e.n)
    /\ UNCHANGED <<henv, access, changes, connVars, roomVars, updates, due, asks, asked>>

\* The envelope reaches a replica: its own is skipped.
UpdateArrives(e) ==
    /\ e \in bus
    /\ e.kind = "update"
    /\ bus' = bus \ {e}
    /\ IF e.origin = e.to THEN UNCHANGED seen ELSE Got(Targets(e.to, e.t), e.n)
    /\ UNCHANGED <<henv, access, changes, connVars, roomVars, updates, due, asks, asked>>

\* SendToRoomLeader: the least connection id of the replica's members.
AskLeader(r, t, n) ==
    asked' = IF Targets(r, t) = {} THEN asked
             ELSE [asked EXCEPT ![Min(Targets(r, t))][n] = @ + 1]

\* AskRoomLeader on a replica: its own leader first, then the others.
Ask(r, t) ==
    /\ t \in Rooms
    /\ r \notin down
    /\ asks < MaxAsks
    /\ asks' = asks + 1
    /\ AskLeader(r, t, asks + 1)
    /\ Publish("leader", r, "none", t, asks + 1)
    /\ UNCHANGED <<henv, access, changes, connVars, roomVars, updates, due, seen>>

\* PublishRoomLeaderRequest by the worker, which has no hub.
AskFromWorker(t) ==
    /\ t \in Rooms
    /\ asks < MaxAsks
    /\ asks' = asks + 1
    /\ Publish("leader", "none", "none", t, asks + 1)
    /\ UNCHANGED <<henv, access, changes, connVars, roomVars, updates, due, seen, asked>>

AskArrives(e) ==
    /\ e \in bus
    /\ e.kind = "leader"
    /\ bus' = bus \ {e}
    /\ IF e.origin = e.to THEN UNCHANGED asked ELSE AskLeader(e.to, e.t, e.n)
    /\ UNCHANGED <<henv, access, changes, connVars, roomVars, updates, due, seen, asks>>

\* Core NATS delivers at most once.
Lose(e) ==
    /\ "lose" \in Faults
    /\ e \in bus
    /\ bus' = bus \ {e}
    /\ UNCHANGED <<henv, access, changes, connVars, roomVars, dataVars>>

-----------------------------------------------------------------------------
HubNext ==
    \/ \E c \in Conns : \/ Connect(c) \/ Receive(c) \/ TurnAway(c) \/ Register(c)
                        \/ Disconnect(c) \/ Record(c)
    \/ \E c \in Conns, t \in Topics :
            Authorize(c, t) \/ Leave(c, t) \/ RecheckRead(c, t) \/ Update(c, t)
    \/ \E r \in Replicas : Shutdown(r)
    \/ \E k \in checking : RecheckApply(k)
    \/ \E u \in Users, t \in Topics, level \in Levels : ChangeAccess(u, t, level)
    \/ \E r \in Replicas, u \in Users : RevokeWorkspace(r, u)
    \/ \E r \in Replicas, u \in Users, t \in Topics : Revoke(r, u, t)
    \/ \E r \in Replicas, t \in Topics : Ask(r, t)
    \/ \E t \in Topics : AskFromWorker(t)
    \/ \E e \in bus : \/ RevokeArrives(e) \/ WorkspaceArrives(e) \/ UpdateArrives(e)
                      \/ AskArrives(e) \/ Lose(e)

HubSpec == HubInit /\ [][HubNext]_hubvars

\* A join under way is recorded; the recheck timer of each live connection
\* fires for every topic and its answer is applied.
HubFairness ==
    /\ \A c \in Conns : WF_hubvars(Record(c))
    /\ \A c \in Conns, t \in Topics :
         /\ SF_hubvars(RecheckRead(c, t))
         /\ WF_hubvars(\E k \in checking : k.c = c /\ k.t = t /\ RecheckApply(k))
HubFairSpec == HubSpec /\ HubFairness

-----------------------------------------------------------------------------
(* Properties.                                                             *)

(* Type correctness; only live connections are in a registry, and joins and  *)
(* rechecks under way belong to live connections.                           *)
HubTypeOK ==
    /\ access \in [Users -> [Topics -> Levels]]
    /\ changes \in 0..MaxChanges
    /\ phase \in [Conns -> {"new", "offered", "received", "serving", "closed"}]
    /\ \A r \in Replicas : clients[r] \subseteq {c \in Conns : Serving(c) /\ HomeOf[c] = r}
    /\ down \subseteq Replicas
    /\ member \in [Conns -> [Topics -> Levels]]
    /\ \A c \in Conns : joining[c] # NoJoin => Serving(c) /\ joining[c].t \in Topics
    /\ \A k \in checking : Serving(k.c) /\ k.t \in Topics /\ k.level \in Levels
    /\ due \in [Conns -> SUBSET (Rooms \X (1..updates))]
    /\ seen \in [Conns -> [1..MaxUpdates -> Nat]]
    /\ asked \in [Conns -> [1..MaxAsks -> Nat]]

(* Every update reaches a connection at most once, whichever of the two     *)
(* paths (local broadcast, NATS bridge) carries it: the origin guard.       *)
AtMostOnce == \A c \in Conns, n \in 1..MaxUpdates : seen[c][n] <= 1

(* A connection that was in the room when an update was broadcast and has   *)
(* not left since has it, once NATS has nothing more to deliver.            *)
MembersMissNothing ==
    "lose" \notin Faults =>
      \A c \in Conns : \A d \in due[c] :
        \/ seen[c][d[2]] = 1
        \/ \E e \in bus : e.kind = "update" /\ e.n = d[2] /\ e.to = HomeOf[c]

(* A leader request is answered by at most one connection of each replica,  *)
(* and at most once by it.                                                  *)
OneLeaderPerReplica ==
    \A n \in 1..MaxAsks, c, d \in Conns :
        /\ asked[c][n] <= 1
        /\ asked[c][n] = 1 /\ asked[d][n] = 1 /\ HomeOf[c] = HomeOf[d] => c = d

(* A membership begins only with a join the client asked for: a recheck     *)
(* that read the access before the client left does not re-create it.       *)
NoResurrection ==
    [][\A c \in Conns, t \in Topics :
         member[c][t] = "none" /\ member'[c][t] # "none" =>
             joining[c].t = t /\ joining'[c] = NoJoin]_hubvars

(* What a connection may do converges to what its user may do: a revocation *)
(* that missed a join in flight, or was lost on the way to another replica, *)
(* is caught by the recheck.                                                *)
MembershipConverges ==
    []<>(\A c \in Conns, t \in Topics :
            Serving(c) /\ access[UserOf[c]][t] # "write" => member[c][t] \in {"none", access[UserOf[c]][t]})

(* What is broadcast reaches every member once, on every replica, and a     *)
(* question for a leader one connection of each replica.                    *)
HubDelivers == HubTypeOK /\ AtMostOnce /\ MembersMissNothing /\ OneLeaderPerReplica
=============================================================================
