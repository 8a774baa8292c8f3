------------------------------- MODULE Roster -------------------------------
(***************************************************************************)
(* Who belongs where: the members of one workspace and their roles, the    *)
(* channels and direct messages inside it, and the live subscriptions that *)
(* membership authorizes.                                                  *)
(*                                                                         *)
(* A request first reads what it must know to decide, then runs its one    *)
(* transaction, then tells the hub.  The three are separate steps: between *)
(* them other requests change the rows the decision was made on, and only  *)
(* the predicates inside the transaction still see the truth.  The hub of  *)
(* the request's own replica cuts its sockets at once; the other replicas  *)
(* hear of it over core NATS, which may lose what it carries.              *)
(***************************************************************************)
EXTENDS Integers, FiniteSets, FiniteSetsExt

CONSTANTS Members,              \* accounts
          ChannelIds,           \* ids channels may take, numbers
          Tasks,                \* requests in flight
          Replicas,             \* server processes, each with its sockets
          Home,                 \* the replica that serves a request
          RosterEnvironments    \* initial roles, channels and budgets

ChannelRow == [kind : {"none", "public", "private", "group", "dm"}, pair : SUBSET Members, archived : BOOLEAN]

\* Every request is served by one process.
ASSUME HomeAssumption == Home \in [Tasks -> Replicas]

\* A workspace starts with the rows its constraints allow: one owner, no member of
\* a channel that does not exist, and one direct message per pair, with that pair.
ASSUME RosterAssumption ==
    \A e \in RosterEnvironments :
        /\ e.wrole \in [Members -> {"", "member", "admin", "owner"}]
        /\ e.chan \in [ChannelIds -> ChannelRow]
        /\ e.crole \in [ChannelIds -> [Members -> {"", "member", "admin"}]]
        /\ \E u \in Members : \A v \in Members : e.wrole[v] = "owner" <=> v = u
        /\ \A c \in ChannelIds, u \in Members :
              /\ e.chan[c].kind = "none" => e.crole[c][u] = ""
              /\ e.chan[c].kind = "dm" => (e.crole[c][u] # "" <=> u \in e.chan[c].pair)
        /\ \A c, d \in ChannelIds : e.chan[c].kind = "dm" /\ e.chan[d].kind = "dm" /\ e.chan[c].pair = e.chan[d].pair => c = d

VARIABLES renv,    \* the environment, its budgets going down
          wrole,   \* workspace_members.role, "" for no row
          owner,   \* workspaces.owner_id
          chan,    \* the channels rows
          crole,   \* channel_members.role, "" for no row
          blocks,  \* user_blocks: blocker and blocked
          asking,  \* subscriptions authorized and not yet recorded: user, channel, replica
          subs,    \* live subscriptions
          wire,    \* revocations published: users and channels, and the replica to hear of it
          adrift,  \* subscriptions no revocation reaches: recorded too late, or it was lost
          task,    \* the requests
          opened,  \* direct messages a caller was answered with
          evicted  \* users removed from the workspace at some time

rvars == <<renv, wrole, owner, chan, crole, blocks, asking, subs, wire, adrift, task, opened, evicted>>

NoChannel == [kind |-> "none", pair |-> {}, archived |-> FALSE]
AtRest == [pc |-> "rest", op |-> "none", by |-> 0, who |-> 0, c |-> 0, role |-> "", from |-> {}]
CanRoster(op) == renv.ops[op] > 0
SpendRoster(op) == renv' = [renv EXCEPT !.ops[op] = @ - 1]
rowsVars == <<wrole, owner, chan, crole>>
socketVars == <<asking, subs, wire, adrift>>

-----------------------------------------------------------------------------
(* Decisions.                                                              *)

isWorkspaceMember(u) == wrole[u] # ""
WorkspaceAdmin(u) == wrole[u] \in {"owner", "admin"}
ChannelRole(c, u) == crole[c][u]
isChannelMember(c, u) == ChannelRole(c, u) # ""
resolveChannel(c) == chan[c].kind # "none"
IsDM(c) == chan[c].kind \in {"dm", "group"}
canAdministerChannel(c, u) == ChannelRole(c, u) = "admin" \/ WorkspaceAdmin(u)
IsBlocked(u, v) == {<<u, v>>, <<v, u>>} \cap blocks # {}

validateRoleChange(by, who, role) == WorkspaceAdmin(by) /\ role # "owner" /\ wrole[who] \notin {"", "owner"}
validateRemoval(by, who) == WorkspaceAdmin(by) /\ wrole[who] \notin {"", "owner"}

MemberCounts(c) == [total |-> Cardinality({u \in Members : isChannelMember(c, u)}),
                    admins |-> Cardinality({u \in Members : ChannelRole(c, u) = "admin"})]
\* A DM's roster is fixed; the last admin does not leave others behind.
checkDeparture(c, who) ==
    /\ isChannelMember(c, who) /\ ~IsDM(c)
    /\ ChannelRole(c, who) = "admin" => MemberCounts(c).admins > 1 \/ MemberCounts(c).total = 1

\* What each request reads before its transaction.
Join(by, who, c) == isWorkspaceMember(by) /\ by = who /\ chan[c].kind = "public" /\ ~chan[c].archived
AddMemberRequest(by, who, c) ==
    /\ resolveChannel(c) /\ canAdministerChannel(c, by) /\ ~IsDM(c) /\ ~chan[c].archived
    /\ isWorkspaceMember(who)
Leave(by, who, c) == by = who /\ resolveChannel(c) /\ checkDeparture(c, who)
RemoveMemberRequest(by, who, c) ==
    by # who /\ resolveChannel(c) /\ canAdministerChannel(c, by) /\ checkDeparture(c, who)
SetArchivedRequest(by, c) == resolveChannel(c) /\ canAdministerChannel(c, by)
UpdateMemberRequest(by, who, role) == validateRoleChange(by, who, role)
EvictRequest(by, who) == validateRemoval(by, who)
TransferRequest(by, who) == wrole[by] = "owner" /\ by # who /\ isWorkspaceMember(who)
CreateDM(by, who) == isWorkspaceMember(by) /\ by # who /\ isWorkspaceMember(who) /\ ~IsBlocked(by, who)

Decides(op, by, who, c, role) ==
    CASE op = "join" -> Join(by, who, c)
      [] op = "add" -> AddMemberRequest(by, who, c)
      [] op = "leave" -> Leave(by, who, c) \/ RemoveMemberRequest(by, who, c)
      [] op = "archive" -> by = who /\ SetArchivedRequest(by, c)
      [] op = "role" -> UpdateMemberRequest(by, who, role)
      [] op = "evict" -> EvictRequest(by, who)
      [] op = "transfer" -> TransferRequest(by, who)
      [] op = "dm" -> CreateDM(by, who)

RolesOf(op) == CASE op \in {"add", "role"} -> {"admin", "member"}
                 [] op = "archive" -> {"archived", "open"}
                 [] OTHER -> {""}
ChannelsOf(op) == IF op \in {"join", "add", "leave", "archive"} THEN ChannelIds ELSE {0}

Decide(t, op, by, who, c, role) ==
    /\ CanRoster(op) /\ task[t] = AtRest /\ t \in renv.tasks
    /\ Decides(op, by, who, c, role)
    /\ SpendRoster(op)
    /\ task' = [task EXCEPT ![t] = [pc |-> "decided", op |-> op, by |-> by, who |-> who, c |-> c, role |-> role, from |-> {}]]
    /\ UNCHANGED rowsVars /\ UNCHANGED socketVars /\ UNCHANGED <<blocks, opened, evicted>>

-----------------------------------------------------------------------------
(* Transactions.                                                           *)

Job(t, op) == task[t].pc = "decided" /\ task[t].op = op
Ends(t) == task' = [task EXCEPT ![t] = AtRest]
Tells(t) == task' = [task EXCEPT ![t].pc = "telling"]
Elsewhere == UNCHANGED <<renv, blocks>> /\ UNCHANGED socketVars

\* INSERT ... ON CONFLICT DO NOTHING: an existing row keeps its role.
AddMember(t) ==
    /\ Job(t, "add") \/ Job(t, "join")
    /\ crole' = [crole EXCEPT ![task[t].c][task[t].who] =
                   IF @ # "" THEN @ ELSE IF task[t].op = "join" THEN "member" ELSE task[t].role]
    /\ Ends(t)
    /\ UNCHANGED <<wrole, owner, chan, opened, evicted>> /\ Elsewhere

\* Zero rows deleted: 404, and nobody is told.
RemoveMember(t) ==
    /\ Job(t, "leave")
    /\ crole' = [crole EXCEPT ![task[t].c][task[t].who] = ""]
    /\ IF isChannelMember(task[t].c, task[t].who) THEN Tells(t) ELSE Ends(t)
    /\ UNCHANGED <<wrole, owner, chan, opened, evicted>> /\ Elsewhere

SetArchived(t) ==
    /\ Job(t, "archive")
    /\ chan' = [chan EXCEPT ![task[t].c].archived = (task[t].role = "archived")]
    /\ IF task[t].role = "archived" THEN Tells(t) ELSE Ends(t)
    /\ UNCHANGED <<wrole, owner, crole, opened, evicted>> /\ Elsewhere

\* The predicate refuses the owner's row whatever was decided before.
UpdateMemberRole(t) ==
    /\ Job(t, "role")
    /\ wrole' = [wrole EXCEPT ![task[t].who] = IF @ \in {"", "owner"} THEN @ ELSE task[t].role]
    /\ Ends(t)
    /\ UNCHANGED <<owner, chan, crole, opened, evicted>> /\ Elsewhere

\* Workspace row and every channel row go together.
EvictMember(t) ==
    /\ Job(t, "evict")
    /\ IF wrole[task[t].who] \in {"", "owner"}
       THEN Ends(t) /\ UNCHANGED <<wrole, crole, evicted>>
       ELSE /\ wrole' = [wrole EXCEPT ![task[t].who] = ""]
            /\ crole' = [c \in ChannelIds |-> [crole[c] EXCEPT ![task[t].who] = ""]]
            /\ evicted' = evicted \cup {task[t].who}
            /\ task' = [task EXCEPT ![t].pc = "telling",
                                    ![t].from = {c \in ChannelIds : isChannelMember(c, task[t].who)}]
    /\ UNCHANGED <<owner, chan, opened>> /\ Elsewhere

\* Demote, promote and owner_id, or none of the three.
TransferOwnership(t) ==
    /\ Job(t, "transfer") /\ Ends(t)
    /\ IF wrole[task[t].by] = "owner" /\ isWorkspaceMember(task[t].who)
       THEN /\ wrole' = [wrole EXCEPT ![task[t].by] = "admin", ![task[t].who] = "owner"]
            /\ owner' = task[t].who
       ELSE UNCHANGED <<wrole, owner>>
    /\ UNCHANGED <<chan, crole, opened, evicted>> /\ Elsewhere

DmOf(pair) == {c \in ChannelIds : chan[c].kind = "dm" /\ chan[c].pair = pair}
NextId == {c \in ChannelIds : chan[c].kind = "none" /\ \A d \in ChannelIds : d < c => chan[d].kind # "none"}
\* A fault: the insert does not mind a channel of the same pair.
EnsureDMWithoutConflict(t) ==
    /\ Job(t, "dm") /\ Ends(t)
    /\ \E c \in NextId :
          /\ chan' = [chan EXCEPT ![c] = [kind |-> "dm", pair |-> {task[t].by, task[t].who}, archived |-> FALSE]]
          /\ crole' = [crole EXCEPT ![c] = [u \in Members |-> IF u \in {task[t].by, task[t].who} THEN "admin" ELSE ""]]
          /\ opened' = opened \cup {<<task[t].by, c>>}
    /\ UNCHANGED <<wrole, owner, evicted>> /\ Elsewhere
\* The pair's channel if there is one, as it stands; else a new channel and
\* its two participants.
EnsureDM(t) ==
    LET pair == {task[t].by, task[t].who} IN
    /\ Job(t, "dm") /\ Ends(t)
    /\ \/ /\ DmOf(pair) # {}
          /\ opened' = opened \cup {<<task[t].by, c>> : c \in DmOf(pair)}
          /\ UNCHANGED <<chan, crole>>
       \/ /\ DmOf(pair) = {}
          /\ \E c \in NextId :
                /\ chan' = [chan EXCEPT ![c] = [kind |-> "dm", pair |-> pair, archived |-> FALSE]]
                /\ crole' = [crole EXCEPT ![c] = [u \in Members |-> IF u \in pair THEN "admin" ELSE ""]]
                /\ opened' = opened \cup {<<task[t].by, c>>}
    /\ UNCHANGED <<wrole, owner, evicted>> /\ Elsewhere

\* A named channel and its creator's admin row.
CreateWithOwner(by, kind) ==
    /\ CanRoster("create") /\ isWorkspaceMember(by) /\ SpendRoster("create")
    /\ \E c \in NextId :
          /\ chan' = [chan EXCEPT ![c] = [kind |-> kind, pair |-> {}, archived |-> FALSE]]
          /\ crole' = [crole EXCEPT ![c][by] = "admin"]
    /\ UNCHANGED <<wrole, owner, blocks, task, opened, evicted>> /\ UNCHANGED socketVars

\* An accepted invitation.
Invited(u) ==
    /\ CanRoster("invite") /\ ~isWorkspaceMember(u) /\ SpendRoster("invite")
    /\ wrole' = [wrole EXCEPT ![u] = "member"]
    /\ UNCHANGED <<owner, chan, crole, blocks, task, opened, evicted>> /\ UNCHANGED socketVars
BlockUser(u, v) ==
    /\ CanRoster("block") /\ u # v /\ SpendRoster("block") /\ blocks' = blocks \cup {<<u, v>>}
    /\ UNCHANGED <<task, opened, evicted>> /\ UNCHANGED rowsVars /\ UNCHANGED socketVars
UnblockUser(u, v) ==
    /\ <<u, v>> \in blocks /\ blocks' = blocks \ {<<u, v>>}
    /\ UNCHANGED <<renv, task, opened, evicted>> /\ UNCHANGED rowsVars /\ UNCHANGED socketVars

-----------------------------------------------------------------------------
(* The hub.  A socket asks whether its user is a member, and records the   *)
(* subscription afterwards.                                                *)

AskToSubscribe(c, u, r) ==
    /\ CanRoster("subscribe") /\ isChannelMember(c, u) /\ <<u, c, r>> \notin subs \cup asking
    /\ SpendRoster("subscribe")
    /\ asking' = asking \cup {<<u, c, r>>}
    /\ UNCHANGED <<blocks, subs, wire, adrift, task, opened, evicted>> /\ UNCHANGED rowsVars
Subscribe(s) ==
    /\ s \in asking
    /\ asking' = asking \ {s} /\ subs' = subs \cup {s}
    /\ adrift' = IF isChannelMember(s[2], s[1]) THEN adrift \ {s} ELSE adrift \cup {s}
    /\ UNCHANGED <<renv, blocks, wire, task, opened, evicted>> /\ UNCHANGED rowsVars

\* The sweep every socket runs over its own subscriptions.
Lapsed(u, r) == {s \in subs : s[1] = u /\ s[3] = r /\ ~isChannelMember(s[2], u)}
\* A fault: the sweep is never started.
recheckSubscriptionsNever(u, r) == FALSE /\ UNCHANGED rvars
recheckSubscriptions(u, r) ==
    /\ Lapsed(u, r) # {} /\ subs' = subs \ Lapsed(u, r)
    /\ UNCHANGED <<renv, blocks, asking, wire, adrift, task, opened, evicted>> /\ UNCHANGED rowsVars

\* Whom the request that just committed must cut off, and from what.
Revoked(t) ==
    CASE task[t].op = "archive" -> Members \X {task[t].c}
      [] task[t].op = "evict" -> {task[t].who} \X task[t].from
      [] OTHER -> {<<task[t].who, task[t].c>>}
\* The sockets of a replica that a revocation is about.
revokeLocal(pairs, r) == {s \in subs : <<s[1], s[2]>> \in pairs /\ s[3] = r}

\* This process cuts its own sockets and publishes; a publish that fails is
\* one the wire loses.
emitMemberLeft(t) ==
    /\ task[t].pc = "telling" /\ Ends(t)
    /\ subs' = subs \ revokeLocal(Revoked(t), Home[t])
    /\ wire' = wire \cup {<<Revoked(t), r>> : r \in Replicas \ {Home[t]}}
    /\ UNCHANGED <<renv, blocks, asking, adrift, opened, evicted>> /\ UNCHANGED rowsVars
handleRevoke(w) ==
    /\ w \in wire /\ wire' = wire \ {w}
    /\ subs' = subs \ revokeLocal(w[1], w[2])
    /\ UNCHANGED <<renv, blocks, asking, adrift, task, opened, evicted>> /\ UNCHANGED rowsVars
LoseRevoke(w) ==
    /\ CanRoster("lose") /\ SpendRoster("lose")
    /\ w \in wire /\ wire' = wire \ {w}
    /\ adrift' = adrift \cup revokeLocal(w[1], w[2])
    /\ UNCHANGED <<blocks, asking, subs, task, opened, evicted>> /\ UNCHANGED rowsVars

\* A process dies with its sockets and its requests: what a request had
\* committed and not told yet, nobody is told.
Untold(r) == {s \in subs : \E t \in Tasks : Home[t] = r /\ task[t].pc = "telling" /\ <<s[1], s[2]>> \in Revoked(t)}
Die(r) ==
    /\ CanRoster("die") /\ SpendRoster("die")
    /\ task' = [t \in Tasks |-> IF Home[t] = r THEN AtRest ELSE task[t]]
    /\ subs' = {s \in subs : s[3] # r} /\ asking' = {s \in asking : s[3] # r}
    /\ wire' = {w \in wire : w[2] # r}
    /\ adrift' = adrift \cup Untold(r)
    /\ UNCHANGED <<blocks, opened, evicted>> /\ UNCHANGED rowsVars

-----------------------------------------------------------------------------

RosterInit ==
    /\ renv \in RosterEnvironments
    /\ wrole = renv.wrole /\ owner = CHOOSE u \in Members : renv.wrole[u] = "owner"
    /\ chan = renv.chan /\ crole = renv.crole
    /\ blocks = {} /\ asking = {} /\ subs = {} /\ wire = {} /\ adrift = {}
    /\ task = [t \in Tasks |-> AtRest] /\ opened = {} /\ evicted = {}

Operations == {"join", "add", "leave", "archive", "role", "evict", "transfer", "dm"}
RosterNext ==
    \/ \E t \in Tasks, op \in Operations : CanRoster(op) /\
          \E by \in Members, who \in Members, c \in ChannelsOf(op), role \in RolesOf(op) :
              Decide(t, op, by, who, c, role)
    \/ \E t \in Tasks : \/ AddMember(t) \/ RemoveMember(t) \/ SetArchived(t) \/ UpdateMemberRole(t)
                        \/ EvictMember(t) \/ TransferOwnership(t) \/ EnsureDM(t) \/ emitMemberLeft(t)
    \/ \E u \in Members, kind \in {"public", "private"} : CreateWithOwner(u, kind)
    \/ \E u \in Members : Invited(u)
    \/ \E u, v \in Members : BlockUser(u, v) \/ UnblockUser(u, v)
    \/ \E c \in ChannelIds, u \in Members, r \in Replicas : AskToSubscribe(c, u, r)
    \/ \E s \in asking : Subscribe(s)
    \/ \E u \in Members, r \in Replicas : recheckSubscriptions(u, r)
    \/ \E w \in wire : handleRevoke(w) \/ LoseRevoke(w)
    \/ \E r \in Replicas : Die(r)

\* Every socket's sweep runs on its own ticker.
RosterFairness == \A u \in Members, r \in Replicas : WF_rvars(recheckSubscriptions(u, r))
RosterSpec == RosterInit /\ [][RosterNext]_rvars /\ RosterFairness

-----------------------------------------------------------------------------
(* Properties.                                                             *)

\* One member holds the owner role and owner_id names that member, however
\* transfers, role changes and removals decided earlier overlap.
OneOwner == {u \in Members : wrole[u] = "owner"} = {owner}

\* Two people share one direct message, and both stay in it unless one was
\* removed from the workspace.
OneDmPerPair ==
    \A c \in ChannelIds : chan[c].kind = "dm" =>
        /\ DmOf(chan[c].pair) = {c}
        /\ \A u \in chan[c].pair \ evicted : isChannelMember(c, u)
        /\ \A u \in Members \ chan[c].pair : ~isChannelMember(c, u)

\* Once no request is on its way and no revocation is on the wire, a live
\* subscription belongs to a member: leaving, removal and eviction reach the
\* sockets of every replica.  Two exceptions are named: a subscription recorded
\* after the revocation that should have ended it, and one whose revocation
\* NATS lost or a dying process never sent.
LeaversHearNothing ==
    (\A t \in Tasks : task[t] = AtRest) /\ wire = {} => \A s \in subs \ adrift : isChannelMember(s[2], s[1])

\* Roles, direct messages and live subscriptions agree with the membership.
RosterSound == OneOwner /\ OneDmPerPair /\ LeaversHearNothing

\* Both exceptions end with the socket's own sweep.
SubscriptionsLapse == <>[](\A s \in subs : isChannelMember(s[2], s[1]))

\* What the eviction's comment asks for: nobody outside the workspace keeps
\* a membership row in one of its channels.
EvictedIsOut ==
    (\A t \in Tasks : task[t] = AtRest) => \A c \in ChannelIds, u \in Members : isChannelMember(c, u) => isWorkspaceMember(u)

\* What the DM route's comments ask for: the caller can use the conversation
\* it was answered with, for as long as the caller is not removed again.
OpenedIsUsable == \A o \in opened : isWorkspaceMember(o[1]) => isChannelMember(o[2], o[1])
=============================================================================
