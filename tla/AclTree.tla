------------------------------ MODULE AclTree ------------------------------
(***************************************************************************)
(* Object permissions (backend/internal/authz): the registry of objects    *)
(* and their materialised paths (acl_object), the grants (acl_grant), the  *)
(* access keys every listing filters by (acl_key), and the two authorities *)
(* that answer "may this subject read this object": Capability, which      *)
(* walks the grants of the path when one object is opened, and KeysFor     *)
(* with FilterReadable, which compare keys when many are listed.           *)
(*                                                                         *)
(* An id stands for the key made from it: a user for u-<id>, a link for    *)
(* g-<id>, the workspace for w-<id>, a channel for c-<id> and a folder for *)
(* f-<id>.  A path is the sequence of the objects on it.  The operators    *)
(* that write return the new tables; the module Drive puts them in         *)
(* transactions.                                                           *)
(***************************************************************************)
EXTENDS Integers, FiniteSets, Sequences, SequencesExt

CONSTANTS
    Folders, Files, Channels, Users, Links,
    Mailboxes, Conversations,  \* native objects of the mail, registered there
    WS,            \* the workspace, an object and a subject
    Root,          \* the folder that is the root of the workspace's Drive
    None,          \* no folder, no channel
    MaxPathDepth   \* segments a path may have

ASSUME AclTreeAssumption == Root \in Folders /\ MaxPathDepth \in Nat \ {0, 1}

VARIABLES
    env,      \* [role, chanType, chanRole, ...]: the memberships, which do not change here
    files,    \* files rows: [folder, conv, chan, owner, trashed], or NoRow
    aclPath,  \* acl_object: the path of an object, <<>> when it has no row
    aclGrant, \* acl_grant: the capability of each subject on each object
    aclKey    \* acl_key: the keys of each object

\* A table has no row: every column reads as absent.
NoRow == [owner |-> None, folder |-> None, conv |-> None, chan |-> None, trashed |-> FALSE]
Objects == {WS} \cup Channels \cup Mailboxes \cup Conversations \cup Folders \cup Files
Subjects == Users \cup Links \cup {WS}
Containers == Channels \cup Folders

-----------------------------------------------------------------------------
(* The vocabulary: object.go.                                               *)

CapNone == 0
CapRead == 1
CapComment == 2
CapWrite == 3
CapShare == 4
CapAdmin == 5

Implies(c, want) == c # CapNone /\ want # CapNone /\ c >= want

\* Types whose acl_object row is computed from other tables.
DerivedTypes == {WS} \cup Channels \cup Files

\* The key of the container an object stands in, if its parent is one.
ContainerKey(path) ==
    {k \in Containers : Len(path) > 1 /\ k = path[Len(path) - 1]}

BuildPath(parent, o) == Append(parent, o)

HasPrefixPath(child, parent) ==
    Len(parent) \in 1..Len(child) /\ SubSeq(child, 1, Len(parent)) = parent

\* The rows of acl_object whose path starts with a prefix.
Subtree(path, prefix) == {o \in Objects : HasPrefixPath(path[o], prefix)}

\* The objects whose path is a prefix of this one, itself included: each is the last
\* segment of its own path, so it is a segment of this one.
OnPath(p, path) == {p[i] : i \in {j \in 1..Len(p) : HasPrefixPath(p, path[p[j]])}}

\* The objects whose grants reach an object with this path; none past the depth limit.
AncestorPaths(p) == IF Len(p) \in 1..MaxPathDepth THEN OnPath(p, aclPath) ELSE {}

-----------------------------------------------------------------------------
(* What the derived tables should hold: the views acl_object_expected and   *)
(* acl_key_expected.                                                        *)

ExpectedPath(o, path, fs) ==
    CASE o = WS -> <<WS>>
      [] o \in Channels -> <<WS, o>>
      [] o \in Files ->
           IF fs[o] = NoRow THEN <<>>
           ELSE IF fs[o].folder # None /\ path[fs[o].folder] # <<>>
                  THEN Append(path[fs[o].folder], o)
                ELSE IF fs[o].conv # None /\ path[fs[o].conv] # <<>>
                  THEN Append(path[fs[o].conv], o)
                ELSE IF fs[o].chan # None THEN <<WS, fs[o].chan, o>>
                ELSE <<WS, o>>

ExpectedKeys(o, path, grant, fs) ==
    IF path[o] = <<>> THEN {}
    ELSE {k \in {WS} : o = WS \/ (o \in Channels /\ env.chanType[o] = "public")}
         \cup {u \in Users : o \in Channels /\ env.chanRole[o][u] # "none"}
         \cup ContainerKey(path[o])
         \cup {u \in Users : o \in Files /\ fs[o].owner = u /\ Len(path[o]) = 2}
         \cup {s \in Subjects : \E a \in OnPath(path[o], path) : grant[a][s] # CapNone}
         \cup {c \in Channels : o \in Files /\ fs[o].chan = c}

-----------------------------------------------------------------------------
(* Opening one object: Capability.                                          *)

IsWorkspaceMember(u) == env.role[u] # "none"

WorkspaceCapability(u) ==
    CASE env.role[u] \in {"owner", "admin"} -> CapAdmin
      [] env.role[u] = "member" -> CapWrite
      [] env.role[u] = "guest" -> CapRead
      [] OTHER -> CapNone

ChannelCapability(c, u) ==
    CASE env.chanRole[c][u] = "admin" -> CapAdmin
      [] env.chanRole[c][u] = "member" -> CapWrite
      [] env.chanType[c] = "public" /\ IsWorkspaceMember(u) -> CapRead
      [] OTHER -> CapNone

\* The path a check walks: computed for the derived types, stored for the others.
ResolvedPath(o) == IF o \in DerivedTypes THEN ExpectedPath(o, aclPath, files) ELSE aclPath[o]

\* What the membership tables alone imply.
DerivedCapability(s, o) ==
    IF s \notin Users THEN CapNone
    ELSE CASE o = WS -> WorkspaceCapability(s)
           [] o \in Channels -> ChannelCapability(o, s)
           [] o \in Files ->
                IF files[o].chan # None THEN ChannelCapability(files[o].chan, s)
                ELSE IF files[o].owner = s THEN CapAdmin ELSE CapNone
           [] OTHER -> CapNone

\* The best grant on the object or above it.  A grant to the workspace is worth no more
\* than the recipient's role.
GrantedCapability(s, o) ==
    LET on == AncestorPaths(ResolvedPath(o))
        best(x) == Max({aclGrant[a][x] : a \in on} \cup {CapNone})
    IN  IF s \in Users /\ IsWorkspaceMember(s)
          THEN Max({best(s), Min({best(WS), WorkspaceCapability(s)})})
          ELSE best(s)

Capability(s, o) ==
    IF ResolvedPath(o) = <<>> THEN CapNone
    ELSE Max({DerivedCapability(s, o), GrantedCapability(s, o)})

Can(s, o, want) == Implies(Capability(s, o), want)

-----------------------------------------------------------------------------
(* Listing many objects: KeysFor and FilterReadable.                        *)

ReadableChannelIDs(u) ==
    {c \in Channels : env.chanType[c] = "public" \/ env.chanRole[c][u] # "none"}

\* The folders that one of these keys opens.
NativeContainerKeys(keys) ==
    {f \in Folders : aclPath[f] # <<>> /\ aclKey[f] \cap keys # {}}

KeysFor(u) ==
    IF ~IsWorkspaceMember(u) THEN {}
    ELSE LET own == {WS, u} \cup ReadableChannelIDs(u)
         IN  own \cup NativeContainerKeys(own)

FilterReadable(keys, objs) == {o \in objs : aclKey[o] \cap keys # {}}

-----------------------------------------------------------------------------
(* The writers.  Each returns the tables it leaves behind.                  *)

\* rewriteSubtreeKeys: the keys of every object under a prefix are written again.
RewriteSubtreeKeys(path, grant, fs, prefix) ==
    [o \in Objects |-> IF o \in Subtree(path, prefix) THEN ExpectedKeys(o, path, grant, fs)
                       ELSE aclKey[o]]

\* materializeDerived: the row and the keys of one derived object.
MaterializedPath(o, fs) == [aclPath EXCEPT ![o] = ExpectedPath(o, aclPath, fs)]
MaterializedKeys(o, fs) ==
    [aclKey EXCEPT ![o] = ExpectedKeys(o, MaterializedPath(o, fs), aclGrant, fs)]

\* registerIn: the object's own row, under its parent's path.
RegisteredPath(o, parentPath) == [aclPath EXCEPT ![o] = BuildPath(parentPath, o)]

\* MoveInTx: one UPDATE over the rows under the old prefix.
MovedPath(o, newParentPath, rows) ==
    LET old == aclPath[o]
        new == BuildPath(newParentPath, o)
    IN  [x \in Objects |-> IF x \in rows /\ HasPrefixPath(aclPath[x], old)
                             THEN new \o SubSeq(aclPath[x], Len(old) + 1, Len(aclPath[x]))
                             ELSE aclPath[x]]

\* The depth the subtree of an object would have under a new parent.
GrownDepth(o, newParentPath) ==
    LET deepest == Max({Len(aclPath[x]) : x \in Subtree(aclPath, aclPath[o])})
    IN  deepest - Len(aclPath[o]) + Len(newParentPath) + 1

\* UnregisterTx: the row goes, and its grants and keys go with it.
UnregisteredPath(objs) == [o \in Objects |-> IF o \in objs THEN <<>> ELSE aclPath[o]]
UnregisteredGrant(objs) ==
    [o \in Objects |-> IF o \in objs THEN [s \in Subjects |-> CapNone] ELSE aclGrant[o]]
UnregisteredKey(objs) == [o \in Objects |-> IF o \in objs THEN {} ELSE aclKey[o]]

-----------------------------------------------------------------------------
(* The hourly reconcile.                                                    *)

RebuiltPath == [o \in Objects |-> IF o \in DerivedTypes THEN ExpectedPath(o, aclPath, files)
                                  ELSE aclPath[o]]

\* Mutant: stale keys are pruned, missing ones are not written.
RebuildPrunes ==
    \E path \in {RebuiltPath} :
        /\ aclPath' = path
        /\ aclGrant' = [o \in Objects |-> IF path[o] = <<>> THEN [s \in Subjects |-> CapNone]
                                          ELSE aclGrant[o]]
        /\ aclKey' = [o \in Objects |-> aclKey[o] \cap ExpectedKeys(o, path, aclGrant, files)]

Rebuild ==
    \E path \in {RebuiltPath} :
        /\ aclPath' = path
        /\ aclGrant' = [o \in Objects |-> IF path[o] = <<>> THEN [s \in Subjects |-> CapNone]
                                          ELSE aclGrant[o]]
        /\ aclKey' = [o \in Objects |-> ExpectedKeys(o, path, aclGrant, files)]

\* Verify finds nothing: no key is missing or extra, no derived object is misplaced.
Clean ==
    /\ aclPath = RebuiltPath
    /\ \A o \in Objects : aclKey[o] = ExpectedKeys(o, aclPath, aclGrant, files)
=============================================================================
