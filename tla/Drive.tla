------------------------------- MODULE Drive -------------------------------
(***************************************************************************)
(* The Drive: folders, files, trash, shares and links                      *)
(* (backend/internal/drive) on top of the ACL registry of AclTree.  A      *)
(* request first runs its handler's checks, then a READ COMMITTED          *)
(* transaction: it takes row locks (Lock), runs the statement whose        *)
(* snapshot decides what it will write (Scan), and commits once nobody     *)
(* holds a row it writes (Commit).  Any transaction may be rolled back, by *)
(* a failure or as a deadlock's victim, and then has changed nothing.      *)
(* The rows of drive_folders and acl_object of one folder are locked       *)
(* together, as one.                                                       *)
(***************************************************************************)
EXTENDS AclTree

CONSTANTS
    Procs,          \* requests in flight
    MaxFolderDepth, \* nesting of folders
    Environments    \* memberships, the initial tree, how many operations of each kind, and
                    \* the objects that shares, links and the trash name

VARIABLES
    folders,  \* drive_folders rows: [parent, trashed], or NoRow
    links,    \* drive_share_links rows: [obj, cap, max, uses, revoked], or NoRow
    sessions, \* links that have minted a session
    tx,       \* what each request is doing
    budget,   \* operations left
    strayed   \* folders that moved in the tree without their stored path

dvars == <<env, files, aclPath, aclGrant, aclKey, folders, links, sessions, tx, budget, strayed>>
tables == <<files, aclPath, aclGrant, aclKey, folders, links, sessions>>

Idle == [op |-> "idle", pc |-> "none", obj |-> None, to |-> None, sub |-> None,
         cap |-> CapNone, held |-> {}, rows |-> {}, keys |-> <<>>]

Trashed(f) == folders[f] # NoRow /\ folders[f].trashed
Live(f) == folders[f] # NoRow /\ ~folders[f].trashed

DriveInit ==
    /\ env \in Environments
    /\ folders = [f \in Folders |-> IF env.tree[f] = None THEN NoRow
                                    ELSE [parent |-> env.tree[f], trashed |-> FALSE, owner |-> WS]]
    /\ files = env.files
    /\ links = [l \in Links |-> NoRow]
    /\ sessions = {}
    /\ aclPath = [o \in Objects |-> env.path[o]]
    /\ aclGrant = [o \in Objects |-> [s \in Subjects |->
                     IF \/ o = Root /\ s = WS /\ env.path[Root] # <<>>
                        \/ o \in Mailboxes /\ s = env.mailOwner
                     THEN CapAdmin ELSE CapNone]]
    /\ aclKey = [o \in Objects |-> ExpectedKeys(o, aclPath, aclGrant, files)]
    /\ tx = [p \in Procs |-> Idle]
    /\ budget = env.ops
    /\ strayed = {}

-----------------------------------------------------------------------------
(* Requests and transactions.                                               *)

\* The rows that other transactions hold FOR UPDATE.
HeldByOthers(p) == UNION {tx[q].held : q \in Procs \ {p}}

\* A request can come in.
Free(p, op) == tx[p] = Idle /\ budget[op] > 0

\* A handler has passed its checks and starts its transaction.
Begin(p, op, r) ==
    /\ budget' = [budget EXCEPT ![op] = @ - 1]
    /\ tx' = [tx EXCEPT ![p] = r]
    /\ UNCHANGED tables

\* An operation that is one transaction without a lock to wait for.
AtOnce(op) == budget' = [budget EXCEPT ![op] = @ - 1] /\ UNCHANGED tx

At(p, ops, pc) == tx[p].op \in ops /\ tx[p].pc = pc

Advance(p, r) == tx' = [tx EXCEPT ![p] = r] /\ UNCHANGED <<tables, budget>>

Done(p) == tx' = [tx EXCEPT ![p] = Idle] /\ UNCHANGED budget

\* lockObject: SELECT ... FOR UPDATE on the rows of the objects; it waits for other holders.
LockObject(p, objs) == objs \cap HeldByOthers(p) = {}

\* WithTx rolls back: an error, a lost connection, a deadlock's victim.
Rollback(p) ==
    /\ tx[p] # Idle
    /\ Done(p)
    /\ UNCHANGED tables

Authorize(s, o, want) == Can(s, o, want)

-----------------------------------------------------------------------------
(* The root, folders and files.                                             *)

RootHandler(p, u) ==
    /\ Free(p, "root")
    /\ Authorize(u, WS, CapRead)
    /\ folders[Root] = NoRow
    /\ Begin(p, "root", [Idle EXCEPT !.op = "root", !.pc = "begin"])

\* EnsureRoot: the row, its registration and the workspace's grant, unless another
\* request was first.
EnsureRoot(p) ==
    /\ At(p, {"root"}, "begin")
    /\ IF folders[Root] # NoRow
         THEN UNCHANGED <<folders, aclPath, aclGrant, aclKey>>
         ELSE \E path \in {RegisteredPath(Root, <<WS>>)},
                 grant \in {[aclGrant EXCEPT ![Root][WS] = CapAdmin]} :
                  /\ folders' = [folders EXCEPT ![Root] =
                                    [parent |-> Root, trashed |-> FALSE, owner |-> WS]]
                  /\ aclPath' = path
                  /\ aclGrant' = grant
                  /\ aclKey' = RewriteSubtreeKeys(path, grant, files, path[Root])
    /\ Done(p)
    /\ UNCHANGED <<files, links, sessions>>

CreateFolderHandler(p, u, n, parent) ==
    /\ Free(p, "create")
    /\ folders[n] = NoRow
    /\ \A q \in Procs : tx[q].op = "create" => tx[q].obj # n
    /\ Authorize(u, parent, CapWrite)
    /\ Live(parent)
    /\ Len(aclPath[parent]) <= MaxFolderDepth
    /\ Begin(p, "create", [Idle EXCEPT !.op = "create", !.pc = "begin", !.obj = n, !.to = parent])

\* registerIn locks the parent, and refuses one that is gone or too deep.
RegisterLock(p) ==
    LET t == tx[p]
    IN  /\ At(p, {"create"}, "begin")
        /\ LockObject(p, {t.to})
        /\ aclPath[t.to] # <<>>
        /\ Len(aclPath[t.to]) + 1 <= MaxPathDepth
        /\ Advance(p, [t EXCEPT !.pc = "locked", !.held = {t.to}])

RegisterScan(p) ==
    LET t == tx[p]
        path == RegisteredPath(t.obj, aclPath[t.to])
    IN  /\ At(p, {"create"}, "locked")
        /\ Advance(p, [t EXCEPT !.pc = "scanned",
                                !.keys = ExpectedKeys(t.obj, path, aclGrant, files)])

CreateFolder(p) ==
    LET t == tx[p]
    IN  /\ At(p, {"create"}, "scanned")
        /\ folders' = [folders EXCEPT ![t.obj] =
                          [parent |-> t.to, trashed |-> FALSE, owner |-> WS]]
        /\ aclPath' = RegisteredPath(t.obj, aclPath[t.to])
        /\ aclKey' = [aclKey EXCEPT ![t.obj] = t.keys]
        /\ Done(p)
        /\ UNCHANGED <<files, aclGrant, links, sessions>>

CreateFileHandler(p, u, x, f) ==
    /\ Free(p, "newfile")
    /\ files[x] = NoRow
    /\ \A q \in Procs : tx[q].op = "newfile" => tx[q].obj # x
    /\ Authorize(u, f, CapWrite)
    /\ Live(f)
    /\ Begin(p, "newfile", [Idle EXCEPT !.op = "newfile", !.pc = "begin", !.obj = x, !.to = f,
                                        !.sub = u])

\* The folder was checked before the transaction; its row must still exist, no more.
CreateFile(p) ==
    LET t == tx[p]
        fs == [files EXCEPT ![t.obj] =
                  [folder |-> t.to, conv |-> None, chan |-> None, owner |-> t.sub, trashed |-> FALSE]]
    IN  /\ At(p, {"newfile"}, "begin")
        /\ folders[t.to] # NoRow
        /\ LockObject(p, {t.to})
        /\ files' = fs
        /\ aclPath' = MaterializedPath(t.obj, fs)
        /\ aclKey' = MaterializedKeys(t.obj, fs)
        /\ Done(p)
        /\ UNCHANGED <<folders, aclGrant, links, sessions>>

-----------------------------------------------------------------------------
(* Moves.                                                                   *)

FoldersUnder(f) == Subtree(aclPath, aclPath[f]) \cap Folders

MoveFolderHandler(p, u, x, y) ==
    /\ Free(p, "move")
    /\ x # y
    /\ Authorize(u, x, CapWrite)
    /\ Authorize(u, y, CapWrite)
    /\ Begin(p, "move", [Idle EXCEPT !.op = "move", !.pc = "begin", !.obj = x, !.to = y])

\* Mutant: the rows are checked and not locked.
MoveFolderNoLock(p) ==
    LET t == tx[p]
    IN  /\ At(p, {"move"}, "begin")
        /\ t.obj # Root
        /\ Live(t.obj)
        /\ Live(t.to)
        /\ aclPath[t.obj] # <<>> /\ aclPath[t.to] # <<>>
        /\ ~HasPrefixPath(aclPath[t.to], aclPath[t.obj])
        /\ GrownDepth(t.obj, aclPath[t.to]) <= MaxPathDepth
        /\ Advance(p, [t EXCEPT !.pc = "locked"])

\* MoveFolder and MoveInTx lock the folder and its new parent, in id order, and check them.
MoveFolderLock(p) ==
    LET t == tx[p]
    IN  /\ At(p, {"move"}, "begin")
        /\ LockObject(p, {t.obj, t.to})
        /\ t.obj # Root
        /\ Live(t.obj)
        /\ Live(t.to)
        /\ aclPath[t.obj] # <<>> /\ aclPath[t.to] # <<>>
        /\ ~HasPrefixPath(aclPath[t.to], aclPath[t.obj])
        /\ GrownDepth(t.obj, aclPath[t.to]) <= MaxPathDepth
        /\ Advance(p, [t EXCEPT !.pc = "locked", !.held = {t.obj, t.to}])

\* The UPDATE of the subtree starts: the rows it will touch are the ones it sees now.
MoveScan(p) ==
    /\ At(p, {"move"}, "locked")
    /\ Advance(p, [tx[p] EXCEPT !.pc = "scanned", !.rows = Subtree(aclPath, aclPath[tx[p].obj])])

\* The UPDATE has every row; the keys are rewritten, the folder gets its parent, and the
\* transaction commits.  What was committed below the folder since the UPDATE started keeps
\* the old path.
MoveFolder(p) ==
    LET t == tx[p]
    IN  /\ At(p, {"move"}, "scanned")
        /\ t.rows \cap HeldByOthers(p) = {}
        /\ \E path \in {MovedPath(t.obj, aclPath[t.to], t.rows)} :
             /\ aclPath' = path
             /\ aclKey' = RewriteSubtreeKeys(path, aclGrant, files, path[t.obj])
        /\ folders' = [folders EXCEPT ![t.obj].parent = t.to]
        /\ strayed' = strayed \cup (FoldersUnder(t.obj) \ t.rows)
        /\ Done(p)
        /\ UNCHANGED <<files, aclGrant, links, sessions>>

MoveFileHandler(p, u, x, f) ==
    /\ Free(p, "movefile")
    /\ files[x] # NoRow
    /\ Authorize(u, x, CapWrite)
    /\ Authorize(u, f, CapWrite)
    /\ Live(f)
    /\ Begin(p, "movefile", [Idle EXCEPT !.op = "movefile", !.pc = "begin", !.obj = x, !.to = f])

MoveFile(p) ==
    LET t == tx[p]
        fs == [files EXCEPT ![t.obj].folder = t.to]
    IN  /\ At(p, {"movefile"}, "begin")
        /\ files[t.obj] # NoRow
        /\ ~files[t.obj].trashed
        /\ folders[t.to] # NoRow
        /\ LockObject(p, {t.to})
        /\ files' = fs
        /\ aclPath' = MaterializedPath(t.obj, fs)
        /\ aclKey' = MaterializedKeys(t.obj, fs)
        /\ Done(p)
        /\ UNCHANGED <<folders, aclGrant, links, sessions>>

-----------------------------------------------------------------------------
(* Trash, restore and purge.                                                *)

TrashFolderHandler(u, f) == folders[f] # NoRow /\ Authorize(u, f, CapWrite)

\* The folder, the folders under its path and their files are marked.
TrashFolder(p, u, f) ==
    /\ Free(p, "trash")
    /\ TrashFolderHandler(u, f)
    /\ f # Root
    /\ LockObject(p, FoldersUnder(f))
    /\ AtOnce("trash")
    /\ folders' = [x \in Folders |-> IF x \in FoldersUnder(f) /\ folders[x] # NoRow
                                       THEN [folders[x] EXCEPT !.trashed = TRUE] ELSE folders[x]]
    /\ files' = [x \in Files |-> IF files[x] # NoRow /\ files[x].folder \in FoldersUnder(f)
                                   THEN [files[x] EXCEPT !.trashed = TRUE] ELSE files[x]]
    /\ UNCHANGED <<aclPath, aclGrant, aclKey, links, sessions>>

TrashFileHandler(u, x) == files[x] # NoRow /\ Authorize(u, x, CapWrite)

TrashFile(u, x) ==
    /\ budget["trash"] > 0
    /\ TrashFileHandler(u, x)
    /\ ~files[x].trashed
    /\ AtOnce("trash")
    /\ files' = [files EXCEPT ![x].trashed = TRUE]
    /\ UNCHANGED <<folders, aclPath, aclGrant, aclKey, links, sessions>>

\* Where a trashed object goes back to: its folder, or the root when that is not usable.
RestoreTarget(parent) == IF parent # None /\ Live(parent) THEN parent ELSE Root

RestoreHandler(u, o) == Authorize(u, o, CapWrite)

RestoreFile(u, x) ==
    LET target == RestoreTarget(files[x].folder)
        fs == [files EXCEPT ![x].folder = target, ![x].trashed = FALSE]
    IN  /\ budget["restore"] > 0
        /\ files[x] # NoRow
        /\ RestoreHandler(u, x)
        /\ files[x].trashed
        /\ AtOnce("restore")
        /\ files' = fs
        /\ aclPath' = MaterializedPath(x, fs)
        /\ aclKey' = MaterializedKeys(x, fs)
        /\ UNCHANGED <<folders, aclGrant, links, sessions>>

\* The folders and files under its path come back with it.  When it is relocated, MoveTx
\* registers the folder again: its own path and its own keys, not those of the folders in it.
RestoreFolder(p, u, f) ==
    LET parent == folders[f].parent
        target == RestoreTarget(parent)
    IN  /\ Free(p, "restore")
        /\ Trashed(f)
        /\ RestoreHandler(u, f)
        /\ LockObject(p, FoldersUnder(f) \cup (IF target = parent THEN {} ELSE {target}))
        /\ AtOnce("restore")
        /\ folders' = [x \in Folders |->
                         IF x = f THEN [folders[x] EXCEPT !.trashed = FALSE, !.parent = target]
                         ELSE IF x \in FoldersUnder(f) /\ folders[x] # NoRow
                                THEN [folders[x] EXCEPT !.trashed = FALSE] ELSE folders[x]]
        /\ files' = [x \in Files |-> IF files[x] # NoRow /\ files[x].folder \in FoldersUnder(f)
                                       THEN [files[x] EXCEPT !.trashed = FALSE] ELSE files[x]]
        /\ IF target = parent THEN UNCHANGED <<aclPath, aclKey, strayed>>
           ELSE \E path \in {RegisteredPath(f, aclPath[target])} :
                  /\ aclPath' = path
                  /\ aclKey' = RewriteSubtreeKeys(path, aclGrant, files, path[f])
                  /\ strayed' = strayed \cup (FoldersUnder(f) \ {f})
        /\ UNCHANGED <<aclGrant, links, sessions>>

TrashedFiles == {x \in Files : files[x] # NoRow /\ files[x].trashed}

\* Purge starts by listing the trashed files: all of them for EmptyTrash ...
EmptyTrashHandler(p, u) ==
    /\ Free(p, "purge")
    /\ Authorize(u, WS, CapAdmin)
    /\ Begin(p, "purge", [Idle EXCEPT !.op = "purge", !.pc = "files", !.rows = TrashedFiles])

\* ... the ones whose retention has passed for the worker.
PurgeDue(p) ==
    /\ Free(p, "purge")
    /\ \E rows \in SUBSET TrashedFiles :
        Begin(p, "purge", [Idle EXCEPT !.op = "purge", !.pc = "files", !.rows = rows])

\* The listed files are deleted, whatever they are by then, and their acl rows stay for
\* the reconcile.
PurgeFiles(p) ==
    /\ At(p, {"purge"}, "files")
    /\ files' = [x \in Files |-> IF x \in tx[p].rows THEN NoRow ELSE files[x]]
    /\ tx' = [tx EXCEPT ![p] = [@ EXCEPT !.pc = "leaves", !.rows = {}]]
    /\ UNCHANGED <<budget, folders, aclPath, aclGrant, aclKey, links, sessions>>

Leaf(f) ==
    /\ \A g \in Folders \ {f} : folders[g] # NoRow => folders[g].parent # f
    /\ \A x \in Files : files[x] # NoRow => files[x].folder # f

\* One level of folders: the trashed leaves, as this statement sees them; none ends the purge.
PurgeSelectFolders(p) ==
    LET leaves == {f \in Folders \ {Root} : Trashed(f) /\ Leaf(f)}
    IN  /\ At(p, {"purge"}, "leaves")
        /\ \E rows \in SUBSET leaves :
             IF rows = {} THEN Done(p) /\ UNCHANGED tables
             ELSE Advance(p, [tx[p] EXCEPT !.pc = "folders", !.rows = rows])

\* The registrations and the rows go in one transaction; a row that has gained a child is
\* refused by the foreign key, and the transaction fails.
PurgeFolders(p) ==
    LET rows == tx[p].rows
    IN  /\ At(p, {"purge"}, "folders")
        /\ LockObject(p, rows)
        /\ \A f \in rows : Leaf(f)
        /\ folders' = [f \in Folders |-> IF f \in rows THEN NoRow ELSE folders[f]]
        /\ aclPath' = UnregisteredPath(rows)
        /\ aclGrant' = UnregisteredGrant(rows)
        /\ aclKey' = UnregisteredKey(rows)
        /\ tx' = [tx EXCEPT ![p] = [@ EXCEPT !.pc = "leaves", !.rows = {}]]
        /\ UNCHANGED <<budget, files, links, sessions>>

-----------------------------------------------------------------------------
(* Shares and links.                                                        *)

ShareTarget(u, o) == Authorize(u, o, CapShare)

PutShareHandler(p, u, o, s, cap) ==
    /\ Free(p, "share")
    /\ ShareTarget(u, o)
    /\ Implies(Capability(u, o), cap)
    /\ IsWorkspaceMember(s)
    /\ Begin(p, "share", [Idle EXCEPT !.op = "share", !.pc = "begin", !.obj = o, !.sub = s,
                                      !.cap = cap])

DeleteShareHandler(p, u, o, s) ==
    /\ Free(p, "share")
    /\ ShareTarget(u, o)
    /\ Begin(p, "share", [Idle EXCEPT !.op = "unshare", !.pc = "begin", !.obj = o, !.sub = s])

\* A link grants read or comment, never more.
CreateLinkHandler(p, u, o, l, cap) ==
    /\ Free(p, "link")
    /\ links[l] = NoRow
    /\ \A q \in Procs : tx[q].op = "link" => tx[q].sub # l
    /\ cap \in {CapRead, CapComment}
    /\ ShareTarget(u, o)
    /\ Begin(p, "link", [Idle EXCEPT !.op = "link", !.pc = "begin", !.obj = o, !.sub = l,
                                     !.cap = cap])

RevokeLinkHandler(p, u, l) ==
    /\ Free(p, "unlink")
    /\ links[l] # NoRow
    /\ Authorize(u, links[l].obj, CapShare)
    /\ Begin(p, "unlink", [Idle EXCEPT !.op = "unlink", !.pc = "begin", !.obj = links[l].obj,
                                       !.sub = l])

GrantOps == {"share", "unshare", "link", "unlink"}

\* grantIn and revokeIn lock the object; a grant needs it to be there, a revocation does not.
GrantLock(p) ==
    LET t == tx[p]
    IN  /\ At(p, GrantOps, "begin")
        /\ LockObject(p, {t.obj})
        /\ t.op \in {"share", "link"} => aclPath[t.obj] # <<>>
        /\ Advance(p, [t EXCEPT !.pc = "locked", !.held = {t.obj}])

GrantedTable(t) == [aclGrant EXCEPT ![t.obj][t.sub] = t.cap]

\* rewriteSubtreeKeys reads the paths and the grants that are committed now.
GrantScan(p) ==
    LET t == tx[p]
        rows == Subtree(aclPath, aclPath[t.obj])
    IN  /\ At(p, GrantOps, "locked")
        /\ Advance(p, [t EXCEPT !.pc = "scanned", !.rows = rows,
                                !.keys = [o \in rows |-> ExpectedKeys(o, aclPath, GrantedTable(t), files)]])

\* The keys are inserted once no other transaction holds the rows they refer to.
GrantCommit(p) ==
    LET t == tx[p]
    IN  /\ At(p, GrantOps, "scanned")
        /\ t.rows \cap HeldByOthers(p) = {}
        /\ \A o \in t.rows : aclPath[o] # <<>>
        /\ aclGrant' = GrantedTable(t)
        /\ aclKey' = [o \in Objects |-> IF o \in t.rows THEN t.keys[o] ELSE aclKey[o]]
        /\ links' = CASE t.op = "link" ->
                           [links EXCEPT ![t.sub] = [obj |-> t.obj, max |-> 1, uses |-> 0,
                                                     revoked |-> FALSE, owner |-> WS]]
                      [] t.op = "unlink" -> [links EXCEPT ![t.sub].revoked = TRUE]
                      [] OTHER -> links
        /\ Done(p)
        /\ UNCHANGED <<files, aclPath, folders, sessions>>

\* ResolveLink reads the link and refuses one that is revoked or used up.
ResolveLinkHandler(p, l) ==
    /\ Free(p, "resolve")
    /\ links[l] # NoRow
    /\ ~links[l].revoked
    /\ links[l].uses < links[l].max
    /\ Begin(p, "resolve", [Idle EXCEPT !.op = "resolve", !.pc = "begin", !.sub = l])

\* Then it counts the use, and mints a session.
ResolveLink(p) ==
    LET l == tx[p].sub
    IN  /\ At(p, {"resolve"}, "begin")
        /\ links' = [links EXCEPT ![l].uses = @ + 1]
        /\ sessions' = sessions \cup {l}
        /\ Done(p)
        /\ UNCHANGED <<files, aclPath, aclGrant, aclKey, folders>>

\* verifyLinkSession: a session is only as good as its link is now.
LinkSessionValid(l) == l \in sessions /\ ~links[l].revoked

\* What a visitor with a link session may open.
LinkMayOpen(l, o) == LinkSessionValid(l) /\ Authorize(l, o, CapRead)

-----------------------------------------------------------------------------

Reconcile ==
    /\ ~Clean
    /\ Rebuild
    /\ UNCHANGED <<files, folders, links, sessions, tx, budget, strayed>>

Handlers(p) ==
    \E u \in Users :
       \/ RootHandler(p, u) \/ EmptyTrashHandler(p, u)
       \/ \E f, g \in Folders : CreateFolderHandler(p, u, f, g) \/ MoveFolderHandler(p, u, f, g)
       \/ \E x \in Files, f \in Folders : CreateFileHandler(p, u, x, f) \/ MoveFileHandler(p, u, x, f)
       \/ \E f \in Folders \cap env.names : TrashFolder(p, u, f)
       \/ \E x \in Files : TrashFile(u, x) \/ RestoreFile(u, x)
       \/ \E o \in env.names, s \in Users, c \in {CapRead, CapShare} :
             PutShareHandler(p, u, o, s, c)
       \/ \E o \in env.names, s \in Users : DeleteShareHandler(p, u, o, s)
       \/ \E o \in env.names, l \in Links, c \in {CapRead, CapComment} :
             CreateLinkHandler(p, u, o, l, c)
       \/ \E l \in Links : RevokeLinkHandler(p, u, l) \/ ResolveLinkHandler(p, l)

Steps(p) ==
    \/ EnsureRoot(p)
    \/ RegisterLock(p) \/ RegisterScan(p) \/ CreateFolder(p)
    \/ CreateFile(p) \/ MoveFile(p)
    \/ MoveFolderLock(p) \/ MoveScan(p)
    \/ PurgeFiles(p) \/ PurgeSelectFolders(p) \/ PurgeFolders(p)
    \/ GrantLock(p) \/ GrantScan(p) \/ GrantCommit(p)
    \/ ResolveLink(p)

\* What a transaction does next, and the handlers' requests.
Progress(p) == MoveFolder(p) \/ ((Steps(p) \/ Rollback(p)) /\ UNCHANGED strayed)
Requested(p) == \/ (Handlers(p) \/ PurgeDue(p)) /\ UNCHANGED strayed
                \/ \E u \in Users, f \in Folders \cap env.names : RestoreFolder(p, u, f)

DriveNext ==
    /\ \/ \E p \in Procs : Requested(p) \/ Progress(p)
       \/ Reconcile
    /\ UNCHANGED env

DriveSpec == DriveInit /\ [][DriveNext]_dvars

\* A transaction ends, by itself or by the database, and the worker reconciles every hour.
DriveFairness ==
    /\ \A p \in Procs : WF_dvars(Progress(p) /\ UNCHANGED env)
    /\ WF_dvars(Reconcile /\ UNCHANGED env)
DriveFairSpec == DriveSpec /\ DriveFairness

-----------------------------------------------------------------------------
(* The folders a breadth-first walk of the tree finds from the root.        *)
RECURSIVE Found(_)
Found(s) ==
    LET more == s \cup {f \in Folders : folders[f] # NoRow /\ folders[f].parent \in s}
    IN  IF more = s THEN s ELSE Found(more)

(* No folder is lost: every folder, trashed or not, hangs from the root,    *)
(* so that Children or the trash listing shows the way to it.  The cycle    *)
(* check of MoveFolder, made under the row locks, is there for this.        *)
EverythingFindable ==
    \A f \in Folders : folders[f] # NoRow => f \in Found({Root})

(* ... and it suffices against any interleaving of requests as long as no   *)
(* folder strayed from its stored path, which the cycle check compares.     *)
FindableWhilePathsHold == strayed = {} => EverythingFindable

(* A folder's stored path is its parent's and itself, whatever is created,  *)
(* moved, trashed and purged at the same time, except for what a move or a  *)
(* relocating restore leaves behind: a folder that was committed below a    *)
(* folder after its move had chosen the rows to rewrite, and the folders    *)
(* inside a folder that was restored to the root.  Nothing repairs these.   *)
PathsFollowTree ==
    \A f \in Folders \ strayed : folders[f] # NoRow =>
        aclPath[f] = IF f = Root THEN <<WS, Root>> ELSE Append(aclPath[folders[f].parent], f)

(* The tree and the ACL registry describe the same folders: a folder has an *)
(* ACL path exactly while it has a row, and its parent has both.  Creation, *)
(* purge and a purge racing a creation all keep the two together.           *)
RegistryMatchesTree ==
    \A f \in Folders :
        /\ folders[f] # NoRow <=> aclPath[f] # <<>>
        /\ folders[f] # NoRow => folders[folders[f].parent] # NoRow

(* The two authorities agree: once the reconcile has nothing left to do, a  *)
(* member of the workspace, or a link, is listed an object exactly when it  *)
(* may open it.                                                             *)
ListingMatchesOpening ==
    Clean =>
      /\ \A u \in {v \in Users : IsWorkspaceMember(v)} :
            FilterReadable(KeysFor(u), Objects) = {o \in Objects : Can(u, o, CapRead)}
      /\ \A l \in Links :
            FilterReadable({l}, Objects) = {o \in Objects : Can(l, o, CapRead)}

(* A visitor with a link stays inside what was shared: whatever is created, *)
(* moved and restored meanwhile, the link opens only objects that hang      *)
(* below its object in the tree now, or in a folder that strayed.           *)
Below(f) == {g \in Found({f}) : folders[g] # NoRow}
            \cup {x \in Files : files[x] # NoRow /\ files[x].folder \in Found({f})}
LinkStaysInside ==
    \A l \in Links, o \in Folders \cup Files : LinkMayOpen(l, o) =>
        o = links[l].obj \/ o \in Below(links[l].obj) \/ \E f \in strayed : o \in Below(f)

(* Tree, registry, listings and links agree.                                *)
DriveSound ==
    FindableWhilePathsHold /\ PathsFollowTree /\ RegistryMatchesTree /\ ListingMatchesOpening /\ LinkStaysInside

(* MoveInTx: the UPDATE carries "the whole subtree": a link opens only what *)
(* is below its object.  It does not when a folder is created in the        *)
(* subtree while it moves: that folder stays readable by the old link.      *)
LinkOpensOnlyItsSubtree ==
    \A l \in Links, o \in Folders \cup Files :
        LinkMayOpen(l, o) => o = links[l].obj \/ o \in Below(links[l].obj)

(* Whatever races leave behind in the keys, the reconcile repairs: once the *)
(* requests stop, the keys are the expected ones for good.                  *)
KeysConverge == <>[]Clean
=============================================================================
