------------------------------- MODULE MCReach -------------------------------
(***************************************************************************)
(* Who reaches what: the Drive with its ACL tree, and the membership of    *)
(* the workspace and its channels. Each behaviour runs one of them while   *)
(* the other has no operation to take.                                     *)
(***************************************************************************)
EXTENDS Drive, Roster

(* The Drive. Each environment gives two requests operations that meet.    *)

\* Moves with moves; moves and creations with shares and links; trash, restore and
\* purge with creations; files; and the creation of the root.
OpKinds == {"root", "create", "newfile", "move", "movefile", "trash", "restore", "purge",
            "share", "link", "unlink", "resolve"}
NoOps == [k \in OpKinds |-> 0]

ABC == [f \in Folders |-> CASE f = "r" -> "r" [] f \in {"a", "b"} -> "r" [] f = "c" -> "a"
                            [] OTHER -> None]
Chain == [f \in Folders |-> CASE f = "r" -> "r" [] f = "a" -> "r" [] f = "c" -> "a" [] f = "n" -> "c"
                              [] OTHER -> None]
NoFiles == [x \in Files |-> NoRow]
Row(f, cv, ch, u) == [folder |-> f, conv |-> cv, chan |-> ch, owner |-> u, trashed |-> FALSE]
OneFile == [x \in Files |-> IF x = "x" THEN Row("c", None, None, "gus") ELSE Row(None, None, "ch", "ann")]
Loose == [x \in Files |-> IF x = "x" THEN Row(None, None, None, "gus") ELSE NoRow]
Attached == [x \in Files |-> IF x = "x" THEN Row(None, "cv", None, "ann") ELSE NoRow]
PathTo(tree, fs) ==
    LET fp == [f \in Folders |->
                 CASE tree[f] = None -> <<>>
                   [] f = "r" -> <<WS, "r">>
                   [] tree[f] = "r" -> <<WS, "r", f>>
                   [] tree[tree[f]] = "r" -> <<WS, "r", tree[f], f>>
                   [] OTHER -> <<WS, "r", tree[tree[f]], tree[f], f>>]
        mail == [o \in Mailboxes \cup Conversations |-> IF o = "mb" THEN <<WS, o>> ELSE <<WS, "mb", o>>]
        known == [o \in Objects |-> IF o \in Folders THEN fp[o] ELSE IF o \in DOMAIN mail THEN mail[o] ELSE <<>>]
    IN  [o \in Objects |-> IF o \in DerivedTypes THEN ExpectedPath(o, known, fs) ELSE known[o]]

Scene(tree, fs, names, ops) ==
    [role |-> [u \in Users |-> CASE u = "ann" -> "owner" [] u = "gus" -> "guest" [] OTHER -> "none"],
     chanType |-> [c \in Channels |-> IF fs = Loose THEN "public" ELSE "private"],
     chanRole |-> [c \in Channels |-> [u \in Users |-> IF u = "ann" THEN "member" ELSE "none"]],
     mailOwner |-> "ann", tree |-> tree, files |-> fs, path |-> PathTo(tree, fs), names |-> names, ops |-> ops]

MCEnvironments ==
    {Scene(ABC, NoFiles, {}, [NoOps EXCEPT !["move"] = 2]),
     Scene(ABC, NoFiles, {"a"}, [NoOps EXCEPT !["move"] = 2, !["link"] = 1, !["unlink"] = 1,
                                              !["resolve"] = 1]),
     Scene(ABC, NoFiles, {"a"}, [NoOps EXCEPT !["create"] = 1, !["share"] = 2]),
     Scene(ABC, NoFiles, {"c"}, [NoOps EXCEPT !["create"] = 1, !["trash"] = 1, !["purge"] = 1,
                                              !["restore"] = 1]),
     Scene(ABC, OneFile, {"a", "c"}, [NoOps EXCEPT !["movefile"] = 1, !["trash"] = 1,
                                                   !["restore"] = 1, !["purge"] = 1]),
     Scene(Chain, NoFiles, {"a"}, [NoOps EXCEPT !["move"] = 1, !["create"] = 1, !["link"] = 1, !["resolve"] = 1]),
     Scene(ABC, Attached, {"b"}, [NoOps EXCEPT !["movefile"] = 1, !["trash"] = 1, !["restore"] = 1, !["move"] = 1]),
     Scene(ABC, Loose, {"a"}, [NoOps EXCEPT !["newfile"] = 1, !["move"] = 1, !["trash"] = 1]),
     Scene([f \in Folders |-> None], Loose, {}, [NoOps EXCEPT !["root"] = 2, !["newfile"] = 1])}

\* Trash, restore and move, one request at a time.
RestoreThenMove ==
    {Scene(Chain, NoFiles, {"a", "c"}, [NoOps EXCEPT !["trash"] = 1, !["restore"] = 1, !["move"] = 1])}

-----------------------------------------------------------------------------
(* The roster: an owner, an admin and a member, and two or three channels. *)

NoRosterOps == [k \in Operations \cup {"create", "invite", "block", "subscribe", "lose", "die"} |-> 0]
Roles == [u \in Members |-> IF u = 1 THEN "owner" ELSE IF u = 2 THEN "admin" ELSE "member"]
NoChannels == [c \in ChannelIds |-> NoChannel]
Nobody == [c \in ChannelIds |-> [u \in Members |-> ""]]
Room == [NoChannels EXCEPT ![1].kind = "private"]
Pair == [NoChannels EXCEPT ![1] = [kind |-> "dm", pair |-> {2, 3}, archived |-> FALSE]]
Of(who) == [Nobody EXCEPT ![1] = [u \in Members |-> IF u \in who THEN "admin" ELSE ""]]
House(rows, roles, tasks, ops) == [wrole |-> Roles, chan |-> rows, crole |-> roles, tasks |-> tasks, ops |-> ops]

\* The first request is served by the first of two processes, the second by the second.
MCHome == [t \in Tasks |-> t]

MCRosterEnvironments ==
    {House(NoChannels, Nobody, Tasks, [NoRosterOps EXCEPT !["transfer"] = 2, !["role"] = 1, !["evict"] = 1]),
     House(NoChannels, Nobody, Tasks, [NoRosterOps EXCEPT !["dm"] = 2, !["block"] = 1, !["leave"] = 1, !["create"] = 1]),
     House(Pair, Of({2, 3}), Tasks, [NoRosterOps EXCEPT !["dm"] = 1, !["evict"] = 1, !["invite"] = 1, !["leave"] = 1]),
     House(Room, Of({2, 3}), Tasks, [NoRosterOps EXCEPT !["subscribe"] = 2, !["leave"] = 1, !["lose"] = 1]),
     House(Room, Of({2, 3}), Tasks, [NoRosterOps EXCEPT !["subscribe"] = 1, !["leave"] = 1, !["archive"] = 1]),
     House(Room, Of({2, 3}), Tasks, [NoRosterOps EXCEPT !["subscribe"] = 1, !["evict"] = 1, !["add"] = 1, !["die"] = 1]),
     House(NoChannels, Nobody, Tasks, [NoRosterOps EXCEPT !["create"] = 1, !["join"] = 1, !["leave"] = 1, !["archive"] = 1])}

\* A participant is removed from the workspace and comes back.
ReturnEnvironments ==
    {House(Pair, Of({2, 3}), Tasks, [NoRosterOps EXCEPT !["dm"] = 1, !["evict"] = 1, !["invite"] = 1])}
AddEnvironments ==
    {House(Room, Of({2}), Tasks, [NoRosterOps EXCEPT !["add"] = 1, !["evict"] = 1])}

-----------------------------------------------------------------------------
(* The two of them.                                                        *)

DriveAtRest == Scene([f \in Folders |-> None], NoFiles, {}, NoOps)
RosterAtRest == House(NoChannels, Nobody, Tasks, NoRosterOps)
ReachDrives == MCEnvironments \cup {DriveAtRest}
ReachRosters == MCRosterEnvironments \cup {RosterAtRest}

ReachInit == DriveInit /\ RosterInit /\ (env = DriveAtRest <=> renv # RosterAtRest)
ReachNext == (DriveNext /\ UNCHANGED rvars) \/ (RosterNext /\ UNCHANGED dvars)
ReachSpec == ReachInit /\ [][ReachNext]_<<dvars, rvars>> /\ DriveFairness /\ RosterFairness

\* Only the Drive, for MCDriveRestore.cfg.
RosterResting == {RosterAtRest}
=============================================================================
