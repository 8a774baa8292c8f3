---------------------------- MODULE MCMessaging ----------------------------
(***************************************************************************)
(* An instance of Messaging for TLC: three messages and two members.  Each *)
(* environment names the operations that meet in it.                       *)
(***************************************************************************)
EXTENDS Messaging

NoMessageOps == [k \in Operations |-> 0]
Channel(rows, procs, ops) ==
    [rows |-> rows, procs |-> procs, ops |-> ops, moderators |-> {2}, batch |-> 3, badges |-> FALSE, authors |-> {1},
     consumers |-> {"index"}]
Empty == [m \in MessageIds |-> Blank]
Root == [Blank EXCEPT !.st = "live", !.by = 1, !.at = 1]
OneRoot == [Empty EXCEPT ![1] = Root]
Thread == [Empty EXCEPT ![1] = [Root EXCEPT !.count = 1], ![2] = [Root EXCEPT !.at = 2, !.parent = 1]]

Scheduling == Channel(OneRoot, {1}, [NoMessageOps EXCEPT !["schedule"] = 2, !["promote"] = 1, !["cancel"] = 1,
                                                            !["edit"] = 1])
Threading == Channel(OneRoot, {1}, [NoMessageOps EXCEPT !["reply"] = 1, !["delete"] = 1, !["schedule"] = 1,
                                                           !["promote"] = 1])
Retaining == Channel(Thread, {1}, [NoMessageOps EXCEPT !["age"] = 1, !["purge"] = 1, !["abort"] = 1, !["schedule"] = 1,
                                               !["promote"] = 1, !["archive"] = 1, !["delete"] = 1])
\* A thread of which one reply is deleted, its root locked while retention selects.
Mixed == [Empty EXCEPT ![1] = [Root EXCEPT !.count = 1], ![2] = [Root EXCEPT !.st = "deleted", !.at = 2, !.parent = 1],
                       ![3] = [Root EXCEPT !.at = 3, !.parent = 1]]
Skipping == [Channel(Mixed, {1}, [NoMessageOps EXCEPT !["age"] = 1, !["purge"] = 2, !["skip"] = 1, !["delete"] = 1,
                                                         !["abort"] = 1, !["edit"] = 1]) EXCEPT !.batch = 1]
Batching == [Channel(Thread, {1}, [NoMessageOps EXCEPT !["age"] = 1, !["purge"] = 2, !["send"] = 1]) EXCEPT !.batch = 1]
Racing == Channel(Empty, {1, 2}, [NoMessageOps EXCEPT !["send"] = 1, !["edit"] = 1])
Failing == Channel(Empty, {1}, [NoMessageOps EXCEPT !["send"] = 2, !["fault"] = 2, !["crash"] = 1, !["nak"] = 1, !["window"] = 1])
GivingUp == Channel(Empty, {1}, [NoMessageOps EXCEPT !["send"] = 1, !["edit"] = 1, !["nak"] = 3, !["term"] = 1])
Touching == Channel(OneRoot, {1}, [NoMessageOps EXCEPT !["react"] = 2, !["unreact"] = 1, !["pin"] = 1, !["forward"] = 1, !["nak"] = 1])
Counting == [Channel(OneRoot, {1, 2}, [NoMessageOps EXCEPT !["send"] = 1, !["delete"] = 1])
               EXCEPT !.badges = TRUE, !.authors = People, !.consumers = {"badge"}]
Reading == [Channel(OneRoot, {1}, [NoMessageOps EXCEPT !["send"] = 1, !["post"] = 1, !["read"] = 1, !["fault"] = 1])
              EXCEPT !.consumers = {"badge"}]
Unannounced == Channel(OneRoot, {1}, [NoMessageOps EXCEPT !["schedule"] = 1, !["promote"] = 1, !["fault"] = 1])
MCMessageEnvironments == {Unannounced, Scheduling, Threading, Retaining, Skipping, Batching, GivingUp, Racing, Failing, Touching, Counting, Reading}

\* A crash between the commit and the outbox.
CrashEnvironments == {Channel(Empty, {1}, [NoMessageOps EXCEPT !["send"] = 1, !["crash"] = 1])}
ArchiveEnvironments == {Channel(Empty, {1}, [NoMessageOps EXCEPT !["send"] = 1, !["archive"] = 1])}
=============================================================================
