-------------------------- MODULE MCCollabProvider --------------------------
(***************************************************************************)
(* An instance of CollabProvider for TLC, with one environment for each    *)
(* interplay: recovery with compaction, overlapping edits, a rejoin, and   *)
(* failures that an edit must get over.                                    *)
(***************************************************************************)
EXTENDS CollabProvider

Calm == [kinds |-> {}, faults |-> 0, edits |-> 1, remote |-> 0, conns |-> 1, asks |-> 0]
Recovery == [Calm EXCEPT !.kinds = {"lose", "drop", "http", "server"}, !.faults = 1,
                         !.remote = 1, !.asks = 1]
Edits == [Calm EXCEPT !.kinds = {"drop", "http", "join", "server"}, !.faults = 1, !.edits = 2]
Rejoin == [Calm EXCEPT !.remote = 1, !.conns = 2]
RejoinAsked == [Rejoin EXCEPT !.edits = 0, !.remote = 3, !.asks = 1]
Trouble == [Calm EXCEPT !.kinds = {"http", "server", "unscoped", "access"}, !.faults = 1, !.conns = 2]
Demoted == [Calm EXCEPT !.kinds = {"access"}, !.faults = 2]
MCEnvironments == {Recovery, Edits, Rejoin, RejoinAsked, Trouble, Demoted}

Compacting == [Calm EXCEPT !.kinds = {"http", "drop"}, !.faults = 1, !.edits = 0, !.remote = 2, !.asks = 1]
Refused == [Trouble EXCEPT !.kinds = {"join", "drop"}]
LiveEnvironments == {Rejoin, Trouble, Compacting, Refused}

\* An error without a document id reaches the provider before its join is answered, or
\* instead of an answer.
EarlyLoad == {[Rejoin EXCEPT !.kinds = {"unscoped"}, !.faults = 1]}

\* A second compaction is asked for while the snapshot of the first is uploaded.
AskedTwice == {[RejoinAsked EXCEPT !.remote = 4, !.asks = 2]}
=============================================================================
