----------------------------- MODULE MCWorkspace -----------------------------
(***************************************************************************)
(* A document's provider, a project's board and a comment thread. They     *)
(* share no state: each behaviour runs one of them while the others have   *)
(* no operation to take. Two requests at a time act on a board of up to    *)
(* five issues, and on a thread of up to two comments.                     *)
(***************************************************************************)
EXTENDS MCCollabProvider, IssueBoard, Comments

(* The board and the thread.                                               *)

\* Every pair of ranks in order: what Between returns lies strictly between them, except
\* where nothing does.
AllRanks == UNION {[1..n -> Digits] : n \in 0..MaxRankLength}
ASSUME BetweenChecked ==
  \A lo, hi \in AllRanks : lo = <<>> \/ hi = <<>> \/ Less(lo, hi) => BetweenIsBetween(lo, hi)

Ops(project, create, move, update, listing, fail) ==
  [project |-> project, create |-> create, move |-> move, update |-> update, scan |-> listing, fail |-> fail]
Env(board, states, ops) == [board |-> board, home |-> 1, states |-> states, actor |-> 1, ops |-> ops]

MCBoardEnvironments ==
  { \* two projects filled by overlapping creates, one of them rolled back
    Env(<<>>, FALSE, Ops(2, 3, 0, 0, 0, 1)),
    \* overlapping drops and a create, under a client that pages
    Env(<< <<1>>, <<2>>, <<4>> >>, FALSE, Ops(0, 0, 2, 0, 1, 0)),
    Env(<< <<2>>, <<1>> >>, FALSE, Ops(0, 1, 1, 0, 1, 1)),
    \* a board with no room left at its end, one under a client that pages
    Env(<< <<4, 4, 2>>, <<2>>, <<4, 4, 4>> >>, FALSE, Ops(0, 0, 2, 0, 0, 0)),
    Env(<< <<4, 4, 2>>, <<2>>, <<4, 4, 4>> >>, FALSE, Ops(0, 0, 1, 0, 1, 0)),
    \* Base - 1 cards with no room at the top: the spread ranks end in the lowest digit
    Env(<< <<0, 0, 1>>, <<1>>, <<2>>, <<3>>, <<4>> >>, FALSE, Ops(0, 0, 1, 0, 0, 0)),
    \* overlapping changes of state and assignee
    Env(<< <<2>> >>, TRUE, Ops(0, 0, 2, 2, 0, 0)),
    Env(<< <<2>> >>, TRUE, Ops(0, 1, 1, 1, 0, 1)) }

\* A board with no room left at its top, where new issues go.
MCFullBoard ==
  { Env(<< <<1>>, <<0, 2>>, <<0, 0, 1>> >>, FALSE, Ops(0, 1, 0, 0, 0, 0)) }

ThreadOf(rights, bodies, create, edit, delete, read, hours, losses) ==
  [may |-> rights, bodies |-> bodies,
   ops |-> [create |-> create, edit |-> edit, delete |-> delete, read |-> read, hour |-> hours, lose |-> losses]]
Rights == << {"comment"}, {}, {"comment", "admin"} >>
MCThreadEnvironments ==
  { \* overlapping edits and a deletion, by the author and an admin, one notice lost
    ThreadOf(Rights, {{}, {1, 2}, {2}}, 1, 2, 1, 0, 0, 1),
    \* a thread that grows under a reader
    ThreadOf(Rights, {{}}, 2, 0, 0, 1, 1, 0),
    \* a reply, edited
    ThreadOf(Rights, {{}, {2}}, 2, 1, 0, 0, 0, 1) }

-----------------------------------------------------------------------------
(* The three of them.                                                      *)

ProviderAtRest == [Calm EXCEPT !.edits = 0, !.conns = 0]
BoardAtRest == [Env(<<>>, FALSE, Ops(0, 0, 0, 0, 0, 0)) EXCEPT !.home = 2]
ThreadAtRest == ThreadOf(Rights, {}, 0, 0, 0, 0, 0, 0)
WorkspaceProviders == MCEnvironments \cup {ProviderAtRest}
WorkspaceBoards == MCBoardEnvironments \cup MCFullBoard \cup {BoardAtRest}
WorkspaceThreads == MCThreadEnvironments \cup {ThreadAtRest}

Editing == penv # ProviderAtRest
Planning == benv # BoardAtRest
Discussing == cenv # ThreadAtRest
WorkspaceInit ==
    /\ ProviderInit /\ BoardInit /\ CommentInit
    /\ ~(Editing /\ Planning) /\ ~(Editing /\ Discussing) /\ ~(Planning /\ Discussing)
WorkspaceNext ==
    \/ Editing /\ ProviderNext /\ UNCHANGED <<boardvars, commentvars>>
    \/ Planning /\ BoardNext /\ UNCHANGED <<pvars, commentvars>>
    \/ Discussing /\ CommentNext /\ UNCHANGED <<pvars, boardvars>>
WorkspaceSpec == WorkspaceInit /\ [][WorkspaceNext]_<<pvars, boardvars, commentvars>>
=============================================================================
