----------------------------- MODULE IssueBoard -----------------------------
(***************************************************************************)
(* Work tracking: projects, their issues, and the one order of a project's *)
(* issues.                                                                 *)
(*                                                                         *)
(* Requests run as transactions at READ COMMITTED: what a transaction      *)
(* wrote is seen by others when it commits, each of its statements reads   *)
(* what is committed by then, and row locks are held to its end.  Creating *)
(* an issue locks the project's counter, moving one locks its row, and a   *)
(* move that finds no room rewrites every rank of the project.  An update  *)
(* reads the issue before its transaction to know later whom to tell.  An  *)
(* entry of the timeline carries the time its transaction started, which   *)
(* is not the order in which the row locks were granted.                   *)
(***************************************************************************)
EXTENDS RankAlgebra, SequencesExt

CONSTANTS Projects,          \* projects, numbered
          IssueIds,          \* issue ids: numbers, in the order of the ids
          Callers,           \* slots for requests in flight, numbered
          People,            \* accounts an issue may be assigned to
          BoardEnvironments  \* budgets and inputs of a run

VARIABLES benv,      \* the environment, its budgets going down
          projects,  \* projects that exist
          counter,   \* issue_counters.next_value
          issues,    \* issues
          activity,  \* issue_activity, in the order of the commits
          call,      \* what each request is doing
          notices,   \* what notifyAssigned decided, and what it should have known
          refused,   \* requests answered RANK_EXHAUSTED: had they renormalised?
          commits,   \* commits so far; also the clock
          scan       \* a client paging through a project's issues

\* A project has no more issues than Renormalise can address; a board starts as earlier
\* creates and moves left it, numbered without holes.
ASSUME BoardAssumption ==
  /\ IssueIds \subseteq Nat \ {0} /\ IsFiniteSet(IssueIds) /\ 2 * Cardinality(IssueIds) <= Base ^ 8
  /\ \A e \in BoardEnvironments :
       /\ DOMAIN e = {"board", "home", "states", "actor", "ops"}
       /\ e.home \in Projects /\ e.actor \in People
       /\ e.board \in Seq(Seq(Digits)) /\ DOMAIN e.board \subseteq IssueIds

boardvars == <<benv, projects, counter, issues, activity, call, notices, refused, commits, scan>>

None == 0
Keep == -1          \* an update that does not mention the assignee
States == {"open", "done"}
DefaultState == "open"
Completed(st) == st = "done"

NoIssue == [p |-> None, number |-> 0, rank |-> <<>>, state |-> DefaultState, assignee |-> None, completed |-> 0]
IdleCall == [pc |-> "idle", p |-> None, i |-> None, a |-> None, b |-> None, from |-> "", to |-> "", who |-> None, by |-> None,
             number |-> 0, rank |-> <<>>, lo |-> <<>>, hi |-> <<>>, order |-> <<>>, tried |-> FALSE,
             prior |-> None, since |-> 0, news |-> FALSE, at |-> 0]
NoScan == [on |-> FALSE, p |-> None, base |-> {}, at |-> None, atRank |-> <<>>, seen |-> <<>>, touched |-> {}, dragged |-> {}]

CanBoard(op) == benv.ops[op] > 0
SpendBoard(op) == benv' = [benv EXCEPT !.ops[op] = @ - 1]
Issues == {i \in IssueIds : issues[i] # NoIssue}
IssuesOf(p) == {i \in Issues : issues[i].p = p}

\* The order of a board: ORDER BY rank, id.
Precedes(r1, i1, r2, i2) == Less(r1, r2) \/ (r1 = r2 /\ i1 < i2)
Sorted(s, rank) == \A m, n \in DOMAIN s : m < n => Precedes(rank[s[m]], s[m], rank[s[n]], s[n])
Ordered(S, rank) == CHOOSE s \in [1..Cardinality(S) -> S] : Sorted(s, rank)
Ranks == [i \in IssueIds |-> issues[i].rank]

\* Transactions in progress, and the rows they hold.
Moving == {"locked", "anchored", "exhausted", "spreading", "placed"}
Counting == {"counted", "ranked"}
InTx == Moving \cup Counting \cup {"begun", "updating"}
Holds(c, i) == /\ call[c].pc \in Moving
               /\ \/ call[c].i = i
                  \/ call[c].tried /\ i \in ToSet(call[c].order)
Locked(c, i) == \E d \in Callers \ {c} : Holds(d, i)
CounterHeld(p) == \E d \in Callers : call[d].pc \in Counting /\ call[d].p = p

\* What a transaction reads of ranks: the committed ones, or its own renormalised ones.
View(c) == IF call[c].tried
           THEN LET spread == Renormalise(Len(call[c].order))
                IN  [i \in IssueIds |-> IF i \in ToSet(call[c].order)
                                        THEN spread[CHOOSE k \in DOMAIN call[c].order : call[c].order[k] = i]
                                        ELSE issues[i].rank]
           ELSE Ranks
LowestOf(S, rank) == IF S = {} THEN <<>> ELSE rank[Ordered(S, rank)[1]]
HighestOf(S, rank) == IF S = {} THEN <<>> ELSE rank[Last(Ordered(S, rank))]

\* A request takes the first free slot.
FreeSlot(c) == call[c].pc = "idle" /\ \A d \in Callers : d < c => call[d].pc # "idle"
Go(c, r) == call' = [call EXCEPT ![c] = r]
Refuse(c) == /\ Go(c, IdleCall)
             /\ refused' = refused \cup {[move |-> call[c].pc \in Moving, renormalised |-> call[c].tried]}
Touch(S, i) == scan' = IF scan.on THEN [scan EXCEPT !.touched = @ \cup S, !.dragged = @ \cup {i}] ELSE scan
Commit == commits' = commits + 1

-----------------------------------------------------------------------------
(* Projects and new issues.                                                *)

CreateProject(p) ==
  /\ CanBoard("project") /\ p \notin projects
  /\ projects' = projects \cup {p}
  /\ counter' = [counter EXCEPT ![p] = 1]
  /\ SpendBoard("project")
  /\ UNCHANGED <<issues, activity, call, notices, refused, commits, scan>>

\* A fault: the number comes from a sequence, which a rollback does not give back.
AllocateFromSequence(c, p, st, u) ==
  /\ CanBoard("create") /\ FreeSlot(c) /\ p \in projects
  /\ ~CounterHeld(p)
  /\ Go(c, [IdleCall EXCEPT !.pc = "counted", !.p = p, !.number = counter[p], !.to = st, !.who = u, !.by = benv.actor])
  /\ counter' = [counter EXCEPT ![p] = @ + 1]
  /\ SpendBoard("create")
  /\ UNCHANGED <<projects, issues, activity, notices, refused, commits, scan>>

\* The number is taken under the counter's row lock and is not in the table before the
\* commit.
Allocate(c, p, st, u) ==
  /\ CanBoard("create") /\ FreeSlot(c) /\ p \in projects
  /\ ~CounterHeld(p)
  /\ Go(c, [IdleCall EXCEPT !.pc = "counted", !.p = p, !.number = counter[p], !.to = st, !.who = u, !.by = benv.actor])
  /\ SpendBoard("create")
  /\ UNCHANGED <<projects, counter, issues, activity, notices, refused, commits, scan>>

\* To the top of the project's order.
RankNew(c) ==
  LET rank == Between(<<>>, LowestOf(IssuesOf(call[c].p), Ranks))
  IN  /\ call[c].pc = "counted"
      /\ IF rank = Exhausted
         THEN Refuse(c)
         ELSE Go(c, [call[c] EXCEPT !.pc = "ranked", !.rank = rank]) /\ UNCHANGED refused
      /\ UNCHANGED <<benv, projects, counter, issues, activity, notices, commits, scan>>

CreateIssue(c, i) ==
  LET k == call[c]
  IN  /\ k.pc = "ranked" /\ i \notin Issues
      /\ issues' = [issues EXCEPT ![i] = [p |-> k.p, number |-> k.number, rank |-> k.rank, state |-> k.to,
                                          assignee |-> k.who, completed |-> 0]]
      /\ counter' = [counter EXCEPT ![k.p] = k.number + 1]
      /\ Go(c, [k EXCEPT !.pc = "tell", !.news = k.who # None, !.since = 1])
      /\ Commit /\ Touch({i}, i)
      /\ UNCHANGED <<benv, projects, activity, notices, refused>>

\* The request is cancelled, the database refuses or the process dies: all of it is undone.
RollbackCall(c) ==
  /\ CanBoard("fail") /\ call[c].pc \in InTx
  /\ Go(c, IdleCall)
  /\ SpendBoard("fail")
  /\ UNCHANGED <<projects, counter, issues, activity, notices, refused, commits, scan>>

-----------------------------------------------------------------------------
(* Moving.  The client names the cards it dropped between.                 *)

\* The transaction starts, and with it its NOW(); no state means the card's own.
MoveBegin(c, i, a, b, st) ==
  /\ CanBoard("move") /\ FreeSlot(c) /\ i \in Issues
  /\ {a, b} \ {None} \subseteq IssuesOf(issues[i].p) \ {i}
  /\ Go(c, [IdleCall EXCEPT !.pc = "begun", !.i = i, !.a = a, !.b = b, !.to = st, !.at = commits])
  /\ SpendBoard("move")
  /\ UNCHANGED <<projects, counter, issues, activity, notices, refused, commits, scan>>

MoveLock(c) ==
  LET k   == call[c]
      was == issues[k.i]
  IN  /\ k.pc = "begun" /\ ~Locked(c, k.i)
      /\ Go(c, [k EXCEPT !.pc = IF k.a = None /\ k.b = None THEN "placed" ELSE "locked", !.p = was.p, !.rank = was.rank,
                         !.from = was.state, !.to = IF k.to = "" THEN was.state ELSE k.to])
      /\ UNCHANGED <<benv, projects, counter, issues, activity, notices, refused, commits, scan>>

MoveAnchor(c) ==
  LET k == call[c]
      rankOf(j) == IF j = None THEN <<>> ELSE View(c)[j]
  IN  /\ k.pc = "locked"
      /\ Go(c, [k EXCEPT !.pc = "anchored", !.lo = rankOf(k.a), !.hi = rankOf(k.b),
                         !.since = IF k.tried THEN @ ELSE commits])
      /\ UNCHANGED <<benv, projects, counter, issues, activity, notices, refused, commits, scan>>

\* The other cards of the project, and the neighbour of a rank among them.
nextRankAfter(c, lo) == LET S == {j \in IssuesOf(call[c].p) \ {call[c].i} : Less(lo, View(c)[j])} IN LowestOf(S, View(c))
prevRankBefore(c, hi) == LET S == {j \in IssuesOf(call[c].p) \ {call[c].i} : Less(View(c)[j], hi)} IN HighestOf(S, View(c))

\* A fault: the anchors are taken verbatim.
MovePlaceVerbatim(c) ==
  LET k    == call[c]
      rank == Between(k.lo, k.hi)
  IN  /\ k.pc = "anchored"
      /\ IF rank \in {Exhausted, Misordered} THEN Go(c, IdleCall) ELSE Go(c, [k EXCEPT !.pc = "placed", !.rank = rank])
      /\ UNCHANGED <<benv, projects, counter, issues, activity, notices, refused, commits, scan>>

MovePlace(c) ==
  LET k    == call[c]
      lo   == IF k.a # None THEN k.lo ELSE prevRankBefore(c, k.hi)
      hi   == IF k.a # None THEN nextRankAfter(c, k.lo) ELSE k.hi
      rank == Between(lo, hi)
  IN  /\ k.pc = "anchored"
      /\ \/ /\ rank \notin {Exhausted, Misordered}
            /\ Go(c, [k EXCEPT !.pc = "placed", !.rank = rank])
            /\ UNCHANGED refused
         \/ /\ rank = Exhausted /\ ~k.tried
            /\ Go(c, [k EXCEPT !.pc = "exhausted"])
            /\ UNCHANGED refused
         \/ rank = Exhausted /\ k.tried /\ Refuse(c)
      /\ UNCHANGED <<benv, projects, counter, issues, activity, notices, commits, scan>>

\* renormalise: the order is read, then every row is waited for, then all are written.
RenormaliseRead(c) ==
  /\ call[c].pc = "exhausted"
  /\ Go(c, [call[c] EXCEPT !.pc = "spreading", !.order = Ordered(IssuesOf(call[c].p), Ranks)])
  /\ UNCHANGED <<benv, projects, counter, issues, activity, notices, refused, commits, scan>>

RenormaliseWrite(c) ==
  /\ call[c].pc = "spreading"
  /\ \A i \in ToSet(call[c].order) : ~Locked(c, i)
  /\ Go(c, [call[c] EXCEPT !.pc = "locked", !.tried = TRUE])
  /\ UNCHANGED <<benv, projects, counter, issues, activity, notices, refused, commits, scan>>

\* Two renormalisations each hold a card the other waits for: the database ends one.
RenormaliseDeadlock(c) ==
  /\ call[c].pc = "spreading"
  /\ \E d \in Callers \ {c} : call[d].pc = "spreading" /\ call[d].p = call[c].p
  /\ Go(c, IdleCall)
  /\ UNCHANGED <<benv, projects, counter, issues, activity, notices, refused, commits, scan>>

\* created_at is the transaction's start; `done' records the commit.
TimelineEntry(k, kind, from, to) == [kind |-> kind, from |-> from, to |-> to, at |-> k.at, done |-> commits + 1]

CompletedAt(i, st) == IF ~Completed(st) THEN 0
                      ELSE IF issues[i].completed # 0 THEN issues[i].completed ELSE commits + 1

Move(c) ==
  LET k == call[c]
  IN  /\ k.pc = "placed"
      /\ issues' = [j \in IssueIds |-> IF j = k.i
                      THEN [issues[j] EXCEPT !.rank = k.rank, !.state = k.to, !.completed = CompletedAt(j, k.to)]
                      ELSE [issues[j] EXCEPT !.rank = View(c)[j]]]
      /\ activity' = IF k.to = k.from THEN activity
                     ELSE [activity EXCEPT ![k.i] = Append(@, TimelineEntry(k, "state", k.from, k.to))]
      /\ Go(c, IdleCall) /\ Commit
      /\ Touch({j \in Issues : issues'[j].rank # issues[j].rank}, k.i)
      /\ UNCHANGED <<benv, projects, counter, notices, refused>>

-----------------------------------------------------------------------------
(* Updating, and telling the assignee.                                     *)

UpdateRead(c, i, u) ==
  /\ CanBoard("update") /\ FreeSlot(c) /\ i \in Issues
  /\ Go(c, [IdleCall EXCEPT !.pc = "read", !.i = i, !.who = u, !.by = benv.actor, !.prior = issues[i].assignee, !.since = commits])
  /\ SpendBoard("update")
  /\ UNCHANGED <<projects, counter, issues, activity, notices, refused, commits, scan>>

UpdateBegin(c) ==
  /\ call[c].pc = "read"
  /\ Go(c, [call[c] EXCEPT !.pc = "updating", !.at = commits])
  /\ UNCHANGED <<benv, projects, counter, issues, activity, notices, refused, commits, scan>>

\* The previous value a timeline entry starts from: the one the transaction locked.
PreviousAssignee(c) == issues[call[c].i].assignee

Update(c) ==
  LET k       == call[c]
      changed == k.who # Keep /\ k.who # PreviousAssignee(c)
  IN  /\ k.pc = "updating" /\ ~Locked(c, k.i)
      /\ issues' = [issues EXCEPT ![k.i].assignee = IF k.who = Keep THEN @ ELSE k.who]
      /\ activity' = IF ~changed THEN activity
                     ELSE [activity EXCEPT ![k.i] = Append(@, TimelineEntry(k, "assignee", PreviousAssignee(c), k.who))]
      /\ Go(c, [k EXCEPT !.pc = "tell", !.who = issues'[k.i].assignee, !.news = changed,
                         !.since = IF k.since = commits THEN 1 ELSE 0])
      /\ Commit
      /\ UNCHANGED <<benv, projects, counter, notices, refused, scan>>

\* Whom notifyAssigned tells of an issue whose assignee is u, had it been `previous'
\* when the handler looked.
Tells(u, previous, actor) == u # None /\ u # actor /\ u # previous
Notice(c, told, clean) ==
  LET k == call[c]
  IN  /\ k.pc = "tell"
      /\ notices' = notices \cup {[told |-> told, news |-> k.news /\ k.who # None /\ k.who # k.by, clean |-> clean]}
      /\ Go(c, IdleCall)
      /\ UNCHANGED <<projects, counter, issues, activity, refused, commits, scan>>

NotifyAssigned(c) ==
  Notice(c, Tells(call[c].who, call[c].prior, call[c].by), call[c].since = 1) /\ UNCHANGED benv

\* Deliver's error is discarded, or the process dies before the call.
NotifyLost(c) == CanBoard("fail") /\ Notice(c, FALSE, FALSE) /\ SpendBoard("fail")

-----------------------------------------------------------------------------
(* Listing, a page of one card at a time, by a (rank, id) cursor.          *)

ScanBegin(p) ==
  /\ CanBoard("scan") /\ ~scan.on /\ IssuesOf(p) # {}
  /\ scan' = [NoScan EXCEPT !.on = TRUE, !.p = p, !.base = IssuesOf(p)]
  /\ SpendBoard("scan")
  /\ UNCHANGED <<projects, counter, issues, activity, call, notices, refused, commits>>

\* Where a page starts: after the row the cursor names.
AfterCursor(i) == scan.at = None \/ Precedes(scan.atRank, scan.at, issues[i].rank, i)

List ==
  LET rest == {i \in IssuesOf(scan.p) : AfterCursor(i)}
      card == Ordered(rest, Ranks)[1]
  IN  /\ scan.on
      /\ IF rest = {} THEN scan' = [scan EXCEPT !.on = FALSE]
         ELSE scan' = [scan EXCEPT !.on = Cardinality(rest) > 1, !.at = card, !.atRank = issues[card].rank,
                                   !.seen = Append(@, card)]
      /\ UNCHANGED <<benv, projects, counter, issues, activity, call, notices, refused, commits>>

-----------------------------------------------------------------------------
\* A board is empty at first, or holds cards at ranks that earlier creates and moves left.
BoardInit ==
  /\ benv \in BoardEnvironments
  /\ projects = IF benv.board = <<>> THEN {} ELSE {benv.home}
  /\ counter = [p \in Projects |-> IF p \in projects THEN Len(benv.board) + 1 ELSE 0]
  /\ issues = [i \in IssueIds |-> IF i \in DOMAIN benv.board
                                  THEN [NoIssue EXCEPT !.p = benv.home, !.number = i, !.rank = benv.board[i]]
                                  ELSE NoIssue]
  /\ activity = [i \in IssueIds |-> <<>>]
  /\ call = [c \in Callers |-> IdleCall]
  /\ notices = {} /\ refused = {} /\ commits = 0 /\ scan = NoScan

\* Inputs: requests about states and assignees only where the environment says so, and one
\* anchor per move, because the second is checked and then not used.
Columns == IF benv.states THEN States ELSE {""}
Anchors(i) == {<<None, None>>} \cup (IF benv.states THEN {} ELSE {<<a, None>> : a \in Issues} \cup {<<None, b>> : b \in Issues})

BoardNext ==
  \/ \E p \in Projects : CreateProject(p) \/ ScanBegin(p)
  \/ List
  \/ \E c \in Callers :
       \/ \E p \in Projects, u \in People \cup {None}, st \in States :
            (benv.states \/ (st = DefaultState /\ u = None)) /\ Allocate(c, p, st, u)
       \/ RankNew(c) \/ (\E i \in IssueIds : CreateIssue(c, i)) \/ RollbackCall(c)
       \/ \E i \in Issues : \E ab \in Anchors(i), st \in Columns : MoveBegin(c, i, ab[1], ab[2], st)
       \/ MoveLock(c) \/ MoveAnchor(c) \/ MovePlace(c) \/ Move(c)
       \/ RenormaliseRead(c) \/ RenormaliseWrite(c) \/ RenormaliseDeadlock(c)
       \/ \E i \in Issues, u \in People \cup {None, Keep} : UpdateRead(c, i, u)
       \/ UpdateBegin(c) \/ Update(c) \/ NotifyAssigned(c) \/ NotifyLost(c)

BoardSpec == BoardInit /\ [][BoardNext]_boardvars

-----------------------------------------------------------------------------
(* Properties.                                                             *)

\* PROJ-1, PROJ-2, ... has no holes and no repeats, whatever is rolled back and however
\* creates overlap: `a rolled-back issue must return its number' (CreateIssue).
NumbersDense ==
  \A p \in projects : /\ {issues[i].number : i \in IssuesOf(p)} = 1..(counter[p] - 1)
                      /\ Cardinality(IssuesOf(p)) = counter[p] - 1

\* The entries of a kind, put in the order of pos, are changes that follow on one another
\* and end at the current value.
Current(i, kind) == IF kind = "state" THEN issues[i].state ELSE issues[i].assignee
Entries(i, kind) == {n \in DOMAIN activity[i] : activity[i][n].kind = kind}
Chain(i, kind, pos) ==
  \A n \in Entries(i, kind) :
     /\ activity[i][n].from # activity[i][n].to
     /\ \/ /\ \A m \in Entries(i, kind) : pos[m] <= pos[n]
           /\ activity[i][n].to = Current(i, kind)
        \/ \E m \in Entries(i, kind) :
             /\ pos[n] < pos[m] /\ \A l \in Entries(i, kind) : pos[l] <= pos[n] \/ pos[m] <= pos[l]
             /\ activity[i][n].to = activity[i][m].from
Committed(i) == [n \in DOMAIN activity[i] |-> n]
Created(i) == [n \in DOMAIN activity[i] |-> activity[i][n].at]
InTurn(i, kind) == \A m, n \in Entries(i, kind) : m < n => activity[i][m].done <= activity[i][n].at

\* An issue's timeline tells how it got where it is: the changes of a kind follow on one
\* another in the order of their commits and end at the current value (Move, Update); and
\* Activity, which sorts by created_at, shows them in that order when each transaction
\* started after the one before it had committed.  The assignee was told of exactly the
\* assignments by others, where no commit came between the handler's read and its
\* transaction and Deliver did not fail (notifyAssigned).
TimelineTells ==
  /\ \A i \in Issues, kind \in {"state", "assignee"} :
       Chain(i, kind, Committed(i)) /\ (InTurn(i, kind) => Chain(i, kind, Created(i)))
  /\ \A n \in notices : n.clean => (n.told <=> n.news)

\* A card's completion time is the moment it entered a completed state: reordering it in
\* there keeps it, leaving clears it, and a move into one always sets it.
StampHolds ==
  \A i \in Issues :
     LET was == issues[i]
         is  == issues'[i]
     IN  /\ ~Completed(is.state) => is.completed = 0
         /\ Completed(was.state) /\ Completed(is.state) /\ was.completed # 0 => is.completed = was.completed
         /\ ~Completed(was.state) /\ Completed(is.state) => is.completed # 0

\* A drop lands where it was dropped: when nothing was committed between the reads of a
\* move and its own commit, no two cards shared a rank, and Between had a rank to find, the
\* card ends up directly next to the card that was named and no two other cards trade
\* places -- also when the move had to rewrite the ranks of the whole project.
Bounds(c) == [lo |-> IF call[c].a # None THEN call[c].lo ELSE prevRankBefore(c, call[c].hi),
              hi |-> IF call[c].a # None THEN nextRankAfter(c, call[c].lo) ELSE call[c].hi]
DropLands ==
  \A c \in Callers :
     LET k    == call[c]
         all  == IssuesOf(k.p)
         old  == Ordered(all \ {k.i}, Ranks)
         new  == Ordered(all, Ranks')
         pos  == CHOOSE n \in DOMAIN new : new[n] = k.i
     IN  (/\ k.pc = "placed" /\ k.a + k.b > 0 /\ k.since = commits /\ commits' = commits + 1 /\ call'[c].pc = "idle"
          /\ Cardinality({issues[j].rank : j \in all}) = Cardinality(all)
          /\ ~NothingBelow(Bounds(c).lo, Bounds(c).hi))
         => /\ RemoveAt(new, pos) = old
            /\ IF k.a # None THEN pos > 1 /\ new[pos - 1] = k.a ELSE pos < Len(new) /\ new[pos + 1] = k.b

\* Every commit keeps both: what a move says about one card and about the others.
MovesKeepTheBoard == [][StampHolds /\ DropLands]_boardvars

\* A client that pages through a project sees every card that stayed where it was exactly
\* once, also when cards share a rank and others move meanwhile (List).
PagesShowEachOnce ==
  ~scan.on => \A i \in scan.base \ scan.touched : Cardinality({n \in DOMAIN scan.seen : scan.seen[n] = i}) = 1

\* Numbers, timelines and pages agree with the issues.
BoardSound == NumbersDense /\ TimelineTells /\ PagesShowEachOnce

\* `Activity returns an issue's timeline, newest first' (repository.go): its first entry is
\* where the issue is now.  It fails for overlapping transactions: the one that started
\* first and waited for the row commits last and is listed first to happen.
NewestIsFirst == \A i \in Issues, kind \in {"state", "assignee"} : Chain(i, kind, Created(i))

\* A client that pages sees each card that nobody dragged exactly once.  It fails when a
\* move renormalises: the cursor is a rank of before.
PagesShowUndragged ==
  ~scan.on => \A i \in scan.base \ scan.dragged : Cardinality({n \in DOMAIN scan.seen : scan.seen[n] = i}) = 1

\* `before returns a rank strictly less than hi' (rank.go): a move is never given bounds
\* between which Between finds nothing and does not say so.  It fails once Renormalise has
\* left the first card a rank that ends in the lowest digit, as it does for Base - 1 cards.
BoundsHaveRoom ==
  \A c \in Callers : call[c].pc = "placed" /\ call[c].a + call[c].b > 0 => ~NothingBelow(Bounds(c).lo, Bounds(c).hi)

\* `Move renormalises and retries once internally, so reaching here means it failed twice'
\* (handler.go, fail): a request is refused for want of a rank only after renormalising.
ExhaustedMeansTriedTwice == \A r \in refused : r.renormalised
=============================================================================
