------------------------------ MODULE Comments ------------------------------
(***************************************************************************)
(* Comments on any object: a flat thread of comments with one level of     *)
(* replies, soft deletion that leaves a tombstone, and an inbox entry for  *)
(* the people a comment names.                                             *)
(*                                                                         *)
(* A body is abstracted to the set of people it mentions.  An edit reads   *)
(* the comment twice before its one guarded UPDATE -- once in the handler, *)
(* for the mentions it had, and once in the repository, for its author --  *)
(* so edits and deletions of the same comment interleave between them.     *)
(***************************************************************************)
EXTENDS Integers, Sequences, FiniteSets, SequencesExt

CONSTANTS Authors,       \* accounts; they write, edit and are mentioned
          CommentIds,    \* comment ids: numbers, in the order of the ids
          Writers,       \* slots for requests in flight, numbered
          ThreadEnvironments  \* rights, bodies written and budgets of a run

\* What people may do and write, and how often.
ThreadEnvironment == [may : [Authors -> SUBSET {"comment", "admin"}], bodies : SUBSET SUBSET Authors,
                      ops : [{"create", "edit", "delete", "read", "hour", "lose"} -> Nat]]

\* Ids are ordered and none is the absent parent.
ASSUME ThreadAssumption ==
    /\ CommentIds \subseteq Nat \ {0} /\ ThreadEnvironments \subseteq ThreadEnvironment

VARIABLES cenv,      \* what everybody may do to the object; budgets
          comments,  \* comments
          writer,    \* requests in progress
          named,     \* <<comment, user>>: the user wrote the mention or was told of it
          lost,      \* <<comment, user>>: the one notification of the mention failed
          edits,     \* what each edit announced: recipients and the newly mentioned
          hour,      \* the clock
          reading    \* a client paging through the thread

commentvars == <<cenv, comments, writer, named, lost, edits, hour, reading>>

NoParent == 0
NoComment == [author |-> 0, parent |-> NoParent, body |-> {}, deleted |-> FALSE, at |-> 0]
IdleWriter == [pc |-> "idle", op |-> "", c |-> 0, by |-> 0, parent |-> NoParent, body |-> {}, before |-> {}, at |-> 0]
NoReading == [on |-> FALSE, base |-> {}, at |-> 0, id |-> 0, seen |-> <<>>]

CanComment(op) == cenv.ops[op] > 0
SpendComment(op) == cenv' = [cenv EXCEPT !.ops[op] = @ - 1]
Present == {c \in CommentIds : comments[c] # NoComment}
Implies(u, want) == want \in cenv.may[u]
ToWriter(w, r) == writer' = [writer EXCEPT ![w] = r]
FreeWriter(w) == writer[w].pc = "idle" /\ \A v \in Writers : v < w => writer[v].pc # "idle"

-----------------------------------------------------------------------------
(* Writing.  The parent of a reply must itself be no reply.                *)

\* The transaction starts, which is the time the comment will carry.
CreateBegin(w, u, parent, body) ==
  /\ CanComment("create") /\ FreeWriter(w) /\ Implies(u, "comment")
  /\ parent # NoParent => parent \in Present /\ comments[parent].parent = NoParent
  /\ ToWriter(w, [IdleWriter EXCEPT !.pc = "inserting", !.op = "create", !.by = u, !.parent = parent, !.body = body, !.at = hour])
  /\ SpendComment("create")
  /\ UNCHANGED <<comments, named, lost, edits, hour, reading>>

InsertComment(w, c) ==
  LET k == writer[w]
  IN  /\ k.pc = "inserting" /\ c \notin Present
      /\ comments' = [comments EXCEPT ![c] = [author |-> k.by, parent |-> k.parent, body |-> k.body, deleted |-> FALSE, at |-> k.at]]
      /\ ToWriter(w, [k EXCEPT !.pc = "notify", !.c = c])
      /\ UNCHANGED <<cenv, named, lost, edits, hour, reading>>

-----------------------------------------------------------------------------
(* Editing and deleting.                                                   *)

\* forComment: the comment and what its object lets the caller do; for an edit, the
\* mentions it had.
forComment(w, op, u, c, body) ==
  /\ CanComment(op) /\ FreeWriter(w) /\ c \in Present /\ Implies(u, "comment")
  /\ ToWriter(w, [IdleWriter EXCEPT !.pc = "check", !.op = op, !.by = u, !.c = c, !.body = body, !.before = comments[c].body])
  /\ SpendComment(op)
  /\ UNCHANGED <<comments, named, lost, edits, hour, reading>>

\* The repository reads the comment again and decides on its own copy.
MayChange(u, c) == Implies(u, "admin") \/ comments[c].author = u
CheckAuthor(w) ==
  LET k == writer[w]
  IN  /\ k.pc = "check"
      /\ ToWriter(w, IF ~comments[k.c].deleted /\ MayChange(k.by, k.c) THEN [k EXCEPT !.pc = "write"] ELSE IdleWriter)
      /\ UNCHANGED <<cenv, comments, named, lost, edits, hour, reading>>

\* UPDATE ... WHERE deleted_at IS NULL RETURNING: an edit that matches nothing is refused.
UpdateComment(w) ==
  LET k == writer[w]
  IN  /\ k.pc = "write" /\ k.op = "edit"
      /\ IF comments[k.c].deleted
         THEN ToWriter(w, IdleWriter) /\ UNCHANGED comments
         ELSE /\ comments' = [comments EXCEPT ![k.c].body = k.body]
              /\ ToWriter(w, [k EXCEPT !.pc = "notify", !.parent = comments[k.c].parent])
      /\ UNCHANGED <<cenv, named, lost, edits, hour, reading>>

\* The text is cleared and the row stays, for the replies beneath it.
DeleteComment(w) ==
  LET k == writer[w]
  IN  /\ k.pc = "write" /\ k.op = "delete"
      /\ comments' = [comments EXCEPT ![k.c].body = {}, ![k.c].deleted = TRUE]
      /\ ToWriter(w, IdleWriter)
      /\ UNCHANGED <<cenv, named, lost, edits, hour, reading>>

-----------------------------------------------------------------------------
(* Telling people.                                                         *)

\* Who is left out: the actor, and whoever the handler had read in the old body.
\* A fault: the old mentions are read from the comment as it is now.
SilencedNow(k) == {k.by} \cup comments[k.c].body

Silenced(k) == {k.by} \cup k.before

Recipients(k) ==
  LET mentioned == k.body \ Silenced(k)
      parents   == IF k.parent = NoParent THEN {} ELSE {comments[k.parent].author}
  IN  mentioned \cup (parents \ Silenced(k))

\* The inbox is told of everybody to reach.  Nothing retries what fails: `a lost notification
\* must not take a successful request with it'.
Notify(w, missed) ==
  LET k    == writer[w]
      told == Recipients(k) \ missed
  IN  /\ k.pc = "notify"
      /\ named' = named \cup {<<k.c, u>> : u \in told \cup (k.body \cap {k.by})}
      /\ lost' = lost \cup {<<k.c, u>> : u \in missed}
      /\ edits' = IF k.op = "edit" THEN edits \cup {[told |-> told, new |-> k.body \ k.before]} ELSE edits
      /\ ToWriter(w, IdleWriter)
      /\ UNCHANGED <<comments, hour, reading>>

notifyNamed(w) == Notify(w, {}) /\ UNCHANGED cenv

\* Deliver's error is discarded, or the process dies before the call; or only the read of
\* the parent failed, and its author is left out.
notifyLost(w) ==
  /\ CanComment("lose")
  /\ \/ Notify(w, Recipients(writer[w]))
     \/ Notify(w, Recipients(writer[w]) \ writer[w].body)
  /\ SpendComment("lose")

-----------------------------------------------------------------------------
(* Reading: the top-level comments, oldest first, a page of one at a time. *)

AfterRow(c, at, id) == comments[c].at > at \/ (comments[c].at = at /\ c > id)

ReadBegin ==
  /\ CanComment("read") /\ ~reading.on
  /\ reading' = [NoReading EXCEPT !.on = TRUE, !.base = {c \in Present : comments[c].parent = NoParent}]
  /\ SpendComment("read")
  /\ UNCHANGED <<comments, writer, named, lost, edits, hour>>

ListThread ==
  LET rest  == {c \in Present : comments[c].parent = NoParent /\ (reading.id = 0 \/ AfterRow(c, reading.at, reading.id))}
      first == CHOOSE c \in rest : \A d \in rest \ {c} :
                  comments[c].at < comments[d].at \/ (comments[c].at = comments[d].at /\ c < d)
  IN  /\ reading.on
      /\ IF rest = {} THEN reading' = [reading EXCEPT !.on = FALSE]
         ELSE reading' = [reading EXCEPT !.on = Cardinality(rest) > 1, !.at = comments[first].at, !.id = first, !.seen = Append(@, first)]
      /\ UNCHANGED <<cenv, comments, writer, named, lost, edits, hour>>

Hour == /\ CanComment("hour")
        /\ hour' = hour + 1
        /\ SpendComment("hour")
        /\ UNCHANGED <<comments, writer, named, lost, edits, reading>>

-----------------------------------------------------------------------------
CommentInit ==
  /\ cenv \in ThreadEnvironments
  /\ comments = [c \in CommentIds |-> NoComment]
  /\ writer = [w \in Writers |-> IdleWriter]
  /\ named = {} /\ lost = {} /\ edits = {} /\ hour = 1 /\ reading = NoReading

CommentNext ==
  \/ \E w \in Writers :
       \/ \E u \in Authors, parent \in Present \cup {NoParent}, body \in cenv.bodies : CreateBegin(w, u, parent, body)
       \/ (\E c \in CommentIds : InsertComment(w, c)) \/ CheckAuthor(w) \/ UpdateComment(w) \/ DeleteComment(w) \/ notifyNamed(w) \/ notifyLost(w)
       \/ \E u \in Authors, c \in Present, body \in cenv.bodies : forComment(w, "edit", u, c, body)
       \/ \E u \in Authors, c \in Present : forComment(w, "delete", u, c, {})
  \/ ReadBegin \/ ListThread \/ Hour

CommentSpec == CommentInit /\ [][CommentNext]_commentvars

-----------------------------------------------------------------------------
(* Properties.                                                             *)

\* Nobody is named behind their back: whoever the text of a comment mentions was told of
\* it, or wrote the mention, or is about to be told by the request that put it there, or
\* that request's one call of Deliver was lost -- however edits of the comment overlap
\* (Update compares with mentions read earlier).
MentionedWereTold ==
  \A c \in Present : \A u \in comments[c].body :
     \/ <<c, u>> \in named \cup lost
     \/ \E w \in Writers : writer[w].pc = "notify" /\ writer[w].c = c /\ u \in writer[w].body

\* A tombstone stays one: an edit that checked the comment before it was deleted brings no
\* text back (Update's WHERE deleted_at IS NULL).
TombstonesStay == \A c \in Present : comments[c].deleted => comments[c].body = {}

\* A reader who pages through a thread sees each top-level comment that was there when it
\* began exactly once, tombstones included (Thread).
ThreadShowsEachOnce ==
  ~reading.on => \A c \in reading.base : Cardinality({n \in DOMAIN reading.seen : reading.seen[n] = c}) = 1

\* Whoever a thread names knows it unless the notice was lost, what was deleted stays
\* empty, and whoever reads the thread sees it whole.
ThreadSound == MentionedWereTold /\ TombstonesStay /\ ThreadShowsEachOnce

\* Whoever a comment still mentions when no request is in flight has been told.  It fails
\* after a lost notification, and no later edit makes up for it: an edit that keeps the
\* mention finds it in the old text and leaves the person out (Handler.notify).
MentionsReachPeople ==
  (\A w \in Writers : writer[w].pc = "idle") => \A c \in Present : \A u \in comments[c].body : <<c, u>> \in named

\* `Only the NEWLY mentioned. Re-notifying everybody on every typo fix is how a mention
\* stops meaning anything' (handler.go, Update): an edit tells nobody else.
EditTellsOnlyTheNew == \A e \in edits : e.told \subseteq e.new
=============================================================================
