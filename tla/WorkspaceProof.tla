--------------------------- MODULE WorkspaceProof ---------------------------
(***************************************************************************)
(* Proofs about comment threads (Comments), for any accounts, comments and *)
(* requests in flight, any rights and any bodies; about the provider of a  *)
(* document (CollabProvider), for any page size, gap limit and compaction  *)
(* threshold and any mix of faults, edits and reconnects; and about a      *)
(* board (IssueBoard), for any projects, cards and requests in flight,     *)
(* any ranks the cards start with and any alphabet of ranks.               *)
(***************************************************************************)
EXTENDS Comments, CollabProvider, IssueBoard, FiniteSetTheorems, SequenceTheorems, WellFoundedInduction, TLAPS

(* The inductive invariant of a thread, in parts.                          *)

Row == [author : Authors \cup {0}, parent : CommentIds \cup {NoParent}, body : SUBSET Authors,
        deleted : BOOLEAN, at : Nat]
Request == [pc : {"idle", "inserting", "check", "write", "notify"}, op : {"", "create", "edit", "delete"},
            c : CommentIds \cup {0}, by : Authors \cup {0}, parent : CommentIds \cup {NoParent},
            body : SUBSET Authors, before : SUBSET Authors, at : Nat]

\* A comment that is there has a time, and there are finitely many of them.
RowsInv ==
    /\ cenv \in ThreadEnvironment /\ hour \in Nat \ {0}
    /\ comments \in [CommentIds -> Row] /\ IsFiniteSet(Present)
    /\ \A c \in Present : comments[c].at # 0 /\ (comments[c].deleted => comments[c].body = {})

\* What a request is about: a comment that is there, or one to come.
RequestInv ==
    /\ writer \in [Writers -> Request]
    /\ \A w \in Writers :
          /\ writer[w].pc \in {"check", "write", "notify"} => writer[w].c \in Present
          /\ writer[w].pc = "inserting" => writer[w].before = {} /\ writer[w].at # 0

\* The request k will tell u of its mention in c, or is u's own.  Who was told knows, and who
\* should have been counts as knowing: nothing will make up for it.
WillTell(k, c, u) == k.pc = "notify" /\ k.c = c /\ u \in k.body /\ (u = k.by \/ u \notin k.before)
Knows(c, u) == <<c, u>> \in named \cup lost \/ \E w \in Writers : WillTell(writer[w], c, u)

\* Whoever a text mentions knows it or is about to; and so does whoever was mentioned in
\* the text that a request compares with, which the request therefore leaves out.
MentionInv ==
    /\ \A c \in Present : \A u \in comments[c].body : Knows(c, u)
    /\ \A w \in Writers : writer[w].pc \in {"check", "write", "notify"} =>
          \A u \in writer[w].before : Knows(writer[w].c, u)

\* What the reader has seen lies up to its cursor, each row once, and what it has yet to
\* see of the comments that were there lies after it.
Top == {c \in Present : comments[c].parent = NoParent}
Ahead(c) == reading.id = 0 \/ AfterRow(c, reading.at, reading.id)
ReadingInv ==
    /\ reading \in [on : BOOLEAN, base : SUBSET CommentIds, at : Nat, id : CommentIds \cup {0}, seen : Seq(CommentIds)]
    /\ reading.base \subseteq Top
    /\ \A n \in 1..Len(reading.seen) :
          /\ reading.seen[n] \in Top /\ ~Ahead(reading.seen[n])
          /\ \A m \in 1..Len(reading.seen) : reading.seen[m] = reading.seen[n] => m = n
    /\ \A c \in reading.base :
          \/ \E n \in 1..Len(reading.seen) : reading.seen[n] = c
          \/ reading.on /\ Ahead(c)

\* The inductive invariant of a thread.
ThreadIInv == RowsInv /\ RequestInv /\ MentionInv /\ ReadingInv

-----------------------------------------------------------------------------
(* Facts that several steps share.                                         *)

\* A set of numbers has a least one.
LEMMA LeastOf ==
    ASSUME NEW S \in SUBSET Nat, S # {}
    PROVE  \E x \in S : \A y \in S : x <= y
<1> DEFINE less == OpToRel(<, Nat)
<1>1. IsWellFoundedOn(less, Nat)
  BY NatLessThanWellFounded
<1>2. \A x, y \in Nat : <<y, x>> \in less <=> y < x
  BY DEF OpToRel
<1> HIDE DEF less
<1>3. PICK x \in S : \A y \in S : <<y, x>> \notin less
  BY <1>1, WFMin
<1>4. ASSUME NEW y \in S PROVE x <= y
  <2>1. x \in Nat /\ y \in Nat
    OBVIOUS
  <2>2. ~(y < x)
    BY <1>2, <1>3, <2>1, Zenon
  <2> QED
    BY <2>1, <2>2
<1> QED
  BY <1>4

\* A set of comments has a first one, in the order of the page.
LEMMA FirstOf ==
    ASSUME RowsInv, NEW S, S \subseteq CommentIds, S # {}
    PROVE  \E c \in S : \A d \in S \ {c} :
              comments[c].at < comments[d].at \/ (comments[c].at = comments[d].at /\ c < d)
<1>1. \A c \in S : c \in Nat /\ comments[c].at \in Nat
  BY ThreadAssumption DEF RowsInv, Row
<1> DEFINE times == {comments[c].at : c \in S}
<1>2. times \in SUBSET Nat /\ times # {}
  BY <1>1
<1>3. PICK t \in times : \A y \in times : t <= y
  BY <1>2, LeastOf
<1> DEFINE ids == {c \in S : comments[c].at = t}
<1>4. ids \in SUBSET Nat /\ ids # {}
  BY <1>1
<1>5. PICK c \in ids : \A y \in ids : c <= y
  BY <1>4, LeastOf
<1>6. ASSUME NEW d \in S \ {c}
      PROVE  comments[c].at < comments[d].at \/ (comments[c].at = comments[d].at /\ c < d)
  <2>1. comments[c].at = t /\ comments[d].at \in times /\ t <= comments[d].at
    BY <1>3
  <2>2. CASE comments[d].at = t
    <3>1. c <= d /\ c # d /\ c \in Nat /\ d \in Nat
      BY <1>1, <1>5, <2>2
    <3> QED
      BY <2>1, <2>2, <3>1
  <2>3. CASE comments[d].at # t
    <3>1. t \in Nat /\ comments[d].at \in Nat
      BY <1>1, <1>2
    <3> QED
      BY <2>1, <2>3, <3>1
  <2> QED
    BY <2>2, <2>3
<1> QED
  BY <1>6

\* The rows that are there stay, with their time and their place.
Stays == \A c \in Present : /\ c \in Present' /\ comments'[c].at = comments[c].at
                            /\ comments'[c].parent = comments[c].parent

\* A reader is not disturbed by rows that come or change their text.
LEMMA ReadingKept ==
    ASSUME RowsInv, ReadingInv, Stays, UNCHANGED reading
    PROVE  ReadingInv'
<1>1. Top \subseteq Top'
  BY DEF Stays, Top
<1>2. \A c \in Top : Ahead(c)' <=> Ahead(c)
  BY DEF Stays, Top, Ahead, AfterRow
<1>3. reading'.base \subseteq Top'
  BY <1>1 DEF ReadingInv
<1>4. ASSUME NEW n \in 1..Len(reading'.seen)
      PROVE  reading'.seen[n] \in Top' /\ ~Ahead(reading.seen[n])'
  BY <1>1, <1>2 DEF ReadingInv
<1>5. ASSUME NEW c \in reading'.base
      PROVE  \/ \E n \in 1..Len(reading'.seen) : reading'.seen[n] = c
             \/ reading'.on /\ Ahead(c)'
  BY <1>2 DEF ReadingInv
<1> QED
  BY <1>3, <1>4, <1>5 DEF ReadingInv

\* Who knows goes on knowing: a request tells before it ends.
LEMMA KnowingStays ==
    ASSUME NEW c, NEW u, Knows(c, u), named \subseteq named', lost \subseteq lost',
           \A w \in Writers : WillTell(writer[w], c, u) => WillTell(writer'[w], c, u) \/ <<c, u>> \in named' \cup lost'
    PROVE  Knows(c, u)'
  BY DEF Knows

\* One request moves that was not telling anybody, and nobody is told.
LEMMA RequestMoves ==
    ASSUME RequestInv, NEW w \in Writers, NEW q \in Request, ToWriter(w, q), writer[w].pc # "notify",
           UNCHANGED <<named, lost>>
    PROVE  /\ writer' \in [Writers -> Request] /\ writer'[w] = q
           /\ \A v \in Writers : v # w => writer'[v] = writer[v]
           /\ \A c, u : Knows(c, u) => Knows(c, u)'
<1>1. /\ writer' \in [Writers -> Request] /\ writer'[w] = q
      /\ \A v \in Writers : v # w => writer'[v] = writer[v]
  BY DEF ToWriter, RequestInv
<1>2. ASSUME NEW c, NEW u, Knows(c, u) PROVE Knows(c, u)'
  <2>1. \A v \in Writers : WillTell(writer[v], c, u) => WillTell(writer'[v], c, u)
    BY <1>1 DEF WillTell
  <2> QED
    BY <1>2, <2>1, KnowingStays
<1> QED
  BY <1>1, <1>2

\* An idle request.
LEMMA IdleIsRequest == IdleWriter \in Request /\ IdleWriter.pc = "idle"
  BY DEF IdleWriter, Request, NoParent

\* Spending a budget leaves the rights and the bodies.
LEMMA Spent ==
    ASSUME cenv \in ThreadEnvironment, NEW op, CanComment(op), SpendComment(op),
           op \in {"create", "edit", "delete", "read", "hour", "lose"}
    PROVE  cenv' \in ThreadEnvironment
  BY DEF ThreadEnvironment, CanComment, SpendComment

-----------------------------------------------------------------------------
(* One lemma per action: it keeps every part of the invariant.             *)

\* Init establishes the invariant.
LEMMA ThreadInitInv == CommentInit => ThreadIInv
<1> SUFFICES ASSUME CommentInit PROVE ThreadIInv
  OBVIOUS
<1>1. Present = {}
  BY DEF CommentInit, Present
<1>2. RowsInv
  <2>1. comments \in [CommentIds -> Row]
    BY DEF CommentInit, Row, NoComment, NoParent
  <2>2. IsFiniteSet(Present)
    BY <1>1, FS_EmptySet
  <2> QED
    BY <1>1, <2>1, <2>2, ThreadAssumption DEF CommentInit, RowsInv
<1>3. RequestInv
  BY IdleIsRequest DEF CommentInit, RequestInv
<1>4. MentionInv
  BY <1>1, IdleIsRequest DEF CommentInit, MentionInv
<1>5. ReadingInv
  <2>1. reading \in [on : BOOLEAN, base : SUBSET CommentIds, at : Nat, id : CommentIds \cup {0}, seen : Seq(CommentIds)]
    BY DEF CommentInit, NoReading
  <2>2. reading.base = {} /\ Len(reading.seen) = 0
    BY DEF CommentInit, NoReading
  <2> QED
    BY <2>1, <2>2 DEF ReadingInv
<1> QED
  BY <1>2, <1>3, <1>4, <1>5 DEF ThreadIInv

\* A request that moves without touching a row or telling anybody, and is afterwards
\* about a comment that is there, whose mentions it read before know of it.
LEMMA QuietStep ==
    ASSUME ThreadIInv, NEW w \in Writers, NEW q \in Request, ToWriter(w, q), writer[w].pc # "notify",
           UNCHANGED <<comments, named, lost, hour, reading>>, cenv' \in ThreadEnvironment,
           q.pc \in {"check", "write", "notify"} => q.c \in Present /\ \A u \in q.before : Knows(q.c, u),
           q.pc = "inserting" => q.before = {} /\ q.at # 0
    PROVE  ThreadIInv'
<1>1. /\ writer' \in [Writers -> Request] /\ writer'[w] = q
      /\ \A v \in Writers : v # w => writer'[v] = writer[v]
      /\ \A c, u : Knows(c, u) => Knows(c, u)'
  BY RequestMoves DEF ThreadIInv
<1>2. Present' = Present
  BY DEF Present
<1>3. RowsInv'
  BY <1>2 DEF ThreadIInv, RowsInv
<1>4. RequestInv'
  BY <1>1, <1>2 DEF ThreadIInv, RequestInv
<1>5. MentionInv'
  BY <1>1, <1>2 DEF ThreadIInv, MentionInv
<1>6. ReadingInv'
  BY <1>2, ReadingKept DEF ThreadIInv, Stays
<1> QED
  BY <1>3, <1>4, <1>5, <1>6 DEF ThreadIInv

LEMMA CreateBeginStep ==
    ASSUME ThreadIInv, NEW w \in Writers, NEW u \in Authors, NEW parent \in Present \cup {NoParent},
           NEW body \in cenv.bodies, CreateBegin(w, u, parent, body)
    PROVE  ThreadIInv'
<1> DEFINE q == [IdleWriter EXCEPT !.pc = "inserting", !.op = "create", !.by = u, !.parent = parent,
                                   !.body = body, !.at = hour]
<1>1. hour \in Nat \ {0} /\ body \in SUBSET Authors /\ parent \in CommentIds \cup {NoParent}
  BY DEF ThreadIInv, RowsInv, ThreadEnvironment, Present
<1>2. q \in Request /\ q.pc = "inserting" /\ q.before = {} /\ q.at # 0
  BY <1>1 DEF IdleWriter, Request, NoParent
<1>3. ToWriter(w, q) /\ writer[w].pc # "notify" /\ cenv' \in ThreadEnvironment
  BY Spent DEF CreateBegin, FreeWriter, ThreadIInv, RowsInv
<1> HIDE DEF q
<1> QED
  BY <1>2, <1>3, QuietStep DEF CreateBegin

LEMMA ForCommentStep ==
    ASSUME ThreadIInv, NEW w \in Writers, NEW op \in {"edit", "delete"}, NEW u \in Authors, NEW c \in Present,
           NEW body \in SUBSET Authors, forComment(w, op, u, c, body)
    PROVE  ThreadIInv'
<1> DEFINE q == [IdleWriter EXCEPT !.pc = "check", !.op = op, !.by = u, !.c = c, !.body = body,
                                   !.before = comments[c].body]
<1>1. c \in CommentIds /\ comments[c].body \in SUBSET Authors
  BY DEF ThreadIInv, RowsInv, Row, Present
<1>2. q \in Request /\ q.pc = "check" /\ q.c = c /\ q.before = comments[c].body
  BY <1>1 DEF IdleWriter, Request, NoParent
<1>3. ToWriter(w, q) /\ writer[w].pc # "notify" /\ cenv' \in ThreadEnvironment
  BY Spent DEF forComment, FreeWriter, ThreadIInv, RowsInv
<1>4. \A x \in q.before : Knows(c, x)
  BY <1>2 DEF ThreadIInv, MentionInv
<1> HIDE DEF q
<1> QED
  BY <1>2, <1>3, <1>4, QuietStep DEF forComment

LEMMA CheckAuthorStep ==
    ASSUME ThreadIInv, NEW w \in Writers, CheckAuthor(w)
    PROVE  ThreadIInv'
<1> DEFINE q == [writer[w] EXCEPT !.pc = "write"]
<1>1. writer[w] \in Request /\ writer[w].pc = "check"
  BY DEF ThreadIInv, RequestInv, CheckAuthor
<1>2. q \in Request /\ q.pc = "write" /\ q.c = writer[w].c /\ q.before = writer[w].before
  BY <1>1 DEF Request
<1>3. writer[w].c \in Present /\ \A u \in writer[w].before : Knows(writer[w].c, u)
  BY <1>1 DEF ThreadIInv, RequestInv, MentionInv
<1>4. ToWriter(w, q) \/ ToWriter(w, IdleWriter)
  BY DEF CheckAuthor
<1>5. UNCHANGED <<comments, named, lost, hour, reading>> /\ cenv' \in ThreadEnvironment
  BY DEF CheckAuthor, ThreadIInv, RowsInv
<1> HIDE DEF q
<1>6. CASE ToWriter(w, q)
  BY <1>1, <1>2, <1>3, <1>5, <1>6, QuietStep
<1>7. CASE ToWriter(w, IdleWriter)
  BY <1>1, <1>5, <1>7, IdleIsRequest, QuietStep
<1> QED
  BY <1>4, <1>6, <1>7

LEMMA InsertStep ==
    ASSUME ThreadIInv, NEW w \in Writers, NEW c \in CommentIds, InsertComment(w, c)
    PROVE  ThreadIInv'
<1> DEFINE k == writer[w]
           row == [author |-> k.by, parent |-> k.parent, body |-> k.body, deleted |-> FALSE, at |-> k.at]
           q == [k EXCEPT !.pc = "notify", !.c = c]
<1>1. k \in Request /\ k.pc = "inserting" /\ k.before = {} /\ k.at # 0 /\ c \notin Present
  BY DEF ThreadIInv, RequestInv, InsertComment
<1>2. q \in Request /\ q.pc = "notify" /\ q.c = c /\ q.before = {} /\ q.body = k.body
  BY <1>1 DEF Request
<1>3. row \in Row /\ row.at # 0 /\ row.body = k.body /\ ~row.deleted
  BY <1>1 DEF Request, Row
<1>4. row # NoComment
  BY <1>3 DEF NoComment
<1>5. ToWriter(w, q) /\ comments' = [comments EXCEPT ![c] = row] /\ UNCHANGED <<cenv, named, lost, hour, reading>>
  BY DEF InsertComment
<1> HIDE DEF k, row, q
<1>6. /\ writer' \in [Writers -> Request] /\ writer'[w] = q
      /\ \A v \in Writers : v # w => writer'[v] = writer[v]
      /\ \A d, u : Knows(d, u) => Knows(d, u)'
  BY <1>1, <1>2, <1>5, RequestMoves DEF ThreadIInv, k
<1>7. /\ comments' \in [CommentIds -> Row] /\ comments'[c] = row
      /\ \A d \in CommentIds : d # c => comments'[d] = comments[d]
  BY <1>3, <1>5 DEF ThreadIInv, RowsInv
<1>8. Present' = Present \cup {c}
  BY <1>4, <1>7 DEF Present
<1>9. IsFiniteSet(Present')
  BY <1>8, FS_AddElement DEF ThreadIInv, RowsInv
<1>10. RowsInv'
  BY <1>3, <1>5, <1>7, <1>8, <1>9 DEF ThreadIInv, RowsInv, Present
<1>11. RequestInv'
  BY <1>2, <1>6, <1>8 DEF ThreadIInv, RequestInv
<1>12. \A u \in row.body : Knows(c, u)'
  BY <1>2, <1>3, <1>6 DEF Knows, WillTell
<1>13. MentionInv'
  <2>1. ASSUME NEW d \in Present', NEW u \in comments'[d].body PROVE Knows(d, u)'
    <3>1. CASE d = c
      BY <1>7, <1>12, <2>1, <3>1
    <3>2. CASE d # c
      BY <1>6, <1>7, <1>8, <2>1, <3>2 DEF ThreadIInv, MentionInv, Present
    <3> QED
      BY <3>1, <3>2
  <2>2. ASSUME NEW v \in Writers, writer'[v].pc \in {"check", "write", "notify"}, NEW u \in writer'[v].before
        PROVE  Knows(writer[v].c, u)'
    <3>1. v # w
      BY <1>2, <1>6, <2>2
    <3>2. writer'[v] = writer[v]
      BY <1>6, <3>1
    <3> QED
      BY <1>6, <2>2, <3>2 DEF ThreadIInv, MentionInv
  <2> QED
    BY <2>1, <2>2 DEF MentionInv
<1>14. ReadingInv'
  BY <1>1, <1>5, <1>7, <1>8, ReadingKept DEF ThreadIInv, Stays, Present
<1> QED
  BY <1>10, <1>11, <1>13, <1>14 DEF ThreadIInv

\* A row changes in place.
LEMMA RowChanges ==
    ASSUME RowsInv, NEW c \in Present, NEW r \in Row, comments' = [comments EXCEPT ![c] = r],
           r.at = comments[c].at, r.parent = comments[c].parent, r.deleted => r.body = {}, UNCHANGED <<cenv, hour>>
    PROVE  /\ RowsInv' /\ Present' = Present /\ Stays /\ comments'[c] = r
           /\ \A d \in Present : d # c => comments'[d] = comments[d]
<1>1. c \in CommentIds /\ comments[c].at # 0
  BY DEF Present, RowsInv
<1>2. /\ comments' \in [CommentIds -> Row] /\ comments'[c] = r
      /\ \A d \in CommentIds : d # c => comments'[d] = comments[d]
  BY <1>1 DEF RowsInv
<1>3. r # NoComment
  BY <1>1 DEF NoComment
<1>4. Present' = Present
  BY <1>1, <1>2, <1>3 DEF Present
<1>5. Stays
  BY <1>2, <1>4 DEF Stays, Present
<1>6. RowsInv'
  BY <1>2, <1>4, <1>5 DEF RowsInv, Stays
<1> QED
  BY <1>2, <1>4, <1>5, <1>6 DEF Present

\* An edit: whoever it adds will be told by it, everybody else was read in the old text.
LEMMA UpdateStep ==
    ASSUME ThreadIInv, NEW w \in Writers, UpdateComment(w)
    PROVE  ThreadIInv'
<1> DEFINE k == writer[w]
           r == [comments[k.c] EXCEPT !.body = k.body]
           q == [k EXCEPT !.pc = "notify", !.parent = comments[k.c].parent]
<1>1. k \in Request /\ k.pc = "write" /\ k.c \in Present /\ k.c \in CommentIds /\ comments[k.c] \in Row
  BY DEF ThreadIInv, RequestInv, RowsInv, UpdateComment, Present
<1> PICK c : c = k.c
  OBVIOUS
<1>2. UNCHANGED <<cenv, named, lost, hour, reading>>
  BY DEF UpdateComment
<1>3. CASE comments[k.c].deleted
  <2>1. ToWriter(w, IdleWriter) /\ UNCHANGED comments
    BY <1>3 DEF UpdateComment
  <2>2. cenv' \in ThreadEnvironment
    BY <1>2 DEF ThreadIInv, RowsInv
  <2> QED
    BY <1>1, <1>2, <2>1, <2>2, IdleIsRequest, QuietStep
<1>4. CASE ~comments[k.c].deleted
  <2>1. ToWriter(w, q) /\ comments' = [comments EXCEPT ![k.c].body = k.body]
    BY <1>4 DEF UpdateComment
  <2>2. comments' = [comments EXCEPT ![k.c] = r]
    BY <2>1
  <2>3. q \in Request /\ q.pc = "notify" /\ q.c = k.c /\ q.before = k.before /\ q.body = k.body /\ q.by = k.by
    BY <1>1 DEF Request, Row
  <2>4. r \in Row /\ r.at = comments[k.c].at /\ r.parent = comments[k.c].parent /\ r.body = k.body /\ ~r.deleted
    BY <1>1, <1>4 DEF Request, Row
  <2> HIDE DEF q, r
  <2>5. /\ RowsInv' /\ Present' = Present /\ Stays /\ comments'[k.c] = r
        /\ \A d \in Present : d # k.c => comments'[d] = comments[d]
    BY <1>1, <1>2, <2>2, <2>4, RowChanges DEF ThreadIInv
  <2>6. /\ writer' \in [Writers -> Request] /\ writer'[w] = q
        /\ \A v \in Writers : v # w => writer'[v] = writer[v]
        /\ \A d, u : Knows(d, u) => Knows(d, u)'
    BY <1>1, <1>2, <2>1, <2>3, RequestMoves DEF ThreadIInv
  <2>7. \A u \in k.before : Knows(c, u)'
    <3>1. \A u \in k.before : Knows(c, u)
      BY <1>1 DEF ThreadIInv, MentionInv
    <3> QED
      BY <2>6, <3>1
  <2>8. \A u \in k.body : u \notin k.before => Knows(c, u)'
    BY <2>3, <2>6 DEF Knows, WillTell
  <2>9. RequestInv'
    BY <1>1, <2>3, <2>5, <2>6 DEF ThreadIInv, RequestInv
  <2>12. c = k.c
    OBVIOUS
  <2> HIDE DEF k
  <2>10. MentionInv'
    <3>1. ASSUME NEW d \in Present', NEW u \in comments'[d].body PROVE Knows(d, u)'
      <4>1. CASE d = k.c
        BY <2>4, <2>5, <2>7, <2>8, <2>12, <3>1, <4>1
      <4>2. CASE d # k.c
        BY <2>5, <2>6, <3>1, <4>2 DEF ThreadIInv, MentionInv
      <4> QED
        BY <4>1, <4>2
    <3>2. ASSUME NEW v \in Writers, writer'[v].pc \in {"check", "write", "notify"}, NEW u \in writer'[v].before
          PROVE  Knows(writer[v].c, u)'
      <4>1. CASE v = w
        <5>1. writer'[v] = q
          BY <2>6, <4>1
        <5> QED
          BY <2>3, <2>7, <2>12, <3>2, <5>1
      <4>2. CASE v # w
        <5>1. writer'[v] = writer[v]
          BY <2>6, <4>2
        <5> QED
          BY <2>6, <3>2, <5>1 DEF ThreadIInv, MentionInv
      <4> QED
        BY <4>1, <4>2
    <3> QED
      BY <3>1, <3>2 DEF MentionInv
  <2>11. ReadingInv'
    BY <1>2, <2>5, ReadingKept DEF ThreadIInv
  <2> QED
    BY <2>5, <2>9, <2>10, <2>11 DEF ThreadIInv
<1> QED
  BY <1>3, <1>4

LEMMA DeleteStep ==
    ASSUME ThreadIInv, NEW w \in Writers, DeleteComment(w)
    PROVE  ThreadIInv'
<1> DEFINE k == writer[w]
           r == [comments[k.c] EXCEPT !.body = {}, !.deleted = TRUE]
<1>1. k \in Request /\ k.pc = "write" /\ k.c \in Present /\ k.c \in CommentIds /\ comments[k.c] \in Row
  BY DEF ThreadIInv, RequestInv, RowsInv, DeleteComment, Present
<1>2. UNCHANGED <<cenv, named, lost, hour, reading>> /\ ToWriter(w, IdleWriter)
  BY DEF DeleteComment
<1>3. comments' = [comments EXCEPT ![k.c] = r]
  BY <1>1 DEF DeleteComment, RowsInv, ThreadIInv
<1>4. r \in Row /\ r.at = comments[k.c].at /\ r.parent = comments[k.c].parent /\ r.body = {}
  BY <1>1 DEF Row
<1> HIDE DEF r
<1>5. /\ RowsInv' /\ Present' = Present /\ Stays /\ comments'[k.c] = r
      /\ \A d \in Present : d # k.c => comments'[d] = comments[d]
  BY <1>1, <1>2, <1>3, <1>4, RowChanges DEF ThreadIInv
<1>6. /\ writer' \in [Writers -> Request] /\ writer'[w] = IdleWriter
      /\ \A v \in Writers : v # w => writer'[v] = writer[v]
      /\ \A d, u : Knows(d, u) => Knows(d, u)'
  BY <1>1, <1>2, IdleIsRequest, RequestMoves DEF ThreadIInv
<1>7. RequestInv'
  BY <1>5, <1>6, IdleIsRequest DEF ThreadIInv, RequestInv
<1>8. MentionInv'
  <2>1. ASSUME NEW d \in Present', NEW u \in comments'[d].body PROVE Knows(d, u)'
    BY <1>4, <1>5, <1>6, <2>1 DEF ThreadIInv, MentionInv
  <2>2. ASSUME NEW v \in Writers, writer'[v].pc \in {"check", "write", "notify"}, NEW u \in writer'[v].before
        PROVE  Knows(writer[v].c, u)'
    <3>1. writer'[v] = writer[v]
      BY <1>6, <2>2, IdleIsRequest
    <3> QED
      BY <1>6, <2>2, <3>1 DEF ThreadIInv, MentionInv
  <2> QED
    BY <2>1, <2>2 DEF MentionInv
<1>9. ReadingInv'
  BY <1>2, <1>5, ReadingKept DEF ThreadIInv
<1> QED
  BY <1>5, <1>7, <1>8, <1>9 DEF ThreadIInv

\* Telling: whoever this request was to tell is told or missed.
LEMMA NotifyStep ==
    ASSUME ThreadIInv, NEW w \in Writers, NEW missed, missed \subseteq Recipients(writer[w]), Notify(w, missed),
           cenv' \in ThreadEnvironment
    PROVE  ThreadIInv'
<1> DEFINE k == writer[w]
<1>1. k \in Request /\ k.pc = "notify" /\ k.c \in Present
  BY DEF ThreadIInv, RequestInv, Notify
<1>2. UNCHANGED <<comments, hour, reading>> /\ ToWriter(w, IdleWriter)
  BY DEF Notify
<1>3. /\ writer' \in [Writers -> Request] /\ writer'[w] = IdleWriter
      /\ \A v \in Writers : v # w => writer'[v] = writer[v]
  BY <1>2, IdleIsRequest DEF ToWriter, ThreadIInv, RequestInv
<1>4. named \subseteq named' /\ lost \subseteq lost'
  BY DEF Notify
<1>5. ASSUME NEW d, NEW u, WillTell(k, d, u) PROVE <<d, u>> \in named' \cup lost'
  <2>1. d = k.c /\ u \in k.body /\ (u = k.by \/ u \notin k.before)
    BY <1>5 DEF WillTell
  <2>2. u \in Recipients(k) \cup (k.body \cap {k.by})
    BY <2>1 DEF Recipients, Silenced
  <2> QED
    BY <2>1, <2>2 DEF Notify
<1> HIDE DEF k
<1>6. ASSUME NEW d, NEW u, Knows(d, u) PROVE Knows(d, u)'
  <2>1. \A v \in Writers : WillTell(writer[v], d, u) => WillTell(writer'[v], d, u) \/ <<d, u>> \in named' \cup lost'
    BY <1>3, <1>5 DEF k
  <2> QED
    BY <1>4, <1>6, <2>1, KnowingStays
<1>7. Present' = Present
  BY <1>2 DEF Present
<1>8. RowsInv'
  BY <1>2, <1>7 DEF ThreadIInv, RowsInv
<1>9. RequestInv'
  BY <1>3, <1>7, IdleIsRequest DEF ThreadIInv, RequestInv
<1>10. MentionInv'
  <2>1. ASSUME NEW d \in Present', NEW u \in comments'[d].body PROVE Knows(d, u)'
    BY <1>2, <1>6, <1>7, <2>1 DEF ThreadIInv, MentionInv
  <2>2. ASSUME NEW v \in Writers, writer'[v].pc \in {"check", "write", "notify"}, NEW u \in writer'[v].before
        PROVE  Knows(writer[v].c, u)'
    <3>1. writer'[v] = writer[v]
      BY <1>3, <2>2, IdleIsRequest
    <3> QED
      BY <1>6, <2>2, <3>1 DEF ThreadIInv, MentionInv
  <2> QED
    BY <1>3, <2>1, <2>2 DEF MentionInv
<1>11. ReadingInv'
  BY <1>2, <1>7, ReadingKept DEF ThreadIInv, Stays
<1> QED
  BY <1>8, <1>9, <1>10, <1>11 DEF ThreadIInv

\* The clock and the reader leave rows and requests alone.
LEMMA RestKept ==
    ASSUME ThreadIInv, UNCHANGED <<comments, writer, named, lost>>, cenv' \in ThreadEnvironment,
           hour' \in Nat \ {0}, ReadingInv'
    PROVE  ThreadIInv'
<1>1. Present' = Present
  BY DEF Present
<1>2. \A c, u : Knows(c, u)' <=> Knows(c, u)
  BY DEF Knows
<1>3. RowsInv' /\ RequestInv'
  BY <1>1 DEF ThreadIInv, RowsInv, RequestInv
<1>4. MentionInv'
  BY <1>1, <1>2 DEF ThreadIInv, MentionInv
<1> QED
  BY <1>3, <1>4 DEF ThreadIInv

LEMMA HourStep ==
    ASSUME ThreadIInv, Hour
    PROVE  ThreadIInv'
<1>1. ReadingInv'
  BY ReadingKept DEF Hour, ThreadIInv, Stays, Present
<1>2. cenv' \in ThreadEnvironment /\ hour' \in Nat \ {0}
  BY Spent DEF Hour, ThreadIInv, RowsInv
<1> QED
  BY <1>1, <1>2, RestKept DEF Hour

LEMMA ReadBeginStep ==
    ASSUME ThreadIInv, ReadBegin
    PROVE  ThreadIInv'
<1> DEFINE none == <<>>
<1>1. reading' = [on |-> TRUE, base |-> Top, at |-> 0, id |-> 0, seen |-> none]
  BY DEF ReadBegin, NoReading, Top
<1>2. none \in Seq(CommentIds) /\ Len(none) = 0
  OBVIOUS
<1> HIDE DEF none
<1>3. Top \in SUBSET CommentIds /\ Top' = Top
  BY DEF Top, Present, ReadBegin
<1>4. ReadingInv'
  <2>1. reading'.on = TRUE /\ reading'.base = Top /\ reading'.id = 0 /\ Len(reading'.seen) = 0
    BY <1>1, <1>2
  <2>2. reading' \in [on : BOOLEAN, base : SUBSET CommentIds, at : Nat, id : CommentIds \cup {0}, seen : Seq(CommentIds)]
    BY <1>1, <1>2, <1>3
  <2>3. \A c \in Top : reading'.on /\ Ahead(c)'
    BY <2>1 DEF Ahead
  <2> QED
    BY <1>3, <2>1, <2>2, <2>3 DEF ReadingInv
<1>5. cenv' \in ThreadEnvironment /\ hour' \in Nat \ {0}
  BY Spent DEF ReadBegin, ThreadIInv, RowsInv
<1> QED
  BY <1>4, <1>5, RestKept DEF ReadBegin

\* A page: the first row after the cursor becomes the cursor.
LEMMA ListThreadStep ==
    ASSUME ThreadIInv, ListThread
    PROVE  ThreadIInv'
<1> DEFINE rest == {c \in Present : comments[c].parent = NoParent /\ (reading.id = 0 \/ AfterRow(c, reading.at, reading.id))}
           Before(c, d) == comments[c].at < comments[d].at \/ (comments[c].at = comments[d].at /\ c < d)
           chosen == CHOOSE c \in rest : \A d \in rest \ {c} : Before(c, d)
           more == Cardinality(rest) > 1
<1> PICK first : first = chosen
  OBVIOUS
<1> PICK seen : seen = reading.seen
  OBVIOUS
<1>1. rest = {c \in Top : Ahead(c)}
  BY DEF Top, Ahead
<1>2. /\ reading \in [on : BOOLEAN, base : SUBSET CommentIds, at : Nat, id : CommentIds \cup {0}, seen : Seq(CommentIds)]
      /\ reading.on
  BY DEF ThreadIInv, ReadingInv, ListThread
<1>3. cenv' \in ThreadEnvironment /\ hour' \in Nat \ {0}
  BY DEF ListThread, ThreadIInv, RowsInv
<1>4. Top' = Top /\ rest \subseteq CommentIds /\ IsFiniteSet(rest)
  <2>1. Top' = Top /\ rest \subseteq CommentIds /\ rest \subseteq Present
    BY DEF ListThread, Top, Present
  <2> QED
    BY <2>1, FS_Subset DEF ThreadIInv, RowsInv
<1>5. \A c \in Top : c \in Nat \ {0} /\ c \in CommentIds /\ comments[c].at \in Nat
  BY ThreadAssumption DEF Top, Present, ThreadIInv, RowsInv, Row
<1>6. CASE rest = {}
  <2>1. reading' = [reading EXCEPT !.on = FALSE]
    BY <1>6 DEF ListThread
  <2>2. /\ reading' \in [on : BOOLEAN, base : SUBSET CommentIds, at : Nat, id : CommentIds \cup {0}, seen : Seq(CommentIds)]
        /\ reading'.base = reading.base /\ reading'.at = reading.at /\ reading'.id = reading.id
        /\ reading'.seen = reading.seen
    BY <1>2, <2>1
  <2>3. \A c : Ahead(c)' <=> Ahead(c)
    BY <2>2 DEF Ahead, AfterRow, ListThread
  <2>4. \A c \in reading.base : ~Ahead(c)
    BY <1>1, <1>6 DEF ThreadIInv, ReadingInv
  <2>5. ReadingInv'
    BY <1>4, <2>2, <2>3, <2>4 DEF ThreadIInv, ReadingInv
  <2> QED
    BY <1>3, <2>5, RestKept DEF ListThread
<1>7. CASE rest # {}
  <2>1. reading' = [reading EXCEPT !.on = more, !.at = comments[first].at, !.id = first, !.seen = Append(@, first)]
    BY <1>7 DEF ListThread
  <2>2. first \in rest /\ \A d \in rest \ {first} : Before(first, d)
    <3>1. \E c \in rest : \A d \in rest \ {c} : Before(c, d)
      BY <1>4, <1>7, FirstOf DEF ThreadIInv
    <3> HIDE DEF Before
    <3> QED
      BY <3>1
  <2> HIDE DEF chosen
  <2>3. first \in Top /\ Ahead(first) /\ first \in CommentIds /\ first \in Nat \ {0} /\ comments[first].at \in Nat
    BY <1>1, <1>5, <2>2
  <2> PICK longer : longer = Append(seen, first)
    OBVIOUS
  <2>4. /\ longer \in Seq(CommentIds) /\ Len(longer) = Len(seen) + 1 /\ longer[Len(seen) + 1] = first
        /\ \A n \in 1..Len(seen) : longer[n] = seen[n]
        /\ Len(seen) \in Nat
    BY <1>2, <2>3
  <2>13. more \in BOOLEAN
    OBVIOUS
  <2> HIDE DEF more
  <2>5. /\ reading' \in [on : BOOLEAN, base : SUBSET CommentIds, at : Nat, id : CommentIds \cup {0}, seen : Seq(CommentIds)]
        /\ reading'.base = reading.base /\ reading'.at = comments[first].at /\ reading'.id = first
        /\ reading'.seen = longer /\ reading'.on = more
    BY <1>2, <2>1, <2>3, <2>4, <2>13
  <2>6. \A c : Ahead(c)' <=> Before(first, c)
    BY <2>3, <2>5 DEF Ahead, AfterRow, ListThread
  <2>7. ASSUME NEW c \in Top, ~Ahead(c) PROVE c # first /\ ~Before(first, c)
    <3>1. reading.id # 0 /\ reading.id \in Nat /\ reading.at \in Nat
      BY <1>2, <2>7, ThreadAssumption DEF Ahead
    <3>2. ~AfterRow(c, reading.at, reading.id) /\ AfterRow(first, reading.at, reading.id)
      BY <2>3, <2>7, <3>1 DEF Ahead
    <3>3. c \in Nat /\ comments[c].at \in Nat /\ first \in Nat /\ comments[first].at \in Nat
      BY <1>5, <2>3
    <3> QED
      BY <3>1, <3>2, <3>3 DEF AfterRow
  <2>8. ~Before(first, first)
    BY <2>3
  <2>9. ASSUME NEW n \in 1..Len(longer)
        PROVE  /\ longer[n] \in Top' /\ ~Ahead(longer[n])'
               /\ \A m \in 1..Len(longer) : longer[m] = longer[n] => m = n
    <3>1. \A i \in 1..Len(seen) : longer[i] \in Top /\ ~Before(first, longer[i]) /\ longer[i] # first
      BY <2>4, <2>7 DEF ThreadIInv, ReadingInv
    <3>2. \A i, j \in 1..Len(seen) : longer[i] = longer[j] => i = j
      BY <2>4 DEF ThreadIInv, ReadingInv
    <3>3. \A i \in 1..Len(longer) : i \in 1..Len(seen) \/ i = Len(seen) + 1
      BY <2>4
    <3>4. longer[n] \in Top' /\ ~Before(first, longer[n])
      BY <1>4, <2>3, <2>4, <2>8, <3>1, <3>3
    <3>5. ASSUME NEW m \in 1..Len(longer), longer[m] = longer[n] PROVE m = n
      BY <2>4, <3>1, <3>2, <3>3, <3>5
    <3> HIDE DEF Before
    <3> QED
      BY <2>6, <3>4, <3>5
  <2>10. ASSUME NEW c \in reading.base
         PROVE  \/ \E n \in 1..Len(longer) : longer[n] = c
                \/ more /\ Ahead(c)'
    <3>1. CASE \E n \in 1..Len(seen) : seen[n] = c
      BY <2>4, <3>1
    <3>2. CASE c = first
      BY <2>4, <3>2
    <3>3. CASE c # first /\ ~\E n \in 1..Len(seen) : seen[n] = c
      <4>1. c \in rest
        BY <1>1, <3>3 DEF ThreadIInv, ReadingInv
      <4>2. Before(first, c)
        BY <2>2, <3>3, <4>1
      <4>3. {first, c} \subseteq rest /\ Cardinality({first, c}) = 2 /\ IsFiniteSet({first, c})
        <5>1. IsFiniteSet({first}) /\ Cardinality({first}) = 1
          BY FS_Singleton
        <5>2. {first, c} = {first} \cup {c} /\ c \notin {first}
          BY <3>3
        <5>3. IsFiniteSet({first} \cup {c}) /\ Cardinality({first} \cup {c}) = Cardinality({first}) + 1
          BY <5>1, <5>2, FS_AddElement
        <5>4. IsFiniteSet({first, c}) /\ Cardinality({first, c}) = 2
          BY <5>1, <5>2, <5>3
        <5>5. {first, c} \subseteq rest
          BY <2>2, <4>1
        <5> QED
          BY <5>4, <5>5
      <4>4. Cardinality({first, c}) <= Cardinality(rest) /\ Cardinality(rest) \in Nat
        BY <1>4, <4>3, FS_Subset, FS_CardinalityType
      <4> HIDE DEF rest, Before
      <4> QED
        BY <2>6, <4>2, <4>3, <4>4 DEF more
    <3> QED
      BY <3>1, <3>2, <3>3
  <2>11. reading'.base \subseteq Top'
    BY <1>4, <2>5 DEF ThreadIInv, ReadingInv
  <2>12. ReadingInv'
    <3> HIDE DEF rest
    <3> QED
      BY <2>5, <2>9, <2>10, <2>11 DEF ReadingInv
  <2> QED
    BY <1>3, <2>12, RestKept DEF ListThread
<1> QED
  BY <1>6, <1>7

\* Every step keeps the invariant.
LEMMA ThreadStepInv == ThreadIInv /\ [CommentNext]_commentvars => ThreadIInv'
<1> SUFFICES ASSUME ThreadIInv, [CommentNext]_commentvars PROVE ThreadIInv'
  OBVIOUS
<1>1. ASSUME NEW w \in Writers, NEW u \in Authors, NEW parent \in Present \cup {NoParent},
             NEW body \in cenv.bodies, CreateBegin(w, u, parent, body)
      PROVE  ThreadIInv'
  BY <1>1, CreateBeginStep
<1>2. ASSUME NEW w \in Writers, NEW c \in CommentIds, InsertComment(w, c) PROVE ThreadIInv'
  BY <1>2, InsertStep
<1>3. ASSUME NEW w \in Writers, CheckAuthor(w) PROVE ThreadIInv'
  BY <1>3, CheckAuthorStep
<1>4. ASSUME NEW w \in Writers, UpdateComment(w) PROVE ThreadIInv'
  BY <1>4, UpdateStep
<1>5. ASSUME NEW w \in Writers, DeleteComment(w) PROVE ThreadIInv'
  BY <1>5, DeleteStep
<1>6. ASSUME NEW w \in Writers, notifyNamed(w) PROVE ThreadIInv'
  <2>1. PICK missed : missed = {}
    OBVIOUS
  <2>2. missed \subseteq Recipients(writer[w]) /\ Notify(w, missed) /\ cenv' \in ThreadEnvironment
    BY <1>6, <2>1 DEF notifyNamed, ThreadIInv, RowsInv
  <2> QED
    BY <2>2, NotifyStep
<1>13. ASSUME NEW w \in Writers, notifyLost(w) PROVE ThreadIInv'
  <2>1. cenv' \in ThreadEnvironment
    BY <1>13, Spent DEF notifyLost, ThreadIInv, RowsInv
  <2>2. PICK missed : missed \subseteq Recipients(writer[w]) /\ Notify(w, missed)
    BY <1>13 DEF notifyLost
  <2> QED
    BY <2>1, <2>2, NotifyStep
<1>7. ASSUME NEW w \in Writers, NEW u \in Authors, NEW c \in Present, NEW body \in cenv.bodies,
             forComment(w, "edit", u, c, body)
      PROVE  ThreadIInv'
  <2>1. body \in SUBSET Authors
    BY DEF ThreadIInv, RowsInv, ThreadEnvironment
  <2> QED
    BY <1>7, <2>1, ForCommentStep
<1>8. ASSUME NEW w \in Writers, NEW u \in Authors, NEW c \in Present, forComment(w, "delete", u, c, {})
      PROVE  ThreadIInv'
  <2> DEFINE body == {}
  <2>1. body \in SUBSET Authors /\ forComment(w, "delete", u, c, body)
    BY <1>8
  <2> HIDE DEF body
  <2> QED
    BY <2>1, ForCommentStep
<1>9. CASE ReadBegin
  BY <1>9, ReadBeginStep
<1>10. CASE ListThread
  BY <1>10, ListThreadStep
<1>11. CASE Hour
  BY <1>11, HourStep
<1>12. CASE UNCHANGED commentvars
  <2>1. ReadingInv'
    BY <1>12, ReadingKept DEF commentvars, ThreadIInv, Stays, Present
  <2>2. cenv' \in ThreadEnvironment /\ hour' \in Nat \ {0}
    BY <1>12 DEF commentvars, ThreadIInv, RowsInv
  <2> QED
    BY <1>12, <2>1, <2>2, RestKept DEF commentvars
<1> QED
  BY <1>1, <1>2, <1>3, <1>4, <1>5, <1>6, <1>7, <1>8, <1>9, <1>10, <1>11, <1>12, <1>13 DEF CommentNext

-----------------------------------------------------------------------------
(* Theorems.                                                               *)

\* The invariant says what a thread promises.
LEMMA ThreadIInvSound == ThreadIInv => ThreadSound
<1> SUFFICES ASSUME ThreadIInv PROVE ThreadSound
  OBVIOUS
<1>1. MentionedWereTold
  BY DEF ThreadIInv, MentionInv, Knows, WillTell, MentionedWereTold
<1>3. TombstonesStay
  BY DEF ThreadIInv, RowsInv, TombstonesStay
<1>2. ASSUME ~reading.on, NEW c \in reading.base
      PROVE  Cardinality({n \in DOMAIN reading.seen : reading.seen[n] = c}) = 1
  <2>1. PICK m \in 1..Len(reading.seen) : reading.seen[m] = c
    BY <1>2 DEF ThreadIInv, ReadingInv
  <2>2. DOMAIN reading.seen = 1..Len(reading.seen)
    BY DEF ThreadIInv, ReadingInv
  <2>3. {n \in DOMAIN reading.seen : reading.seen[n] = c} = {m}
    BY <2>1, <2>2 DEF ThreadIInv, ReadingInv
  <2> QED
    BY <2>3, FS_Singleton
<1> QED
  BY <1>1, <1>2, <1>3 DEF ThreadSound, ThreadShowsEachOnce

\* However edits, deletions and their notifications overlap, whoever a comment mentions was
\* told, or is about to be by the request that put the mention there, or that request's
\* notification failed (Update leaves out whom it read in the old text, notify discards
\* Deliver's error); a deleted comment stays empty; and a reader who pages through the thread sees each comment
\* that was there exactly once, while others comment, edit and delete (Thread).
THEOREM ThreadAlwaysSound == CommentSpec => []ThreadSound
<1>1. CommentInit => ThreadIInv
  BY ThreadInitInv
<1>2. ThreadIInv /\ [CommentNext]_commentvars => ThreadIInv'
  BY ThreadStepInv
<1>3. ThreadIInv => ThreadSound
  BY ThreadIInvSound
<1> QED
  BY <1>1, <1>2, <1>3, PTL DEF CommentSpec

-----------------------------------------------------------------------------
(* The inductive invariant of the provider, in parts.  An update is a set of *)
(* edits, and L stands for the log.                                          *)

Edits == SUBSET Nat
Statuses == {"connecting", "saving", "synced", "read-only", "revoked", "error"}
Recoveries ==
    [at : {"idle", "get", "got", "post", "posted"}, since : Nat, seq : Nat, ver : Nat,
     load : Edits, through : Nat, more : BOOLEAN, requested : BOOLEAN]
Compactions == [at : {"idle", "sent", "done"}, seq : Nat, content : Edits, head : Nat]
Clients ==
    [status : Statuses, canWrite : BOOLEAN, wm : Nat, ahead : SUBSET Nat, doc : Edits,
     pending : Edits, made : Nat, sends : Edits, cycle : Nat, needs : BOOLEAN,
     rec : Recoveries, compHead : Nat, compWm : Int, comp : Compactions,
     desired : BOOLEAN, joined : BOOLEAN]

\* The log holds the edit.
Has(L, e) == \E s \in 1..Len(L) : e \in L[s]
AllLogged(L, n) == \A e \in 1..n : Has(L, e)

\* The document holds what the watermark and the seqs ahead of it stand for.
ReplicaOk(c, L) ==
    /\ c.wm <= Len(L) /\ c.ahead \subseteq (c.wm + 2)..Len(L) /\ c.compHead <= Len(L)
    /\ \A s \in (1..c.wm) \cup c.ahead : L[s] \subseteq c.doc

\* An edit is pending or logged; what is neither in doubt nor being recovered is on the
\* socket or logged.
Trusted(c) ==
    /\ ~c.needs
    /\ c.sends # {} \/ (c.status \in {"saving", "synced", "read-only"} /\ c.rec.at = "idle")
EditsOk(c, L) ==
    /\ c.pending \subseteq 1..c.made /\ c.sends \subseteq c.pending /\ c.cycle <= c.made
    /\ c.pending \subseteq c.doc
    /\ \A e \in 1..c.made : e \in c.pending \/ Has(L, e)
    /\ c.status \in {"synced", "read-only"} => c.pending = {}
    /\ Trusted(c) => \A e \in 1..c.made : e \in c.sends \/ Has(L, e)

\* What a request of a recovery, or its answer, stands for.
RecoveryOk(r, wm, doc, L) ==
    /\ r.seq <= Len(L)
    /\ r.seq # 0 => AllLogged(L, r.ver)
    /\ r.at \in {"get", "got"} => r.since <= wm
    /\ r.at = "got" =>
          /\ r.through <= Len(L)
          /\ ~r.more => r.seq <= r.through
          /\ \A s \in 1..r.through : s <= r.since \/ L[s] \subseteq r.load
    /\ r.at = "post" => r.load \subseteq doc /\ \A e \in 1..r.ver : e \in r.load \/ Has(L, e)
    /\ r.at = "posted" => r.seq # 0 /\ L[r.seq] \subseteq doc

\* A snapshot on its way covers what it is labelled with.
SnapshotOk(seq, content, L) == seq <= Len(L) /\ \A s \in 1..seq : L[s] \subseteq content
CompactionOk(k, L) == k.at = "sent" => SnapshotOk(k.seq, k.content, L)

ClientOk(c, L) ==
    /\ c \in Clients
    /\ ReplicaOk(c, L)
    /\ EditsOk(c, L)
    /\ RecoveryOk(c.rec, c.wm, c.doc, L)
    /\ CompactionOk(c.comp, L)

\* The frames of the socket, and what an update and a compaction request name.
FrameTypes == {"joined", "left", "update", "compact", "rejected", "error"}
Frames == [t : FrameTypes, seq : Nat, load : Edits, own : BOOLEAN, w : BOOLEAN, gap : BOOLEAN]
FrameOk(f, L) ==
    /\ f.t = "update" => f.seq \in 1..Len(L) /\ f.load = L[f.seq]
    /\ f.t = "compact" => f.seq <= Len(L)
Requests == [t : {"join", "leave", "update"}, load : Edits]
Writes == [load : Edits, origin : Nat]
Relays == [seq : Nat, origin : Nat]

ServerInv ==
    /\ penv \in ProviderEnvironments
    /\ conn \in {"down", "up", "closing"} /\ connNo \in Nat /\ gap \in BOOLEAN
    /\ {room, access} \subseteq {"none", "read", "write"}
    /\ conn # "up" => room = "none"
    /\ log \in Seq(Edits) /\ remote \in Nat /\ asks \in Nat
    /\ snap \in [seq : Nat, content : Edits] /\ SnapshotOk(snap.seq, snap.content, log)
    /\ out \in Seq(Frames) /\ \A i \in DOMAIN out : FrameOk(out[i], log)
    /\ inq \in Seq(Requests)
    /\ bcast \subseteq Relays /\ \A b \in bcast : b.seq \in 1..Len(log)
    /\ late \subseteq Writes

ReplicaInv == ClientOk(cl, log) /\ cl.made <= MaxEdits

\* Nothing fails and at most one compaction is asked for.
Undisturbed == Faults = {} /\ MaxAsks <= 1

\* The provider is neither stopped nor out of the room of its own will, and a snapshot on
\* its way answers all that was asked.
Steady(c) ==
    /\ c.status \in {"connecting", "saving", "synced", "read-only"}
    /\ c.desired
    /\ c.comp.at # "idle" => c.compHead <= c.comp.head
Asked(c) == c.compHead # 0 \/ c.comp.at # "idle"

\* The provider waits for the answer to its join.
Waiting(c) == c.status = "connecting" /\ c.rec.at = "idle" /\ c.sends = {}
Entering == \E i \in DOMAIN out : out[i].t = "joined"

\* The seq s is applied, or the page on its way goes beyond it; or it is yet to come.
Seen(c, s) == s <= c.wm \/ s \in c.ahead
Awaited(r, s) == r.at = "get" \/ (r.at = "got" /\ (r.more \/ s <= r.through))
Coming(s) == (\E b \in bcast : b.seq = s) \/ (\E i \in DOMAIN out : out[i].t = "update" /\ out[i].seq = s)

\* The frames of an undisturbed connection: the answer to the join comes first, and there
\* is one compaction request at most.
FramesNow ==
    /\ \A i \in DOMAIN out : out[i].t \in {"joined", "update", "compact"} /\ ~out[i].gap
    /\ \A i \in DOMAIN out : out[i].t = "joined" => i = 1
    /\ \A i, j \in DOMAIN out : out[i].t = "compact" /\ out[j].t = "compact" => i = j
    /\ asks = 0 \/ (\E i \in DOMAIN out : out[i].t = "compact") => ~Asked(cl)
    /\ asks = 0 => \A i \in DOMAIN out : out[i].t # "compact"

\* Where the connection stands: out of the room the provider waits.
PhaseNow ==
    /\ conn # "up" => out = <<>> /\ inq = <<>>
    /\ conn = "up" /\ room = "none" => out = <<>> /\ Len(inq) = 1 /\ inq[1].t = "join"
    /\ room = "write" => \A i \in DOMAIN inq : inq[i].t = "update"
    /\ conn = "down" \/ (conn = "up" /\ room = "none") \/ Entering => Waiting(cl)

CalmNow ==
    /\ access = "write" /\ room \in {"none", "write"} /\ ~gap /\ asks <= 1
    /\ Steady(cl)
    /\ FramesNow
    /\ PhaseNow

\* Every update is applied or on its way to a provider whose join is answered.
CoverNow ==
    room = "write" /\ ~Entering =>
        \A s \in 1..Len(log) : Seen(cl, s) \/ Awaited(cl.rec, s) \/ Coming(s)

CalmInv == Undisturbed => CalmNow /\ CoverNow

ProviderInv == ServerInv /\ ReplicaInv /\ CalmInv

-----------------------------------------------------------------------------
(* Facts about numbers, frames and the log.                                *)
\* The watermark moves over the seqs that follow it without a hole, and no further.
LEMMA Absorbed ==
    ASSUME NEW w \in Nat, NEW n \in Nat, w <= n, NEW S \in SUBSET (1..n)
    PROVE  /\ Absorb(w, S) \in w..n
           /\ Absorb(w, S) + 1 \notin S
           /\ \A s \in (w + 1)..Absorb(w, S) : s \in S
<1> DEFINE T == {m \in Nat : m >= w /\ m + 1 \notin S}
           U == {m \in {w} \cup S : m >= w /\ m + 1 \notin S}
<1>1. T \in SUBSET Nat /\ n \in T
  OBVIOUS
<1>2. PICK a \in T : \A y \in T : a <= y
  BY <1>1, LeastOf
<1>3. \A s \in (w + 1)..a : s \in S
  <2> SUFFICES ASSUME NEW s \in (w + 1)..a, s \notin S PROVE FALSE
    OBVIOUS
  <2>1. s - 1 \in T /\ ~(a <= s - 1)
    BY <1>2
  <2> QED BY <2>1, <1>2
<1>4. a \in U /\ U \subseteq T
  <2>1. a = w \/ a \in S
    BY <1>2, <1>3
  <2>2. \A s \in S : s \in Nat
    OBVIOUS
  <2> QED BY <2>1, <2>2, <1>2
<1>5. \A y \in U : a <= y
  BY <1>2, <1>4
<1>6. Min(U) = a
  <2>1. Min(U) \in U /\ \A y \in U : Min(U) <= y
    BY <1>4, <1>5 DEF Min
  <2>2. Min(U) \in Nat /\ a \in Nat /\ Min(U) <= a /\ a <= Min(U)
    BY <2>1, <1>4, <1>5
  <2> QED BY <2>2
<1>7. Absorb(w, S) = a
  BY <1>6 DEF Absorb
<1>8. a \in w..n
  BY <1>4, <1>2
<1> QED BY <1>2, <1>3, <1>7, <1>8

LEMMA LargerOfTwo ==
    ASSUME NEW a \in Nat, NEW b \in Nat
    PROVE  Max({a, b}) \in {a, b} /\ Max({a, b}) >= a /\ Max({a, b}) >= b
  BY DEF Max

LEMMA SmallerOfTwo ==
    ASSUME NEW a \in Nat, NEW b \in Nat
    PROVE  Min({a, b}) \in {a, b} /\ Min({a, b}) <= a /\ Min({a, b}) <= b
  BY DEF Min

-----------------------------------------------------------------------------
(* The provider's methods, one lemma each.                                 *)

\* What is common to all that the provider does: no seq is forgotten, it does not stop by
\* itself, and it asks for no compaction that nobody wanted.
Keeps(c, d) ==
    /\ c.wm <= d.wm /\ c.doc \subseteq d.doc /\ d.made = c.made
    /\ \A s \in Nat : Seen(c, s) => Seen(d, s)
    /\ Steady(c) => Steady(d)
    /\ Asked(d) => Asked(c)
KeepsRecovery(c, d) == \A s \in Nat : Awaited(c.rec, s) => Awaited(d.rec, s)

LEMMA NoRecTyped == NoRec \in Recoveries /\ NoRec.at = "idle" /\ NoRec.seq = 0 /\ NoRec.ver = 0
  BY DEF NoRec, Recoveries, Edits

LEMMA LogTyped ==
    ASSUME NEW L \in Seq(Edits)
    PROVE  Len(L) \in Nat /\ \A s \in 1..Len(L) : L[s] \subseteq Nat
  BY DEF Edits

\* Setting the status alone.
LEMMA StatusSet ==
    ASSUME NEW L \in Seq(Edits), NEW c, ClientOk(c, L), NEW v \in {"connecting", "error", "revoked"}
    PROVE  /\ ClientOk([c EXCEPT !.status = v], L)
           /\ v = "connecting" => Keeps(c, [c EXCEPT !.status = v])
           /\ [c EXCEPT !.status = v].rec = c.rec
<1> DEFINE d == [c EXCEPT !.status = v]
<1>1. c \in Clients
  BY DEF ClientOk
<1>2. d \in Clients
  BY <1>1 DEF Clients, Statuses
<1>3. /\ d.status = v /\ d.canWrite = c.canWrite /\ d.wm = c.wm /\ d.ahead = c.ahead /\ d.doc = c.doc
      /\ d.pending = c.pending /\ d.made = c.made /\ d.sends = c.sends /\ d.cycle = c.cycle
      /\ d.needs = c.needs /\ d.rec = c.rec /\ d.compHead = c.compHead /\ d.comp = c.comp
      /\ d.desired = c.desired
  BY <1>1 DEF Clients
<1> HIDE DEF d
<1>4. ClientOk(d, L)
  BY <1>2, <1>3 DEF ClientOk, ReplicaOk, EditsOk, Trusted
<1>5. c.wm \in Nat
  BY <1>1 DEF Clients
<1>6. v = "connecting" => Keeps(c, d)
  BY <1>3, <1>5 DEF Keeps, Seen, Steady, Asked
<1> QED BY <1>3, <1>4, <1>6 DEF d

\* The request of a catch-up.
LEMMA CatchUpKeeps ==
    ASSUME NEW L \in Seq(Edits), NEW c, ClientOk(c, L), NEW seq \in Nat, NEW ver \in Nat,
           seq <= Len(L), seq # 0 => AllLogged(L, ver)
    PROVE  /\ ClientOk(catchUp(c, seq, ver), L)
           /\ Keeps(c, catchUp(c, seq, ver)) /\ KeepsRecovery(c, catchUp(c, seq, ver))
           /\ catchUp(c, seq, ver).rec.at = "get"
<1> DEFINE r == [NoRec EXCEPT !.at = "get", !.since = c.wm, !.seq = seq,
                              !.ver = ver, !.requested = c.rec.requested]
           d == [c EXCEPT !.rec = r]
<1>1. c \in Clients /\ c.wm \in Nat /\ c.rec \in Recoveries
  BY DEF ClientOk, Clients
<1>2. r \in Recoveries /\ r.at = "get" /\ r.since = c.wm /\ r.seq = seq /\ r.ver = ver
  BY <1>1 DEF Recoveries, NoRec, Edits
<1> HIDE DEF r
<1>3. d \in Clients
  BY <1>1, <1>2 DEF Clients
<1>4. /\ d.status = c.status /\ d.canWrite = c.canWrite /\ d.wm = c.wm /\ d.ahead = c.ahead /\ d.doc = c.doc
      /\ d.pending = c.pending /\ d.made = c.made /\ d.sends = c.sends /\ d.cycle = c.cycle
      /\ d.needs = c.needs /\ d.rec = r /\ d.compHead = c.compHead /\ d.comp = c.comp
      /\ d.desired = c.desired
  BY <1>1 DEF Clients
<1>5. d = catchUp(c, seq, ver)
  BY DEF catchUp, r
<1> HIDE DEF d
<1>6. RecoveryOk(d.rec, d.wm, d.doc, L)
  BY <1>1, <1>2, <1>4 DEF RecoveryOk
<1>7. ClientOk(d, L)
  BY <1>2, <1>3, <1>4, <1>6 DEF ClientOk, ReplicaOk, EditsOk, Trusted
<1>8. Keeps(c, d) /\ KeepsRecovery(c, d)
  BY <1>1, <1>2, <1>4 DEF Keeps, KeepsRecovery, Seen, Steady, Asked, Awaited
<1> QED BY <1>2, <1>4, <1>5, <1>7, <1>8

\* The request that flushes what is pending.
LEMMA PostKeeps ==
    ASSUME NEW L \in Seq(Edits), NEW c, ClientOk(c, L)
    PROVE  ClientOk(post(c), L) /\ Keeps(c, post(c))
<1> DEFINE r == [NoRec EXCEPT !.at = "post", !.load = c.pending,
                              !.ver = c.made, !.requested = c.rec.requested]
           d == [c EXCEPT !.rec = r]
<1>1. c \in Clients /\ c.wm \in Nat /\ c.rec \in Recoveries /\ c.made \in Nat /\ c.pending \in Edits
  BY DEF ClientOk, Clients
<1>2. r \in Recoveries /\ r.at = "post" /\ r.load = c.pending /\ r.seq = 0 /\ r.ver = c.made
  BY <1>1 DEF Recoveries, NoRec, Edits
<1> HIDE DEF r
<1>3. d \in Clients
  BY <1>1, <1>2 DEF Clients
<1>4. /\ d.status = c.status /\ d.canWrite = c.canWrite /\ d.wm = c.wm /\ d.ahead = c.ahead /\ d.doc = c.doc
      /\ d.pending = c.pending /\ d.made = c.made /\ d.sends = c.sends /\ d.cycle = c.cycle
      /\ d.needs = c.needs /\ d.rec = r /\ d.compHead = c.compHead /\ d.comp = c.comp
      /\ d.desired = c.desired
  BY <1>1 DEF Clients
<1>5. d = post(c)
  BY DEF post, r
<1> HIDE DEF d
<1>6. RecoveryOk(d.rec, d.wm, d.doc, L)
  BY <1>1, <1>2, <1>4, LogTyped DEF RecoveryOk, ClientOk, EditsOk
<1>7. ClientOk(d, L)
  BY <1>2, <1>3, <1>4, <1>6 DEF ClientOk, ReplicaOk, EditsOk, Trusted
<1>8. Keeps(c, d)
  BY <1>1, <1>2, <1>4 DEF Keeps, Seen, Steady, Asked
<1> QED BY <1>5, <1>7, <1>8

\* startRecovery(true).
LEMMA StartCatchUpKeeps ==
    ASSUME NEW L \in Seq(Edits), NEW c, ClientOk(c, L)
    PROVE  /\ ClientOk(startCatchUp(c), L)
           /\ Keeps(c, startCatchUp(c)) /\ KeepsRecovery(c, startCatchUp(c))
           /\ Steady(c) /\ c.rec.at = "idle" => startCatchUp(c).rec.at = "get"
<1>1. c \in Clients /\ c.wm \in Nat
  BY DEF ClientOk, Clients
<1>2. CASE RecoveryInFlight(c) \/ Revoked(c)
  BY <1>1, <1>2 DEF startCatchUp, Keeps, KeepsRecovery, Steady, Revoked, RecoveryInFlight
<1>3. CASE ~(RecoveryInFlight(c) \/ Revoked(c))
  <2>1. PICK e : e = [c EXCEPT !.status = "connecting"]
    OBVIOUS
  <2>2. ClientOk(e, L) /\ Keeps(c, e) /\ e.rec = c.rec
    BY <2>1, StatusSet
  <2>3. Len(L) \in Nat
    BY LogTyped
  <2>4. PICK d : d = catchUp(e, 0, 0)
    OBVIOUS
  <2>5. ClientOk(d, L) /\ Keeps(e, d) /\ KeepsRecovery(e, d) /\ d.rec.at = "get"
    BY <2>2, <2>3, <2>4, CatchUpKeeps
  <2>6. startCatchUp(c) = d
    BY <1>3, <2>1, <2>4 DEF startCatchUp
  <2>7. e.wm \in Nat /\ d.wm \in Nat
    BY <2>2, <2>5 DEF ClientOk, Clients
  <2>8. Keeps(c, d)
    BY <1>1, <2>2, <2>5, <2>7 DEF Keeps
  <2> QED BY <2>2, <2>5, <2>6, <2>8 DEF KeepsRecovery
<1> QED BY <1>2, <1>3

LEMMA KeepsTransitive ==
    ASSUME NEW a \in Clients, NEW b \in Clients, NEW c \in Clients, Keeps(a, b), Keeps(b, c)
    PROVE  Keeps(a, c) /\ (KeepsRecovery(a, b) /\ KeepsRecovery(b, c) => KeepsRecovery(a, c))
<1>1. a.wm \in Nat /\ b.wm \in Nat /\ c.wm \in Nat
  BY DEF Clients
<1> QED BY <1>1 DEF Keeps, KeepsRecovery

\* beginHttpRecovery up to its use of startRecovery.
LEMMA DistrustKeeps ==
    ASSUME NEW L \in Seq(Edits), NEW c, ClientOk(c, L)
    PROVE  /\ ClientOk(distrustSocket(c), L) /\ Keeps(c, distrustSocket(c))
           /\ distrustSocket(c).rec = c.rec /\ distrustSocket(c).status = c.status
           /\ distrustSocket(c).sends = {} /\ distrustSocket(c).pending = c.pending
<1> DEFINE none == {}
           d == distrustSocket(c)
<1>1. c \in Clients /\ c.wm \in Nat /\ c.made \in Nat
  BY DEF ClientOk, Clients
<1>2. d \in Clients
  BY <1>1 DEF Clients, distrustSocket, clearSocketSends, Edits
<1>3. /\ d.status = c.status /\ d.canWrite = c.canWrite /\ d.wm = c.wm /\ d.ahead = c.ahead /\ d.doc = c.doc
      /\ d.pending = c.pending /\ d.made = c.made /\ d.sends = none /\ d.cycle = 0
      /\ d.needs = (c.needs \/ c.pending # {}) /\ d.rec = c.rec /\ d.compHead = c.compHead /\ d.comp = c.comp
      /\ d.desired = c.desired
  BY <1>1 DEF Clients, distrustSocket, clearSocketSends
<1> HIDE DEF d
<1>4. EditsOk(d, L)
  <2>1. EditsOk(c, L)
    BY DEF ClientOk
  <2>2. ~d.needs => c.pending = {}
    BY <1>3
  <2>3. Trusted(d) => \A e \in 1..d.made : Has(L, e)
    BY <1>3, <2>1, <2>2 DEF EditsOk, Trusted
  <2> QED BY <1>1, <1>3, <2>1, <2>3 DEF EditsOk
<1>6. ClientOk(d, L)
  BY <1>2, <1>3, <1>4 DEF ClientOk, ReplicaOk
<1>5. Keeps(c, d)
  BY <1>1, <1>3 DEF Keeps, Seen, Steady, Asked
<1> QED BY <1>3, <1>5, <1>6 DEF d

\* beginHttpRecovery(true).
LEMMA BeginHttpRecoveryKeeps ==
    ASSUME NEW L \in Seq(Edits), NEW c, ClientOk(c, L)
    PROVE  /\ ClientOk(beginHttpRecovery(c), L)
           /\ Keeps(c, beginHttpRecovery(c)) /\ KeepsRecovery(c, beginHttpRecovery(c))
<1>1. c \in Clients /\ c.wm \in Nat
  BY DEF ClientOk, Clients
<1>2. PICK e : e = distrustSocket(c)
  OBVIOUS
<1>3. ClientOk(e, L) /\ Keeps(c, e) /\ e.rec = c.rec /\ e.status = c.status
  BY <1>2, DistrustKeeps
<1>4. KeepsRecovery(c, e) /\ e \in Clients
  BY <1>3 DEF KeepsRecovery, ClientOk
<1>5. CASE Revoked(c)
  BY <1>1, <1>5 DEF beginHttpRecovery, Keeps, KeepsRecovery
<1>6. CASE ~Revoked(c) /\ RecoveryInFlight(c)
  <2> DEFINE d == [e EXCEPT !.rec.requested = TRUE]
  <2>1. e.rec \in Recoveries
    BY <1>4 DEF Clients
  <2>2. PICK r : r = [e.rec EXCEPT !.requested = TRUE]
    OBVIOUS
  <2>3. /\ r \in Recoveries /\ r.at = e.rec.at /\ r.since = e.rec.since /\ r.seq = e.rec.seq /\ r.ver = e.rec.ver
        /\ r.load = e.rec.load /\ r.through = e.rec.through /\ r.more = e.rec.more
    BY <2>1, <2>2 DEF Recoveries
  <2>4. d = [e EXCEPT !.rec = r]
    BY <2>2, <1>4 DEF Clients
  <2>5. d \in Clients
    BY <1>4, <2>3, <2>4 DEF Clients
  <2>6. /\ d.status = e.status /\ d.canWrite = e.canWrite /\ d.wm = e.wm /\ d.ahead = e.ahead /\ d.doc = e.doc
        /\ d.pending = e.pending /\ d.made = e.made /\ d.sends = e.sends /\ d.cycle = e.cycle
        /\ d.needs = e.needs /\ d.rec = r /\ d.compHead = e.compHead /\ d.comp = e.comp
        /\ d.desired = e.desired
    BY <1>4, <2>4 DEF Clients
  <2>7. beginHttpRecovery(c) = d
    BY <1>2, <1>6 DEF beginHttpRecovery
  <2> HIDE DEF d
  <2>8. RecoveryOk(d.rec, d.wm, d.doc, L)
    BY <1>3, <2>3, <2>6 DEF ClientOk, RecoveryOk
  <2>9. ClientOk(d, L)
    BY <1>3, <2>3, <2>5, <2>6, <2>8 DEF ClientOk, ReplicaOk, EditsOk, Trusted
  <2>10. Keeps(e, d) /\ KeepsRecovery(e, d)
    <3>1. e.wm \in Nat
      BY <1>4 DEF Clients
    <3> QED BY <2>3, <2>6, <3>1 DEF Keeps, KeepsRecovery, Seen, Steady, Asked, Awaited
  <2> QED BY <1>1, <1>3, <1>4, <2>5, <2>7, <2>9, <2>10, KeepsTransitive
<1>7. CASE ~Revoked(c) /\ ~RecoveryInFlight(c)
  <2>1. PICK d : d = startCatchUp(e)
    OBVIOUS
  <2>2. ClientOk(d, L) /\ Keeps(e, d) /\ KeepsRecovery(e, d)
    BY <1>3, <2>1, StartCatchUpKeeps
  <2>3. d = beginHttpRecovery(c) /\ d \in Clients
    BY <1>2, <1>7, <2>1, <2>2 DEF beginHttpRecovery, ClientOk
  <2> QED BY <1>1, <1>3, <1>4, <2>2, <2>3, KeepsTransitive
<1> QED BY <1>5, <1>6, <1>7

LEMMA MaybeCompactKeeps ==
    ASSUME NEW L \in Seq(Edits), NEW c, ClientOk(c, L)
    PROVE  /\ ClientOk(maybeCompact(c), L)
           /\ Keeps(c, maybeCompact(c)) /\ KeepsRecovery(c, maybeCompact(c))
           /\ c.compHead = 0 => maybeCompact(c) = c
<1>1. c \in Clients /\ c.wm \in Nat /\ c.doc \in Edits /\ c.compHead \in Nat /\ c.made \in Nat
  BY DEF ClientOk, Clients
<1>2. Keeps(c, c) /\ KeepsRecovery(c, c)
  BY <1>1 DEF Keeps, KeepsRecovery
<1> DEFINE idle == ~c.canWrite \/ c.compHead = 0 \/ c.comp.at # "idle"
           ready == Synchronized(c) /\ c.wm >= c.compHead
           behind == c.pending = {} /\ c.sends = {} /\ ~RecoveryInFlight(c) /\ c.compWm # c.wm
<1>3. CASE ~idle /\ ready
  <2> DEFINE k == [at |-> "sent", seq |-> c.wm, content |-> c.doc, head |-> c.compHead]
             d == [c EXCEPT !.comp = k]
  <2>1. k \in Compactions /\ k.at = "sent" /\ k.seq = c.wm /\ k.content = c.doc /\ k.head = c.compHead
    BY <1>1 DEF Compactions
  <2> HIDE DEF k
  <2>2. d \in Clients
    BY <1>1, <2>1 DEF Clients
  <2>3. /\ d.status = c.status /\ d.canWrite = c.canWrite /\ d.wm = c.wm /\ d.ahead = c.ahead /\ d.doc = c.doc
        /\ d.pending = c.pending /\ d.made = c.made /\ d.sends = c.sends /\ d.cycle = c.cycle
        /\ d.needs = c.needs /\ d.rec = c.rec /\ d.compHead = c.compHead /\ d.comp = k
        /\ d.desired = c.desired
    BY <1>1 DEF Clients
  <2>4. maybeCompact(c) = d
    BY <1>3 DEF maybeCompact, k
  <2> HIDE DEF d
  <2>5. CompactionOk(d.comp, L)
    BY <2>1, <2>3 DEF CompactionOk, SnapshotOk, ClientOk, ReplicaOk
  <2>6. ClientOk(d, L)
    BY <2>2, <2>3, <2>5 DEF ClientOk, ReplicaOk, EditsOk, Trusted
  <2>7. Keeps(c, d) /\ KeepsRecovery(c, d)
    BY <1>1, <1>3, <2>1, <2>3 DEF Keeps, KeepsRecovery, Seen, Steady, Asked
  <2> QED BY <1>3, <2>4, <2>6, <2>7
<1>4. CASE ~idle /\ ~ready /\ behind
  <2> DEFINE e == [c EXCEPT !.compWm = c.wm]
  <2>1. e \in Clients
    BY <1>1 DEF Clients
  <2>2. /\ e.status = c.status /\ e.canWrite = c.canWrite /\ e.wm = c.wm /\ e.ahead = c.ahead /\ e.doc = c.doc
        /\ e.pending = c.pending /\ e.made = c.made /\ e.sends = c.sends /\ e.cycle = c.cycle
        /\ e.needs = c.needs /\ e.rec = c.rec /\ e.compHead = c.compHead /\ e.comp = c.comp
        /\ e.desired = c.desired
    BY <1>1 DEF Clients
  <2>3. maybeCompact(c) = beginHttpRecovery(e)
    BY <1>4 DEF maybeCompact
  <2> HIDE DEF e
  <2>4. ClientOk(e, L)
    BY <2>1, <2>2 DEF ClientOk, ReplicaOk, EditsOk, Trusted
  <2>5. Keeps(c, e) /\ KeepsRecovery(c, e)
    BY <1>1, <2>2 DEF Keeps, KeepsRecovery, Seen, Steady, Asked
  <2>6. PICK d : d = beginHttpRecovery(e)
    OBVIOUS
  <2>7. ClientOk(d, L) /\ Keeps(e, d) /\ KeepsRecovery(e, d)
    BY <2>4, <2>6, BeginHttpRecoveryKeeps
  <2>8. d \in Clients
    BY <2>7 DEF ClientOk
  <2> QED BY <1>1, <1>4, <2>1, <2>3, <2>5, <2>6, <2>7, <2>8, KeepsTransitive
<1>5. CASE idle \/ (~ready /\ ~behind)
  BY <1>2, <1>5 DEF maybeCompact
<1> QED BY <1>3, <1>4, <1>5

\* The watermark moves, over seqs that are applied.
MovesTo(c, w, A, L) ==
    /\ w \in Nat /\ A \in SUBSET Nat
    /\ c.wm <= w /\ w <= Len(L) /\ A \subseteq (w + 2)..Len(L)
    /\ \A s \in (1..w) \cup A : L[s] \subseteq c.doc
    /\ \A s \in c.ahead : s <= w \/ s \in A
MoveTo(c, w, A) == [c EXCEPT !.wm = w, !.ahead = A]

LEMMA WatermarkSet ==
    ASSUME NEW L \in Seq(Edits), NEW c, ClientOk(c, L), NEW w, NEW A, MovesTo(c, w, A, L),
           NEW d, d = MoveTo(c, w, A)
    PROVE  ClientOk(d, L) /\ Keeps(c, d) /\ KeepsRecovery(c, d) /\ d.wm = w /\ d.ahead = A
<1> USE DEF MovesTo, MoveTo
<1>1. c \in Clients /\ c.wm \in Nat /\ c.made \in Nat /\ c.rec \in Recoveries
  BY DEF ClientOk, Clients
<1>2. d \in Clients
  BY <1>1 DEF Clients
<1>3. /\ d.status = c.status /\ d.canWrite = c.canWrite /\ d.wm = w /\ d.ahead = A /\ d.doc = c.doc
      /\ d.pending = c.pending /\ d.made = c.made /\ d.sends = c.sends /\ d.cycle = c.cycle
      /\ d.needs = c.needs /\ d.rec = c.rec /\ d.compHead = c.compHead /\ d.comp = c.comp
      /\ d.desired = c.desired
  BY <1>1 DEF Clients
<1>4. ReplicaOk(d, L) /\ EditsOk(d, L)
  BY <1>3 DEF ClientOk, ReplicaOk, EditsOk, Trusted
<1>5. RecoveryOk(d.rec, d.wm, d.doc, L)
  <2>1. c.rec.since \in Nat
    BY <1>1 DEF Recoveries
  <2> QED BY <1>1, <1>3, <2>1 DEF RecoveryOk, ClientOk
<1>6. ClientOk(d, L)
  BY <1>2, <1>3, <1>4, <1>5 DEF ClientOk
<1>7. Keeps(c, d) /\ KeepsRecovery(c, d)
  BY <1>1, <1>3 DEF Keeps, KeepsRecovery, Seen, Steady, Asked
<1> QED BY <1>3, <1>6, <1>7

LEMMA RecordAppliedSeqKeeps ==
    ASSUME NEW L \in Seq(Edits), NEW c, ClientOk(c, L), NEW seq \in 1..Len(L), L[seq] \subseteq c.doc
    PROVE  /\ ClientOk(recordAppliedSeq(c, seq), L)
           /\ Keeps(c, recordAppliedSeq(c, seq)) /\ KeepsRecovery(c, recordAppliedSeq(c, seq))
           /\ Seen(recordAppliedSeq(c, seq), seq)
<1>1. /\ c \in Clients /\ c.wm \in Nat /\ c.ahead \in SUBSET Nat /\ Len(L) \in Nat
      /\ c.wm <= Len(L) /\ c.ahead \subseteq (c.wm + 2)..Len(L)
      /\ \A s \in (1..c.wm) \cup c.ahead : L[s] \subseteq c.doc
  BY DEF ClientOk, Clients, ReplicaOk
<1>2. CASE seq <= c.wm
  BY <1>1, <1>2 DEF recordAppliedSeq, Keeps, KeepsRecovery, Seen
<1>3. CASE ~(seq <= c.wm)
  <2>1. PICK held : held = c.ahead \cup {seq}
    OBVIOUS
  <2>2. held \in SUBSET (1..Len(L))
    BY <1>1, <2>1
  <2>3. PICK w : w = Absorb(c.wm, held)
    OBVIOUS
  <2>4. w \in c.wm..Len(L) /\ w + 1 \notin held /\ \A s \in (c.wm + 1)..w : s \in held
    BY <1>1, <2>2, <2>3, Absorbed
  <2>5. PICK A : A = {s \in held : s > w}
    OBVIOUS
  <2>6. w \in Nat /\ A \in SUBSET Nat /\ A \subseteq (w + 2)..Len(L)
    <3>1. w \in Nat
      BY <1>1, <2>4
    <3>2. ASSUME NEW s \in A PROVE s \in Nat /\ s \in (w + 2)..Len(L)
      <4>1. s \in 1..Len(L) /\ s > w /\ s # w + 1
        BY <2>2, <2>4, <2>5
      <4> QED BY <1>1, <3>1, <4>1
    <3> QED BY <3>1, <3>2
  <2>7. \A s \in (1..w) \cup A : L[s] \subseteq c.doc
    <3>1. \A s \in held : L[s] \subseteq c.doc
      BY <1>1, <2>1
    <3>2. \A s \in 1..w : s \in 1..c.wm \/ s \in held
      BY <1>1, <2>4, <2>6
    <3> QED BY <1>1, <3>1, <3>2, <2>5
  <2>8. \A s \in held : s <= w \/ s \in A
    BY <2>2, <2>5, <2>6
  <2>9. PICK d : d = MoveTo(c, w, A)
    OBVIOUS
  <2>10. ClientOk(d, L) /\ Keeps(c, d) /\ KeepsRecovery(c, d) /\ d.wm = w /\ d.ahead = A
    <3>1. \A s \in c.ahead : s <= w \/ s \in A
      BY <2>1, <2>8
    <3>2. c.wm <= w /\ w <= Len(L)
      BY <1>1, <2>4
    <3>3. MovesTo(c, w, A, L)
      BY <2>6, <2>7, <3>1, <3>2 DEF MovesTo
    <3> QED BY <2>9, <3>3, WatermarkSet
  <2>11. Seen(d, seq)
    BY <2>1, <2>8, <2>10 DEF Seen
  <2>12. PICK e : e = IF d.ahead # {} /\ seq - w > GapLimit THEN startCatchUp(d) ELSE d
    OBVIOUS
  <2>13. d \in Clients /\ d.wm \in Nat
    BY <2>10 DEF ClientOk, Clients
  <2>14. ClientOk(e, L) /\ Keeps(d, e) /\ KeepsRecovery(d, e)
    <3>1. Keeps(d, d) /\ KeepsRecovery(d, d)
      BY <2>13 DEF Keeps, KeepsRecovery
    <3> QED BY <2>10, <2>12, <3>1, StartCatchUpKeeps
  <2>15. PICK f : f = maybeCompact(e)
    OBVIOUS
  <2>16. ClientOk(f, L) /\ Keeps(e, f) /\ KeepsRecovery(e, f)
    BY <2>14, <2>15, MaybeCompactKeeps
  <2>17. f = recordAppliedSeq(c, seq)
    BY <1>3, <2>1, <2>3, <2>5, <2>9, <2>12, <2>15 DEF recordAppliedSeq, MoveTo
  <2>18. e \in Clients /\ f \in Clients
    BY <2>14, <2>16 DEF ClientOk
  <2>19. Keeps(c, e) /\ KeepsRecovery(c, e)
    BY <1>1, <2>10, <2>13, <2>14, <2>18, KeepsTransitive
  <2>20. Keeps(c, f) /\ KeepsRecovery(c, f)
    BY <1>1, <2>16, <2>18, <2>19, KeepsTransitive
  <2>21. Seen(f, seq)
    BY <2>11, <2>14, <2>16 DEF Keeps
  <2> QED BY <2>16, <2>17, <2>20, <2>21
<1> QED BY <1>2, <1>3

LEMMA AdvanceThroughKeeps ==
    ASSUME NEW L \in Seq(Edits), NEW c, ClientOk(c, L), NEW through \in 0..Len(L),
           \A s \in 1..through : L[s] \subseteq c.doc
    PROVE  /\ ClientOk(advanceThrough(c, through), L)
           /\ Keeps(c, advanceThrough(c, through)) /\ KeepsRecovery(c, advanceThrough(c, through))
           /\ advanceThrough(c, through).wm >= through
<1>1. /\ c \in Clients /\ c.wm \in Nat /\ c.ahead \in SUBSET Nat /\ Len(L) \in Nat
      /\ c.wm <= Len(L) /\ c.ahead \subseteq (c.wm + 2)..Len(L)
      /\ \A s \in (1..c.wm) \cup c.ahead : L[s] \subseteq c.doc
  BY DEF ClientOk, Clients, ReplicaOk
<1>2. CASE through < c.wm
  BY <1>1, <1>2 DEF advanceThrough, Keeps, KeepsRecovery, Seen
<1>3. CASE ~(through < c.wm)
  <2>1. PICK held : held = {s \in c.ahead : s > through}
    OBVIOUS
  <2>2. held \in SUBSET (1..Len(L))
    BY <1>1, <2>1
  <2>3. PICK w : w = Absorb(through, held)
    OBVIOUS
  <2>4. w \in through..Len(L) /\ w + 1 \notin held /\ \A s \in (through + 1)..w : s \in held
    BY <1>1, <2>2, <2>3, Absorbed
  <2>5. PICK A : A = {s \in held : s > w}
    OBVIOUS
  <2>6. w \in Nat /\ A \in SUBSET Nat /\ A \subseteq (w + 2)..Len(L)
    <3>1. w \in Nat
      BY <1>1, <2>4
    <3>2. ASSUME NEW s \in A PROVE s \in Nat /\ s \in (w + 2)..Len(L)
      <4>1. s \in 1..Len(L) /\ s > w /\ s # w + 1
        BY <2>2, <2>4, <2>5
      <4> QED BY <1>1, <3>1, <4>1
    <3> QED BY <3>1, <3>2
  <2>7. \A s \in (1..w) \cup A : L[s] \subseteq c.doc
    <3>1. \A s \in held : L[s] \subseteq c.doc
      BY <1>1, <2>1
    <3>2. \A s \in 1..w : s \in 1..through \/ s \in held
      BY <1>1, <2>4, <2>6
    <3> QED BY <1>1, <3>1, <3>2, <2>5
  <2>8. \A s \in c.ahead : s <= w \/ s \in A
    BY <1>1, <2>1, <2>4, <2>5, <2>6
  <2>9. PICK d : d = MoveTo(c, w, A)
    OBVIOUS
  <2>10. ClientOk(d, L) /\ Keeps(c, d) /\ KeepsRecovery(c, d) /\ d.wm = w
    <3>1. c.wm <= w /\ w <= Len(L)
      BY <1>1, <1>3, <2>4
    <3>2. MovesTo(c, w, A, L)
      BY <2>6, <2>7, <2>8, <3>1 DEF MovesTo
    <3> QED BY <2>9, <3>2, WatermarkSet
  <2>11. PICK f : f = maybeCompact(d)
    OBVIOUS
  <2>12. ClientOk(f, L) /\ Keeps(d, f) /\ KeepsRecovery(d, f)
    BY <2>10, <2>11, MaybeCompactKeeps
  <2>13. f = advanceThrough(c, through)
    BY <1>3, <2>1, <2>3, <2>5, <2>9, <2>11 DEF advanceThrough, MoveTo
  <2>14. d \in Clients /\ f \in Clients /\ f.wm \in Nat
    BY <2>10, <2>12 DEF ClientOk, Clients
  <2>15. Keeps(c, f) /\ KeepsRecovery(c, f)
    BY <1>1, <2>10, <2>12, <2>14, KeepsTransitive
  <2>16. f.wm >= through
    BY <2>4, <2>6, <2>10, <2>12, <2>14 DEF Keeps
  <2> QED BY <2>12, <2>13, <2>15, <2>16
<1> QED BY <1>2, <1>3

\* A recovery ends in status v.
Ended(c, v) == [c EXCEPT !.rec = NoRec, !.status = v]
Resting(v) == v \in {"saving", "synced", "read-only"}

LEMMA EndedKeeps ==
    ASSUME NEW L \in Seq(Edits), NEW c, ClientOk(c, L), NEW v \in Statuses, Resting(v) => c.pending = {},
           NEW d, d = Ended(c, v)
    PROVE  ClientOk(d, L) /\ (v \notin {"revoked", "error"} => Keeps(c, d)) /\ d.made = c.made
<1>1. c \in Clients /\ c.wm \in Nat /\ c.made \in Nat /\ Len(L) \in Nat
  BY LogTyped DEF ClientOk, Clients
<1>2. d \in Clients
  BY <1>1, NoRecTyped DEF Clients, Ended
<1>3. /\ d.status = v /\ d.canWrite = c.canWrite /\ d.wm = c.wm /\ d.ahead = c.ahead /\ d.doc = c.doc
      /\ d.pending = c.pending /\ d.made = c.made /\ d.sends = c.sends /\ d.cycle = c.cycle
      /\ d.needs = c.needs /\ d.rec = NoRec /\ d.compHead = c.compHead /\ d.comp = c.comp
      /\ d.desired = c.desired
  BY <1>1 DEF Clients, Ended
<1>4. RecoveryOk(d.rec, d.wm, d.doc, L)
  BY <1>1, <1>3, NoRecTyped DEF RecoveryOk
<1>5. EditsOk(d, L)
  <2>1. EditsOk(c, L)
    BY DEF ClientOk
  <2>2. Trusted(d) => \A e \in 1..d.made : e \in d.sends \/ Has(L, e)
    <3>1. CASE Resting(v)
      BY <1>3, <2>1, <3>1 DEF EditsOk
    <3>2. CASE ~Resting(v)
      BY <1>3, <2>1, <3>2 DEF EditsOk, Trusted, Resting
    <3> QED BY <3>1, <3>2
  <2> QED BY <1>3, <2>1, <2>2 DEF EditsOk, Resting
<1>6. ClientOk(d, L)
  BY <1>2, <1>3, <1>4, <1>5 DEF ClientOk, ReplicaOk
<1>7. v \notin {"revoked", "error"} => Keeps(c, d)
  BY <1>1, <1>3 DEF Keeps, Seen, Steady, Asked, Statuses
<1> QED BY <1>3, <1>6, <1>7

\* The finally block of a recovery: another one is asked for, or the status is one that the
\* provider may rest in.
LEMMA EndRecoveryKeeps ==
    ASSUME NEW L \in Seq(Edits), NEW c, ClientOk(c, L),
           c.rec.requested \/ (Resting(c.status) => c.pending = {})
    PROVE  /\ ClientOk(endRecovery(c), L) /\ endRecovery(c).made = c.made
           /\ c.status \notin {"revoked", "error"} => Keeps(c, endRecovery(c))
<1>1. c \in Clients /\ c.status \in Statuses /\ NoRec \in Recoveries
  BY NoRecTyped DEF ClientOk, Clients
<1>2. PICK d : d = [c EXCEPT !.rec = NoRec]
  OBVIOUS
<1>3. d = Ended(c, c.status) /\ d.status = c.status /\ d.rec = NoRec
  BY <1>1, <1>2 DEF Ended, Clients
<1>4. CASE ~c.rec.requested
  <2>1. ClientOk(d, L) /\ (c.status \notin {"revoked", "error"} => Keeps(c, d)) /\ d.made = c.made
    BY <1>1, <1>3, <1>4, EndedKeeps
  <2>2. PICK e : e = maybeCompact(d)
    OBVIOUS
  <2>3. ClientOk(e, L) /\ Keeps(d, e)
    BY <2>1, <2>2, MaybeCompactKeeps
  <2>4. endRecovery(c) = e
    BY <1>2, <1>4, <2>2 DEF endRecovery
  <2>5. d \in Clients /\ e \in Clients
    BY <2>1, <2>3 DEF ClientOk
  <2>6. e.made = c.made
    BY <2>1, <2>3 DEF Keeps
  <2> QED BY <1>1, <2>1, <2>3, <2>4, <2>5, <2>6, KeepsTransitive
<1>5. CASE c.rec.requested /\ Revoked(c)
  <2>1. endRecovery(c) = d
    BY <1>2, <1>3, <1>5 DEF endRecovery, startCatchUp, Revoked
  <2>2. ClientOk(d, L) /\ d.made = c.made
    BY <1>1, <1>3, <1>5, EndedKeeps DEF Revoked, Resting
  <2> QED BY <1>5, <2>1, <2>2 DEF Revoked
<1>6. CASE c.rec.requested /\ ~Revoked(c)
  <2>1. PICK e : e = Ended(c, "connecting")
    OBVIOUS
  <2>2. ClientOk(e, L) /\ Keeps(c, e) /\ e.made = c.made
    BY <2>1, EndedKeeps DEF Resting, Statuses
  <2>3. [d EXCEPT !.status = "connecting"] = e
    BY <1>1, <1>2, <2>1 DEF Ended, Clients
  <2>4. PICK f : f = catchUp(e, 0, 0)
    OBVIOUS
  <2>5. endRecovery(c) = f
    BY <1>2, <1>3, <1>6, <2>3, <2>4, NoRecTyped DEF endRecovery, startCatchUp, Revoked, RecoveryInFlight
  <2>6. Len(L) \in Nat
    BY LogTyped
  <2>7. ClientOk(f, L) /\ Keeps(e, f)
    BY <2>2, <2>4, <2>6, CatchUpKeeps
  <2>8. e \in Clients /\ f \in Clients
    BY <2>2, <2>7 DEF ClientOk
  <2>9. f.made = c.made
    BY <2>2, <2>7 DEF Keeps
  <2> QED BY <1>1, <2>2, <2>5, <2>7, <2>8, <2>9, KeepsTransitive
<1> QED BY <1>4, <1>5, <1>6

\* A recovery that threw.
LEMMA FailRecoveryKeeps ==
    ASSUME NEW L \in Seq(Edits), NEW c, ClientOk(c, L)
    PROVE  ClientOk(failRecovery(c), L) /\ failRecovery(c).made = c.made
<1>1. CASE c.rec.requested
  BY <1>1, EndRecoveryKeeps DEF failRecovery
<1>2. CASE ~c.rec.requested
  <2>1. PICK d : d = [c EXCEPT !.status = "error"]
    OBVIOUS
  <2>2. ClientOk(d, L)
    BY <2>1, StatusSet
  <2>3. d.status = "error" /\ d.made = c.made
    BY <2>1 DEF ClientOk, Clients
  <2>4. failRecovery(c) = endRecovery(d)
    BY <1>2, <2>1 DEF failRecovery
  <2> QED BY <2>2, <2>3, <2>4, EndRecoveryKeeps DEF Resting
<1> QED BY <1>1, <1>2

\* Nothing is pending, in status v: there is nothing to recover either.
Cleared(c, v) == [c EXCEPT !.sends = {}, !.cycle = 0, !.pending = {}, !.needs = FALSE, !.status = v]

LEMMA ClearedKeeps ==
    ASSUME NEW L \in Seq(Edits), NEW c, ClientOk(c, L), AllLogged(L, c.made), NEW v \in Statuses,
           NEW d, d = Cleared(c, v)
    PROVE  /\ ClientOk(d, L) /\ KeepsRecovery(c, d)
           /\ d.made = c.made /\ d.rec = c.rec /\ d.status = v /\ d.pending = {} /\ d.doc = c.doc
           /\ v \notin {"revoked", "error"} => Keeps(c, d)
<1> DEFINE none == {}
<1>1. c \in Clients /\ c.wm \in Nat /\ c.made \in Nat
  BY DEF ClientOk, Clients
<1>2. d = [c EXCEPT !.sends = none, !.cycle = 0, !.pending = none, !.needs = FALSE, !.status = v]
  BY DEF Cleared
<1>3. none \in Edits /\ \A S : none \subseteq S
  BY DEF Edits
<1> HIDE DEF none
<1>4. d \in Clients
  <2>1. PICK x : x = [c EXCEPT !.sends = none, !.cycle = 0, !.pending = none]
    OBVIOUS
  <2>2. x \in Clients
    BY <1>1, <1>3, <2>1 DEF Clients
  <2>3. d = [x EXCEPT !.needs = FALSE, !.status = v]
    BY <1>1, <1>2, <2>1 DEF Clients
  <2> QED BY <2>2, <2>3 DEF Clients
<1>5. /\ d.status = v /\ d.canWrite = c.canWrite /\ d.wm = c.wm /\ d.ahead = c.ahead /\ d.doc = c.doc
      /\ d.pending = none /\ d.made = c.made /\ d.sends = none /\ d.cycle = 0
      /\ d.needs = FALSE /\ d.rec = c.rec /\ d.compHead = c.compHead /\ d.comp = c.comp
      /\ d.desired = c.desired
  BY <1>1, <1>2 DEF Clients
<1>6. EditsOk(d, L)
  BY <1>1, <1>3, <1>5 DEF EditsOk, AllLogged, none
<1>7. ClientOk(d, L)
  BY <1>4, <1>5, <1>6 DEF ClientOk, ReplicaOk
<1>8. v \notin {"revoked", "error"} => Keeps(c, d)
  BY <1>1, <1>5 DEF Keeps, Seen, Steady, Asked, Statuses
<1> QED BY <1>5, <1>7, <1>8 DEF KeepsRecovery, none

\* flushPending's loop test.
LEMMA FlushPendingKeeps ==
    ASSUME NEW L \in Seq(Edits), NEW c, ClientOk(c, L)
    PROVE  /\ ClientOk(flushPending(c), L) /\ flushPending(c).made = c.made
           /\ c.status \notin {"revoked", "error"} => Keeps(c, flushPending(c))
<1>1. CASE c.pending # {}
  BY <1>1, PostKeeps DEF flushPending, Keeps
<1>2. CASE c.pending = {}
  <2>1. /\ c \in Clients /\ c.status \in Statuses /\ c.canWrite \in BOOLEAN /\ c.made \in Nat /\ c.cycle \in Nat
        /\ AllLogged(L, c.made) /\ c.sends = {} /\ c.needs \in BOOLEAN /\ c.wm \in Nat
    BY <1>2 DEF ClientOk, Clients, EditsOk, AllLogged
  <2>2. PICK v : v = IF c.rec.requested THEN c.status ELSE Settled(c)
    OBVIOUS
  <2>3. v \in Statuses /\ (c.status \notin {"revoked", "error"} => v \notin {"revoked", "error"})
    BY <2>1, <2>2 DEF Settled, Statuses
  <2> DEFINE d == [c EXCEPT !.needs = FALSE]
             e == IF c.rec.requested THEN d ELSE [d EXCEPT !.status = Settled(d)]
  <2>4. d \in Clients /\ d.canWrite = c.canWrite
    BY <2>1 DEF Clients
  <2>5. Settled(d) = Settled(c)
    BY <2>4 DEF Settled
  <2>6. e = [c EXCEPT !.needs = FALSE, !.status = v]
    BY <2>1, <2>2, <2>5 DEF Clients
  <2>7. flushPending(c) = endRecovery(e)
    BY <1>2 DEF flushPending
  <2> HIDE DEF d, e
  <2>8. e \in Clients
    BY <2>1, <2>3, <2>6 DEF Clients
  <2>9. /\ e.status = v /\ e.canWrite = c.canWrite /\ e.wm = c.wm /\ e.ahead = c.ahead /\ e.doc = c.doc
        /\ e.pending = c.pending /\ e.made = c.made /\ e.sends = c.sends /\ e.cycle = c.cycle
        /\ e.needs = FALSE /\ e.rec = c.rec /\ e.compHead = c.compHead /\ e.comp = c.comp
        /\ e.desired = c.desired
    BY <2>1, <2>6 DEF Clients
  <2>10. EditsOk(e, L)
    <3>1. EditsOk(c, L)
      BY DEF ClientOk
    <3> QED BY <1>2, <2>1, <2>9, <3>1 DEF EditsOk, AllLogged
  <2>11. ClientOk(e, L)
    BY <2>8, <2>9, <2>10 DEF ClientOk, ReplicaOk
  <2>12. c.status \notin {"revoked", "error"} => Keeps(c, e)
    BY <2>1, <2>3, <2>9 DEF Keeps, Seen, Steady, Asked, Statuses
  <2>13. PICK f : f = endRecovery(e)
    OBVIOUS
  <2>14. ClientOk(f, L) /\ f.made = e.made /\ (e.status \notin {"revoked", "error"} => Keeps(e, f))
    BY <1>2, <2>9, <2>11, <2>13, EndRecoveryKeeps
  <2>15. f \in Clients
    BY <2>14 DEF ClientOk
  <2>16. c.status \notin {"revoked", "error"} => Keeps(c, f)
    BY <2>1, <2>3, <2>8, <2>9, <2>12, <2>14, <2>15, KeepsTransitive
  <2> QED BY <2>7, <2>9, <2>13, <2>14, <2>16
<1> QED BY <1>1, <1>2

\* flushPending once the append is applied.
LEMMA AppendReconciledKeeps ==
    ASSUME NEW L \in Seq(Edits), NEW c, ClientOk(c, L), NEW ver, AllLogged(L, ver)
    PROVE  /\ ClientOk(appendReconciled(c, ver), L) /\ appendReconciled(c, ver).made = c.made
           /\ c.status \notin {"revoked", "error"} => Keeps(c, appendReconciled(c, ver))
<1>1. c \in Clients /\ c.status \in Statuses /\ c.wm \in Nat /\ c.made \in Nat
  BY DEF ClientOk, Clients
<1>2. CASE c.made = ver
  <2>1. PICK d : d = Cleared(c, c.status)
    OBVIOUS
  <2>2. [clearSocketSends(c) EXCEPT !.pending = {}, !.needs = FALSE] = d
    BY <1>1, <2>1 DEF Cleared, clearSocketSends, Clients
  <2>3. /\ ClientOk(d, L) /\ d.made = c.made /\ d.status = c.status
        /\ c.status \notin {"revoked", "error"} => Keeps(c, d)
    BY <1>1, <1>2, <2>1, ClearedKeeps
  <2>4. PICK e : e = flushPending(d)
    OBVIOUS
  <2>5. ClientOk(e, L) /\ e.made = d.made /\ (d.status \notin {"revoked", "error"} => Keeps(d, e))
    BY <2>3, <2>4, FlushPendingKeeps
  <2>6. appendReconciled(c, ver) = e
    BY <1>2, <2>2, <2>4 DEF appendReconciled
  <2>7. d \in Clients /\ e \in Clients
    BY <2>3, <2>5 DEF ClientOk
  <2>8. c.status \notin {"revoked", "error"} => Keeps(c, e)
    BY <1>1, <2>3, <2>5, <2>7, KeepsTransitive
  <2> QED BY <2>3, <2>5, <2>6, <2>8
<1>3. CASE c.made # ver
  <2> DEFINE none == {}
             d == [clearSocketSends(c) EXCEPT !.needs = TRUE]
  <2>1. none \in Edits /\ \A S : none \subseteq S
    BY DEF Edits
  <2>2. d = [c EXCEPT !.sends = none, !.cycle = 0, !.needs = TRUE]
    BY <1>1 DEF clearSocketSends, Clients
  <2>3. appendReconciled(c, ver) = flushPending(d)
    BY <1>3 DEF appendReconciled
  <2> HIDE DEF none, d
  <2>4. d \in Clients
    BY <1>1, <2>1, <2>2 DEF Clients
  <2>5. /\ d.status = c.status /\ d.canWrite = c.canWrite /\ d.wm = c.wm /\ d.ahead = c.ahead /\ d.doc = c.doc
        /\ d.pending = c.pending /\ d.made = c.made /\ d.sends = none /\ d.cycle = 0
        /\ d.needs = TRUE /\ d.rec = c.rec /\ d.compHead = c.compHead /\ d.comp = c.comp
        /\ d.desired = c.desired
    BY <1>1, <2>2 DEF Clients
  <2>6. EditsOk(d, L)
    BY <1>1, <2>1, <2>5 DEF EditsOk, ClientOk, Trusted
  <2>7. ClientOk(d, L)
    BY <2>4, <2>5, <2>6 DEF ClientOk, ReplicaOk
  <2>8. Keeps(c, d)
    BY <1>1, <2>5 DEF Keeps, Seen, Steady, Asked
  <2>9. PICK e : e = flushPending(d)
    OBVIOUS
  <2>10. ClientOk(e, L) /\ e.made = d.made /\ (d.status \notin {"revoked", "error"} => Keeps(d, e))
    BY <2>7, <2>9, FlushPendingKeeps
  <2>11. e \in Clients
    BY <2>10 DEF ClientOk
  <2>12. c.status \notin {"revoked", "error"} => Keeps(c, e)
    BY <1>1, <2>4, <2>5, <2>8, <2>10, <2>11, KeepsTransitive
  <2> QED BY <2>3, <2>5, <2>9, <2>10, <2>12
<1> QED BY <1>2, <1>3

\* A frame of a socket send came back: what it carries is in the log.
LEMMA AcknowledgeOwnEchoKeeps ==
    ASSUME NEW L \in Seq(Edits), NEW c, ClientOk(c, L), NEW seq, NEW payload \in Edits,
           \A e \in payload : Has(L, e)
    PROVE  /\ ClientOk(acknowledgeOwnEcho(c, seq, payload), L)
           /\ Keeps(c, acknowledgeOwnEcho(c, seq, payload))
           /\ KeepsRecovery(c, acknowledgeOwnEcho(c, seq, payload))
<1>1. /\ c \in Clients /\ c.status \in Statuses /\ c.wm \in Nat /\ c.made \in Nat /\ c.sends \in Edits
      /\ c.needs \in BOOLEAN /\ c.canWrite \in BOOLEAN
  BY DEF ClientOk, Clients
<1>2. Keeps(c, c) /\ KeepsRecovery(c, c)
  BY <1>1 DEF Keeps, KeepsRecovery
<1>3. CASE c.sends = {} \/ c.needs \/ ~(payload \subseteq c.sends)
  BY <1>2, <1>3 DEF acknowledgeOwnEcho
<1>4. CASE ~(c.sends = {} \/ c.needs \/ ~(payload \subseteq c.sends))
  <2>1. PICK S : S = c.sends \ payload
    OBVIOUS
  <2>2. S \in Edits /\ S \subseteq c.sends
    BY <1>1, <2>1 DEF Edits
  <2>3. PICK d : d = [c EXCEPT !.sends = S]
    OBVIOUS
  <2>4. d \in Clients
    BY <1>1, <2>2, <2>3 DEF Clients
  <2>5. /\ d.status = c.status /\ d.canWrite = c.canWrite /\ d.wm = c.wm /\ d.ahead = c.ahead /\ d.doc = c.doc
        /\ d.pending = c.pending /\ d.made = c.made /\ d.sends = S /\ d.cycle = c.cycle
        /\ d.needs = c.needs /\ d.rec = c.rec /\ d.compHead = c.compHead /\ d.comp = c.comp
        /\ d.desired = c.desired
    BY <1>1, <2>3 DEF Clients
  <2>6. \A e \in 1..c.made : e \in S \/ Has(L, e)
    <3>1. \A e \in 1..c.made : e \in c.sends \/ Has(L, e)
      BY <1>4 DEF ClientOk, EditsOk, Trusted
    <3> QED BY <2>1, <3>1
  <2>7. EditsOk(d, L)
    BY <2>2, <2>5, <2>6 DEF ClientOk, EditsOk
  <2>8. ClientOk(d, L)
    BY <2>4, <2>5, <2>7 DEF ClientOk, ReplicaOk
  <2>9. Keeps(c, d) /\ KeepsRecovery(c, d)
    BY <1>1, <2>5 DEF Keeps, KeepsRecovery, Seen, Steady, Asked
  <2> DEFINE e == [clearSocketSends(d) EXCEPT !.pending = {}]
             done == e.ahead # {} \/ e.wm < seq
  <2>10. acknowledgeOwnEcho(c, seq, payload) =
            IF d.sends # {} \/ d.cycle # d.made THEN d
            ELSE IF done THEN beginHttpRecovery(e)
            ELSE maybeCompact([e EXCEPT !.status = Settled(e)])
    BY <1>4, <2>1, <2>3 DEF acknowledgeOwnEcho
  <2>11. CASE d.sends # {} \/ d.cycle # d.made
    BY <2>8, <2>9, <2>10, <2>11
  <2>12. CASE ~(d.sends # {} \/ d.cycle # d.made)
    <3>1. AllLogged(L, c.made)
      BY <2>5, <2>6, <2>12 DEF AllLogged
    <3>2. c.needs = FALSE
      BY <1>1, <1>4
    <3>3. e = Cleared(c, c.status)
      BY <1>1, <2>3, <3>2 DEF Cleared, clearSocketSends, Clients
    <3>4. CASE done
      <4>1. PICK g : g = Cleared(c, c.status)
        OBVIOUS
      <4>2. ClientOk(g, L) /\ KeepsRecovery(c, g) /\ (c.status \notin {"revoked", "error"} => Keeps(c, g))
        BY <1>1, <3>1, <4>1, ClearedKeeps
      <4>3. g.status = c.status /\ g.wm = c.wm /\ g.ahead = c.ahead /\ g.doc = c.doc /\ g.made = c.made
            /\ g.comp = c.comp /\ g.compHead = c.compHead /\ g.desired = c.desired
        BY <1>1, <4>1 DEF Cleared, Clients
      <4>4. Keeps(c, g)
        BY <1>1, <4>3 DEF Keeps, Seen, Steady, Asked
      <4>5. PICK h : h = beginHttpRecovery(g)
        OBVIOUS
      <4>6. ClientOk(h, L) /\ Keeps(g, h) /\ KeepsRecovery(g, h)
        BY <4>2, <4>5, BeginHttpRecoveryKeeps
      <4>7. g \in Clients /\ h \in Clients
        BY <4>2, <4>6 DEF ClientOk
      <4>8. acknowledgeOwnEcho(c, seq, payload) = h
        BY <2>10, <2>12, <3>3, <3>4, <4>1, <4>5
      <4> QED BY <1>1, <4>2, <4>4, <4>6, <4>7, <4>8, KeepsTransitive
    <3>5. CASE ~done
      <4>1. PICK v : v = Settled(c)
        OBVIOUS
      <4>2. v \in Statuses /\ v \notin {"revoked", "error"}
        BY <1>1, <4>1 DEF Settled, Statuses
      <4>3. PICK g : g = Cleared(c, v)
        OBVIOUS
      <4>4. [e EXCEPT !.status = Settled(e)] = g
        <5>1. PICK x : x = e
          OBVIOUS
        <5>2. x = [c EXCEPT !.sends = {}, !.cycle = 0, !.pending = {}, !.needs = FALSE, !.status = c.status]
          BY <3>3, <5>1 DEF Cleared
        <5> HIDE DEF e
        <5>3. x.canWrite = c.canWrite
          BY <1>1, <5>2 DEF Clients
        <5>4. Settled(x) = v
          BY <4>1, <5>3 DEF Settled
        <5>5. [x EXCEPT !.status = v] = g
          BY <1>1, <4>3, <5>2 DEF Cleared, Clients
        <5> QED BY <5>1, <5>4, <5>5
      <4>5. ClientOk(g, L) /\ KeepsRecovery(c, g) /\ Keeps(c, g)
        BY <3>1, <4>2, <4>3, ClearedKeeps
      <4>6. PICK h : h = maybeCompact(g)
        OBVIOUS
      <4>7. ClientOk(h, L) /\ Keeps(g, h) /\ KeepsRecovery(g, h)
        BY <4>5, <4>6, MaybeCompactKeeps
      <4>8. g \in Clients /\ h \in Clients
        BY <4>5, <4>7 DEF ClientOk
      <4>9. acknowledgeOwnEcho(c, seq, payload) = h
        BY <2>10, <2>12, <3>5, <4>4, <4>6
      <4> QED BY <1>1, <4>5, <4>7, <4>8, <4>9, KeepsTransitive
    <3> QED BY <3>4, <3>5
  <2> QED BY <2>11, <2>12
<1> QED BY <1>3, <1>4

\* What a frame that the provider handles leaves of it when nothing fails.
KeepsSeen(c, d) == d.made = c.made /\ \A s \in Nat : Seen(c, s) => Seen(d, s)

LEMMA RequestCompactionKeeps ==
    ASSUME NEW L \in Seq(Edits), NEW c, ClientOk(c, L), NEW head \in 0..Len(L)
    PROVE  /\ ClientOk(requestCompaction(c, head), L)
           /\ KeepsSeen(c, requestCompaction(c, head)) /\ KeepsRecovery(c, requestCompaction(c, head))
           /\ Steady(c) /\ ~Asked(c) => Steady(requestCompaction(c, head))
<1>1. /\ c \in Clients /\ c.wm \in Nat /\ c.compHead \in Nat /\ c.compHead <= Len(L) /\ Len(L) \in Nat
      /\ c.comp \in Compactions
  BY LogTyped DEF ClientOk, Clients, ReplicaOk
<1>2. CASE ~c.canWrite
  BY <1>2 DEF requestCompaction, KeepsSeen, KeepsRecovery
<1>3. CASE c.canWrite
  <2>1. PICK h : h = Max({c.compHead, head})
    OBVIOUS
  <2>2. h \in Nat /\ h <= Len(L)
    BY <1>1, <2>1, LargerOfTwo
  <2>12. PICK low : low = -1
    OBVIOUS
  <2>13. low \in Int
    BY <2>12
  <2>3. PICK d : d = [c EXCEPT !.compHead = h, !.compWm = low]
    OBVIOUS
  <2>4. d \in Clients
    BY <1>1, <2>2, <2>3, <2>13 DEF Clients
  <2>5. /\ d.status = c.status /\ d.canWrite = c.canWrite /\ d.wm = c.wm /\ d.ahead = c.ahead /\ d.doc = c.doc
        /\ d.pending = c.pending /\ d.made = c.made /\ d.sends = c.sends /\ d.cycle = c.cycle
        /\ d.needs = c.needs /\ d.rec = c.rec /\ d.compHead = h /\ d.comp = c.comp
        /\ d.desired = c.desired
    BY <1>1, <2>3 DEF Clients
  <2>6. ClientOk(d, L)
    BY <2>2, <2>4, <2>5 DEF ClientOk, ReplicaOk, EditsOk, Trusted
  <2>7. Steady(c) /\ ~Asked(c) => Steady(d)
    BY <2>5 DEF Steady, Asked
  <2>8. PICK e : e = maybeCompact(d)
    OBVIOUS
  <2>9. ClientOk(e, L) /\ Keeps(d, e) /\ KeepsRecovery(d, e)
    BY <2>6, <2>8, MaybeCompactKeeps
  <2>10. requestCompaction(c, head) = e
    BY <1>3, <2>1, <2>3, <2>8, <2>12 DEF requestCompaction
  <2>11. KeepsSeen(c, e) /\ KeepsRecovery(c, e)
    BY <2>5, <2>9 DEF KeepsSeen, KeepsRecovery, Keeps, Seen
  <2> QED BY <2>7, <2>9, <2>10, <2>11 DEF Keeps
<1> QED BY <1>2, <1>3

\* The room is left for good, or the join is rejected: nothing is sent any more.
Halted(c, needs, desired, joined, v) ==
    [c EXCEPT !.rec = NoRec, !.sends = {}, !.cycle = 0, !.canWrite = FALSE, !.needs = needs,
              !.compHead = 0, !.desired = desired, !.joined = joined, !.status = v]
MayHalt(needs, desired, joined, v) == {needs, desired, joined} \subseteq BOOLEAN /\ v \in {"revoked", "error"}

LEMMA HaltedOk ==
    ASSUME NEW L \in Seq(Edits), NEW c, ClientOk(c, L), NEW needs, NEW desired, NEW joined, NEW v,
           MayHalt(needs, desired, joined, v), NEW d, d = Halted(c, needs, desired, joined, v)
    PROVE  ClientOk(d, L) /\ d.made = c.made
<1> DEFINE none == {}
<1>1. c \in Clients /\ c.wm \in Nat /\ c.made \in Nat /\ Len(L) \in Nat
  BY LogTyped DEF ClientOk, Clients
<1>2. none \in Edits /\ \A S : none \subseteq S
  BY DEF Edits
<1>3. PICK x : x = [c EXCEPT !.rec = NoRec, !.sends = none, !.cycle = 0, !.canWrite = FALSE]
  OBVIOUS
<1>4. PICK y : y = [x EXCEPT !.needs = needs, !.compHead = 0, !.desired = desired]
  OBVIOUS
<1>5. d = [y EXCEPT !.joined = joined, !.status = v]
  BY <1>1, <1>3, <1>4 DEF Halted, Clients
<1> HIDE DEF none
<1>6. x \in Clients
  BY <1>1, <1>2, <1>3, NoRecTyped DEF Clients
<1>7. y \in Clients
  BY <1>4, <1>6 DEF Clients, MayHalt
<1>8. d \in Clients
  BY <1>5, <1>7 DEF Clients, Statuses, MayHalt
<1>9. /\ x.wm = c.wm /\ x.ahead = c.ahead /\ x.doc = c.doc /\ x.pending = c.pending /\ x.made = c.made
      /\ x.sends = none /\ x.cycle = 0 /\ x.rec = NoRec /\ x.comp = c.comp
  BY <1>1, <1>3 DEF Clients
<1>10. /\ y.wm = x.wm /\ y.ahead = x.ahead /\ y.doc = x.doc /\ y.pending = x.pending /\ y.made = x.made
       /\ y.sends = x.sends /\ y.cycle = x.cycle /\ y.rec = x.rec /\ y.comp = x.comp /\ y.compHead = 0
  BY <1>4, <1>6 DEF Clients
<1>11. /\ d.wm = y.wm /\ d.ahead = y.ahead /\ d.doc = y.doc /\ d.pending = y.pending /\ d.made = y.made
       /\ d.sends = y.sends /\ d.cycle = y.cycle /\ d.rec = y.rec /\ d.comp = y.comp
       /\ d.compHead = y.compHead /\ d.status = v
  BY <1>5, <1>7 DEF Clients
<1>12. EditsOk(d, L)
  BY <1>1, <1>2, <1>9, <1>10, <1>11 DEF EditsOk, ClientOk, Trusted, none, MayHalt
<1>13. RecoveryOk(d.rec, d.wm, d.doc, L)
  BY <1>1, <1>9, <1>10, <1>11, NoRecTyped DEF RecoveryOk
<1> QED BY <1>1, <1>8, <1>9, <1>10, <1>11, <1>12, <1>13 DEF ClientOk, ReplicaOk

LEMMA RevokeOk ==
    ASSUME NEW L \in Seq(Edits), NEW c, ClientOk(c, L)
    PROVE  ClientOk(revoke(c), L) /\ revoke(c).made = c.made
<1>1. c \in Clients /\ c.needs \in BOOLEAN /\ c.desired \in BOOLEAN /\ c.joined \in BOOLEAN
  BY DEF ClientOk, Clients
<1>2. PICK v : v = "revoked"
  OBVIOUS
<1>3. PICK d : d = Halted(c, c.needs, c.desired, c.joined, v)
  OBVIOUS
<1>4. revoke(c) = d
  BY <1>1, <1>2, <1>3 DEF revoke, Halted, clearSocketSends, fence, Clients
<1>6. MayHalt(c.needs, c.desired, c.joined, v)
  BY <1>1, <1>2 DEF MayHalt
<1>5. ClientOk(d, L) /\ d.made = c.made
  BY <1>3, <1>6, HaltedOk
<1> QED BY <1>4, <1>5

LEMMA JoinRejectedOk ==
    ASSUME NEW L \in Seq(Edits), NEW c, ClientOk(c, L), NEW terminal \in BOOLEAN
    PROVE  ClientOk(joinRejected(c, terminal), L) /\ joinRejected(c, terminal).made = c.made
<1>1. c \in Clients /\ c.needs \in BOOLEAN
  BY DEF ClientOk, Clients
<1>2. PICK n : n = (c.needs \/ c.pending # {})
  OBVIOUS
<1>3. n \in BOOLEAN
  BY <1>2, Zenon
<1>4. PICK v : v = IF terminal THEN "revoked" ELSE "error"
  OBVIOUS
<1>5. PICK no : no = FALSE
  OBVIOUS
<1>6. PICK d : d = Halted(c, n, no, no, v)
  OBVIOUS
<1>7. joinRejected(c, terminal) = d
  BY <1>1, <1>2, <1>4, <1>5, <1>6 DEF joinRejected, Halted, clearSocketSends, fence, Clients
<1>8. MayHalt(n, no, no, v)
  BY <1>3, <1>4, <1>5 DEF MayHalt
<1>9. ClientOk(d, L) /\ d.made = c.made
  BY <1>6, <1>8, HaltedOk
<1> QED BY <1>7, <1>9

\* The manager's view of the room.
LEMMA TrackRoomKeeps ==
    ASSUME NEW L \in Seq(Edits), NEW c, ClientOk(c, L), NEW f \in Frames
    PROVE  /\ ClientOk(trackRoom(c, f), L) /\ trackRoom(c, f).made = c.made
           /\ trackRoom(c, f).rec = c.rec /\ trackRoom(c, f).status = c.status
           /\ f.t # "left" => Keeps(c, trackRoom(c, f))
<1>1. c \in Clients /\ c.wm \in Nat /\ c.desired \in BOOLEAN
  BY DEF ClientOk, Clients
<1>2. PICK j, w : w = (c.desired /\ ~f.w) /\ j = [c EXCEPT !.joined = FALSE, !.desired = w]
  OBVIOUS
<1>3. w \in BOOLEAN
  BY <1>2, Zenon
<1>4. CASE f.t = "joined"
  <2>1. PICK d : d = [c EXCEPT !.joined = TRUE]
    OBVIOUS
  <2>2. d \in Clients
    BY <1>1, <2>1 DEF Clients
  <2>3. /\ d.status = c.status /\ d.canWrite = c.canWrite /\ d.wm = c.wm /\ d.ahead = c.ahead /\ d.doc = c.doc
        /\ d.pending = c.pending /\ d.made = c.made /\ d.sends = c.sends /\ d.cycle = c.cycle
        /\ d.needs = c.needs /\ d.rec = c.rec /\ d.compHead = c.compHead /\ d.comp = c.comp
        /\ d.desired = c.desired
    BY <1>1, <2>1 DEF Clients
  <2>4. ClientOk(d, L)
    BY <2>2, <2>3 DEF ClientOk, ReplicaOk, EditsOk, Trusted
  <2>5. Keeps(c, d)
    BY <1>1, <2>3 DEF Keeps, Seen, Steady, Asked
  <2>6. trackRoom(c, f) = d
    BY <1>4, <2>1 DEF trackRoom
  <2> QED BY <2>3, <2>4, <2>5, <2>6
<1>5. CASE f.t = "left"
  <2>1. j \in Clients
    BY <1>1, <1>2, <1>3 DEF Clients
  <2>2. /\ j.status = c.status /\ j.canWrite = c.canWrite /\ j.wm = c.wm /\ j.ahead = c.ahead /\ j.doc = c.doc
        /\ j.pending = c.pending /\ j.made = c.made /\ j.sends = c.sends /\ j.cycle = c.cycle
        /\ j.needs = c.needs /\ j.rec = c.rec /\ j.compHead = c.compHead /\ j.comp = c.comp
    BY <1>1, <1>2 DEF Clients
  <2>3. ClientOk(j, L)
    BY <2>1, <2>2 DEF ClientOk, ReplicaOk, EditsOk, Trusted
  <2>4. trackRoom(c, f) = j
    BY <1>1, <1>2, <1>5 DEF trackRoom, Clients
  <2> QED BY <1>5, <2>2, <2>3, <2>4
<1>6. CASE f.t \notin {"joined", "left"}
  <2>1. trackRoom(c, f) = c
    BY <1>6 DEF trackRoom
  <2> QED BY <1>1, <2>1 DEF Keeps
<1> QED BY <1>4, <1>5, <1>6

\* The edits of a frame enter the document.
LEMMA DocumentGrows ==
    ASSUME NEW L \in Seq(Edits), NEW c, ClientOk(c, L), NEW load \in Edits,
           NEW d, d = [c EXCEPT !.doc = @ \cup load]
    PROVE  /\ ClientOk(d, L) /\ Keeps(c, d) /\ KeepsRecovery(c, d)
           /\ load \subseteq d.doc /\ d.rec = c.rec /\ d.status = c.status /\ d.wm = c.wm
<1>1. c \in Clients /\ c.wm \in Nat /\ c.doc \in Edits /\ c.rec \in Recoveries
  BY DEF ClientOk, Clients
<1>2. PICK D : D = c.doc \cup load
  OBVIOUS
<1>3. D \in Edits /\ c.doc \subseteq D /\ load \subseteq D
  BY <1>1, <1>2 DEF Edits
<1>4. d = [c EXCEPT !.doc = D]
  BY <1>1, <1>2 DEF Clients
<1>5. d \in Clients
  BY <1>1, <1>3, <1>4 DEF Clients
<1>6. /\ d.status = c.status /\ d.canWrite = c.canWrite /\ d.wm = c.wm /\ d.ahead = c.ahead /\ d.doc = D
      /\ d.pending = c.pending /\ d.made = c.made /\ d.sends = c.sends /\ d.cycle = c.cycle
      /\ d.needs = c.needs /\ d.rec = c.rec /\ d.compHead = c.compHead /\ d.comp = c.comp
      /\ d.desired = c.desired
  BY <1>1, <1>4 DEF Clients
<1>7. ReplicaOk(d, L) /\ EditsOk(d, L)
  BY <1>3, <1>6 DEF ClientOk, ReplicaOk, EditsOk, Trusted
<1>8. RecoveryOk(d.rec, d.wm, d.doc, L)
  BY <1>3, <1>6 DEF ClientOk, RecoveryOk
<1>9. ClientOk(d, L)
  BY <1>5, <1>6, <1>7, <1>8 DEF ClientOk
<1>10. Keeps(c, d) /\ KeepsRecovery(c, d)
  BY <1>1, <1>3, <1>6 DEF Keeps, KeepsRecovery, Seen, Steady, Asked
<1> QED BY <1>3, <1>6, <1>9, <1>10

LEMMA UpdateHandled ==
    ASSUME NEW L \in Seq(Edits), NEW c, ClientOk(c, L), NEW f \in Frames, FrameOk(f, L), f.t = "update"
    PROVE  /\ ClientOk(handleRoom(c, f), L) /\ Keeps(c, handleRoom(c, f)) /\ KeepsRecovery(c, handleRoom(c, f))
           /\ Seen(handleRoom(c, f), f.seq)
<1>1. f.load \in Edits /\ f.seq \in 1..Len(L) /\ f.load = L[f.seq] /\ Len(L) \in Nat
  BY LogTyped DEF Frames, FrameOk
<1>2. PICK b : b = [c EXCEPT !.doc = @ \cup f.load]
  OBVIOUS
<1>3. ClientOk(b, L) /\ Keeps(c, b) /\ KeepsRecovery(c, b) /\ L[f.seq] \subseteq b.doc
  BY <1>1, <1>2, DocumentGrows
<1>4. PICK d : d = recordAppliedSeq(b, f.seq)
  OBVIOUS
<1>5. ClientOk(d, L) /\ Keeps(b, d) /\ KeepsRecovery(b, d) /\ Seen(d, f.seq)
  BY <1>1, <1>3, <1>4, RecordAppliedSeqKeeps
<1>6. PICK e : e = IF f.own THEN acknowledgeOwnEcho(d, f.seq, f.load) ELSE d
  OBVIOUS
<1>7. c \in Clients /\ b \in Clients /\ d \in Clients /\ d.wm \in Nat
  BY <1>3, <1>5 DEF ClientOk, Clients
<1>8. ClientOk(e, L) /\ Keeps(d, e) /\ KeepsRecovery(d, e)
  <2>1. CASE f.own
    <3>1. \A x \in f.load : Has(L, x)
      BY <1>1 DEF Has
    <3> QED BY <1>1, <1>5, <1>6, <2>1, <3>1, AcknowledgeOwnEchoKeeps
  <2>2. CASE ~f.own
    BY <1>5, <1>6, <1>7, <2>2 DEF Keeps, KeepsRecovery
  <2> QED BY <2>1, <2>2
<1>9. handleRoom(c, f) = e
  BY <1>2, <1>4, <1>6 DEF handleRoom
<1>10. e \in Clients
  BY <1>8 DEF ClientOk
<1>11. Keeps(c, d) /\ KeepsRecovery(c, d)
  BY <1>3, <1>5, <1>7, KeepsTransitive
<1>12. Keeps(c, e) /\ KeepsRecovery(c, e)
  BY <1>7, <1>8, <1>10, <1>11, KeepsTransitive
<1>13. f.seq \in Nat
  BY <1>1
<1> QED BY <1>5, <1>8, <1>9, <1>12, <1>13 DEF Keeps

LEMMA JoinedHandled ==
    ASSUME NEW L \in Seq(Edits), NEW c, ClientOk(c, L), NEW f \in Frames, f.t = "joined"
    PROVE  /\ ClientOk(handleRoom(c, f), L) /\ Keeps(c, handleRoom(c, f)) /\ KeepsRecovery(c, handleRoom(c, f))
           /\ Steady(c) /\ c.rec.at = "idle" => handleRoom(c, f).rec.at = "get"
<1>1. c \in Clients /\ c.wm \in Nat /\ f.w \in BOOLEAN
  BY DEF ClientOk, Clients, Frames
<1>2. PICK d : d = [c EXCEPT !.canWrite = f.w]
  OBVIOUS
<1>3. d \in Clients
  BY <1>1, <1>2 DEF Clients
<1>4. /\ d.status = c.status /\ d.wm = c.wm /\ d.ahead = c.ahead /\ d.doc = c.doc
      /\ d.pending = c.pending /\ d.made = c.made /\ d.sends = c.sends /\ d.cycle = c.cycle
      /\ d.needs = c.needs /\ d.rec = c.rec /\ d.compHead = c.compHead /\ d.comp = c.comp
      /\ d.desired = c.desired
  BY <1>1, <1>2 DEF Clients
<1>5. ClientOk(d, L)
  BY <1>3, <1>4 DEF ClientOk, ReplicaOk, EditsOk, Trusted
<1>6. Keeps(c, d) /\ KeepsRecovery(c, d) /\ (Steady(c) => Steady(d))
  BY <1>1, <1>4 DEF Keeps, KeepsRecovery, Seen, Steady, Asked
<1>7. PICK e : e = startCatchUp(d)
  OBVIOUS
<1>8. /\ ClientOk(e, L) /\ Keeps(d, e) /\ KeepsRecovery(d, e)
      /\ Steady(d) /\ d.rec.at = "idle" => e.rec.at = "get"
  BY <1>5, <1>7, StartCatchUpKeeps
<1>9. handleRoom(c, f) = e
  BY <1>2, <1>7 DEF handleRoom
<1>10. e \in Clients
  BY <1>8 DEF ClientOk
<1> QED BY <1>1, <1>3, <1>4, <1>6, <1>8, <1>9, <1>10, KeepsTransitive

\* One frame, for a provider that is not revoked.
LEMMA HandleRoomOk ==
    ASSUME NEW L \in Seq(Edits), NEW c, ClientOk(c, L), NEW f \in Frames, FrameOk(f, L)
    PROVE  ClientOk(handleRoom(c, f), L) /\ handleRoom(c, f).made = c.made
<1>1. f.t \in FrameTypes /\ f.w \in BOOLEAN /\ f.seq \in Nat /\ Len(L) \in Nat
  BY LogTyped DEF Frames
<1>2. CASE f.t = "joined"
  BY <1>2, JoinedHandled DEF Keeps
<1>3. CASE f.t = "update"
  BY <1>3, UpdateHandled DEF Keeps
<1>4. CASE f.t = "left"
  <2>1. handleRoom(c, f) = IF f.w THEN revoke(c) ELSE c
    BY <1>4 DEF handleRoom
  <2> QED BY <2>1, RevokeOk
<1>5. CASE f.t = "compact"
  <2>1. handleRoom(c, f) = requestCompaction(c, f.seq) /\ f.seq \in 0..Len(L)
    BY <1>1, <1>5 DEF handleRoom, FrameOk
  <2> QED BY <2>1, RequestCompactionKeeps DEF KeepsSeen
<1>6. CASE f.t = "rejected"
  <2>1. handleRoom(c, f) = joinRejected(c, f.w)
    BY <1>6 DEF handleRoom
  <2> QED BY <1>1, <2>1, JoinRejectedOk
<1>7. CASE f.t = "error"
  <2>1. handleRoom(c, f) = IF c.pending # {} THEN beginHttpRecovery(c) ELSE c
    BY <1>7 DEF handleRoom
  <2> QED BY <2>1, BeginHttpRecoveryKeeps DEF Keeps
<1> QED BY <1>1, <1>2, <1>3, <1>4, <1>5, <1>6, <1>7 DEF FrameTypes

LEMMA OnMessageOk ==
    ASSUME NEW L \in Seq(Edits), NEW c, ClientOk(c, L), NEW f \in Frames, FrameOk(f, L)
    PROVE  ClientOk(onmessage(c, f), L) /\ onmessage(c, f).made = c.made
<1>1. PICK d : d = IF f.gap /\ c.desired THEN beginHttpRecovery(c) ELSE c
  OBVIOUS
<1>2. ClientOk(d, L) /\ d.made = c.made
  BY <1>1, BeginHttpRecoveryKeeps DEF Keeps
<1>3. PICK e : e = trackRoom(d, f)
  OBVIOUS
<1>4. ClientOk(e, L) /\ e.made = d.made
  BY <1>2, <1>3, TrackRoomKeeps
<1>5. onmessage(c, f) = IF Revoked(e) \/ (f.t \in {"rejected", "error"} /\ ~e.desired) THEN e ELSE handleRoom(e, f)
  BY <1>1, <1>3 DEF onmessage
<1> QED BY <1>2, <1>4, <1>5, HandleRoomOk

\* A frame that arrives while nothing fails.
LEMMA OnMessageSteady ==
    ASSUME NEW L \in Seq(Edits), NEW c, ClientOk(c, L), Steady(c), NEW f \in Frames, FrameOk(f, L),
           f.t \in {"joined", "update", "compact"}, ~f.gap, f.t = "compact" => ~Asked(c)
    PROVE  /\ Steady(onmessage(c, f)) /\ KeepsSeen(c, onmessage(c, f)) /\ KeepsRecovery(c, onmessage(c, f))
           /\ f.t = "update" => Seen(onmessage(c, f), f.seq)
           /\ f.t # "compact" /\ Asked(onmessage(c, f)) => Asked(c)
           /\ f.t = "joined" /\ c.rec.at = "idle" => onmessage(c, f).rec.at = "get"
<1>1. PICK e : e = trackRoom(c, f)
  OBVIOUS
<1>2. ClientOk(e, L) /\ e.rec = c.rec /\ e.status = c.status /\ Keeps(c, e)
  BY <1>1, TrackRoomKeeps
<1>3. Steady(e) /\ KeepsRecovery(c, e) /\ c \in Clients /\ e \in Clients /\ (Asked(e) => Asked(c))
  BY <1>2 DEF Keeps, KeepsRecovery, ClientOk
<1>4. onmessage(c, f) = handleRoom(e, f)
  BY <1>1, <1>3 DEF onmessage, Revoked, Steady
<1>5. CASE f.t = "joined"
  <2>1. /\ Keeps(e, handleRoom(e, f)) /\ KeepsRecovery(e, handleRoom(e, f))
        /\ Steady(e) /\ e.rec.at = "idle" => handleRoom(e, f).rec.at = "get"
    BY <1>2, <1>5, JoinedHandled
  <2> QED BY <1>2, <1>3, <1>4, <1>5, <2>1 DEF Keeps, KeepsSeen, KeepsRecovery
<1>6. CASE f.t = "update"
  <2>1. /\ Keeps(e, handleRoom(e, f)) /\ KeepsRecovery(e, handleRoom(e, f)) /\ Seen(handleRoom(e, f), f.seq)
    BY <1>2, <1>6, UpdateHandled
  <2> QED BY <1>2, <1>3, <1>4, <1>6, <2>1 DEF Keeps, KeepsSeen, KeepsRecovery
<1>7. CASE f.t = "compact"
  <2>1. f.seq \in Nat /\ Len(L) \in Nat
    BY LogTyped DEF Frames
  <2>2. handleRoom(e, f) = requestCompaction(e, f.seq) /\ f.seq \in 0..Len(L)
    BY <1>7, <2>1 DEF handleRoom, FrameOk
  <2>3. /\ KeepsSeen(e, handleRoom(e, f)) /\ KeepsRecovery(e, handleRoom(e, f))
        /\ Steady(e) /\ ~Asked(e) => Steady(handleRoom(e, f))
    BY <1>2, <2>2, RequestCompactionKeeps
  <2> QED BY <1>2, <1>3, <1>4, <1>7, <2>3 DEF Keeps, KeepsSeen, KeepsRecovery
<1> QED BY <1>5, <1>6, <1>7

\* A local edit, in doubt until a recovery resolves it: the sends S are still expected.
Doubted(c, S, k, v) ==
    [c EXCEPT !.doc = @ \cup {c.made + 1}, !.pending = @ \cup {c.made + 1}, !.made = c.made + 1,
              !.sends = S, !.cycle = k, !.needs = TRUE, !.status = v]
\* A local edit on the socket.
OnSocket(c) ==
    [c EXCEPT !.doc = @ \cup {c.made + 1}, !.pending = @ \cup {c.made + 1}, !.made = c.made + 1,
              !.sends = @ \cup {c.made + 1}, !.cycle = c.made + 1, !.status = "saving"]

\* What an edit changes, and leaves.
Edited(c, d) ==
    /\ d.made = c.made + 1 /\ d.sends \subseteq c.sends \cup {c.made + 1}
    /\ \A s \in Nat : Seen(c, s) => Seen(d, s)
    /\ Steady(c) => Steady(d)
    /\ Asked(d) => Asked(c)

LEMMA DoubtedOk ==
    ASSUME NEW L \in Seq(Edits), NEW c, ClientOk(c, L), NEW S, NEW k, NEW v, S \subseteq c.sends, k \in 0..c.made,
           v = c.status \/ v \in {"saving", "connecting"}, v \notin {"synced", "read-only"},
           NEW d, d = Doubted(c, S, k, v)
    PROVE  ClientOk(d, L) /\ Edited(c, d) /\ d.rec = c.rec /\ d.status = v /\ d.sends = S
<1>1. /\ c \in Clients /\ c.wm \in Nat /\ c.made \in Nat /\ c.doc \in Edits /\ c.pending \in Edits
      /\ c.sends \in Edits /\ c.status \in Statuses /\ c.rec \in Recoveries
  BY DEF ClientOk, Clients
<1>2. PICK D, P, n : D = c.doc \cup {c.made + 1} /\ P = c.pending \cup {c.made + 1} /\ n = c.made + 1
  OBVIOUS
<1>3. D \in Edits /\ P \in Edits /\ S \in Edits /\ n \in Nat /\ k \in Nat /\ v \in Statuses
  BY <1>1, <1>2 DEF Edits, Statuses
<1>4. PICK x : x = [c EXCEPT !.doc = D, !.pending = P, !.made = n]
  OBVIOUS
<1>5. x \in Clients
  BY <1>1, <1>3, <1>4 DEF Clients
<1>6. PICK y : y = [x EXCEPT !.sends = S, !.cycle = k]
  OBVIOUS
<1>7. y \in Clients
  BY <1>3, <1>5, <1>6 DEF Clients
<1>8. d = [y EXCEPT !.needs = TRUE, !.status = v]
  BY <1>1, <1>2, <1>4, <1>6 DEF Doubted, Clients
<1>9. d \in Clients
  BY <1>3, <1>7, <1>8 DEF Clients
<1>10. /\ d.status = v /\ d.wm = c.wm /\ d.ahead = c.ahead /\ d.doc = D
       /\ d.pending = P /\ d.made = n /\ d.sends = S /\ d.cycle = k
       /\ d.needs = TRUE /\ d.rec = c.rec /\ d.compHead = c.compHead /\ d.comp = c.comp
       /\ d.desired = c.desired
  <2>1. /\ x.wm = c.wm /\ x.ahead = c.ahead /\ x.doc = D /\ x.pending = P /\ x.made = n
        /\ x.rec = c.rec /\ x.compHead = c.compHead /\ x.comp = c.comp /\ x.desired = c.desired
    BY <1>1, <1>4 DEF Clients
  <2>2. /\ y.wm = x.wm /\ y.ahead = x.ahead /\ y.doc = x.doc /\ y.pending = x.pending /\ y.made = x.made
        /\ y.rec = x.rec /\ y.compHead = x.compHead /\ y.comp = x.comp /\ y.desired = x.desired
        /\ y.sends = S /\ y.cycle = k
    BY <1>5, <1>6 DEF Clients
  <2>3. /\ d.wm = y.wm /\ d.ahead = y.ahead /\ d.doc = y.doc /\ d.pending = y.pending /\ d.made = y.made
        /\ d.rec = y.rec /\ d.compHead = y.compHead /\ d.comp = y.comp /\ d.desired = y.desired
        /\ d.sends = y.sends /\ d.cycle = y.cycle /\ d.needs = TRUE /\ d.status = v
    BY <1>7, <1>8 DEF Clients
  <2> QED BY <2>1, <2>2, <2>3
<1>11. ReplicaOk(d, L)
  BY <1>2, <1>10 DEF ClientOk, ReplicaOk
<1>12. EditsOk(d, L)
  <2>1. EditsOk(c, L)
    BY DEF ClientOk
  <2>2. P \subseteq 1..n /\ S \subseteq P /\ k <= n /\ P \subseteq D
    BY <1>1, <1>2, <2>1 DEF EditsOk
  <2>3. \A e \in 1..n : e \in P \/ Has(L, e)
    <3>1. \A e \in 1..n : e = n \/ e \in 1..c.made
      BY <1>1, <1>2
    <3> QED BY <1>2, <2>1, <3>1 DEF EditsOk
  <2> QED BY <1>10, <2>2, <2>3 DEF EditsOk, Trusted
<1>13. RecoveryOk(d.rec, d.wm, d.doc, L)
  BY <1>2, <1>10 DEF ClientOk, RecoveryOk
<1>14. ClientOk(d, L)
  BY <1>9, <1>10, <1>11, <1>12, <1>13 DEF ClientOk
<1>15. Edited(c, d)
  BY <1>2, <1>10 DEF Edited, Seen, Steady, Asked
<1> QED BY <1>10, <1>14, <1>15

LEMMA OnSocketOk ==
    ASSUME NEW L \in Seq(Edits), NEW c, ClientOk(c, L), Resting(c.status), c.rec.at = "idle", ~c.needs,
           NEW d, d = OnSocket(c)
    PROVE  ClientOk(d, L) /\ Edited(c, d) /\ d.rec = c.rec
<1>1. /\ c \in Clients /\ c.wm \in Nat /\ c.made \in Nat /\ c.doc \in Edits /\ c.pending \in Edits
      /\ c.sends \in Edits /\ c.status \in Statuses /\ c.rec \in Recoveries
  BY DEF ClientOk, Clients
<1>2. PICK D, P, S, n : /\ D = c.doc \cup {c.made + 1} /\ P = c.pending \cup {c.made + 1}
                        /\ S = c.sends \cup {c.made + 1} /\ n = c.made + 1
  OBVIOUS
<1>3. D \in Edits /\ P \in Edits /\ S \in Edits /\ n \in Nat
  BY <1>1, <1>2 DEF Edits
<1>4. PICK x : x = [c EXCEPT !.doc = D, !.pending = P, !.made = n]
  OBVIOUS
<1>5. x \in Clients
  BY <1>1, <1>3, <1>4 DEF Clients
<1>6. d = [x EXCEPT !.sends = S, !.cycle = n, !.status = "saving"]
  BY <1>1, <1>2, <1>4 DEF OnSocket, Clients
<1>7. d \in Clients
  BY <1>3, <1>5, <1>6 DEF Clients, Statuses
<1>8. /\ d.status = "saving" /\ d.wm = c.wm /\ d.ahead = c.ahead /\ d.doc = D
      /\ d.pending = P /\ d.made = n /\ d.sends = S /\ d.cycle = n
      /\ d.needs = c.needs /\ d.rec = c.rec /\ d.compHead = c.compHead /\ d.comp = c.comp
      /\ d.desired = c.desired
  <2>1. /\ x.wm = c.wm /\ x.ahead = c.ahead /\ x.doc = D /\ x.pending = P /\ x.made = n /\ x.needs = c.needs
        /\ x.rec = c.rec /\ x.compHead = c.compHead /\ x.comp = c.comp /\ x.desired = c.desired
    BY <1>1, <1>4 DEF Clients
  <2>2. /\ d.wm = x.wm /\ d.ahead = x.ahead /\ d.doc = x.doc /\ d.pending = x.pending /\ d.made = x.made
        /\ d.rec = x.rec /\ d.compHead = x.compHead /\ d.comp = x.comp /\ d.desired = x.desired
        /\ d.needs = x.needs /\ d.sends = S /\ d.cycle = n /\ d.status = "saving"
    BY <1>5, <1>6 DEF Clients
  <2> QED BY <2>1, <2>2
<1>9. ReplicaOk(d, L)
  BY <1>2, <1>8 DEF ClientOk, ReplicaOk
<1>10. EditsOk(d, L)
  <2>1. EditsOk(c, L)
    BY DEF ClientOk
  <2>2. P \subseteq 1..n /\ S \subseteq P /\ n <= n /\ P \subseteq D
    BY <1>1, <1>2, <2>1 DEF EditsOk
  <2>3. \A e \in 1..n : e = n \/ e \in 1..c.made
    BY <1>1, <1>2
  <2>4. \A e \in 1..c.made : e \in c.sends \/ Has(L, e)
    BY <2>1 DEF EditsOk, Trusted, Resting
  <2>5. \A e \in 1..n : (e \in P \/ Has(L, e)) /\ (e \in S \/ Has(L, e))
    BY <1>2, <2>1, <2>3, <2>4 DEF EditsOk
  <2> QED BY <1>8, <2>2, <2>5 DEF EditsOk
<1>11. RecoveryOk(d.rec, d.wm, d.doc, L)
  BY <1>2, <1>8 DEF ClientOk, RecoveryOk
<1>12. ClientOk(d, L)
  BY <1>7, <1>8, <1>9, <1>10, <1>11 DEF ClientOk
<1>13. Edited(c, d)
  BY <1>2, <1>8 DEF Edited, Seen, Steady, Asked
<1> QED BY <1>8, <1>12, <1>13

LEMMA PublishOk ==
    ASSUME NEW L \in Seq(Edits), NEW c, ClientOk(c, L), ~Revoked(c), NEW big \in BOOLEAN, NEW sent \in BOOLEAN
    PROVE  /\ ClientOk(publish(c, big, sent), L) /\ Edited(c, publish(c, big, sent))
           /\ KeepsRecovery(c, publish(c, big, sent))
           /\ c.status = "connecting" => /\ publish(c, big, sent).status = "connecting"
                                         /\ publish(c, big, sent).rec = c.rec
                                         /\ publish(c, big, sent).sends = c.sends
           /\ ~sent => publish(c, big, sent).sends \subseteq c.sends
<1>1. /\ c \in Clients /\ c.made \in Nat /\ c.cycle \in Nat /\ c.cycle <= c.made /\ c.needs \in BOOLEAN
      /\ c.status \in Statuses /\ c.doc \in Edits /\ c.pending \in Edits /\ c.sends \in Edits
  BY DEF ClientOk, Clients, EditsOk
<1> DEFINE none == {}
           open == c.status \in {"error", "connecting"}
           flying == RecoveryInFlight(c)
<1>2. CASE open
  <2>1. PICK d : d = Doubted(c, c.sends, c.cycle, c.status)
    OBVIOUS
  <2>2. publish(c, big, sent) = d
    BY <1>1, <1>2, <2>1 DEF publish, Doubted, Clients
  <2>3. c.cycle \in 0..c.made
    BY <1>1
  <2>4. ClientOk(d, L) /\ Edited(c, d) /\ d.rec = c.rec /\ d.status = c.status /\ d.sends = c.sends
    BY <1>2, <2>1, <2>3, DoubtedOk
  <2> QED BY <1>2, <2>2, <2>4 DEF KeepsRecovery
<1>3. CASE ~open /\ flying
  <2>1. PICK d : d = Doubted(c, c.sends, c.cycle, "saving")
    OBVIOUS
  <2>2. publish(c, big, sent) = d
    BY <1>1, <1>3, <2>1 DEF publish, Doubted, Clients
  <2>3. c.cycle \in 0..c.made
    BY <1>1
  <2>4. ClientOk(d, L) /\ Edited(c, d) /\ d.rec = c.rec /\ d.sends = c.sends
    BY <2>1, <2>3, DoubtedOk
  <2> QED BY <1>3, <2>2, <2>4 DEF KeepsRecovery
<1>4. CASE ~open /\ ~flying /\ (c.needs \/ big)
  <2>1. PICK d : d = Doubted(c, none, 0, "saving")
    OBVIOUS
  <2>2. none \subseteq c.sends /\ 0 \in 0..c.made
    BY <1>1
  <2>3. ClientOk(d, L) /\ Edited(c, d) /\ d.rec = c.rec /\ d.sends = none /\ d.status = "saving"
    <3> HIDE DEF none
    <3> QED BY <2>1, <2>2, DoubtedOk
  <2>4. publish(c, big, sent) = startFlush(d)
    BY <1>1, <1>4, <2>1 DEF publish, Doubted, Clients, clearSocketSends
  <2>5. startFlush(d) = post(d)
    BY <1>4, <2>3 DEF startFlush, RecoveryInFlight, Revoked
  <2>6. PICK e : e = post(d)
    OBVIOUS
  <2>7. ClientOk(e, L) /\ Keeps(d, e)
    BY <2>3, <2>6, PostKeeps
  <2>8. d \in Clients
    BY <2>3 DEF ClientOk
  <2>9. e.sends = none
    BY <2>3, <2>6, <2>8 DEF post, Clients
  <2>10. Edited(c, e)
    BY <2>3, <2>7, <2>9 DEF Edited, Keeps
  <2>11. KeepsRecovery(c, e)
    BY <1>4 DEF KeepsRecovery, RecoveryInFlight, Awaited
  <2> QED BY <1>4, <2>4, <2>5, <2>6, <2>7, <2>9, <2>10, <2>11
<1>5. CASE ~open /\ ~flying /\ ~(c.needs \/ big) /\ sent
  <2>1. PICK d : d = OnSocket(c)
    OBVIOUS
  <2>2. publish(c, big, sent) = d
    BY <1>1, <1>5, <2>1 DEF publish, OnSocket, Clients
  <2>3. Resting(c.status) /\ c.rec.at = "idle" /\ ~c.needs
    BY <1>1, <1>5 DEF Resting, Statuses, Revoked, RecoveryInFlight
  <2>4. ClientOk(d, L) /\ Edited(c, d) /\ d.rec = c.rec
    BY <2>1, <2>3, OnSocketOk
  <2> QED BY <1>5, <2>2, <2>4 DEF KeepsRecovery
<1>6. CASE ~open /\ ~flying /\ ~(c.needs \/ big) /\ ~sent
  <2>1. PICK d : d = Doubted(c, none, 0, "connecting")
    OBVIOUS
  <2>2. none \subseteq c.sends /\ 0 \in 0..c.made
    BY <1>1
  <2>3. publish(c, big, sent) = d
    BY <1>1, <1>6, <2>1 DEF publish, Doubted, Clients, clearSocketSends
  <2>4. ClientOk(d, L) /\ Edited(c, d) /\ d.rec = c.rec /\ d.sends = none
    <3> HIDE DEF none
    <3> QED BY <2>1, <2>2, DoubtedOk
  <2> QED BY <1>6, <2>2, <2>3, <2>4 DEF KeepsRecovery
<1> QED BY <1>2, <1>3, <1>4, <1>5, <1>6

\* The finally block of a snapshot upload.
LEMMA SnapshotEndedOk ==
    ASSUME NEW L \in Seq(Edits), NEW c, ClientOk(c, L)
    PROVE  /\ ClientOk(snapshotEnded(c), L) /\ Keeps(c, snapshotEnded(c)) /\ KeepsRecovery(c, snapshotEnded(c))
           /\ Steady(c) /\ c.comp.at # "idle" =>
                 /\ snapshotEnded(c).rec = c.rec /\ snapshotEnded(c).status = c.status
                 /\ snapshotEnded(c).sends = c.sends
<1>1. /\ c \in Clients /\ c.wm \in Nat /\ c.compHead \in Nat /\ c.compHead <= Len(L) /\ Len(L) \in Nat
      /\ c.comp \in Compactions
  BY LogTyped DEF ClientOk, Clients, ReplicaOk
<1>2. PICK h : h = IF c.compHead <= c.comp.head THEN 0 ELSE c.compHead
  OBVIOUS
<1>3. h \in Nat /\ h <= Len(L) /\ NoComp \in Compactions /\ NoComp.at = "idle" /\ (h # 0 => h = c.compHead)
  BY <1>1, <1>2 DEF NoComp, Compactions, Edits
<1>4. PICK d : d = [c EXCEPT !.comp = NoComp, !.compHead = h]
  OBVIOUS
<1>5. d \in Clients
  BY <1>1, <1>3, <1>4 DEF Clients
<1>6. /\ d.status = c.status /\ d.canWrite = c.canWrite /\ d.wm = c.wm /\ d.ahead = c.ahead /\ d.doc = c.doc
      /\ d.pending = c.pending /\ d.made = c.made /\ d.sends = c.sends /\ d.cycle = c.cycle
      /\ d.needs = c.needs /\ d.rec = c.rec /\ d.compHead = h /\ d.comp = NoComp
      /\ d.desired = c.desired
  BY <1>1, <1>4 DEF Clients
<1>7. CompactionOk(d.comp, L)
  BY <1>3, <1>6 DEF CompactionOk
<1>8. ClientOk(d, L)
  BY <1>3, <1>5, <1>6, <1>7 DEF ClientOk, ReplicaOk, EditsOk, Trusted
<1>9. Keeps(c, d) /\ KeepsRecovery(c, d)
  BY <1>1, <1>3, <1>6 DEF Keeps, KeepsRecovery, Seen, Steady, Asked
<1>10. PICK e : e = maybeCompact(d)
  OBVIOUS
<1>11. ClientOk(e, L) /\ Keeps(d, e) /\ KeepsRecovery(d, e) /\ (h = 0 => e = d)
  BY <1>6, <1>8, <1>10, MaybeCompactKeeps
<1>12. snapshotEnded(c) = e
  BY <1>1, <1>2, <1>4, <1>10 DEF snapshotEnded, Clients
<1>13. Steady(c) /\ c.comp.at # "idle" => h = 0
  BY <1>2 DEF Steady
<1>14. e \in Clients
  BY <1>11 DEF ClientOk
<1> QED BY <1>1, <1>5, <1>6, <1>9, <1>11, <1>12, <1>13, <1>14, KeepsTransitive

-----------------------------------------------------------------------------
(* The log grows at its end.                                               *)

Extends(L, M) == Len(L) <= Len(M) /\ \A s \in 1..Len(L) : M[s] = L[s]

LEMMA Appending ==
    ASSUME NEW L \in Seq(Edits), NEW x \in Edits, NEW M, M = Append(L, x)
    PROVE  /\ M \in Seq(Edits) /\ Len(L) \in Nat /\ Len(M) = Len(L) + 1 /\ M[Len(L) + 1] = x
           /\ Extends(L, M)
<1>1. /\ M \in Seq(Edits) /\ Len(L) \in Nat /\ Len(M) = Len(L) + 1 /\ M[Len(L) + 1] = x
      /\ \A s \in 1..Len(L) : M[s] = L[s]
  BY DEF Edits
<1> QED BY <1>1 DEF Extends

LEMMA ClientOkLater ==
    ASSUME NEW L \in Seq(Edits), NEW M \in Seq(Edits), Extends(L, M), NEW c, ClientOk(c, L)
    PROVE  ClientOk(c, M)
<1>1. /\ Len(L) \in Nat /\ Len(M) \in Nat /\ c \in Clients /\ c.wm \in Nat /\ c.ahead \in SUBSET Nat /\ c.compHead \in Nat
      /\ c.rec \in Recoveries /\ c.comp \in Compactions
  BY LogTyped DEF ClientOk, Clients
<1>2. \A e : Has(L, e) => Has(M, e)
  BY <1>1 DEF Has, Extends
<1>3. ReplicaOk(c, M)
  <2>1. ReplicaOk(c, L)
    BY DEF ClientOk
  <2>2. c.wm <= Len(M) /\ c.ahead \subseteq (c.wm + 2)..Len(M) /\ c.compHead <= Len(M)
    BY <1>1, <2>1 DEF ReplicaOk, Extends
  <2>3. \A s \in (1..c.wm) \cup c.ahead : s \in 1..Len(L)
    BY <1>1, <2>1 DEF ReplicaOk
  <2> QED BY <2>1, <2>2, <2>3 DEF ReplicaOk, Extends
<1>4. EditsOk(c, M)
  BY <1>2 DEF ClientOk, EditsOk
<1>5. RecoveryOk(c.rec, c.wm, c.doc, M)
  <2>1. RecoveryOk(c.rec, c.wm, c.doc, L)
    BY DEF ClientOk
  <2>2. c.rec.seq \in Nat /\ c.rec.through \in Nat
    BY <1>1 DEF Recoveries
  <2>3. c.rec.seq <= Len(M) /\ (c.rec.seq # 0 => AllLogged(M, c.rec.ver))
    BY <1>1, <1>2, <2>1, <2>2 DEF RecoveryOk, Extends, AllLogged
  <2>4. c.rec.at = "posted" => L[c.rec.seq] = M[c.rec.seq]
    BY <1>1, <2>1, <2>2 DEF RecoveryOk, Extends
  <2>5. c.rec.at = "got" => c.rec.through <= Len(M) /\ \A s \in 1..c.rec.through : L[s] = M[s]
    BY <1>1, <2>1, <2>2 DEF RecoveryOk, Extends
  <2> QED BY <1>2, <2>1, <2>3, <2>4, <2>5 DEF RecoveryOk
<1>6. CompactionOk(c.comp, M)
  <2>1. c.comp.seq \in Nat
    BY <1>1 DEF Compactions
  <2> QED BY <1>1, <2>1 DEF ClientOk, CompactionOk, SnapshotOk, Extends
<1> QED BY <1>1, <1>3, <1>4, <1>5, <1>6 DEF ClientOk

LEMMA OthersLater ==
    ASSUME NEW L \in Seq(Edits), NEW M \in Seq(Edits), Extends(L, M)
    PROVE  /\ \A f \in Frames : FrameOk(f, L) => FrameOk(f, M)
           /\ \A q, content : q \in Nat /\ SnapshotOk(q, content, L) => SnapshotOk(q, content, M)
           /\ \A q \in Nat : q \in 1..Len(L) => q \in 1..Len(M)
<1>1. Len(L) \in Nat /\ Len(M) \in Nat
  BY LogTyped
<1>2. ASSUME NEW f \in Frames, FrameOk(f, L) PROVE FrameOk(f, M)
  <2>1. f.seq \in Nat
    BY DEF Frames
  <2> QED BY <1>1, <1>2, <2>1 DEF FrameOk, Extends
<1>3. ASSUME NEW q \in Nat, NEW content, SnapshotOk(q, content, L) PROVE SnapshotOk(q, content, M)
  BY <1>1, <1>3 DEF SnapshotOk, Extends
<1>4. \A q \in Nat : q \in 1..Len(L) => q \in 1..Len(M)
  BY <1>1 DEF Extends
<1> QED BY <1>2, <1>3, <1>4

-----------------------------------------------------------------------------
(* The steps.                                                              *)

\* What a step of the client alone must do for the invariant when nothing fails.
ClientGoesOn ==
    /\ Steady(cl') /\ (Asked(cl') => Asked(cl)) /\ (Waiting(cl) => Waiting(cl'))
    /\ \A s \in 1..Len(log) : Seen(cl, s) \/ Awaited(cl.rec, s) => Seen(cl', s) \/ Awaited(cl'.rec, s)

LEMMA ClientStep ==
    ASSUME ProviderInv, UNCHANGED <<penv, conn, connNo, out, inq, gap, room, access, log, bcast, remote, asks>>,
           late' \subseteq Writes, snap' \in [seq : Nat, content : Edits],
           SnapshotOk(snap'.seq, snap'.content, log),
           ClientOk(cl', log), cl'.made <= MaxEdits,
           Undisturbed /\ Steady(cl) => ClientGoesOn
    PROVE  ProviderInv'
<1>1. ServerInv'
  BY DEF ProviderInv, ServerInv
<1>2. ReplicaInv'
  BY DEF ReplicaInv, MaxEdits
<1>3. Undisturbed' = Undisturbed
  BY DEF Undisturbed, Faults, MaxAsks
<1>4. ASSUME Undisturbed PROVE CalmNow' /\ CoverNow'
  <2>1. CalmNow /\ CoverNow /\ ClientGoesOn
    BY <1>4 DEF ProviderInv, CalmInv, CalmNow
  <2>2. FramesNow'
    BY <2>1 DEF CalmNow, FramesNow, ClientGoesOn
  <2>3. PhaseNow' /\ Entering' = Entering
    BY <2>1 DEF CalmNow, PhaseNow, ClientGoesOn, Entering
  <2>4. CalmNow'
    BY <2>1, <2>2, <2>3 DEF CalmNow, ClientGoesOn
  <2>5. CoverNow'
    <3>1. \A s \in 1..Len(log) : s \in Nat
      OBVIOUS
    <3>2. \A s : Coming(s)' = Coming(s)
      BY DEF Coming
    <3> QED BY <2>1, <2>3, <3>1, <3>2 DEF CoverNow, ClientGoesOn
  <2> QED BY <2>4, <2>5
<1> QED BY <1>1, <1>2, <1>3, <1>4 DEF ProviderInv, CalmInv

\* Facts about the current state that the steps use.
LEMMA InvFacts ==
    ASSUME ProviderInv
    PROVE  /\ ClientOk(cl, log) /\ log \in Seq(Edits) /\ Len(log) \in Nat /\ cl \in Clients
           /\ cl.made <= MaxEdits /\ MaxEdits \in Nat /\ cl.made \in Nat /\ cl.rec \in Recoveries
           /\ late \subseteq Writes /\ snap \in [seq : Nat, content : Edits]
           /\ SnapshotOk(snap.seq, snap.content, log)
<1>1. penv \in ProviderEnvironments
  BY DEF ProviderInv, ServerInv
<1>2. MaxEdits \in Nat
  BY <1>1, CollabProviderAssumption DEF MaxEdits
<1> QED BY <1>2, LogTyped DEF ProviderInv, ServerInv, ReplicaInv, ClientOk, Clients

\* Without faults nothing of the kind happens.
LEMMA NothingFails ==
    ASSUME Undisturbed
    PROVE  \A k : ~Fault(k)
  BY DEF Undisturbed, Fault

LEMMA AckTimeoutStep ==
    ASSUME ProviderInv, AckTimeout
    PROVE  ProviderInv'
<1>1. ClientOk(cl', log) /\ Keeps(cl, cl') /\ KeepsRecovery(cl, cl')
  BY InvFacts, BeginHttpRecoveryKeeps DEF AckTimeout
<1>2. cl'.made <= MaxEdits
  BY <1>1, InvFacts DEF Keeps
<1>3. Undisturbed /\ Steady(cl) => ClientGoesOn
  BY <1>1 DEF AckTimeout, ClientGoesOn, Keeps, KeepsRecovery, Waiting
<1> QED BY <1>1, <1>2, <1>3, InvFacts, ClientStep DEF AckTimeout, socketVars, logVars

LEMMA StateAppliedStep ==
    ASSUME ProviderInv, StateApplied
    PROVE  ProviderInv'
<1>1. PICK page : page = cl.rec
  OBVIOUS
<1>2. /\ page \in Recoveries /\ page.at = "got" /\ page.through \in Nat /\ page.since \in Nat /\ page.seq \in Nat
      /\ page.load \in Edits /\ page.more \in BOOLEAN /\ page.ver \in Nat
  BY <1>1, InvFacts DEF StateApplied, Recoveries
<1>3. RecoveryOk(page, cl.wm, cl.doc, log) /\ ReplicaOk(cl, log) /\ cl.wm \in Nat
  BY <1>1, InvFacts DEF ClientOk, Clients
<1>4. PICK b : b = [cl EXCEPT !.doc = @ \cup page.load]
  OBVIOUS
<1>a. ClientOk(cl, log) /\ log \in Seq(Edits) /\ page.load \in Edits
  BY <1>2, InvFacts
<1>b. ClientOk(b, log) /\ Keeps(cl, b) /\ page.load \subseteq b.doc
  BY <1>4, <1>a, DocumentGrows
<1>5. ClientOk(b, log) /\ Keeps(cl, b) /\ page.load \subseteq b.doc /\ cl.doc \subseteq b.doc
  BY <1>b DEF Keeps
<1>6. page.through \in 0..Len(log) /\ \A s \in 1..page.through : log[s] \subseteq b.doc
  <2>1. page.through <= Len(log) /\ page.since <= cl.wm
    BY <1>2, <1>3 DEF RecoveryOk
  <2>2. ASSUME NEW s \in 1..page.through PROVE log[s] \subseteq b.doc
    <3>1. CASE s <= page.since
      <4>1. s \in 1..cl.wm
        BY <1>2, <1>3, <2>1, <3>1
      <4> QED BY <1>3, <1>5, <4>1 DEF ReplicaOk
    <3>2. CASE log[s] \subseteq page.load
      BY <1>5, <3>2
    <3> QED BY <1>2, <1>3, <3>1, <3>2 DEF RecoveryOk
  <2> QED BY <1>2, <2>1, <2>2, InvFacts
<1>7. PICK c : c = advanceThrough(b, page.through)
  OBVIOUS
<1>8. ClientOk(c, log) /\ Keeps(b, c) /\ c.wm >= page.through
  BY <1>5, <1>6, <1>7, InvFacts, AdvanceThroughKeeps
<1>9. b \in Clients /\ c \in Clients /\ c.wm \in Nat /\ c.made = cl.made
  BY <1>5, <1>8 DEF ClientOk, Clients, Keeps
<1>10. Keeps(cl, c)
  BY <1>5, <1>8, <1>9, InvFacts, KeepsTransitive
<1>11. cl' = IF page.more THEN [c EXCEPT !.rec = [page EXCEPT !.at = "get", !.since = page.through, !.load = {}]]
             ELSE IF page.seq = 0 THEN flushPending(c)
             ELSE IF c.wm < page.seq THEN failRecovery(c)
             ELSE appendReconciled(c, page.ver)
  BY <1>1, <1>4, <1>7 DEF StateApplied
<1>12. CASE page.more
  <2> DEFINE none == {}
  <2>1. none \in Edits
    BY DEF Edits
  <2>2. PICK r : r = [page EXCEPT !.at = "get", !.since = page.through, !.load = none]
    OBVIOUS
  <2>3. PICK d : d = [c EXCEPT !.rec = r]
    OBVIOUS
  <2>4. cl' = d
    BY <1>11, <1>12, <2>2, <2>3
  <2> HIDE DEF none
  <2>5. r \in Recoveries /\ r.at = "get" /\ r.since = page.through /\ r.seq = page.seq /\ r.ver = page.ver
    BY <1>2, <2>1, <2>2 DEF Recoveries
  <2>6. d \in Clients
    BY <1>9, <2>3, <2>5 DEF Clients
  <2>7. /\ d.status = c.status /\ d.canWrite = c.canWrite /\ d.wm = c.wm /\ d.ahead = c.ahead /\ d.doc = c.doc
        /\ d.pending = c.pending /\ d.made = c.made /\ d.sends = c.sends /\ d.cycle = c.cycle
        /\ d.needs = c.needs /\ d.rec = r /\ d.compHead = c.compHead /\ d.comp = c.comp
        /\ d.desired = c.desired
    BY <1>9, <2>3 DEF Clients
  <2>8. RecoveryOk(d.rec, d.wm, d.doc, log)
    BY <1>2, <1>3, <1>8, <1>9, <2>5, <2>7 DEF RecoveryOk
  <2>9. ClientOk(d, log)
    BY <1>8, <2>5, <2>6, <2>7, <2>8 DEF ClientOk, ReplicaOk, EditsOk, Trusted
  <2>10. Undisturbed /\ Steady(cl) => ClientGoesOn
    BY <1>1, <1>2, <1>10, <2>4, <2>5, <2>7 DEF ClientGoesOn, Keeps, Steady, Asked, Awaited, Waiting
  <2> QED BY <1>9, <2>4, <2>7, <2>9, <2>10, InvFacts, ClientStep DEF StateApplied, socketVars, logVars
<1>13. CASE ~page.more
  <2>1. page.seq <= page.through
    BY <1>2, <1>3, <1>13 DEF RecoveryOk
  <2>2. ~(c.wm < page.seq)
    BY <1>2, <1>8, <1>9, <2>1
  <2>3. PICK d : d = IF page.seq = 0 THEN flushPending(c) ELSE appendReconciled(c, page.ver)
    OBVIOUS
  <2>4. cl' = d
    BY <1>11, <1>13, <2>2, <2>3
  <2>5. ClientOk(d, log) /\ d.made = c.made /\ (c.status \notin {"revoked", "error"} => Keeps(c, d))
    <3>1. CASE page.seq = 0
      BY <1>8, <2>3, <3>1, InvFacts, FlushPendingKeeps
    <3>2. CASE page.seq # 0
      <4>1. AllLogged(log, page.ver)
        BY <1>3, <3>2 DEF RecoveryOk
      <4> QED BY <1>8, <2>3, <3>2, <4>1, InvFacts, AppendReconciledKeeps
    <3> QED BY <3>1, <3>2
  <2>6. Undisturbed /\ Steady(cl) => ClientGoesOn
    <3> SUFFICES ASSUME Steady(cl) PROVE ClientGoesOn
      OBVIOUS
    <3>1. Steady(c) /\ Keeps(c, d)
      BY <1>10, <2>5 DEF Keeps, Steady
    <3>2. ASSUME NEW s \in Nat, Seen(cl, s) \/ Awaited(cl.rec, s) PROVE Seen(c, s)
      <4>1. CASE Seen(cl, s)
        BY <1>10, <4>1 DEF Keeps
      <4>2. CASE Awaited(cl.rec, s)
        BY <1>1, <1>2, <1>8, <1>9, <1>13, <4>2 DEF Awaited, Seen
      <4> QED BY <3>2, <4>1, <4>2
    <3> QED BY <1>1, <1>2, <1>10, <2>4, <3>1, <3>2 DEF ClientGoesOn, Keeps, Waiting
  <2> QED BY <1>9, <2>4, <2>5, <2>6, InvFacts, ClientStep DEF StateApplied, socketVars, logVars
<1> QED BY <1>2, <1>12, <1>13

LEMMA AppendAckedStep ==
    ASSUME ProviderInv, AppendAcked
    PROVE  ProviderInv'
<1>1. PICK r : r = cl.rec
  OBVIOUS
<1>2. r \in Recoveries /\ r.at = "posted" /\ r.seq \in Nat /\ r.ver \in Nat
  BY <1>1, InvFacts DEF AppendAcked, Recoveries
<1>3. r.seq \in 1..Len(log) /\ log[r.seq] \subseteq cl.doc /\ AllLogged(log, r.ver) /\ r.seq <= Len(log) /\ r.seq # 0
  BY <1>1, <1>2, InvFacts DEF ClientOk, RecoveryOk
<1>4. PICK c : c = recordAppliedSeq(cl, r.seq)
  OBVIOUS
<1>5. ClientOk(c, log) /\ Keeps(cl, c)
  BY <1>3, <1>4, InvFacts, RecordAppliedSeqKeeps
<1>6. PICK d : d = IF c.wm < r.seq THEN catchUp(c, r.seq, r.ver) ELSE appendReconciled(c, r.ver)
  OBVIOUS
<1>7. cl' = d
  BY <1>1, <1>4, <1>6 DEF AppendAcked
<1>8. ClientOk(d, log) /\ d.made = c.made /\ (c.status \notin {"revoked", "error"} => Keeps(c, d))
  <2>1. CASE c.wm < r.seq
    <3>1. d = catchUp(c, r.seq, r.ver)
      BY <1>6, <2>1
    <3>2. ClientOk(catchUp(c, r.seq, r.ver), log) /\ Keeps(c, catchUp(c, r.seq, r.ver))
      BY <1>2, <1>3, <1>5, InvFacts, CatchUpKeeps
    <3> QED BY <3>1, <3>2 DEF Keeps
  <2>2. CASE ~(c.wm < r.seq)
    BY <1>3, <1>5, <1>6, <2>2, InvFacts, AppendReconciledKeeps
  <2> QED BY <2>1, <2>2
<1>9. Undisturbed /\ Steady(cl) => ClientGoesOn
  BY <1>1, <1>2, <1>5, <1>7, <1>8 DEF ClientGoesOn, Keeps, Steady, Waiting, Awaited
<1>10. cl'.made <= MaxEdits
  BY <1>5, <1>7, <1>8, InvFacts DEF Keeps
<1> QED BY <1>7, <1>8, <1>9, <1>10, InvFacts, ClientStep DEF AppendAcked, socketVars, logVars

LEMMA HttpRefusedStep ==
    ASSUME ProviderInv, HttpRefused
    PROVE  ProviderInv'
<1>1. ClientOk(cl', log) /\ cl'.made <= MaxEdits
  BY InvFacts, FailRecoveryKeeps DEF HttpRefused
<1>2. ~Undisturbed
  BY DEF HttpRefused, ProviderInv, CalmInv, CalmNow
<1> QED BY <1>1, <1>2, InvFacts, ClientStep DEF HttpRefused, socketVars, logVars

\* An append that the client gives up on carries edits.
LEMMA AbandonedTyped ==
    ASSUME ProviderInv, NEW c
    PROVE  late \cup Abandoned(c) \subseteq Writes
<1>1. cl.rec.load \in Edits
  BY InvFacts DEF Recoveries
<1>2. Abandoned(c) \subseteq Writes
  BY <1>1 DEF Abandoned, Writes
<1> QED BY <1>2, InvFacts

LEMMA HttpLostStep ==
    ASSUME ProviderInv, HttpLost
    PROVE  ProviderInv'
<1>1. ClientOk(cl', log) /\ cl'.made <= MaxEdits
  BY InvFacts, FailRecoveryKeeps DEF HttpLost
<1>2. ~Undisturbed
  BY NothingFails DEF HttpLost
<1>3. late' \subseteq Writes
  BY AbandonedTyped DEF HttpLost
<1> QED BY <1>1, <1>2, <1>3, InvFacts, ClientStep DEF HttpLost, socketVars

LEMMA CompactionAnsweredStep ==
    ASSUME ProviderInv, CompactionAnswered
    PROVE  ProviderInv'
<1>1. ClientOk(cl', log) /\ Keeps(cl, cl') /\ KeepsRecovery(cl, cl')
  BY InvFacts, SnapshotEndedOk DEF CompactionAnswered
<1>2. Steady(cl) => cl'.rec = cl.rec /\ cl'.status = cl.status /\ cl'.sends = cl.sends
  BY InvFacts, SnapshotEndedOk DEF CompactionAnswered
<1>3. Undisturbed /\ Steady(cl) => ClientGoesOn
  BY <1>1, <1>2 DEF ClientGoesOn, Keeps, KeepsRecovery, Waiting
<1>4. cl'.made <= MaxEdits
  BY <1>1, InvFacts DEF Keeps
<1> QED BY <1>1, <1>3, <1>4, InvFacts, ClientStep DEF CompactionAnswered, socketVars, logVars

LEMMA CompactionLostStep ==
    ASSUME ProviderInv, CompactionLost
    PROVE  ProviderInv'
<1>1. ClientOk(cl', log) /\ Keeps(cl, cl')
  BY InvFacts, SnapshotEndedOk DEF CompactionLost
<1>2. ~Undisturbed
  BY NothingFails DEF CompactionLost
<1>3. cl'.made <= MaxEdits
  BY <1>1, InvFacts DEF Keeps
<1> QED BY <1>1, <1>2, <1>3, InvFacts, ClientStep DEF CompactionLost, socketVars, logVars

\* Setting the recovery alone, to one that is in flight.
LEMMA RecoverySet ==
    ASSUME NEW L \in Seq(Edits), NEW c, ClientOk(c, L), NEW r \in Recoveries, r.at # "idle",
           RecoveryOk(r, c.wm, c.doc, L), NEW d, d = [c EXCEPT !.rec = r]
    PROVE  ClientOk(d, L) /\ Keeps(c, d) /\ d.rec = r
<1>1. c \in Clients /\ c.wm \in Nat
  BY DEF ClientOk, Clients
<1>2. d \in Clients
  BY <1>1 DEF Clients
<1>3. /\ d.status = c.status /\ d.canWrite = c.canWrite /\ d.wm = c.wm /\ d.ahead = c.ahead /\ d.doc = c.doc
      /\ d.pending = c.pending /\ d.made = c.made /\ d.sends = c.sends /\ d.cycle = c.cycle
      /\ d.needs = c.needs /\ d.rec = r /\ d.compHead = c.compHead /\ d.comp = c.comp
      /\ d.desired = c.desired
  BY <1>1 DEF Clients
<1>4. ClientOk(d, L)
  BY <1>2, <1>3 DEF ClientOk, ReplicaOk, EditsOk, Trusted
<1>5. Keeps(c, d)
  BY <1>1, <1>3 DEF Keeps, Seen, Steady, Asked
<1> QED BY <1>3, <1>4, <1>5

LEMMA StateServedStep ==
    ASSUME ProviderInv, StateServed
    PROVE  ProviderInv'
<1>1. PICK q : q = cl.rec
  OBVIOUS
<1>2. /\ q \in Recoveries /\ q.at = "get" /\ q.since \in Nat /\ q.seq \in Nat
  BY <1>1, InvFacts DEF StateServed, Recoveries
<1>3. /\ RecoveryOk(q, cl.wm, cl.doc, log) /\ q.since <= cl.wm /\ cl.wm <= Len(log) /\ cl.wm \in Nat
      /\ snap.seq \in Nat /\ snap.content \in Edits /\ snap.seq <= Len(log)
      /\ \A s \in 1..snap.seq : log[s] \subseteq snap.content
      /\ Len(log) \in Nat /\ CatchUpPage \in Nat
  BY <1>1, <1>2, InvFacts, CollabProviderAssumption DEF ClientOk, Clients, ReplicaOk, RecoveryOk, SnapshotOk
<1>4. PICK base : base = Max({q.since, snap.seq})
  OBVIOUS
<1>5. base \in Nat /\ base <= Len(log) /\ base \in {q.since, snap.seq} /\ base >= q.since /\ base >= snap.seq
  BY <1>2, <1>3, <1>4, LargerOfTwo
<1>6. PICK last : last = Min({Len(log), base + CatchUpPage})
  OBVIOUS
<1>7. last \in Nat /\ last <= Len(log) /\ base <= last
  <2>1. base + CatchUpPage \in Nat
    BY <1>3, <1>5
  <2> QED BY <1>3, <1>5, <1>6, <2>1, SmallerOfTwo
<1>8. PICK head : head = IF snap.seq > q.since THEN snap.content ELSE {}
  OBVIOUS
<1>9. PICK load : load = head \cup UNION {log[s] : s \in (base + 1)..last}
  OBVIOUS
<1>10. load \in Edits
  <2>1. \A s \in (base + 1)..last : log[s] \subseteq Nat
    BY <1>3, <1>5, <1>7, InvFacts, LogTyped
  <2>2. UNION {log[s] : s \in (base + 1)..last} \subseteq Nat
    BY <2>1
  <2> QED BY <1>3, <1>8, <1>9, <2>2 DEF Edits
<1>11. \A s \in 1..last : s <= q.since \/ log[s] \subseteq load
  <2> SUFFICES ASSUME NEW s \in 1..last, ~(s <= q.since) PROVE log[s] \subseteq load
    OBVIOUS
  <2>1. CASE s > base
    <3>1. s \in (base + 1)..last
      BY <1>5, <1>7, <2>1
    <3> QED BY <1>9, <3>1
  <2>2. CASE s <= base
    <3>1. base = snap.seq /\ snap.seq > q.since /\ s \in 1..snap.seq
      BY <1>2, <1>3, <1>5, <1>7, <2>2
    <3> QED BY <1>3, <1>8, <1>9, <3>1
  <2> QED BY <1>5, <1>7, <2>1, <2>2
<1>12. PICK more : more = (last < Len(log))
  OBVIOUS
<1>13. more \in BOOLEAN /\ (more <=> last < Len(log))
  <2>1. PICK n : n = Len(log)
    OBVIOUS
  <2>2. n \in Nat /\ more = (last < n)
    BY <1>3, <1>12, <2>1
  <2>3. more \in BOOLEAN
    BY <1>7, <2>2
  <2>4. more <=> last < n
    BY <1>7, <2>2
  <2> QED BY <2>1, <2>3, <2>4
<1>14. PICK r : r = [q EXCEPT !.at = "got", !.load = load, !.through = last, !.more = more]
  OBVIOUS
<1>15. /\ r \in Recoveries /\ r.at = "got" /\ r.load = load /\ r.through = last /\ r.more = more
       /\ r.since = q.since /\ r.seq = q.seq /\ r.ver = q.ver
  BY <1>2, <1>7, <1>10, <1>13, <1>14 DEF Recoveries
<1>16. RecoveryOk(r, cl.wm, cl.doc, log)
  <2>1. r.more <=> last < Len(log)
    BY <1>13, <1>15
  <2>2. ~r.more => r.seq <= r.through
    BY <1>2, <1>3, <1>7, <1>15, <2>1 DEF RecoveryOk
  <2> QED BY <1>3, <1>7, <1>11, <1>15, <2>2 DEF RecoveryOk
<1>17. PICK d : d = [cl EXCEPT !.rec = r]
  OBVIOUS
<1>18. cl' = d
  <2>1. cl' = [cl EXCEPT !.rec.at = "got", !.rec.load = load, !.rec.through = last, !.rec.more = (last < Len(log))]
    BY <1>1, <1>4, <1>6, <1>8, <1>9 DEF StateServed
  <2>2. cl' = [cl EXCEPT !.rec.at = "got", !.rec.load = load, !.rec.through = last, !.rec.more = more]
    BY <2>1, <1>12
  <2> QED BY <2>2, <1>1, <1>2, <1>14, <1>17, InvFacts DEF Clients, Recoveries
<1>19. ClientOk(d, log) /\ Keeps(cl, d) /\ d.rec = r
  BY <1>15, <1>16, <1>17, InvFacts, RecoverySet
<1>20. \A s \in 1..Len(log) : Awaited(r, s)
  <2>1. r.more <=> last < Len(log)
    BY <1>13, <1>15
  <2> QED BY <1>3, <1>7, <1>15, <2>1 DEF Awaited
<1>21. Undisturbed /\ Steady(cl) => ClientGoesOn
  BY <1>1, <1>2, <1>18, <1>19, <1>20 DEF ClientGoesOn, Keeps, Waiting
<1>22. cl'.made <= MaxEdits
  BY <1>18, <1>19, InvFacts DEF Keeps
<1> QED BY <1>18, <1>19, <1>21, <1>22, InvFacts, ClientStep DEF StateServed, socketVars, logVars

LEMMA SnapshotServedStep ==
    ASSUME ProviderInv, SnapshotServed
    PROVE  ProviderInv'
<1>1. cl.comp \in Compactions /\ cl.comp.at = "sent" /\ cl.comp.seq \in Nat /\ cl.comp.content \in Edits
  BY InvFacts DEF SnapshotServed, Clients, Compactions
<1>2. SnapshotOk(cl.comp.seq, cl.comp.content, log)
  BY <1>1, InvFacts DEF ClientOk, CompactionOk
<1>3. snap' \in [seq : Nat, content : Edits] /\ SnapshotOk(snap'.seq, snap'.content, log)
  BY <1>1, <1>2, InvFacts DEF SnapshotServed
<1>4. PICK k : k = [cl.comp EXCEPT !.at = "done"]
  OBVIOUS
<1>5. k \in Compactions /\ k.at = "done" /\ k.head = cl.comp.head
  BY <1>1, <1>4 DEF Compactions
<1>6. PICK d : d = [cl EXCEPT !.comp = k]
  OBVIOUS
<1>7. cl' = d
  BY <1>4, <1>6, InvFacts DEF SnapshotServed, Clients
<1>8. d \in Clients
  BY <1>5, <1>6, InvFacts DEF Clients
<1>9. /\ d.status = cl.status /\ d.canWrite = cl.canWrite /\ d.wm = cl.wm /\ d.ahead = cl.ahead /\ d.doc = cl.doc
      /\ d.pending = cl.pending /\ d.made = cl.made /\ d.sends = cl.sends /\ d.cycle = cl.cycle
      /\ d.needs = cl.needs /\ d.rec = cl.rec /\ d.compHead = cl.compHead /\ d.comp = k
      /\ d.desired = cl.desired
  BY <1>6, InvFacts DEF Clients
<1>10. ClientOk(d, log)
  BY <1>5, <1>8, <1>9, InvFacts DEF ClientOk, ReplicaOk, EditsOk, Trusted, CompactionOk
<1>11. Undisturbed /\ Steady(cl) => ClientGoesOn
  BY <1>1, <1>5, <1>7, <1>9 DEF ClientGoesOn, Steady, Asked, Waiting, Seen
<1>12. cl'.made <= MaxEdits
  BY <1>7, <1>9, InvFacts
<1> QED BY <1>3, <1>7, <1>10, <1>11, <1>12, InvFacts, ClientStep DEF SnapshotServed, socketVars

-----------------------------------------------------------------------------
(* Steps of the server.                                                    *)

\* The log takes one more update, which is to be relayed.
LEMMA LoggedStep ==
    ASSUME ProviderInv, NEW x \in Edits, log' = Append(log, x), NEW o \in Nat,
           bcast' = bcast \cup {[seq |-> Len(log) + 1, origin |-> o]},
           UNCHANGED <<penv, conn, connNo, out, gap, room, access, snap, asks>>,
           inq' \in Seq(Requests), inq' = inq \/ (room = "write" /\ inq # <<>> /\ inq' = Tail(inq)),
           late' \subseteq Writes, remote' \in Nat,
           ClientOk(cl', log'), cl'.made <= MaxEdits, Undisturbed /\ Steady(cl) => ClientGoesOn
    PROVE  ProviderInv'
<1>1. /\ log' \in Seq(Edits) /\ Len(log) \in Nat /\ Len(log') = Len(log) + 1 /\ Extends(log, log')
  BY InvFacts, Appending
<1>2. ServerInv'
  <2>1. \A i \in DOMAIN out : out[i] \in Frames /\ FrameOk(out[i], log)
    BY DEF ProviderInv, ServerInv
  <2>2. \A i \in DOMAIN out : FrameOk(out[i], log')
    BY <1>1, <2>1, InvFacts, OthersLater
  <2>3. SnapshotOk(snap.seq, snap.content, log') /\ snap.seq \in Nat
    <3>1. snap.seq \in Nat
      BY InvFacts
    <3> QED BY <1>1, <3>1, InvFacts, OthersLater
  <2>4. PICK b : b = [seq |-> Len(log) + 1, origin |-> o]
    OBVIOUS
  <2>5. b \in Relays /\ b.seq = Len(log) + 1
    BY <1>1, <2>4 DEF Relays
  <2>6. bcast' \subseteq Relays /\ \A y \in bcast' : y.seq \in 1..Len(log')
    <3>1. bcast \subseteq Relays /\ \A y \in bcast : y.seq \in 1..Len(log)
      BY DEF ProviderInv, ServerInv
    <3>2. \A y \in bcast' : y \in bcast \/ y = b
      BY <2>4
    <3> QED BY <1>1, <2>5, <3>1, <3>2
  <2> QED BY <1>1, <2>2, <2>3, <2>6 DEF ProviderInv, ServerInv
<1>3. ReplicaInv'
  BY DEF ReplicaInv, MaxEdits
<1>4. Undisturbed' = Undisturbed
  BY DEF Undisturbed, Faults, MaxAsks
<1>5. ASSUME Undisturbed PROVE CalmNow' /\ CoverNow'
  <2>1. CalmNow /\ CoverNow /\ ClientGoesOn
    BY <1>5 DEF ProviderInv, CalmInv, CalmNow
  <2>2. FramesNow'
    BY <2>1 DEF CalmNow, FramesNow, ClientGoesOn
  <2>3. inq \in Seq(Requests)
    BY DEF ProviderInv, ServerInv
  <2>4. room = "write" => \A i \in DOMAIN inq' : inq'[i].t = "update"
    <3>1. CASE inq' = inq
      BY <2>1, <3>1 DEF CalmNow, PhaseNow
    <3>2. CASE room = "write" /\ inq # <<>> /\ inq' = Tail(inq)
      <4>1. Len(inq') = Len(inq) - 1 /\ \A i \in 1..Len(inq') : inq'[i] = inq[i + 1]
        BY <2>3, <3>2
      <4>2. \A i \in DOMAIN inq' : i + 1 \in DOMAIN inq /\ inq'[i] = inq[i + 1]
        BY <2>3, <4>1
      <4> QED BY <2>1, <3>2, <4>2 DEF CalmNow, PhaseNow
    <3> QED BY <3>1, <3>2
  <2>5. Entering' = Entering
    BY DEF Entering
  <2>6. conn # "up" \/ room = "none" => inq' = inq
    BY DEF ProviderInv, ServerInv
  <2>7. PhaseNow'
    BY <2>1, <2>4, <2>5, <2>6 DEF CalmNow, PhaseNow, ClientGoesOn
  <2>8. CalmNow'
    BY <2>1, <2>2, <2>7 DEF CalmNow, ClientGoesOn
  <2>9. \A s : Coming(s) => Coming(s)'
    BY DEF Coming
  <2> PICK n : n = Len(log) + 1
    OBVIOUS
  <2>10. Coming(n)'
    <3>1. [seq |-> n, origin |-> o] \in bcast'
      OBVIOUS
    <3>2. \E b \in bcast' : b.seq = n
      BY <3>1
    <3> QED BY <3>2 DEF Coming
  <2>11. \A s \in 1..Len(log') : s \in 1..Len(log) \/ s = n
    BY <1>1
  <2>12. CoverNow'
    BY <2>1, <2>5, <2>9, <2>10, <2>11 DEF CoverNow, ClientGoesOn
  <2> QED BY <2>8, <2>12
<1> QED BY <1>2, <1>3, <1>4, <1>5 DEF ProviderInv, CalmInv

\* A step that leaves the provider alone.
LEMMA ClientIdle ==
    ASSUME ProviderInv, cl' = cl
    PROVE  Undisturbed /\ Steady(cl) => ClientGoesOn
  BY DEF ClientGoesOn

LEMMA RemoteAppendStep ==
    ASSUME ProviderInv, RemoteAppend
    PROVE  ProviderInv'
<1>1. remote \in Nat /\ MaxEdits \in Nat
  BY InvFacts DEF ProviderInv, ServerInv
<1>2. PICK x : x = {MaxEdits + remote + 1}
  OBVIOUS
<1>3. x \in Edits
  BY <1>1, <1>2 DEF Edits
<1>4. log' \in Seq(Edits) /\ Extends(log, log') /\ log' = Append(log, x)
  BY <1>2, <1>3, InvFacts, Appending DEF RemoteAppend
<1>5. ClientOk(cl', log') /\ cl'.made <= MaxEdits
  BY <1>4, InvFacts, ClientOkLater DEF RemoteAppend
<1>6. remote' \in Nat /\ late' \subseteq Writes /\ inq' \in Seq(Requests) /\ inq' = inq
  BY <1>1, InvFacts DEF RemoteAppend, ProviderInv, ServerInv, socketVars
<1>7. UNCHANGED <<penv, conn, connNo, out, gap, room, access, snap, asks>> /\ cl' = cl
  BY DEF RemoteAppend, socketVars
<1>8. PICK o \in Nat : o = 0
  OBVIOUS
<1>9. bcast' = bcast \cup {[seq |-> Len(log) + 1, origin |-> o]}
  BY <1>8 DEF RemoteAppend
<1> QED BY <1>3, <1>4, <1>5, <1>6, <1>7, <1>9, ClientIdle, LoggedStep

LEMMA LateAppendStep ==
    ASSUME ProviderInv, NEW w \in late, LateAppend(w)
    PROVE  ProviderInv'
<1>1. w \in Writes
  BY InvFacts
<1>2. w.load \in Edits /\ w.origin \in Nat
  BY <1>1 DEF Writes
<1>4. log' \in Seq(Edits) /\ Extends(log, log') /\ log' = Append(log, w.load)
  BY <1>2, InvFacts, Appending DEF LateAppend
<1>5. ClientOk(cl', log') /\ cl'.made <= MaxEdits
  BY <1>4, InvFacts, ClientOkLater DEF LateAppend
<1>6. remote' \in Nat /\ late' \subseteq Writes /\ inq' \in Seq(Requests) /\ inq' = inq
  BY InvFacts DEF LateAppend, ProviderInv, ServerInv, socketVars
<1>7. UNCHANGED <<penv, conn, connNo, out, gap, room, access, snap, asks>> /\ cl' = cl
  BY DEF LateAppend, socketVars
<1>9. bcast' = bcast \cup {[seq |-> Len(log) + 1, origin |-> w.origin]}
  BY DEF LateAppend
<1> QED BY <1>2, <1>4, <1>5, <1>6, <1>7, <1>9, ClientIdle, LoggedStep

LEMMA AppendServedStep ==
    ASSUME ProviderInv, AppendServed
    PROVE  ProviderInv'
<1>1. PICK q : q = cl.rec
  OBVIOUS
<1>2. q \in Recoveries /\ q.at = "post" /\ q.load \in Edits /\ q.ver \in Nat /\ q.seq \in Nat
  BY <1>1, InvFacts DEF AppendServed, Recoveries
<1>3. RecoveryOk(q, cl.wm, cl.doc, log)
  BY <1>1, InvFacts DEF ClientOk
<1>4. PICK L : L = log'
  OBVIOUS
<1>5. /\ L \in Seq(Edits) /\ Extends(log, L) /\ log' = Append(log, q.load) /\ Len(log) \in Nat
      /\ Len(L) = Len(log) + 1 /\ L[Len(log) + 1] = q.load
  BY <1>1, <1>2, <1>4, InvFacts, Appending DEF AppendServed
<1>6. ClientOk(cl, L)
  BY <1>5, InvFacts, ClientOkLater
<1>7. PICK n : n = Len(log) + 1
  OBVIOUS
<1>8. n \in Nat /\ n = Len(L) /\ n # 0
  BY <1>5, <1>7
<1>9. PICK r : r = [q EXCEPT !.at = "posted", !.seq = n]
  OBVIOUS
<1>10. r \in Recoveries /\ r.at = "posted" /\ r.seq = n /\ r.ver = q.ver
  BY <1>2, <1>8, <1>9 DEF Recoveries
<1>11. AllLogged(L, q.ver)
  <2> SUFFICES ASSUME NEW e \in 1..q.ver PROVE Has(L, e)
    BY DEF AllLogged
  <2>1. CASE e \in q.load
    <3>1. n \in 1..Len(L) /\ e \in L[n]
      BY <1>5, <1>7, <1>8, <2>1
    <3> QED BY <3>1 DEF Has
  <2>2. CASE Has(log, e)
    <3>1. PICK s \in 1..Len(log) : e \in log[s]
      BY <2>2 DEF Has
    <3>2. s \in 1..Len(L) /\ L[s] = log[s]
      BY <1>5 DEF Extends
    <3> QED BY <3>1, <3>2 DEF Has
  <2> QED BY <1>2, <1>3, <2>1, <2>2 DEF RecoveryOk
<1>12. RecoveryOk(r, cl.wm, cl.doc, L)
  BY <1>2, <1>3, <1>5, <1>7, <1>8, <1>10, <1>11 DEF RecoveryOk
<1>13. PICK d : d = [cl EXCEPT !.rec = r]
  OBVIOUS
<1>14. cl' = d
  BY <1>1, <1>2, <1>7, <1>9, <1>13, InvFacts DEF AppendServed, Clients, Recoveries
<1>15. ClientOk(d, L) /\ Keeps(cl, d) /\ d.rec = r
  BY <1>5, <1>6, <1>10, <1>12, <1>13, RecoverySet
<1>16. Undisturbed /\ Steady(cl) => ClientGoesOn
  BY <1>1, <1>2, <1>10, <1>14, <1>15 DEF ClientGoesOn, Keeps, Waiting, Awaited
<1>17. ClientOk(cl', log') /\ cl'.made <= MaxEdits
  BY <1>4, <1>14, <1>15, InvFacts DEF Keeps
<1>18. remote' \in Nat /\ late' \subseteq Writes /\ inq' \in Seq(Requests) /\ inq' = inq
  BY InvFacts DEF AppendServed, ProviderInv, ServerInv, socketVars
<1>19. UNCHANGED <<penv, conn, connNo, out, gap, room, access, snap, asks>>
  BY DEF AppendServed, socketVars
<1>20. PICK o \in Nat : o = 0
  OBVIOUS
<1>21. bcast' = bcast \cup {[seq |-> Len(log) + 1, origin |-> o]}
  BY <1>20 DEF AppendServed
<1> QED BY <1>2, <1>5, <1>16, <1>17, <1>18, <1>19, <1>21, LoggedStep

\* The parts of the invariant after a step.
LEMMA Together ==
    ASSUME penv' = penv, ServerInv', ClientOk(cl', log'), cl'.made <= MaxEdits,
           Undisturbed => CalmNow' /\ CoverNow'
    PROVE  ProviderInv'
<1>1. ReplicaInv'
  BY DEF ReplicaInv, MaxEdits
<1>2. Undisturbed' = Undisturbed
  BY DEF Undisturbed, Faults, MaxAsks
<1> QED BY <1>1, <1>2 DEF ProviderInv, CalmInv

\* A frame goes to the end of the queue.
LEMMA Sent ==
    ASSUME ProviderInv, NEW L \in Seq(Edits), Extends(log, L), NEW f \in Frames, FrameOk(f, L), Send(f)
    PROVE  /\ out' \in Seq(Frames) /\ gap' = FALSE /\ \A i \in DOMAIN out' : FrameOk(out'[i], L)
           /\ Len(out) \in Nat /\ DOMAIN out' = 1..(Len(out) + 1) /\ DOMAIN out = 1..Len(out)
           /\ \A i \in 1..Len(out) : out'[i] = out[i]
           /\ out'[Len(out) + 1].t = f.t /\ out'[Len(out) + 1].seq = f.seq /\ out'[Len(out) + 1].gap = gap
<1>1. out \in Seq(Frames) /\ gap \in BOOLEAN /\ \A i \in DOMAIN out : FrameOk(out[i], log)
  BY DEF ProviderInv, ServerInv
<1>2. PICK g : g = [f EXCEPT !.gap = gap]
  OBVIOUS
<1>3. g \in Frames /\ g.t = f.t /\ g.seq = f.seq /\ g.load = f.load /\ g.gap = gap
  BY <1>1, <1>2 DEF Frames
<1>4. out' = Append(out, g) /\ gap' = FALSE
  BY <1>2 DEF Send
<1> HIDE DEF Frames
<1>5. /\ out' \in Seq(Frames) /\ Len(out) \in Nat /\ Len(out') = Len(out) + 1 /\ out'[Len(out) + 1] = g
      /\ \A i \in 1..Len(out) : out'[i] = out[i]
  BY <1>1, <1>3, <1>4
<1>6. DOMAIN out' = 1..(Len(out) + 1) /\ DOMAIN out = 1..Len(out)
  BY <1>1, <1>5
<1>7. \A i \in DOMAIN out : out[i] \in Frames /\ FrameOk(out[i], L)
  BY <1>1, InvFacts, OthersLater
<1>8. FrameOk(g, L)
  BY <1>3 DEF FrameOk
<1>9. \A i \in DOMAIN out' : FrameOk(out'[i], L)
  <2>1. \A i \in DOMAIN out' : i \in 1..Len(out) \/ i = Len(out) + 1
    BY <1>5, <1>6
  <2> QED BY <1>5, <1>6, <1>7, <1>8, <2>1
<1> QED BY <1>3, <1>4, <1>5, <1>6, <1>9

LEMMA ExtendsItself ==
    ASSUME ProviderInv
    PROVE  Extends(log, log)
  BY InvFacts DEF Extends

\* A frame that says nothing of the log.
Plain(t, w) == Frame(t, 0, {}, FALSE, w)

LEMMA PlainFrame ==
    ASSUME NEW t \in FrameTypes \ {"update", "compact"}, NEW w \in BOOLEAN, NEW L,
           NEW f, f = Plain(t, w)
    PROVE  f \in Frames /\ FrameOk(f, L) /\ f.t = t
<1> DEFINE none == {}
           no == FALSE
<1>1. none \in Edits /\ no \in BOOLEAN
  BY DEF Edits
<1>2. f = [t |-> t, seq |-> 0, load |-> none, own |-> no, w |-> w, gap |-> no]
  BY DEF Frame, Plain
<1> HIDE DEF none, no
<1>3. f \in Frames
  BY <1>1, <1>2 DEF Frames
<1>4. f.t = t
  BY <1>2
<1> QED BY <1>3, <1>4 DEF FrameOk

\* A queue without its first frame.
LEMMA TailTyped ==
    ASSUME NEW S, NEW q \in Seq(S), q # <<>>
    PROVE  /\ Tail(q) \in Seq(S) /\ Head(q) \in S /\ Head(q) = q[1] /\ 1 \in DOMAIN q
           /\ Len(q) \in Nat /\ Len(Tail(q)) = Len(q) - 1 /\ DOMAIN q = 1..Len(q) /\ DOMAIN Tail(q) = 1..(Len(q) - 1)
           /\ \A i \in 1..(Len(q) - 1) : Tail(q)[i] = q[i + 1]
  OBVIOUS

\* When nothing fails, what the server reads from the connection is the join of a
\* provider outside of the room, or an update of one inside.
LEMMA CalmRequest ==
    ASSUME ProviderInv, Undisturbed, conn = "up", inq # <<>>
    PROVE  /\ Head(inq).t = "join" => /\ room = "none" /\ access = "write" /\ out = <<>> /\ Tail(inq) = <<>>
           /\ Head(inq).t = "update" => room = "write"
           /\ Head(inq).t # "leave"
<1>1. CalmNow /\ inq \in Seq(Requests)
  BY DEF ProviderInv, CalmInv, ServerInv
<1>2. Head(inq) = inq[1] /\ 1 \in DOMAIN inq
  BY <1>1, TailTyped
<1>3. CASE room = "none"
  <2>1. Len(inq) = 1 /\ inq[1].t = "join" /\ out = <<>> /\ access = "write"
    BY <1>1, <1>3 DEF CalmNow, PhaseNow
  <2>2. Tail(inq) \in Seq(Requests) /\ Len(Tail(inq)) = 0
    BY <1>1, <2>1, TailTyped
  <2>3. Tail(inq) = <<>>
    BY <2>2, EmptySeq
  <2> QED BY <1>2, <1>3, <2>1, <2>3
<1>4. CASE room = "write"
  BY <1>1, <1>2, <1>4 DEF CalmNow, PhaseNow
<1> QED BY <1>1, <1>3, <1>4 DEF CalmNow

LEMMA ServerJoinStep ==
    ASSUME ProviderInv, ServerJoin
    PROVE  ProviderInv'
<1>1. /\ inq \in Seq(Requests) /\ inq # <<>> /\ inq' = Tail(inq) /\ conn = "up" /\ Head(inq).t = "join"
      /\ UNCHANGED <<penv, cl, conn, connNo, access, log, snap, bcast, late, remote, asks>>
  BY DEF ServerJoin, ProviderInv, ServerInv
<1>2. inq' \in Seq(Requests)
  BY <1>1, TailTyped
<1>3. PICK f : Send(f) /\ f \in Frames /\ FrameOk(f, log) /\ f.t \in {"joined", "rejected", "error"} /\ room' \in {room, access}
               /\ (f.t # "joined" => access = "none" \/ Fault("join") \/ Fault("unscoped")) /\ (f.t = "joined" => room' = access)
  <2>1. CASE access # "none" /\ room' = access /\ Send(Frame("joined", 0, {}, FALSE, access = "write"))
    <3>1. PICK w : w = (access = "write")
      OBVIOUS
    <3>2. w \in BOOLEAN
      BY <3>1, Zenon
    <3>3. PICK f : f = Frame("joined", 0, {}, FALSE, w)
      OBVIOUS
    <3>4. f \in Frames /\ FrameOk(f, log) /\ f.t = "joined"
      BY <3>2, <3>3, PlainFrame DEF FrameTypes, Plain
    <3> QED BY <2>1, <3>1, <3>3, <3>4
  <2>2. CASE access = "none" /\ Send(Frame("rejected", 0, {}, FALSE, TRUE)) /\ UNCHANGED room
    <3>1. PICK f : f = Frame("rejected", 0, {}, FALSE, TRUE)
      OBVIOUS
    <3>2. f \in Frames /\ FrameOk(f, log) /\ f.t = "rejected"
      BY <3>1, PlainFrame DEF FrameTypes, Plain
    <3> QED BY <2>2, <3>1, <3>2
  <2>3. CASE Fault("join") /\ Send(Frame("rejected", 0, {}, FALSE, FALSE)) /\ UNCHANGED room
    <3>1. PICK f : f = Frame("rejected", 0, {}, FALSE, FALSE)
      OBVIOUS
    <3>2. f \in Frames /\ FrameOk(f, log) /\ f.t = "rejected"
      BY <3>1, PlainFrame DEF FrameTypes, Plain
    <3> QED BY <2>3, <3>1, <3>2
  <2>4. CASE Fault("unscoped") /\ Send(Frame("error", 0, {}, FALSE, FALSE)) /\ UNCHANGED room
    <3>1. PICK f : f = Frame("error", 0, {}, FALSE, FALSE)
      OBVIOUS
    <3>2. f \in Frames /\ FrameOk(f, log) /\ f.t = "error"
      BY <3>1, PlainFrame DEF FrameTypes, Plain
    <3> QED BY <2>4, <3>1, <3>2
  <2> QED BY <2>1, <2>2, <2>3, <2>4 DEF ServerJoin
<1>4. /\ out' \in Seq(Frames) /\ gap' = FALSE /\ \A i \in DOMAIN out' : FrameOk(out'[i], log)
      /\ Len(out) \in Nat /\ DOMAIN out' = 1..(Len(out) + 1)
      /\ out'[Len(out) + 1].t = f.t /\ out'[Len(out) + 1].gap = gap
  BY <1>3, InvFacts, ExtendsItself, Sent
<1>5. ServerInv'
  BY <1>1, <1>2, <1>3, <1>4 DEF ProviderInv, ServerInv
<1>6. ASSUME Undisturbed PROVE CalmNow' /\ CoverNow'
  <2>1. CalmNow
    BY <1>6 DEF ProviderInv, CalmInv
  <2>2. room = "none" /\ access = "write" /\ out = <<>> /\ inq' = <<>>
    BY <1>1, <1>6, CalmRequest
  <2>3. f.t = "joined" /\ room' = "write"
    BY <1>3, <1>6, <2>2, NothingFails
  <2>4. DOMAIN out' = {1} /\ out'[1].t = "joined" /\ ~out'[1].gap
    BY <1>4, <2>1, <2>2, <2>3 DEF CalmNow
  <2>5. FramesNow'
    BY <1>1, <2>1, <2>4 DEF CalmNow, FramesNow
  <2>6. PhaseNow' /\ Entering'
    BY <1>1, <2>1, <2>2, <2>3, <2>4 DEF CalmNow, PhaseNow, Entering
  <2> QED BY <1>1, <1>4, <2>1, <2>2, <2>3, <2>5, <2>6 DEF CalmNow, CoverNow
<1>7. ClientOk(cl', log') /\ cl'.made <= MaxEdits
  BY <1>1, InvFacts
<1> QED BY <1>1, <1>5, <1>6, <1>7, Together

LEMMA ServerLeaveStep ==
    ASSUME ProviderInv, ServerLeave
    PROVE  ProviderInv'
<1>1. /\ inq \in Seq(Requests) /\ inq # <<>> /\ inq' = Tail(inq) /\ conn = "up" /\ Head(inq).t = "leave" /\ room' = "none"
      /\ UNCHANGED <<penv, cl, conn, connNo, access, log, snap, bcast, late, remote, asks>>
  BY DEF ServerLeave, ProviderInv, ServerInv
<1>2. inq' \in Seq(Requests)
  BY <1>1, TailTyped
<1>3. PICK f : Send(f) /\ f \in Frames /\ FrameOk(f, log)
  BY PlainFrame DEF ServerLeave, FrameTypes, Plain
<1>4. out' \in Seq(Frames) /\ gap' = FALSE /\ \A i \in DOMAIN out' : FrameOk(out'[i], log)
  BY <1>3, InvFacts, ExtendsItself, Sent
<1>5. ServerInv'
  BY <1>1, <1>2, <1>4 DEF ProviderInv, ServerInv
<1>6. ~Undisturbed
  BY <1>1, CalmRequest
<1>7. ClientOk(cl', log') /\ cl'.made <= MaxEdits
  BY <1>1, InvFacts
<1> QED BY <1>1, <1>5, <1>6, <1>7, Together

LEMMA ServerUpdateStep ==
    ASSUME ProviderInv, ServerUpdate
    PROVE  ProviderInv'
<1>1. /\ inq \in Seq(Requests) /\ inq # <<>> /\ inq' = Tail(inq) /\ conn = "up" /\ Head(inq).t = "update"
      /\ UNCHANGED <<penv, cl, conn, connNo, room, access, snap, late, remote, asks>>
  BY DEF ServerUpdate, ProviderInv, ServerInv
<1>2. inq' \in Seq(Requests) /\ Head(inq) \in Requests
  BY <1>1, TailTyped
<1>3. Head(inq).load \in Edits
  BY <1>2 DEF Requests
<1>4. ASSUME log' = Append(log, Head(inq).load)
      PROVE  log' \in Seq(Edits) /\ Extends(log, log') /\ ClientOk(cl', log')
  <2>1. log' \in Seq(Edits) /\ Extends(log, log')
    BY <1>3, <1>4, InvFacts, Appending
  <2> QED BY <1>1, <2>1, InvFacts, ClientOkLater
<1>5. cl'.made <= MaxEdits
  BY <1>1, InvFacts
<1>6. CASE /\ room = "write" /\ log' = Append(log, Head(inq).load)
           /\ bcast' = bcast \cup {[seq |-> Len(log) + 1, origin |-> connNo]} /\ UNCHANGED <<out, gap, faults>>
  <2>1. connNo \in Nat /\ remote' \in Nat /\ late' \subseteq Writes /\ cl' = cl
    BY <1>1 DEF ProviderInv, ServerInv
  <2> QED BY <1>1, <1>2, <1>3, <1>4, <1>5, <1>6, <2>1, ClientIdle, LoggedStep
<1>7. CASE /\ room # "write" \/ Fault("server") \/ Fault("unscoped")
           /\ Send(Frame("error", 0, {}, FALSE, FALSE)) /\ UNCHANGED <<log, bcast>>
  <2>1. PICK f : Send(f) /\ f \in Frames /\ FrameOk(f, log)
    BY <1>7, PlainFrame DEF FrameTypes, Plain
  <2>2. out' \in Seq(Frames) /\ gap' = FALSE /\ \A i \in DOMAIN out' : FrameOk(out'[i], log)
    BY <2>1, InvFacts, ExtendsItself, Sent
  <2>3. ServerInv'
    BY <1>1, <1>2, <1>7, <2>2 DEF ProviderInv, ServerInv
  <2>4. ~Undisturbed
    BY <1>1, <1>7, CalmRequest, NothingFails
  <2>5. ClientOk(cl', log')
    BY <1>1, <1>7, InvFacts
  <2> QED BY <1>1, <1>5, <2>3, <2>4, <2>5, Together
<1>8. CASE /\ Fault("server") /\ Send(Frame("error", 0, {}, FALSE, FALSE))
           /\ log' = Append(log, Head(inq).load) /\ UNCHANGED bcast
  <2> PICK L : L = log'
    OBVIOUS
  <2>1. L \in Seq(Edits) /\ Extends(log, L) /\ ClientOk(cl', L)
    BY <1>4, <1>8
  <2>2. PICK f : Send(f) /\ f \in Frames /\ FrameOk(f, L)
    BY <1>8, PlainFrame DEF FrameTypes, Plain
  <2>3. out' \in Seq(Frames) /\ gap' = FALSE /\ \A i \in DOMAIN out' : FrameOk(out'[i], L)
    BY <2>1, <2>2, InvFacts, Sent
  <2>4. snap.seq \in Nat /\ SnapshotOk(snap.seq, snap.content, log) /\ bcast \subseteq Relays /\ \A b \in bcast : b.seq \in 1..Len(log)
    BY DEF ProviderInv, ServerInv
  <2>5. SnapshotOk(snap.seq, snap.content, L) /\ \A b \in bcast : b.seq \in 1..Len(L)
    <3>1. \A b \in bcast : b.seq \in Nat
      BY <2>4
    <3> QED BY <2>1, <2>4, <3>1, InvFacts, OthersLater
  <2>6. ServerInv'
    BY <1>1, <1>2, <1>8, <2>1, <2>3, <2>5 DEF ProviderInv, ServerInv
  <2>7. ~Undisturbed
    BY <1>8, NothingFails
  <2> QED BY <1>1, <1>5, <2>1, <2>6, <2>7, Together
<1> QED BY <1>6, <1>7, <1>8 DEF ServerUpdate

LEMMA UnscopedErrorStep ==
    ASSUME ProviderInv, UnscopedError
    PROVE  ProviderInv'
<1>1. PICK f : Send(f) /\ f \in Frames /\ FrameOk(f, log)
  BY PlainFrame DEF UnscopedError, FrameTypes, Plain
<1>2. out' \in Seq(Frames) /\ gap' = FALSE /\ \A i \in DOMAIN out' : FrameOk(out'[i], log)
  BY <1>1, InvFacts, ExtendsItself, Sent
<1>3. ServerInv'
  BY <1>2 DEF UnscopedError, ProviderInv, ServerInv, logVars
<1>4. ~Undisturbed
  BY NothingFails DEF UnscopedError
<1>5. penv' = penv /\ ClientOk(cl', log') /\ cl'.made <= MaxEdits
  BY InvFacts DEF UnscopedError, logVars
<1> QED BY <1>3, <1>4, <1>5, Together

\* The frame of an update, and of a compaction request.
Relayed(L, q, own) == Frame("update", q, L[q], own, FALSE)
Compact(n) == Frame("compact", n, {}, FALSE, FALSE)

LEMMA UpdateFrame ==
    ASSUME NEW L \in Seq(Edits), NEW q \in 1..Len(L), NEW own \in BOOLEAN, NEW f, f = Relayed(L, q, own)
    PROVE  f \in Frames /\ FrameOk(f, L) /\ f.t = "update" /\ f.seq = q
<1>1. PICK no : no = FALSE
  OBVIOUS
<1>2. f = [t |-> "update", seq |-> q, load |-> L[q], own |-> own, w |-> no, gap |-> no]
  BY <1>1 DEF Frame, Relayed
<1>3. no \in BOOLEAN
  BY <1>1
<1>4. L[q] \in Edits /\ q \in Nat
  BY LogTyped DEF Edits
<1>5. f \in Frames
  BY <1>2, <1>3, <1>4 DEF Frames, FrameTypes
<1>6. f.t = "update" /\ f.seq = q /\ f.load = L[q]
  BY <1>2
<1> QED BY <1>5, <1>6 DEF FrameOk

LEMMA CompactFrame ==
    ASSUME NEW L \in Seq(Edits), NEW n, n = Len(L), NEW f, f = Compact(n)
    PROVE  f \in Frames /\ FrameOk(f, L) /\ f.t = "compact"
<1> DEFINE none == {}
           no == FALSE
<1>1. none \in Edits /\ no \in BOOLEAN /\ n \in Nat
  BY LogTyped DEF Edits
<1>2. f = [t |-> "compact", seq |-> n, load |-> none, own |-> no, w |-> no, gap |-> no]
  BY DEF Frame, Compact
<1> HIDE DEF none, no
<1>3. f \in Frames
  BY <1>1, <1>2 DEF Frames, FrameTypes
<1>4. f.t = "compact" /\ f.seq = n
  BY <1>2
<1> QED BY <1>1, <1>3, <1>4 DEF FrameOk

\* When nothing fails, a frame other than the answer to a join goes behind the others.
LEMMA CalmSend ==
    ASSUME ProviderInv, CalmNow, conn = "up", room = "write", NEW f \in Frames, FrameOk(f, log), Send(f),
           UNCHANGED <<cl, conn, inq, room, access, log>>,
           \/ f.t = "update" /\ asks' = asks
           \/ f.t = "compact" /\ asks = 0 /\ asks' = 1
    PROVE  CalmNow' /\ (Entering' <=> Entering)
<1>1. /\ gap' = FALSE /\ Len(out) \in Nat /\ DOMAIN out' = 1..(Len(out) + 1) /\ DOMAIN out = 1..Len(out)
      /\ \A i \in 1..Len(out) : out'[i] = out[i]
      /\ out'[Len(out) + 1].t = f.t /\ out'[Len(out) + 1].seq = f.seq /\ out'[Len(out) + 1].gap = gap
  BY InvFacts, ExtendsItself, Sent
<1> PICK n : n = Len(out) + 1
  OBVIOUS
<1>2. /\ DOMAIN out' = DOMAIN out \cup {n} /\ n \notin DOMAIN out
      /\ \A i \in DOMAIN out : out'[i] = out[i]
      /\ out'[n].t = f.t /\ out'[n].gap = gap
  BY <1>1
<1>3. FramesNow /\ PhaseNow /\ ~gap
  BY DEF CalmNow
<1>4. Entering' <=> Entering
  BY <1>2 DEF Entering
<1>5. PhaseNow'
  BY <1>3, <1>4 DEF PhaseNow
<1>6. FramesNow'
  <2>1. CASE f.t = "update" /\ asks' = asks
    BY <1>2, <1>3, <2>1 DEF FramesNow
  <2>2. CASE f.t = "compact" /\ asks = 0 /\ asks' = 1
    BY <1>2, <1>3, <2>2 DEF FramesNow
  <2> QED BY <2>1, <2>2
<1>7. asks' <= 1
  BY DEF CalmNow
<1> QED BY <1>1, <1>4, <1>5, <1>6, <1>7 DEF CalmNow

LEMMA FanoutStep ==
    ASSUME ProviderInv, NEW b \in bcast, Fanout(b)
    PROVE  ProviderInv'
<1>1. /\ b \in Relays /\ b.seq \in 1..Len(log) /\ bcast' = bcast \ {b}
      /\ UNCHANGED <<penv, cl, conn, connNo, inq, room, access, log, snap, late, remote, asks, faults>>
  BY DEF Fanout, ProviderInv, ServerInv
<1>2. ClientOk(cl', log') /\ cl'.made <= MaxEdits /\ penv' = penv
  BY <1>1, InvFacts
<1>3. CASE room # "none" /\ conn = "up"
  <2>1. PICK own : own = (b.origin = connNo)
    OBVIOUS
  <2>2. own \in BOOLEAN
    BY <2>1, Zenon
  <2>3. PICK f : f = Relayed(log, b.seq, own)
    OBVIOUS
  <2>4. f \in Frames /\ FrameOk(f, log) /\ f.t = "update" /\ f.seq = b.seq
    BY <1>1, <2>2, <2>3, InvFacts, UpdateFrame
  <2>5. Send(f)
    BY <1>3, <2>1, <2>3 DEF Fanout, Relayed
  <2>6. /\ out' \in Seq(Frames) /\ gap' = FALSE /\ \A i \in DOMAIN out' : FrameOk(out'[i], log)
        /\ Len(out) \in Nat /\ DOMAIN out' = 1..(Len(out) + 1) /\ DOMAIN out = 1..Len(out)
        /\ \A i \in 1..Len(out) : out'[i] = out[i]
        /\ out'[Len(out) + 1].t = "update" /\ out'[Len(out) + 1].seq = b.seq
    BY <2>4, <2>5, InvFacts, ExtendsItself, Sent
  <2>7. ServerInv'
    BY <1>1, <2>6 DEF ProviderInv, ServerInv
  <2>8. ASSUME Undisturbed PROVE CalmNow' /\ CoverNow'
    <3>1. CalmNow /\ CoverNow
      BY <2>8 DEF ProviderInv, CalmInv
    <3>2. room = "write"
      BY <1>3, <3>1 DEF CalmNow
    <3>3. CalmNow' /\ (Entering' <=> Entering)
      BY <1>1, <1>3, <2>4, <2>5, <3>1, <3>2, CalmSend
    <3>4. ASSUME NEW s, Coming(s) PROVE Coming(s)'
      <4>1. CASE s = b.seq
        <5>1. Len(out) + 1 \in DOMAIN out'
          BY <2>6
        <5> QED BY <2>6, <4>1, <5>1 DEF Coming
      <4>2. CASE \E y \in bcast : y.seq = s /\ s # b.seq
        BY <1>1, <4>2 DEF Coming
      <4>3. CASE \E i \in DOMAIN out : out[i].t = "update" /\ out[i].seq = s
        <5>1. \A i \in DOMAIN out : i \in DOMAIN out' /\ out'[i] = out[i]
          BY <2>6
        <5> QED BY <4>3, <5>1 DEF Coming
      <4> QED BY <3>4, <4>1, <4>2, <4>3 DEF Coming
    <3>5. CoverNow'
      BY <1>1, <3>1, <3>3, <3>4 DEF CoverNow
    <3> QED BY <3>3, <3>5
  <2> QED BY <1>2, <2>7, <2>8, Together
<1>4. CASE ~(room # "none" /\ conn = "up")
  <2>1. UNCHANGED <<out, gap>> /\ room = "none"
    BY <1>4 DEF Fanout, ProviderInv, ServerInv
  <2>2. ServerInv'
    BY <1>1, <2>1 DEF ProviderInv, ServerInv
  <2>3. ASSUME Undisturbed PROVE CalmNow' /\ CoverNow'
    <3>1. CalmNow
      BY <2>3 DEF ProviderInv, CalmInv
    <3>2. CalmNow'
      BY <1>1, <2>1, <3>1 DEF CalmNow, FramesNow, PhaseNow, Entering
    <3> QED BY <1>1, <2>1, <3>2 DEF CoverNow
  <2> QED BY <1>2, <2>2, <2>3, Together
<1> QED BY <1>3, <1>4

LEMMA FanoutFailsStep ==
    ASSUME ProviderInv, NEW b \in bcast, FanoutFails(b)
    PROVE  ProviderInv'
<1>1. ServerInv'
  BY DEF FanoutFails, ProviderInv, ServerInv
<1>2. ~Undisturbed
  BY NothingFails DEF FanoutFails
<1>3. ClientOk(cl', log') /\ cl'.made <= MaxEdits /\ penv' = penv
  BY InvFacts DEF FanoutFails
<1> QED BY <1>1, <1>2, <1>3, Together

LEMMA AskCompactionStep ==
    ASSUME ProviderInv, AskCompaction
    PROVE  ProviderInv'
<1>1. /\ UNCHANGED <<penv, cl, conn, connNo, inq, room, access, log, snap, bcast, late, remote, faults>>
      /\ asks \in Nat /\ asks' \in Nat /\ asks < MaxAsks /\ asks' = asks + 1 /\ conn = "up" /\ room # "none"
  BY DEF AskCompaction, ProviderInv, ServerInv
<1>2. ClientOk(cl', log') /\ cl'.made <= MaxEdits /\ penv' = penv
  BY <1>1, InvFacts
<1>3. PICK n, f : n = Len(log) /\ f = Compact(n)
  OBVIOUS
<1>4. f \in Frames /\ FrameOk(f, log) /\ f.t = "compact"
  BY <1>3, InvFacts, CompactFrame
<1>5. Send(f)
  BY <1>3 DEF AskCompaction, Compact
<1>6. /\ out' \in Seq(Frames) /\ gap' = FALSE /\ \A i \in DOMAIN out' : FrameOk(out'[i], log)
      /\ Len(out) \in Nat /\ DOMAIN out' = 1..(Len(out) + 1) /\ DOMAIN out = 1..Len(out)
      /\ \A i \in 1..Len(out) : out'[i] = out[i]
  BY <1>4, <1>5, InvFacts, ExtendsItself, Sent
<1>7. ServerInv'
  <2>1. UNCHANGED <<penv, conn, connNo, inq, room, access, log, snap, bcast, late, remote>> /\ asks' \in Nat
    BY <1>1
  <2> QED BY <1>6, <2>1 DEF ProviderInv, ServerInv
<1>8. ASSUME Undisturbed PROVE CalmNow' /\ CoverNow'
  <2>1. CalmNow /\ CoverNow
    BY <1>8 DEF ProviderInv, CalmInv
  <2>2. room = "write"
    BY <1>1, <2>1 DEF CalmNow
  <2>3. MaxAsks \in Nat /\ MaxAsks <= 1
    <3>1. penv \in ProviderEnvironments
      BY DEF ProviderInv, ServerInv
    <3> QED BY <1>8, <3>1, CollabProviderAssumption DEF MaxAsks, Undisturbed
  <2>4. asks = 0 /\ asks' = 1
    BY <1>1, <2>3
  <2>5. CalmNow' /\ (Entering' <=> Entering)
    BY <1>1, <1>4, <1>5, <2>1, <2>2, <2>4, CalmSend
  <2>6. \A i \in DOMAIN out : i \in DOMAIN out' /\ out'[i] = out[i]
    BY <1>6
  <2>7. \A s : Coming(s) => Coming(s)'
    BY <1>1, <2>6 DEF Coming
  <2> QED BY <1>1, <2>1, <2>5, <2>7 DEF CoverNow
<1> QED BY <1>2, <1>7, <1>8, Together

LEMMA ChangeAccessStep ==
    ASSUME ProviderInv, ChangeAccess
    PROVE  ProviderInv'
<1>1. ServerInv'
  BY DEF ChangeAccess, ProviderInv, ServerInv, socketVars
<1>2. ~Undisturbed
  BY NothingFails DEF ChangeAccess
<1>3. ClientOk(cl', log') /\ cl'.made <= MaxEdits /\ penv' = penv
  BY InvFacts DEF ChangeAccess
<1> QED BY <1>1, <1>2, <1>3, Together

LEMMA RecheckStep ==
    ASSUME ProviderInv, Recheck
    PROVE  ProviderInv'
<1>1. /\ room # "none" /\ room # access /\ room' = access /\ conn = "up"
      /\ UNCHANGED <<penv, cl, conn, connNo, inq, access, log, snap, bcast, late, remote, asks, faults>>
  BY DEF Recheck, ProviderInv, ServerInv
<1>2. ClientOk(cl', log') /\ cl'.made <= MaxEdits /\ penv' = penv
  BY <1>1, InvFacts
<1>3. ~Undisturbed
  BY <1>1 DEF ProviderInv, CalmInv, CalmNow
<1>4. out' \in Seq(Frames) /\ gap' \in BOOLEAN /\ \A i \in DOMAIN out' : FrameOk(out'[i], log)
  <2>1. CASE access = "none"
    <3>1. PICK f : Send(f) /\ f \in Frames /\ FrameOk(f, log)
      BY <2>1, PlainFrame DEF Recheck, FrameTypes, Plain
    <3> QED BY <3>1, InvFacts, ExtendsItself, Sent
  <2>2. CASE access # "none"
    BY <2>2 DEF Recheck, ProviderInv, ServerInv
  <2> QED BY <2>1, <2>2
<1>5. ServerInv'
  BY <1>1, <1>4 DEF ProviderInv, ServerInv
<1> QED BY <1>2, <1>3, <1>5, Together

-----------------------------------------------------------------------------
(* Steps of the socket and of the user.                                    *)

LEMMA SeverStep ==
    ASSUME ProviderInv, Sever
    PROVE  ProviderInv'
<1>1. /\ conn' = "closing" /\ room' = "none" /\ out' = <<>> /\ inq' = <<>> /\ gap' = FALSE
      /\ UNCHANGED <<penv, cl, connNo, access, log, snap, bcast, remote, asks, faults>>
  BY DEF Sever
<1>2. late' \subseteq Writes
  <2>1. inq \in Seq(Requests) /\ connNo \in Nat /\ late \subseteq Writes
    BY DEF ProviderInv, ServerInv
  <2>2. Range(inq) \subseteq Requests
    BY <2>1 DEF Range
  <2>3. \A f \in Requests : [load |-> f.load, origin |-> connNo] \in Writes
    BY <2>1 DEF Requests, Writes
  <2> QED BY <2>1, <2>2, <2>3 DEF Sever
<1>3. out' \in Seq(Frames) /\ inq' \in Seq(Requests) /\ DOMAIN out' = {} /\ DOMAIN inq' = {}
  BY <1>1
<1>4. ServerInv'
  BY <1>1, <1>2, <1>3 DEF ProviderInv, ServerInv
<1>5. ASSUME Undisturbed PROVE CalmNow' /\ CoverNow'
  <2>1. CalmNow
    BY <1>5 DEF ProviderInv, CalmInv
  <2>2. FramesNow'
    BY <1>1, <1>3, <2>1 DEF CalmNow, FramesNow
  <2>3. PhaseNow'
    BY <1>1, <1>3 DEF PhaseNow, Entering
  <2> QED BY <1>1, <2>1, <2>2, <2>3 DEF CalmNow, CoverNow
<1>6. ClientOk(cl', log') /\ cl'.made <= MaxEdits
  BY <1>1, InvFacts
<1> QED BY <1>1, <1>4, <1>5, <1>6, Together

\* What is left of the provider by a closed socket.
Unplugged(c) == Ended(distrustSocket(c), "connecting")

LEMMA UnpluggedOk ==
    ASSUME NEW L \in Seq(Edits), NEW c, ClientOk(c, L), NEW d, d = Unplugged(c)
    PROVE  /\ ClientOk(d, L) /\ Keeps(c, d) /\ Waiting(d)
           /\ d = [distrustSocket(fence(c)) EXCEPT !.status = "connecting"]
<1>1. PICK e : e = distrustSocket(c)
  OBVIOUS
<1>2. ClientOk(e, L) /\ Keeps(c, e) /\ e.sends = {}
  BY <1>1, DistrustKeeps
<1>3. PICK v : v = "connecting"
  OBVIOUS
<1>4. v \in Statuses /\ ~Resting(v) /\ d = Ended(e, v)
  BY <1>1, <1>3 DEF Statuses, Resting, Unplugged
<1>5. ClientOk(d, L) /\ Keeps(e, d)
  BY <1>2, <1>3, <1>4, EndedKeeps
<1>6. c \in Clients /\ e \in Clients /\ d \in Clients
  BY <1>2, <1>5 DEF ClientOk
<1>7. d.status = "connecting" /\ d.rec = NoRec /\ d.sends = e.sends
  BY <1>3, <1>4, <1>6 DEF Ended, Clients
<1>8. Waiting(d)
  BY <1>2, <1>7, NoRecTyped DEF Waiting
<1>9. d = [distrustSocket(fence(c)) EXCEPT !.status = "connecting"]
  BY <1>1, <1>3, <1>4, <1>6 DEF Ended, distrustSocket, clearSocketSends, fence, Clients
<1> QED BY <1>2, <1>5, <1>6, <1>8, <1>9, KeepsTransitive

LEMMA OnCloseStep ==
    ASSUME ProviderInv, OnClose
    PROVE  ProviderInv'
<1>1. /\ conn = "closing" /\ conn' = "down"
      /\ UNCHANGED <<penv, connNo, out, inq, gap, room, access, log, snap, bcast, remote, asks, faults>>
      /\ room = "none"
  BY DEF OnClose, ProviderInv, ServerInv
<1>2. PICK d : d = Unplugged(cl)
  OBVIOUS
<1>3. /\ ClientOk(d, log) /\ Keeps(cl, d) /\ Waiting(d)
      /\ d = [distrustSocket(fence(cl)) EXCEPT !.status = "connecting"]
  BY <1>2, InvFacts, UnpluggedOk
<1>4. cl' = IF Revoked(cl) THEN cl ELSE d
  BY <1>3 DEF OnClose
<1>5. ClientOk(cl', log') /\ cl'.made <= MaxEdits
  BY <1>1, <1>3, <1>4, InvFacts DEF Keeps
<1>6. late' \subseteq Writes
  BY AbandonedTyped DEF OnClose
<1>7. ServerInv'
  BY <1>1, <1>6 DEF ProviderInv, ServerInv
<1>8. ASSUME Undisturbed PROVE CalmNow' /\ CoverNow'
  <2>1. CalmNow /\ Steady(cl)
    BY <1>8 DEF ProviderInv, CalmInv, CalmNow
  <2>2. cl' = d /\ Steady(d) /\ (Asked(d) => Asked(cl))
    BY <1>3, <1>4, <2>1 DEF Steady, Revoked, Keeps
  <2>3. FramesNow'
    BY <1>1, <2>1, <2>2 DEF CalmNow, FramesNow
  <2>4. PhaseNow'
    BY <1>1, <1>3, <2>1, <2>2 DEF CalmNow, PhaseNow, Entering
  <2> QED BY <1>1, <2>1, <2>2, <2>3, <2>4 DEF CalmNow, CoverNow
<1> QED BY <1>1, <1>5, <1>7, <1>8, Together

LEMMA OnOpenStep ==
    ASSUME ProviderInv, OnOpen
    PROVE  ProviderInv'
<1>1. /\ conn = "down" /\ conn' = "up" /\ connNo' = connNo + 1 /\ room = "none"
      /\ UNCHANGED <<penv, out, gap, room, access, log, snap, bcast, late, remote, asks, faults>>
  BY DEF OnOpen, ProviderInv, ServerInv, logVars
<1>2. inq' \in Seq(Requests) /\ (cl.desired => Len(inq') = 1 /\ inq'[1].t = "join")
  <2>1. PICK none : none = {}
    OBVIOUS
  <2>2. none \in Edits
    BY <2>1 DEF Edits
  <2>3. PICK r : r = [t |-> "join", load |-> none]
    OBVIOUS
  <2>4. r \in Requests /\ r.t = "join"
    BY <2>2, <2>3 DEF Requests
  <2>5. inq' = IF cl.desired THEN <<r>> ELSE <<>>
    BY <2>1, <2>3 DEF OnOpen
  <2> QED BY <2>4, <2>5
<1>3. PICK v : v = IF cl.desired /\ ~Revoked(cl) THEN "connecting" ELSE cl.status
  OBVIOUS
<1>4. PICK e : e = [cl EXCEPT !.joined = FALSE]
  OBVIOUS
<1>5. PICK d : d = [e EXCEPT !.status = v]
  OBVIOUS
<1>6. cl' = d
  BY <1>3, <1>4, <1>5, InvFacts DEF OnOpen, Clients
<1>7. cl.status \in Statuses /\ v \in Statuses /\ e \in Clients
  BY <1>3, <1>4, InvFacts DEF Clients, Statuses
<1>8. d \in Clients
  BY <1>5, <1>7 DEF Clients
<1>9. /\ e.canWrite = cl.canWrite /\ e.wm = cl.wm /\ e.ahead = cl.ahead /\ e.doc = cl.doc
      /\ e.pending = cl.pending /\ e.made = cl.made /\ e.sends = cl.sends /\ e.cycle = cl.cycle
      /\ e.needs = cl.needs /\ e.rec = cl.rec /\ e.compHead = cl.compHead /\ e.comp = cl.comp
      /\ e.desired = cl.desired
  BY <1>4, InvFacts DEF Clients
<1>10. /\ d.canWrite = e.canWrite /\ d.wm = e.wm /\ d.ahead = e.ahead /\ d.doc = e.doc
       /\ d.pending = e.pending /\ d.made = e.made /\ d.sends = e.sends /\ d.cycle = e.cycle
       /\ d.needs = e.needs /\ d.rec = e.rec /\ d.compHead = e.compHead /\ d.comp = e.comp
       /\ d.desired = e.desired /\ d.status = v
  BY <1>5, <1>7 DEF Clients
<1>11. ClientOk(d, log)
  BY <1>3, <1>8, <1>9, <1>10, InvFacts DEF ClientOk, ReplicaOk, EditsOk, Trusted
<1>12. connNo' \in Nat
  BY <1>1 DEF ProviderInv, ServerInv
<1>13. ServerInv'
  BY <1>1, <1>2, <1>12 DEF ProviderInv, ServerInv
<1>14. ASSUME Undisturbed PROVE CalmNow' /\ CoverNow'
  <2>1. CalmNow /\ Steady(cl)
    BY <1>14 DEF ProviderInv, CalmInv, CalmNow
  <2>2. v = "connecting" /\ cl.desired
    BY <1>3, <2>1 DEF Steady, Revoked
  <2>3. Steady(cl') /\ (Asked(cl') => Asked(cl)) /\ (Waiting(cl) => Waiting(cl'))
    BY <1>6, <1>9, <1>10, <2>1, <2>2 DEF Steady, Asked, Waiting
  <2>4. FramesNow'
    BY <1>1, <2>1, <2>3 DEF CalmNow, FramesNow
  <2>5. PhaseNow'
    BY <1>1, <1>2, <2>1, <2>2, <2>3 DEF CalmNow, PhaseNow, Entering
  <2> QED BY <1>1, <2>1, <2>3, <2>4, <2>5 DEF CalmNow, CoverNow
<1>15. ClientOk(cl', log') /\ cl'.made <= MaxEdits
  BY <1>1, <1>6, <1>9, <1>10, <1>11, InvFacts
<1> QED BY <1>1, <1>13, <1>14, <1>15, Together

LEMMA RetryStep ==
    ASSUME ProviderInv, Retry
    PROVE  ProviderInv'
<1>1. PICK c : c = [cl EXCEPT !.status = "connecting"]
  OBVIOUS
<1>2. ClientOk(c, log) /\ Keeps(cl, c)
  BY <1>1, InvFacts, StatusSet
<1>3. PICK d : d = [c EXCEPT !.desired = TRUE]
  OBVIOUS
<1>4. ClientOk(d, log) /\ d.made = c.made
  <2>1. c \in Clients
    BY <1>2 DEF ClientOk
  <2>2. d \in Clients
    BY <1>3, <2>1 DEF Clients
  <2>3. /\ d.status = c.status /\ d.wm = c.wm /\ d.ahead = c.ahead /\ d.doc = c.doc
        /\ d.pending = c.pending /\ d.made = c.made /\ d.sends = c.sends /\ d.cycle = c.cycle
        /\ d.needs = c.needs /\ d.rec = c.rec /\ d.compHead = c.compHead /\ d.comp = c.comp
    BY <1>3, <2>1 DEF Clients
  <2> QED BY <1>2, <2>2, <2>3 DEF ClientOk, ReplicaOk, EditsOk, Trusted
<1>5. PICK e : e = startCatchUp(c)
  OBVIOUS
<1>6. ClientOk(e, log) /\ e.made = c.made
  BY <1>2, <1>5, InvFacts, StartCatchUpKeeps DEF Keeps
<1>7. cl' \in {d, e}
  BY <1>1, <1>3, <1>5 DEF Retry
<1>8. UNCHANGED <<penv, conn, connNo, out, gap, room, access, log, snap, bcast, late, remote, asks, faults>>
  BY DEF Retry, logVars
<1>9. ClientOk(cl', log') /\ cl'.made <= MaxEdits
  BY <1>2, <1>4, <1>6, <1>7, <1>8, InvFacts DEF Keeps
<1>10. inq' \in Seq(Requests)
  <2>1. PICK none : none = {}
    OBVIOUS
  <2>2. none \in Edits
    BY <2>1 DEF Edits
  <2>3. [t |-> "join", load |-> none] \in Requests
    BY <2>2 DEF Requests
  <2>4. inq \in Seq(Requests)
    BY DEF ProviderInv, ServerInv
  <2>5. inq' = inq \/ inq' = Append(inq, [t |-> "join", load |-> none])
    BY <2>1 DEF Retry
  <2> QED BY <2>3, <2>4, <2>5
<1>11. ServerInv'
  BY <1>8, <1>10 DEF ProviderInv, ServerInv
<1>12. ~Undisturbed
  BY DEF Retry, ProviderInv, CalmInv, CalmNow, Steady
<1> QED BY <1>8, <1>9, <1>11, <1>12, Together

LEMMA EditStep ==
    ASSUME ProviderInv, NEW big \in BOOLEAN, Edit(big)
    PROVE  ProviderInv'
<1>1. PICK sent : sent = (conn = "up")
  OBVIOUS
<1>2. sent \in BOOLEAN /\ (sent <=> conn = "up")
  BY <1>1, Zenon
<1>3. PICK d : d = publish(cl, big, sent)
  OBVIOUS
<1>4. cl' = d /\ ~Revoked(cl)
  BY <1>1, <1>3 DEF Edit
<1>5. /\ ClientOk(d, log) /\ Edited(cl, d) /\ KeepsRecovery(cl, d)
      /\ cl.status = "connecting" => d.status = "connecting" /\ d.rec = cl.rec /\ d.sends = cl.sends
      /\ ~sent => d.sends \subseteq cl.sends
  BY <1>2, <1>3, <1>4, InvFacts, PublishOk
<1>6. UNCHANGED <<penv, conn, connNo, out, gap, room, access, log, snap, bcast, late, remote, asks, faults>>
  BY DEF Edit, logVars
<1>7. ClientOk(cl', log') /\ cl'.made <= MaxEdits
  <2>1. cl.made < MaxEdits /\ cl'.made = cl.made + 1
    BY <1>4, <1>5 DEF Edit, Edited
  <2> QED BY <1>4, <1>5, <1>6, <2>1, InvFacts
<1>8. PICK r : r = [t |-> "update", load |-> {cl'.made}]
  OBVIOUS
<1>9. r \in Requests /\ r.t = "update"
  <2>1. cl'.made \in Nat
    BY <1>4, <1>5, InvFacts DEF Edited
  <2>2. PICK x : x = {cl'.made}
    OBVIOUS
  <2>3. x \in Edits /\ r = [t |-> "update", load |-> x]
    BY <1>8, <2>1, <2>2 DEF Edits
  <2> QED BY <2>3 DEF Requests
<1>10. inq \in Seq(Requests) /\ inq' = IF cl'.made \in cl'.sends THEN Append(inq, r) ELSE inq
  BY <1>8 DEF Edit, ProviderInv, ServerInv
<1>11. inq' \in Seq(Requests)
  BY <1>9, <1>10
<1>12. ServerInv'
  BY <1>6, <1>11 DEF ProviderInv, ServerInv
<1>13. d.sends \subseteq cl.sends => inq' = inq
  <2>1. cl.sends \subseteq 1..cl.made
    BY InvFacts DEF ClientOk, EditsOk
  <2>2. cl'.made \notin cl.sends
    BY <1>4, <1>5, <2>1, InvFacts DEF Edited
  <2> QED BY <1>4, <1>10, <2>2
<1>14. ASSUME Undisturbed PROVE CalmNow' /\ CoverNow'
  <2>1. CalmNow /\ CoverNow /\ Steady(cl)
    BY <1>14 DEF ProviderInv, CalmInv, CalmNow
  <2>2. Steady(cl') /\ (Asked(cl') => Asked(cl)) /\ (Waiting(cl) => Waiting(cl'))
    BY <1>4, <1>5, <2>1 DEF Edited, Waiting
  <2>3. FramesNow'
    BY <1>6, <2>1, <2>2 DEF CalmNow, FramesNow
  <2>4. Entering' = Entering
    BY <1>6 DEF Entering
  <2>5. conn # "up" => inq' = inq
    BY <1>2, <1>5, <1>13
  <2>6. conn = "up" /\ room = "none" => inq' = inq
    BY <1>5, <1>13, <2>1 DEF CalmNow, PhaseNow, Waiting
  <2>7. room = "write" => \A i \in DOMAIN inq' : inq'[i].t = "update"
    <3>1. \A i \in DOMAIN inq' : (i \in DOMAIN inq /\ inq'[i] = inq[i]) \/ inq'[i] = r
      BY <1>9, <1>10
    <3> QED BY <1>9, <2>1, <3>1 DEF CalmNow, PhaseNow
  <2>8. PhaseNow'
    BY <1>6, <2>1, <2>2, <2>4, <2>5, <2>6, <2>7 DEF CalmNow, PhaseNow
  <2>9. \A s \in 1..Len(log) : s \in Nat /\ (Coming(s)' = Coming(s))
    BY <1>6 DEF Coming
  <2>10. CoverNow'
    BY <1>4, <1>5, <1>6, <2>1, <2>4, <2>9 DEF CoverNow, Edited, KeepsRecovery
  <2> QED BY <1>6, <2>1, <2>2, <2>3, <2>8, <2>10 DEF CalmNow
<1> QED BY <1>6, <1>7, <1>12, <1>14, Together

LEMMA DeliverStep ==
    ASSUME ProviderInv, Deliver
    PROVE  ProviderInv'
<1>1. /\ out \in Seq(Frames) /\ out # <<>> /\ conn = "up" /\ out' = Tail(out) /\ cl' = onmessage(cl, Head(out))
      /\ UNCHANGED <<penv, conn, connNo, gap, room, access, log, snap, bcast, remote, asks, faults>>
      /\ \A i \in DOMAIN out : FrameOk(out[i], log)
  BY DEF Deliver, ProviderInv, ServerInv
<1>2. PICK f : f = Head(out)
  OBVIOUS
<1>3. /\ out' \in Seq(Frames) /\ f \in Frames /\ f = out[1] /\ 1 \in DOMAIN out
      /\ Len(out) \in Nat /\ DOMAIN out = 1..Len(out) /\ DOMAIN out' = 1..(Len(out) - 1)
      /\ \A i \in 1..(Len(out) - 1) : out'[i] = out[i + 1]
  BY <1>1, <1>2, TailTyped
<1>4. /\ \A i \in DOMAIN out' : i + 1 \in DOMAIN out /\ i + 1 # 1 /\ out'[i] = out[i + 1]
      /\ \A i \in DOMAIN out : i = 1 \/ (i - 1 \in DOMAIN out' /\ out'[i - 1] = out[i])
  BY <1>3
<1>5. ClientOk(cl', log) /\ cl'.made = cl.made
  BY <1>1, <1>2, <1>3, InvFacts, OnMessageOk
<1>6. ClientOk(cl', log') /\ cl'.made <= MaxEdits
  BY <1>1, <1>5, InvFacts
<1>7. late' \subseteq Writes
  BY AbandonedTyped DEF Deliver
<1>8. inq' \in Seq(Requests) /\ (f.t # "rejected" => inq' = inq)
  <2>1. PICK none : none = {}
    OBVIOUS
  <2>2. none \in Edits
    BY <2>1 DEF Edits
  <2>3. [t |-> "leave", load |-> none] \in Requests
    BY <2>2 DEF Requests
  <2>4. inq \in Seq(Requests)
    BY DEF ProviderInv, ServerInv
  <2>5. inq' = inq \/ (f.t = "rejected" /\ inq' = Append(inq, [t |-> "leave", load |-> none]))
    BY <1>2, <2>1 DEF Deliver
  <2> QED BY <2>3, <2>4, <2>5
<1>9. ServerInv'
  BY <1>1, <1>3, <1>4, <1>7, <1>8 DEF ProviderInv, ServerInv
<1>10. ASSUME Undisturbed PROVE CalmNow' /\ CoverNow'
  <2>1. CalmNow /\ CoverNow /\ Steady(cl) /\ FramesNow /\ PhaseNow
    BY <1>10 DEF ProviderInv, CalmInv, CalmNow
  <2>2. f.t \in {"joined", "update", "compact"} /\ ~f.gap /\ (f.t = "compact" => ~Asked(cl)) /\ FrameOk(f, log)
    BY <1>1, <1>3, <2>1 DEF FramesNow
  <2>3. /\ Steady(cl') /\ KeepsSeen(cl, cl') /\ KeepsRecovery(cl, cl')
        /\ f.t = "update" => Seen(cl', f.seq)
        /\ f.t # "compact" /\ Asked(cl') => Asked(cl)
        /\ f.t = "joined" /\ cl.rec.at = "idle" => cl'.rec.at = "get"
    <3>1. PICK d : d = onmessage(cl, f)
      OBVIOUS
    <3>2. /\ Steady(d) /\ KeepsSeen(cl, d) /\ KeepsRecovery(cl, d)
          /\ f.t = "update" => Seen(d, f.seq)
          /\ f.t # "compact" /\ Asked(d) => Asked(cl)
          /\ f.t = "joined" /\ cl.rec.at = "idle" => d.rec.at = "get"
      BY <1>3, <2>1, <2>2, <3>1, InvFacts, OnMessageSteady
    <3>3. cl' = d
      BY <1>1, <1>2, <3>1
    <3> QED BY <3>2, <3>3
  <2>4. inq' = inq /\ room = "write"
    BY <1>1, <1>8, <2>1, <2>2 DEF CalmNow, PhaseNow
  <2>5. ~Entering'
    BY <1>4, <2>1 DEF Entering, FramesNow
  <2>6. FramesNow'
    <3>1. /\ \A i \in DOMAIN out' : out'[i].t \in {"joined", "update", "compact"} /\ ~out'[i].gap
          /\ \A i \in DOMAIN out' : out'[i].t = "joined" => i = 1
      BY <1>4, <2>1 DEF FramesNow
    <3>2. \A i, j \in DOMAIN out' : out'[i].t = "compact" /\ out'[j].t = "compact" => i = j
      <4> SUFFICES ASSUME NEW i \in DOMAIN out', NEW j \in DOMAIN out', out'[i].t = "compact", out'[j].t = "compact"
                   PROVE  i = j
        OBVIOUS
      <4>1. i + 1 = j + 1
        BY <1>4, <2>1 DEF FramesNow
      <4> QED BY <1>3, <4>1
    <3>3. asks = 0 => \A i \in DOMAIN out' : out'[i].t # "compact"
      BY <1>4, <2>1 DEF FramesNow
    <3>4. f.t = "compact" => asks # 0 /\ \A i \in DOMAIN out' : out'[i].t # "compact"
      BY <1>3, <1>4, <2>1 DEF FramesNow
    <3>5. asks = 0 \/ (\E i \in DOMAIN out' : out'[i].t = "compact") => ~Asked(cl')
      BY <1>4, <2>1, <2>3, <3>4 DEF FramesNow
    <3> QED BY <1>1, <3>1, <3>2, <3>3, <3>5 DEF FramesNow
  <2>7. PhaseNow'
    BY <1>1, <2>1, <2>4, <2>5 DEF PhaseNow
  <2>8. CalmNow'
    BY <1>1, <2>1, <2>3, <2>6, <2>7 DEF CalmNow
  <2>9. ASSUME NEW s \in 1..Len(log) PROVE Seen(cl', s) \/ Awaited(cl'.rec, s) \/ Coming(s)'
    <3>1. CASE f.t = "joined"
      <4>1. cl'.rec.at = "get"
        BY <1>3, <2>1, <2>3, <3>1 DEF PhaseNow, Entering, Waiting
      <4> QED BY <4>1 DEF Awaited
    <3>2. CASE f.t # "joined"
      <4>1. ~Entering
        BY <1>3, <2>1, <3>2 DEF Entering, FramesNow
      <4>2. Seen(cl, s) \/ Awaited(cl.rec, s) \/ Coming(s)
        BY <2>1, <2>4, <4>1 DEF CoverNow
      <4>3. s \in Nat
        BY InvFacts
      <4>4. CASE Seen(cl, s) \/ Awaited(cl.rec, s)
        BY <2>3, <4>3, <4>4 DEF KeepsSeen, KeepsRecovery
      <4>5. CASE \E b \in bcast : b.seq = s
        BY <1>1, <4>5 DEF Coming
      <4>6. CASE \E i \in DOMAIN out : out[i].t = "update" /\ out[i].seq = s
        <5>1. PICK i \in DOMAIN out : out[i].t = "update" /\ out[i].seq = s
          BY <4>6
        <5>2. CASE i = 1
          BY <1>3, <2>3, <5>1, <5>2
        <5>3. CASE i # 1
          BY <1>4, <5>1, <5>3 DEF Coming
        <5> QED BY <5>2, <5>3
      <4> QED BY <4>2, <4>4, <4>5, <4>6 DEF Coming
    <3> QED BY <3>1, <3>2
  <2>10. CoverNow'
    BY <1>1, <2>9 DEF CoverNow
  <2> QED BY <2>8, <2>10
<1> QED BY <1>1, <1>6, <1>9, <1>10, Together

-----------------------------------------------------------------------------
(* The invariant holds at the start, is kept, and implies the properties.  *)

LEMMA ProviderStarts ==
    ASSUME ProviderInit
    PROVE  ProviderInv
<1> DEFINE none == {}
           no == FALSE
           low == -1
<1>1. none \in Edits /\ no \in BOOLEAN /\ low \in Int /\ Len(log) = 0 /\ log \in Seq(Edits)
  BY DEF Edits, ProviderInit
<1>2. NoComp \in Compactions /\ NoComp.at = "idle"
  BY DEF NoComp, Compactions, Edits
<1>3. cl = [status |-> "connecting", canWrite |-> no, wm |-> 0, ahead |-> none,
     doc |-> none, pending |-> none, made |-> 0, sends |-> none, cycle |-> 0,
     needs |-> no, rec |-> NoRec, compHead |-> 0, compWm |-> low,
     comp |-> NoComp, desired |-> TRUE, joined |-> no]
  BY DEF ProviderInit, NewClient
<1>4. /\ none = {} /\ no = FALSE
  OBVIOUS
<1> HIDE DEF none, no, low
<1>5. cl \in Clients
  <2>1. none \in SUBSET Nat /\ TRUE \in BOOLEAN
    BY <1>1 DEF Edits
  <2> QED BY <1>1, <1>2, <1>3, <2>1, NoRecTyped DEF Clients, Statuses
<1>6. /\ cl.status = "connecting" /\ cl.wm = 0 /\ cl.ahead = none /\ cl.doc = none /\ cl.pending = none /\ cl.made = 0
      /\ cl.sends = none /\ cl.cycle = 0 /\ cl.rec = NoRec /\ cl.compHead = 0 /\ cl.comp = NoComp /\ cl.desired
  BY <1>3
<1>7. ReplicaOk(cl, log) /\ EditsOk(cl, log)
  BY <1>1, <1>4, <1>6 DEF ReplicaOk, EditsOk, Trusted
<1>8. RecoveryOk(cl.rec, cl.wm, cl.doc, log) /\ CompactionOk(cl.comp, log)
  BY <1>1, <1>2, <1>6, NoRecTyped DEF RecoveryOk, CompactionOk
<1>9. ClientOk(cl, log)
  BY <1>5, <1>7, <1>8 DEF ClientOk
<1>10. ReplicaInv
  <2>1. MaxEdits \in Nat
    BY CollabProviderAssumption DEF ProviderInit, MaxEdits
  <2> QED BY <1>6, <1>9, <2>1 DEF ReplicaInv
<1>11. snap = [seq |-> 0, content |-> none]
  BY <1>4 DEF ProviderInit
<1>12. snap \in [seq : Nat, content : Edits] /\ SnapshotOk(snap.seq, snap.content, log)
  BY <1>1, <1>11 DEF SnapshotOk
<1>13. out \in Seq(Frames) /\ inq \in Seq(Requests) /\ DOMAIN out = {} /\ DOMAIN inq = {} /\ out = <<>> /\ inq = <<>>
  BY DEF ProviderInit
<1>14. ServerInv
  BY <1>1, <1>12, <1>13 DEF ProviderInit, ServerInv
<1>15. CalmNow
  <2>1. Steady(cl) /\ ~Asked(cl) /\ Waiting(cl)
    BY <1>2, <1>4, <1>6, NoRecTyped DEF Steady, Asked, Waiting
  <2>2. FramesNow /\ PhaseNow
    BY <1>13, <2>1 DEF FramesNow, PhaseNow, ProviderInit
  <2> QED BY <2>1, <2>2 DEF CalmNow, ProviderInit
<1>16. CoverNow
  BY DEF CoverNow, ProviderInit
<1> QED BY <1>10, <1>14, <1>15, <1>16 DEF ProviderInv, CalmInv

LEMMA ProviderRests ==
    ASSUME ProviderInv, UNCHANGED pvars
    PROVE  ProviderInv'
<1>1. UNCHANGED <<penv, cl, conn, connNo, out, inq, gap, room, access, log, snap, bcast, late, remote, asks>>
  BY DEF pvars
<1>2. late' \subseteq Writes /\ snap' \in [seq : Nat, content : Edits] /\ SnapshotOk(snap'.seq, snap'.content, log)
      /\ ClientOk(cl', log) /\ cl'.made <= MaxEdits
  BY <1>1, InvFacts
<1> QED BY <1>1, <1>2, ClientIdle, ClientStep

LEMMA ProviderSteps ==
    ASSUME ProviderInv, [ProviderNext]_pvars
    PROVE  ProviderInv'
  BY EditStep, DeliverStep, AckTimeoutStep, StateAppliedStep, AppendAckedStep, HttpRefusedStep, HttpLostStep,
     CompactionAnsweredStep, CompactionLostStep, RetryStep, SeverStep, OnCloseStep, OnOpenStep, ServerJoinStep,
     ServerLeaveStep, ServerUpdateStep, UnscopedErrorStep, FanoutStep, FanoutFailsStep, RemoteAppendStep,
     LateAppendStep, StateServedStep, AppendServedStep, AskCompactionStep, SnapshotServedStep, ChangeAccessStep,
     RecheckStep, ProviderRests DEF ProviderNext

\* A provider at rest in its room misses nothing: no update is on its way, so that each is
\* applied, and the first one above the watermark cannot be held ahead of it.
LEMMA NothingMissed ==
    ASSUME ProviderInv, Undisturbed, Quiescent
    PROVE  cl.wm = Len(log)
<1>1. CalmNow /\ CoverNow /\ room = "write"
  BY DEF ProviderInv, CalmInv, CalmNow, Quiescent
<1>2. DOMAIN out = {} /\ bcast = {} /\ cl.rec.at = "idle"
  BY DEF Quiescent, RecoveryInFlight
<1>3. \A s \in 1..Len(log) : Seen(cl, s)
  BY <1>1, <1>2 DEF CoverNow, Entering, Awaited, Coming
<1>4. cl.wm \in Nat /\ cl.wm <= Len(log) /\ cl.ahead \subseteq (cl.wm + 2)..Len(log) /\ Len(log) \in Nat
  BY InvFacts DEF ClientOk, Clients, ReplicaOk
<1>5. ASSUME cl.wm # Len(log) PROVE FALSE
  <2>1. cl.wm + 1 \in 1..Len(log)
    BY <1>4, <1>5
  <2>2. Seen(cl, cl.wm + 1)
    BY <1>3, <2>1
  <2> QED BY <1>4, <2>2 DEF Seen
<1> QED BY <1>5

LEMMA InvImpliesReplicaSound ==
    ASSUME ProviderInv
    PROVE  ReplicaSound
<1>1. /\ cl \in Clients /\ cl.made \in Nat /\ cl.made <= MaxEdits /\ Len(log) \in Nat /\ ReplicaOk(cl, log) /\ EditsOk(cl, log)
      /\ cl.rec \in Recoveries /\ cl.comp \in Compactions /\ MaxEdits \in Nat
  BY InvFacts DEF ClientOk, Clients
<1>2. cl.wm \in Nat /\ cl.cycle \in Nat /\ cl.compHead \in Nat
  BY <1>1 DEF Clients
<1>3. cl.status \in Statuses /\ cl.canWrite \in BOOLEAN /\ cl.needs \in BOOLEAN /\ cl.desired \in BOOLEAN /\ cl.joined \in BOOLEAN
  BY <1>1 DEF Clients
<1>4. cl.rec.at \in {"idle", "get", "got", "post", "posted"} /\ cl.comp.at \in {"idle", "sent", "done"}
  BY <1>1 DEF Recoveries, Compactions
<1>5. {cl.canWrite, cl.needs, cl.desired, cl.joined} \subseteq BOOLEAN
  BY <1>3, Zenon
<1>6. /\ cl.wm \in 0..Len(log) /\ cl.ahead \subseteq (cl.wm + 2)..Len(log) /\ cl.made \in 0..MaxEdits
      /\ cl.compHead \in 0..Len(log)
  BY <1>1, <1>2 DEF ReplicaOk
<1>7. cl.pending \subseteq 1..cl.made /\ cl.sends \subseteq cl.pending /\ cl.cycle \in 0..cl.made
  BY <1>1, <1>2 DEF EditsOk
<1>8. ProviderTypeOK
  BY <1>3, <1>4, <1>5, <1>6, <1>7 DEF ProviderTypeOK, Statuses, ProviderInv, ServerInv
<1>9. AppliedBelowWatermark
  BY <1>1 DEF AppliedBelowWatermark, ReplicaOk
<1>10. SnapshotCoversItsPrefix
  BY InvFacts DEF SnapshotCoversItsPrefix, SnapshotOk
<1>11. CurrentAfterRejoin
  BY NothingMissed DEF CurrentAfterRejoin, SyncedIsCurrent, Undisturbed
<1> QED BY <1>8, <1>9, <1>10, <1>11 DEF ReplicaSound

LEMMA InvImpliesEditsKept ==
    ASSUME ProviderInv
    PROVE  EditsKept
<1>1. EditsOk(cl, log)
  BY InvFacts DEF ClientOk
<1>2. \A e : Has(log, e) <=> Logged(e)
  BY DEF Has, Logged
<1> QED BY <1>1, <1>2 DEF EditsKept, NoEditForgotten, SyncedIsDurable, EditsOk

(* The provider's bookkeeping is true for any page size, gap limit, threshold  *)
(* and mix of faults: its types hold, the document contains every update at or *)
(* below the watermark or held ahead of it, a stored snapshot covers the seqs  *)
(* it is labelled with, and, when nothing fails and one compaction is asked    *)
(* for at most, a provider at rest that says "synced" has the whole log.       *)
THEOREM ReplicaIsSound == ProviderSpec => []ReplicaSound
<1>1. ProviderInit => ProviderInv
  BY ProviderStarts
<1>2. ProviderInv /\ [ProviderNext]_pvars => ProviderInv'
  BY ProviderSteps
<1>3. ProviderInv => ReplicaSound
  BY InvImpliesReplicaSound
<1> QED BY <1>1, <1>2, <1>3, PTL DEF ProviderSpec

(* No edit is forgotten, whatever is lost, dropped, delayed, refused or        *)
(* repeated: an edit is pending until the log holds it, and the status says    *)
(* that everything is saved only when every edit is in the log.                *)
THEOREM EditsAreKept == ProviderSpec => []EditsKept
<1>1. ProviderInit => ProviderInv
  BY ProviderStarts
<1>2. ProviderInv /\ [ProviderNext]_pvars => ProviderInv'
  BY ProviderSteps
<1>3. ProviderInv => EditsKept
  BY InvImpliesEditsKept
<1> QED BY <1>1, <1>2, <1>3, PTL DEF ProviderSpec

-----------------------------------------------------------------------------
(* The inductive invariant of a board.                                     *)

RankType == Seq(Nat)
People0 == People \cup {None, Keep}
Issue == [p : Projects \cup {None}, number : Nat, rank : RankType, state : States, assignee : People0, completed : Nat]
CallPcs == {"idle", "begun", "read", "updating", "tell"} \cup Moving \cup Counting
Call == [pc : CallPcs, p : Projects \cup {None}, i : IssueIds \cup {None}, a : IssueIds \cup {None},
         b : IssueIds \cup {None}, from : States \cup {""}, to : States \cup {""}, who : People0,
         by : People0, number : Nat, rank : RankType, lo : RankType, hi : RankType, order : Seq(IssueIds),
         tried : BOOLEAN, prior : People0, since : Nat, news : BOOLEAN, at : Nat]
\* An entry's transaction started before it committed.
StateEntry == {e \in [kind : {"state"}, from : States, to : States, at : Nat, done : Nat] : e.at < e.done}
AssigneeEntry == {e \in [kind : {"assignee"}, from : People0, to : People0, at : Nat, done : Nat] : e.at < e.done}
Entry == StateEntry \cup AssigneeEntry
Scan == [on : BOOLEAN, p : Projects \cup {None}, base : SUBSET IssueIds, at : IssueIds \cup {None},
         atRank : RankType, seen : Seq(IssueIds), touched : SUBSET IssueIds, dragged : SUBSET IssueIds]

BoardTypes ==
  /\ "actor" \in DOMAIN benv /\ benv.actor \in People
  /\ projects \in SUBSET Projects /\ counter \in [Projects -> Nat]
  /\ issues \in [IssueIds -> Issue]
  /\ activity \in [IssueIds -> Seq(Entry)]
  /\ call \in [Callers -> Call]
  /\ commits \in Nat /\ scan \in Scan

\* A number taken and not yet committed is the counter's, and one request has it.
CountersInv ==
  /\ \A p \in projects : counter[p] >= 1
  /\ \A i \in Issues : issues[i].p \in projects
  /\ \A c \in Callers : call[c].pc \in Counting =>
       call[c].p \in projects /\ call[c].number = counter[call[c].p] /\ call[c].to \in States /\ call[c].prior = None
  /\ \A c, d \in Callers : call[c].pc \in Counting /\ call[d].pc \in Counting /\ call[c].p = call[d].p => c = d

\* The row a move has locked is as it read it, and no other move has it.
MoversInv ==
  /\ \A c \in Callers : call[c].pc \in Moving =>
       /\ call[c].i \in Issues /\ call[c].from = issues[call[c].i].state /\ call[c].to \in States
       /\ \A n \in DOMAIN call[c].order : call[c].order[n] \in Issues
       /\ Len(call[c].order) <= Cardinality(IssueIds)
  /\ \A c, d \in Callers : call[c].pc \in Moving /\ call[d].pc \in Moving /\ call[c].i = call[d].i => c = d

\* A move that waits for its card names one; an assignee read before the transaction is
\* current while no commit came between, and what is to be told was decided on it; no
\* transaction started in the future.
TellersInv ==
  /\ \A c \in Callers : call[c].at <= commits /\ (call[c].pc = "begun" => call[c].i \in Issues /\ call[c].order = <<>>)
  /\ \A c \in Callers : call[c].pc \in {"read", "updating"} =>
       /\ call[c].i \in Issues /\ call[c].since <= commits
       /\ call[c].since = commits => call[c].prior = issues[call[c].i].assignee
  /\ \A c \in Callers : call[c].pc = "tell" /\ call[c].since = 1 => (call[c].news <=> call[c].who # call[c].prior)

Of(line, kind) == {n \in DOMAIN line : line[n].kind = kind}
LineTells(line, kind, now) ==
  \A n \in Of(line, kind) :
    /\ line[n].from # line[n].to
    /\ \/ (\A m \in Of(line, kind) : m <= n) /\ line[n].to = now
       \/ \E m \in Of(line, kind) :
            /\ n < m /\ \A l \in Of(line, kind) : l <= n \/ m <= l
            /\ line[n].to = line[m].from
EntriesInv == \A i \in Issues, kind \in {"state", "assignee"} : LineTells(activity[i], kind, Current(i, kind))
NoticesInv == \A n \in notices : n.clean => (n.told <=> n.news)
UntoldInv == \A i \in IssueIds \ Issues : activity[i] = <<>>

\* Up to its cursor a listing has shown each card that stayed where it was once, and none
\* of those ahead of it.
Shown(i) == \E n \in DOMAIN scan.seen : \A m \in DOMAIN scan.seen : scan.seen[m] = i <=> m = n
Hidden(i) == \A n \in DOMAIN scan.seen : scan.seen[n] # i
PagesInv ==
  /\ scan.on => \A i \in scan.base :
       i \in IssuesOf(scan.p) /\ (i \notin scan.touched => IF AfterCursor(i) THEN Hidden(i) ELSE Shown(i))
  /\ ~scan.on => \A i \in scan.base \ scan.touched : Shown(i)

StampInv == \A i \in Issues : ~Completed(issues[i].state) => issues[i].completed = 0

BoardInv ==
  /\ BoardTypes /\ CountersInv /\ MoversInv /\ TellersInv /\ EntriesInv /\ NoticesInv /\ UntoldInv
  /\ PagesInv /\ StampInv /\ NumbersDense

-----------------------------------------------------------------------------
(* The order of a board.                                                   *)

LEMMA LessIrreflexive ==
    ASSUME NEW a \in RankType
    PROVE  ~Less(a, a)
BY DEF Less, RankType

LEMMA LessTransitive ==
    ASSUME NEW a \in RankType, NEW b \in RankType, NEW d \in RankType, Less(a, b), Less(b, d)
    PROVE  Less(a, d)
<1>1. PICK i \in 1..Len(b) : i - 1 <= Len(a) /\ (\A j \in 1..(i - 1) : a[j] = b[j]) /\ (i > Len(a) \/ a[i] < b[i])
  BY DEF Less
<1>2. PICK k \in 1..Len(d) : k - 1 <= Len(b) /\ (\A j \in 1..(k - 1) : b[j] = d[j]) /\ (k > Len(b) \/ b[k] < d[k])
  BY DEF Less
<1>3. /\ Len(a) \in Nat /\ Len(b) \in Nat /\ Len(d) \in Nat
      /\ \A j \in 1..Len(a) : a[j] \in Nat
      /\ \A j \in 1..Len(b) : b[j] \in Nat
      /\ \A j \in 1..Len(d) : d[j] \in Nat
  BY DEF RankType
<1>4. CASE i < k
  <2>1. i \in 1..Len(d) /\ \A j \in 1..(i - 1) : a[j] = d[j]
    BY <1>1, <1>2, <1>3, <1>4
  <2>2. i > Len(a) \/ a[i] < d[i]
    BY <1>1, <1>2, <1>3, <1>4
  <2> QED
    BY <1>1, <2>1, <2>2 DEF Less
<1>5. CASE ~(i < k)
  <2>1. k - 1 <= Len(a) /\ \A j \in 1..(k - 1) : a[j] = d[j]
    BY <1>1, <1>2, <1>3, <1>5
  <2>2. k > Len(a) \/ a[k] < d[k]
    <3>1. CASE k = i
      BY <1>1, <1>2, <1>3, <3>1
    <3>2. CASE k < i
      <4>1. a[k] = b[k] /\ b[k] < d[k] /\ k <= Len(a)
        BY <1>1, <1>2, <1>3, <3>2
      <4> QED
        BY <4>1
    <3> QED
      BY <1>1, <1>2, <1>5, <3>1, <3>2
  <2> QED
    BY <1>2, <2>1, <2>2 DEF Less
<1> QED
  BY <1>4, <1>5

LEMMA LessTotal ==
    ASSUME NEW a \in RankType, NEW b \in RankType, a # b
    PROVE  Less(a, b) \/ Less(b, a)
<1> DEFINE differ == {j \in Nat : j >= 1 /\ (j > Len(a) \/ j > Len(b) \/ a[j] # b[j])}
<1>1. /\ Len(a) \in Nat /\ Len(b) \in Nat
      /\ \A j \in 1..Len(a) : a[j] \in Nat
      /\ \A j \in 1..Len(b) : b[j] \in Nat
  BY DEF RankType
<1>2. Len(a) + 1 \in differ
  BY <1>1
<1>3. PICK i \in differ : \A j \in differ : i <= j
  BY <1>2, LeastOf
<1>4. \A j \in 1..(i - 1) : j <= Len(a) /\ j <= Len(b) /\ a[j] = b[j]
  BY <1>1, <1>3
<1>5. i - 1 <= Len(a) /\ i - 1 <= Len(b)
  BY <1>1, <1>3, <1>4
<1>6. ~(i > Len(a) /\ i > Len(b))
  <2> SUFFICES ASSUME i > Len(a), i > Len(b) PROVE FALSE
    OBVIOUS
  <2>1. Len(a) = Len(b) /\ \A j \in 1..Len(a) : a[j] = b[j]
    BY <1>1, <1>3, <1>4, <1>5
  <2> QED
    BY <2>1, SeqEqual DEF RankType
<1>7. CASE i > Len(a)
  <2>1. i \in 1..Len(b)
    BY <1>1, <1>3, <1>6, <1>7
  <2> QED
    BY <1>4, <1>5, <1>7, <2>1 DEF Less
<1>8. CASE i > Len(b)
  <2>1. i \in 1..Len(a)
    BY <1>1, <1>3, <1>6, <1>8
  <2> QED
    BY <1>4, <1>5, <1>8, <2>1 DEF Less
<1>9. CASE ~(i > Len(a)) /\ ~(i > Len(b))
  <2>1. i \in 1..Len(a) /\ i \in 1..Len(b) /\ a[i] # b[i]
    BY <1>1, <1>3, <1>9
  <2>2. a[i] < b[i] \/ b[i] < a[i]
    BY <1>1, <2>1
  <2> QED
    BY <1>4, <1>5, <2>1, <2>2 DEF Less
<1> QED
  BY <1>7, <1>8, <1>9

\* So is the order by rank and id, and it is total on different cards.
LEMMA PrecedesIrreflexive ==
    ASSUME NEW r \in RankType, NEW i \in Nat
    PROVE  ~Precedes(r, i, r, i)
BY LessIrreflexive DEF Precedes

LEMMA PrecedesTransitive ==
    ASSUME NEW r1 \in RankType, NEW r2 \in RankType, NEW r3 \in RankType,
           NEW i1 \in Nat, NEW i2 \in Nat, NEW i3 \in Nat,
           Precedes(r1, i1, r2, i2), Precedes(r2, i2, r3, i3)
    PROVE  Precedes(r1, i1, r3, i3)
<1>1. Less(r1, r2) /\ Less(r2, r3) => Less(r1, r3)
  BY LessTransitive
<1> QED
  BY <1>1 DEF Precedes

LEMMA PrecedesTotal ==
    ASSUME NEW r1 \in RankType, NEW r2 \in RankType, NEW i1 \in Nat, NEW i2 \in Nat, i1 # i2
    PROVE  Precedes(r1, i1, r2, i2) \/ Precedes(r2, i2, r1, i1)
BY LessTotal DEF Precedes

LEMMA IdsFacts == IsFiniteSet(IssueIds) /\ IssueIds \subseteq Nat /\ None \notin IssueIds
BY BoardAssumption DEF None

\* Induction over finite sets, without an operator as a parameter: among sets of cards, one
\* of them nonempty, there is one none of whose proper subsets is among them.
LEMMA SmallestOf ==
    ASSUME NEW X \in SUBSET (SUBSET IssueIds), X # {}
    PROVE  \E S \in X : \A T \in X : T \subseteq S => T = S
<1> DEFINE R == StrictSubsetOrdering(IssueIds)
<1>1. IsWellFoundedOn(R, FiniteSubsetsOf(IssueIds)) /\ FiniteSubsetsOf(IssueIds) = SUBSET IssueIds
  BY IdsFacts, FS_StrictSubsetOrderingWellFounded, FS_FiniteSubsetsOfFinite
<1>2. \A T, S \in SUBSET IssueIds : T \subseteq S /\ T # S => <<T, S>> \in R
  BY DEF StrictSubsetOrdering
<1> HIDE DEF R
<1>3. PICK S \in X : \A T \in X : <<T, S>> \notin R
  BY <1>1, WFMin
<1> QED
  BY <1>2, <1>3, Zenon

RankMap == [IssueIds -> RankType]
CardAhead(rank, x, y) == Precedes(rank[x], x, rank[y], y)

LEMMA AheadOrder ==
    ASSUME NEW rank \in RankMap
    PROVE  /\ \A x \in IssueIds : ~CardAhead(rank, x, x)
           /\ \A x, y, z \in IssueIds : CardAhead(rank, x, y) /\ CardAhead(rank, y, z) => CardAhead(rank, x, z)
           /\ \A x, y \in IssueIds : x # y => CardAhead(rank, x, y) \/ CardAhead(rank, y, x)
<1>1. \A x \in IssueIds : x \in Nat /\ rank[x] \in RankType
  BY IdsFacts DEF RankMap
<1>2. ASSUME NEW x \in IssueIds PROVE ~CardAhead(rank, x, x)
  BY <1>1, PrecedesIrreflexive DEF CardAhead
<1>3. ASSUME NEW x \in IssueIds, NEW y \in IssueIds, NEW z \in IssueIds, CardAhead(rank, x, y), CardAhead(rank, y, z)
      PROVE  CardAhead(rank, x, z)
  BY <1>1, <1>3, PrecedesTransitive DEF CardAhead
<1>4. ASSUME NEW x \in IssueIds, NEW y \in IssueIds, x # y PROVE CardAhead(rank, x, y) \/ CardAhead(rank, y, x)
  BY <1>1, <1>4, PrecedesTotal DEF CardAhead
<1> QED
  BY <1>2, <1>3, <1>4

\* Some cards have a last one.
LEMMA LastCard ==
    ASSUME NEW rank \in RankMap, NEW S \in SUBSET IssueIds, S # {}
    PROVE  \E x \in S : \A y \in S : y = x \/ CardAhead(rank, y, x)
<1> DEFINE HasLast(T) == \E x \in T : \A y \in T : y = x \/ CardAhead(rank, y, x)
<1> HIDE DEF HasLast
<1> SUFFICES ASSUME ~HasLast(S) PROVE FALSE
  BY DEF HasLast
<1>0. PICK X \in SUBSET (SUBSET IssueIds) : X = {T \in SUBSET IssueIds : T # {} /\ ~HasLast(T)}
  OBVIOUS
<1>1. S \in X
  BY <1>0
<1>a. PICK T \in X : \A U \in X : U \subseteq T => U = T
  BY <1>1, SmallestOf
<1>2. /\ T \in SUBSET IssueIds /\ T # {} /\ ~HasLast(T)
      /\ \A U \in SUBSET IssueIds : U # {} /\ ~HasLast(U) /\ U \subseteq T => U = T
  BY <1>0, <1>a
<1>3. PICK x \in T : TRUE
  BY <1>2
<1>4. T \ {x} # {}
  BY <1>2, <1>3 DEF HasLast
<1>5. HasLast(T \ {x})
  BY <1>2, <1>3, <1>4
<1>6. PICK z \in T \ {x} : \A y \in T \ {x} : y = z \/ CardAhead(rank, y, z)
  BY <1>5 DEF HasLast
<1>7. CardAhead(rank, x, z) \/ CardAhead(rank, z, x)
  BY <1>2, <1>3, <1>6, AheadOrder
<1>8. CASE CardAhead(rank, x, z)
  <2>1. \A y \in T : y = z \/ CardAhead(rank, y, z)
    BY <1>6, <1>8
  <2> QED
    BY <1>2, <1>6, <2>1 DEF HasLast
<1>9. CASE CardAhead(rank, z, x)
  <2>1. \A y \in T : y = x \/ CardAhead(rank, y, x)
    BY <1>2, <1>3, <1>6, <1>9, AheadOrder
  <2> QED
    BY <1>2, <1>3, <2>1 DEF HasLast
<1> QED
  BY <1>7, <1>8, <1>9

\* Some cards can be sorted.
LEMMA CanSort ==
    ASSUME NEW rank \in RankMap, NEW S \in SUBSET IssueIds
    PROVE  \E s \in [1..Cardinality(S) -> S] : Sorted(s, rank)
<1> DEFINE CanBe(T) == \E s \in [1..Cardinality(T) -> T] : Sorted(s, rank)
<1> HIDE DEF CanBe
<1> SUFFICES ASSUME ~CanBe(S) PROVE FALSE
  BY DEF CanBe
<1>0. PICK X \in SUBSET (SUBSET IssueIds) : X = {T \in SUBSET IssueIds : ~CanBe(T)}
  OBVIOUS
<1>1. S \in X
  BY <1>0
<1>a. PICK T \in X : \A U \in X : U \subseteq T => U = T
  BY <1>1, SmallestOf
<1>2. /\ T \in SUBSET IssueIds /\ ~CanBe(T)
      /\ \A U \in SUBSET IssueIds : ~CanBe(U) /\ U \subseteq T => U = T
  BY <1>0, <1>a
<1>3. IsFiniteSet(T) /\ Cardinality(T) \in Nat
  BY <1>2, FS_Subset, FS_CardinalityType, IdsFacts
<1>4. CASE T = {}
  <2> DEFINE s == [k \in 1..0 |-> k]
  <2>1. Cardinality(T) = 0
    BY <1>4, FS_EmptySet
  <2>2. s \in [1..0 -> T] /\ DOMAIN s = {}
    OBVIOUS
  <2> HIDE DEF s
  <2>3. Sorted(s, rank)
    BY <2>2 DEF Sorted
  <2> QED
    BY <1>2, <2>1, <2>2, <2>3 DEF CanBe
<1>5. CASE T # {}
  <2>1. PICK x \in T : \A y \in T : y = x \/ CardAhead(rank, y, x)
    BY <1>2, <1>5, LastCard
  <2>2. PICK n \in Nat : n = Cardinality(T \ {x}) /\ Cardinality(T) = n + 1
    <3>1. IsFiniteSet(T \ {x}) /\ Cardinality(T \ {x}) = Cardinality(T) - 1
      BY <1>3, <2>1, FS_RemoveElement
    <3>2. Cardinality(T \ {x}) \in Nat
      BY <3>1, FS_CardinalityType
    <3> QED
      BY <1>3, <3>1, <3>2
  <2>3. CanBe(T \ {x})
    BY <1>2, <2>1
  <2>4. PICK s \in [1..n -> T \ {x}] : Sorted(s, rank)
    BY <2>2, <2>3 DEF CanBe
  <2> DEFINE t == [k \in 1..(n + 1) |-> IF k = n + 1 THEN x ELSE s[k]]
  <2>5. t \in [1..(n + 1) -> T]
    BY <2>1, <2>4
  <2>6. ASSUME NEW k \in 1..(n + 1), NEW m \in 1..(n + 1), k < m
        PROVE  CardAhead(rank, t[k], t[m])
    <3>1. k \in 1..n /\ t[k] = s[k] /\ s[k] \in T \ {x}
      BY <2>4, <2>6
    <3>2. CASE m = n + 1
      BY <2>1, <3>1, <3>2
    <3>3. CASE m # n + 1
      BY <2>4, <2>6, <3>1, <3>3 DEF Sorted, CardAhead
    <3> QED
      BY <3>2, <3>3
  <2> HIDE DEF t
  <2>7. Sorted(t, rank)
    BY <2>5, <2>6 DEF Sorted, CardAhead
  <2> QED
    BY <1>2, <2>2, <2>5, <2>7 DEF CanBe
<1> QED
  BY <1>4, <1>5

\* Sorting some cards gives each of them once, in order.
LEMMA OrderedSorts ==
    ASSUME NEW rank \in RankMap, NEW S \in SUBSET IssueIds
    PROVE  /\ IsFiniteSet(S) /\ Cardinality(S) \in Nat
           /\ Ordered(S, rank) \in [1..Cardinality(S) -> S]
           /\ Sorted(Ordered(S, rank), rank)
           /\ \A x \in S : \E n \in 1..Cardinality(S) : Ordered(S, rank)[n] = x
<1>1. IsFiniteSet(S) /\ Cardinality(S) \in Nat
  BY FS_Subset, FS_CardinalityType, IdsFacts
<1>2. PICK s \in [1..Cardinality(S) -> S] : s = Ordered(S, rank) /\ Sorted(s, rank)
  BY CanSort DEF Ordered
<1>3. ASSUME NEW m \in 1..Cardinality(S), NEW n \in 1..Cardinality(S), s[m] = s[n] PROVE m = n
  <2>1. ~CardAhead(rank, s[m], s[n]) /\ ~CardAhead(rank, s[n], s[m])
    BY <1>2, <1>3, AheadOrder
  <2>2. ~(m < n) /\ ~(n < m)
    BY <1>2, <2>1 DEF Sorted, CardAhead
  <2> QED
    BY <1>1, <2>2
<1>4. s \in Injection(1..Cardinality(S), S)
  BY <1>2, <1>3 DEF Injection, IsInjective
<1>5. Cardinality(1..Cardinality(S)) = Cardinality(S)
  BY <1>1, FS_Interval
<1>6. s \in Surjection(1..Cardinality(S), S)
  BY <1>1, <1>4, <1>5, FS_Injection
<1>7. \A x \in S : \E n \in 1..Cardinality(S) : s[n] = x
  BY <1>6 DEF Surjection
<1> QED
  BY <1>1, <1>2, <1>7

-----------------------------------------------------------------------------
(* Every rank is a sequence of numbers.                                    *)

LEMMA MinOf ==
    ASSUME NEW S \in SUBSET Nat, S # {}
    PROVE  Min(S) \in S
BY LeastOf DEF Min

LEMMA BaseFacts == Base \in Nat /\ Base >= 4 /\ MaxRankLength \in Nat
BY RankAssumption

LEMMA InitialRank == Initial \in RankType /\ Exhausted \in RankType /\ Misordered \in RankType /\ <<>> \in RankType
BY BaseFacts DEF Initial, Exhausted, Misordered, RankType

LEMMA WithLastRank ==
    ASSUME NEW r \in RankType, r # <<>>, NEW d \in Nat
    PROVE  WithLast(r, d) \in RankType
<1>1. Len(r) \in 1..Len(r)
  BY DEF RankType
<1> QED
  BY <1>1, ExceptSeq DEF WithLast, RankType

LEMMA LastDigit ==
    ASSUME NEW r \in RankType, r # <<>>
    PROVE  r[Len(r)] \in Nat
BY DEF RankType

LEMMA AfterRank ==
    ASSUME NEW lo \in RankType
    PROVE  after(lo) \in RankType
<1>1. CASE lo = <<>>
  BY <1>1, InitialRank DEF after
<1>2. CASE lo # <<>>
  <2>1. PICK d \in Nat : d = lo[Len(lo)]
    BY <1>2, LastDigit
  <2>2. (d + Base) \div 2 \in Nat
    BY BaseFacts
  <2>3. WithLast(lo, (d + Base) \div 2) \in RankType
    BY <1>2, <2>2, WithLastRank
  <2>4. lo \o Initial \in RankType
    BY InitialRank DEF RankType
  <2> QED
    BY <1>2, <2>1, <2>3, <2>4, InitialRank DEF after
<1> QED
  BY <1>1, <1>2

LEMMA BeforeRank ==
    ASSUME NEW hi \in RankType
    PROVE  before(hi) \in RankType
<1>1. CASE hi = <<>>
  BY <1>1, InitialRank DEF before
<1>2. CASE hi # <<>>
  <2>1. PICK d \in Nat : d = hi[Len(hi)]
    BY <1>2, LastDigit
  <2>2. d \div 2 \in Nat
    OBVIOUS
  <2>3. WithLast(hi, d \div 2) \in RankType
    BY <1>2, <2>2, WithLastRank
  <2>4. WithLast(hi, 0) \in RankType
    BY <1>2, WithLastRank
  <2>5. WithLast(hi, 0) \o Initial \in RankType
    BY <2>4, InitialRank DEF RankType
  <2> QED
    BY <1>2, <2>1, <2>3, <2>5, InitialRank DEF before
<1> QED
  BY <1>1, <1>2

LEMMA SliceRank ==
    ASSUME NEW s \in RankType, NEW i \in Nat, i >= 1
    PROVE  sliceFrom(s, i) \in RankType
BY DEF sliceFrom, RankType

LEMMA betweenRank ==
    ASSUME NEW lo \in RankType, NEW hi \in RankType
    PROVE  between(lo, hi) \in RankType
<1> DEFINE Low(i)  == digitAt(lo, i, 0)
           High(i) == digitAt(hi, i, Base)
           places  == {i \in 1..(Len(lo) + Len(hi) + 1) : Low(i) # High(i)}
<1>1. \A i \in Nat : i >= 1 => Low(i) \in Nat /\ High(i) \in Nat
  BY BaseFacts DEF digitAt, RankType
<1>2. Len(lo) \in Nat /\ Len(hi) \in Nat
  BY DEF RankType
<1>3. Low(Len(lo) + Len(hi) + 1) = 0 /\ High(Len(lo) + Len(hi) + 1) = Base
  BY <1>2 DEF digitAt
<1>4. Len(lo) + Len(hi) + 1 \in places
  BY <1>2, <1>3, BaseFacts
<1>5. places \in SUBSET Nat
  BY <1>2
<1>6. PICK at : at = Min(places)
  OBVIOUS
<1>7. at \in Nat /\ at >= 1
  <2>1. at \in places
    BY <1>4, <1>5, <1>6, MinOf
  <2> QED
    BY <1>2, <2>1
<1>8. PICK prefix : prefix = [i \in 1..(at - 1) |-> Low(i)]
  OBVIOUS
<1>9. prefix \in RankType
  BY <1>1, <1>7, <1>8 DEF RankType
<1>10. PICK tail \in RankType : tail = after(sliceFrom(lo, at + 1))
  <2>1. sliceFrom(lo, at + 1) \in RankType
    BY <1>7, SliceRank
  <2> QED
    BY <2>1, AfterRank
<1>11. PICK l \in Nat, h \in Nat : l = Low(at) /\ h = High(at)
  BY <1>1, <1>7
<1>12. (l + h) \div 2 \in Nat
  OBVIOUS
<1>13. prefix \o <<(l + h) \div 2>> \in RankType
  BY <1>9, <1>12 DEF RankType
<1>14. prefix \o <<l>> \o tail \in RankType
  BY <1>9, <1>10 DEF RankType
<1>15. between(lo, hi) \in {Exhausted, prefix \o <<(l + h) \div 2>>, prefix \o <<l>> \o tail}
  BY <1>6, <1>8, <1>10, <1>11, Zenon DEF between
<1> QED
  BY <1>13, <1>14, <1>15, InitialRank

LEMMA BetweenRank ==
    ASSUME NEW lo \in RankType, NEW hi \in RankType
    PROVE  Between(lo, hi) \in RankType
BY InitialRank, AfterRank, BeforeRank, betweenRank, Zenon DEF Between

LEMMA EncodeRank ==
    ASSUME NEW value \in Nat, NEW width \in 1..8
    PROVE  encode(value, width) \in RankType
<1>1. ASSUME NEW i \in 1..width PROVE (value \div (Base ^ (width - i))) % Base \in Nat
  <2>1. width - i \in 0..8
    OBVIOUS
  <2>2. PICK p \in Nat \ {0} : p = Base ^ (width - i)
    BY <2>1, RankAssumption
  <2>3. (value \div p) % Base \in Nat
    BY BaseFacts
  <2> QED
    BY <2>2, <2>3
<1> QED
  BY <1>1 DEF encode, RankType

LEMMA RenormaliseRanks ==
    ASSUME NEW n \in Nat \ {0}, n <= Cardinality(IssueIds)
    PROVE  \A k \in 1..n : Renormalise(n)[k] \in RankType
<1>1. CASE n = 1
  BY <1>1, InitialRank DEF Renormalise
<1>2. CASE n # 1
  <2> DEFINE widths == {w \in 1..8 : Base ^ w >= 2 * n}
  <2>1. Cardinality(IssueIds) \in Nat /\ 2 * Cardinality(IssueIds) <= Base ^ 8
    BY FS_CardinalityType, IdsFacts, BoardAssumption
  <2>2. PICK p \in Nat \ {0} : p = Base ^ 8
    BY RankAssumption
  <2>3. 8 \in widths
    BY <2>1, <2>2
  <2>4. PICK width \in 1..8 : width = Min(widths)
    BY <2>3, MinOf
  <2>5. PICK q \in Nat \ {0} : q = Base ^ width
    BY RankAssumption
  <2>6. PICK step \in Nat : step = IF q \div (n + 1) < 1 THEN 1 ELSE q \div (n + 1)
    OBVIOUS
  <2>7. Renormalise(n) = [i \in 1..n |-> encode(i * step, width)]
    BY <1>2, <2>4, <2>5, <2>6, Zenon DEF Renormalise
  <2>8. ASSUME NEW k \in 1..n PROVE encode(k * step, width) \in RankType
    <3>1. k * step \in Nat
      OBVIOUS
    <3> QED
      BY <3>1, EncodeRank
  <2> QED
    BY <2>7, <2>8
<1> QED
  BY <1>1, <1>2

LEMMA RanksTyped ==
    ASSUME issues \in [IssueIds -> Issue]
    PROVE  Ranks \in RankMap /\ \A i \in IssueIds : Ranks[i] = issues[i].rank
BY DEF Ranks, RankMap, Issue

LEMMA FunctionIsSeq ==
    ASSUME NEW n \in Nat, NEW S, NEW s \in [1..n -> S]
    PROVE  s \in Seq(S) /\ Len(s) = n /\ DOMAIN s = 1..n
OBVIOUS

\* The rank of the first or the last of some cards.
LEMMA EndRanks ==
    ASSUME NEW rank \in RankMap, NEW S \in SUBSET IssueIds
    PROVE  LowestOf(S, rank) \in RankType /\ HighestOf(S, rank) \in RankType
<1>1. CASE S = {}
  BY <1>1, InitialRank DEF LowestOf, HighestOf
<1>2. CASE S # {}
  <2>0. PICK n \in Nat : n = Cardinality(S)
    BY OrderedSorts
  <2>1. PICK s \in [1..n -> S] : n = Cardinality(S) /\ s = Ordered(S, rank)
    BY <2>0, OrderedSorts
  <2>2. n >= 1
    BY <1>2, <2>1, OrderedSorts, FS_EmptySet
  <2>3. Len(s) = n
    BY FunctionIsSeq
  <2>4. s[1] \in IssueIds /\ s[n] \in IssueIds
    BY <2>1, <2>2
  <2>5. rank[s[1]] \in RankType /\ rank[s[n]] \in RankType
    BY <2>4 DEF RankMap
  <2>6. LowestOf(S, rank) = rank[s[1]] /\ HighestOf(S, rank) = rank[s[n]]
    BY <1>2, <2>1, <2>3 DEF LowestOf, HighestOf, Last
  <2> QED
    BY <2>5, <2>6
<1> QED
  BY <1>1, <1>2

\* What a move sees are ranks, its own only for issues.
LEMMA ViewTyped ==
    ASSUME BoardInv, NEW c \in Callers, call[c].pc \in Moving
    PROVE  View(c) \in RankMap /\ \A i \in IssueIds \ Issues : View(c)[i] = issues[i].rank
<1>1. issues \in [IssueIds -> Issue] /\ call[c] \in Call
  BY DEF BoardInv, BoardTypes
<1>2. CASE ~call[c].tried
  BY <1>1, <1>2, RanksTyped DEF View
<1>3. CASE call[c].tried
  <2>1. PICK order \in Seq(IssueIds) : order = call[c].order
    BY <1>1 DEF Call
  <2>2. Len(order) <= Cardinality(IssueIds) /\ \A n \in DOMAIN order : order[n] \in Issues
    BY <2>1 DEF BoardInv, MoversInv
  <2>3. PICK spread : spread = Renormalise(Len(order))
    OBVIOUS
  <2>4. View(c) = [i \in IssueIds |-> IF i \in ToSet(order) THEN spread[CHOOSE k \in DOMAIN order : order[k] = i]
                                      ELSE issues[i].rank]
    BY <1>3, <2>1, <2>3 DEF View
  <2>5. ToSet(order) \subseteq Issues
    BY <2>2 DEF ToSet
  <2>6. ASSUME NEW i \in ToSet(order) PROVE spread[CHOOSE k \in DOMAIN order : order[k] = i] \in RankType
    <3>1. PICK k \in DOMAIN order : k = (CHOOSE l \in DOMAIN order : order[l] = i)
      BY <2>6 DEF ToSet
    <3>2. Len(order) \in Nat \ {0} /\ k \in 1..Len(order)
      BY <3>1
    <3>3. spread[k] \in RankType
      BY <2>2, <2>3, <3>2, RenormaliseRanks
    <3> QED
      BY <3>1, <3>3
  <2>7. \A i \in IssueIds : issues[i].rank \in RankType
    BY <1>1 DEF Issue
  <2>8. View(c) \in RankMap
    BY <2>4, <2>6, <2>7 DEF RankMap
  <2> QED
    BY <2>4, <2>5, <2>8
<1> QED
  BY <1>2, <1>3

-----------------------------------------------------------------------------
(* Steps that change one request, and at most a budget beside it.          *)

LEMMA SpendKeeps ==
    ASSUME BoardTypes, NEW op, SpendBoard(op)
    PROVE  "actor" \in DOMAIN benv' /\ benv'.actor = benv.actor
BY DEF BoardTypes, SpendBoard

LEMMA IdleTyped == IdleCall \in Call
<1> DEFINE e == <<>>
<1>1. e \in RankType /\ e \in Seq(IssueIds)
  BY DEF RankType
<1>2. PICK f \in BOOLEAN : f = FALSE
  OBVIOUS
<1> HIDE DEF e
<1>3. IdleCall = [pc |-> "idle", p |-> None, i |-> None, a |-> None, b |-> None, from |-> "", to |-> "", who |-> None,
                  by |-> None, number |-> 0, rank |-> e, lo |-> e, hi |-> e, order |-> e, tried |-> f,
                  prior |-> None, since |-> 0, news |-> f, at |-> 0]
  BY <1>2 DEF e, IdleCall
<1> QED
  BY <1>1, <1>3 DEF Call, CallPcs, People0, None

\* What the invariant asks of a request k in slot c.
CountingOk(c, k) ==
  k.pc \in Counting =>
    /\ k.p \in projects /\ k.number = counter[k.p] /\ k.to \in States /\ k.prior = None
    /\ \A d \in Callers \ {c} : call[d].pc \in Counting => call[d].p # k.p
MovingOk(c, k) ==
  k.pc \in Moving =>
    /\ k.i \in Issues /\ k.from = issues[k.i].state /\ k.to \in States
    /\ \A n \in DOMAIN k.order : k.order[n] \in Issues
    /\ Len(k.order) <= Cardinality(IssueIds)
    /\ \A d \in Callers \ {c} : call[d].pc \in Moving => call[d].i # k.i
TellingOk(k) ==
  /\ k.at <= commits /\ (k.pc = "begun" => k.i \in Issues /\ k.order = <<>>)
  /\ k.pc \in {"read", "updating"} =>
                      /\ k.i \in Issues /\ k.since <= commits
                      /\ k.since = commits => k.prior = issues[k.i].assignee
  /\ k.pc = "tell" /\ k.since = 1 => (k.news <=> k.who # k.prior)

LEMMA ClockFacts ==
    ASSUME BoardInv
    PROVE  commits \in Nat /\ 0 <= commits /\ \A c \in Callers : call[c].at <= commits /\ call[c].at \in Nat
<1>1. commits \in Nat /\ \A c \in Callers : call[c].at <= commits /\ call[c] \in Call
  BY DEF BoardInv, BoardTypes, TellersInv
<1>2. \A k \in Call : k.at \in Nat
  BY DEF Call
<1> QED
  BY <1>1, <1>2

LEMMA SameTime == \A m : \A n \in Nat : m = n => m <= n
OBVIOUS

LEMMA IdleFacts == IdleCall.pc = "idle" /\ IdleCall.at = 0 /\ IdleCall.order = <<>>
BY Zenon DEF IdleCall

LEMMA CallStep ==
    ASSUME BoardInv, NEW c \in Callers, NEW k \in Call, call' = [call EXCEPT ![c] = k],
           CountingOk(c, k), MovingOk(c, k), TellingOk(k), NoticesInv',
           "actor" \in DOMAIN benv', benv'.actor = benv.actor,
           UNCHANGED <<projects, counter, issues, activity, commits, scan>>
    PROVE  BoardInv'
<1>1. call' \in [Callers -> Call] /\ \A d \in Callers : call'[d] = IF d = c THEN k ELSE call[d]
  BY DEF BoardInv, BoardTypes
<1>2. Issues' = Issues
  BY DEF Issues
<1>3. BoardTypes'
  BY <1>1 DEF BoardInv, BoardTypes
<1>4. CountersInv'
  BY <1>1, <1>2 DEF BoardInv, CountersInv, CountingOk
<1>5. MoversInv'
  BY <1>1, <1>2 DEF BoardInv, MoversInv, MovingOk
<1>6. TellersInv'
  BY <1>1, <1>2 DEF BoardInv, TellersInv, TellingOk
<1>7. EntriesInv' /\ UntoldInv'
  BY <1>2 DEF BoardInv, EntriesInv, UntoldInv, Current
<1>8. PagesInv' /\ StampInv' /\ NumbersDense'
  BY <1>2 DEF BoardInv, PagesInv, StampInv, NumbersDense, IssuesOf, AfterCursor, Shown, Hidden
<1> QED
  BY <1>3, <1>4, <1>5, <1>6, <1>7, <1>8 DEF BoardInv

\* A request that ends leaves nothing to keep.
LEMMA GoIdle ==
    ASSUME BoardInv, NEW c \in Callers, Go(c, IdleCall), NoticesInv',
           "actor" \in DOMAIN benv', benv'.actor = benv.actor,
           UNCHANGED <<projects, counter, issues, activity, commits, scan>>
    PROVE  BoardInv'
<1>1. CountingOk(c, IdleCall) /\ MovingOk(c, IdleCall) /\ TellingOk(IdleCall)
  BY ClockFacts DEF CountingOk, MovingOk, TellingOk, IdleCall, Counting, Moving
<1>2. call' = [call EXCEPT ![c] = IdleCall]
  BY DEF Go
<1> QED
  BY <1>1, <1>2, IdleTyped, CallStep

LEMMA StillActor ==
    ASSUME BoardInv
    PROVE  "actor" \in DOMAIN benv /\ benv.actor \in People
BY DEF BoardInv, BoardTypes

LEMMA CallTyped ==
    ASSUME BoardInv, NEW c \in Callers
    PROVE  call[c] \in Call
BY DEF BoardInv, BoardTypes

LEMMA AllocateKeeps ==
    ASSUME BoardInv, NEW c \in Callers, NEW p \in Projects, NEW st \in States, NEW u \in People0, Allocate(c, p, st, u)
    PROVE  BoardInv'
<1>1. PICK k : k = [IdleCall EXCEPT !.pc = "counted", !.p = p, !.number = counter[p], !.to = st, !.who = u, !.by = benv.actor]
  OBVIOUS
<1>2. counter[p] \in Nat /\ benv.actor \in People
  BY DEF BoardInv, BoardTypes
<1>3. k \in Call
  BY <1>1, <1>2, IdleTyped DEF Call, CallPcs, Counting, People0
<1>4. k.pc = "counted" /\ k.p = p /\ k.number = counter[p] /\ k.to = st /\ k.who = u /\ k.prior = None /\ k.at = 0
  BY <1>1, IdleTyped DEF Call, IdleCall
<1>6. CountingOk(c, k)
  BY <1>4 DEF Allocate, CounterHeld, CountingOk
<1>7. MovingOk(c, k) /\ TellingOk(k)
  BY <1>4, ClockFacts DEF MovingOk, TellingOk, Moving
<1>8. call' = [call EXCEPT ![c] = k]
  BY <1>1 DEF Allocate, Go
<1>9. "actor" \in DOMAIN benv' /\ benv'.actor = benv.actor /\ NoticesInv'
  BY SpendKeeps DEF Allocate, BoardInv, NoticesInv
<1> QED
  BY <1>3, <1>6, <1>7, <1>8, <1>9, CallStep DEF Allocate

LEMMA RankNewKeeps ==
    ASSUME BoardInv, NEW c \in Callers, RankNew(c)
    PROVE  BoardInv'
<1>1. PICK rank : rank = Between(<<>>, LowestOf(IssuesOf(call[c].p), Ranks))
  OBVIOUS
<1>2. rank \in RankType
  <2>1. Ranks \in RankMap
    BY RanksTyped DEF BoardInv, BoardTypes
  <2>2. IssuesOf(call[c].p) \in SUBSET IssueIds
    BY DEF IssuesOf, Issues
  <2>3. LowestOf(IssuesOf(call[c].p), Ranks) \in RankType
    BY <2>1, <2>2, EndRanks
  <2> QED
    BY <1>1, <2>3, InitialRank, BetweenRank
<1>3. UNCHANGED <<benv, projects, counter, issues, activity, commits, scan>> /\ NoticesInv'
  BY DEF RankNew, BoardInv, NoticesInv
<1>4. CASE Go(c, IdleCall)
  BY <1>3, <1>4, GoIdle, StillActor
<1>5. CASE Go(c, [call[c] EXCEPT !.pc = "ranked", !.rank = rank])
  <2>1. PICK k : k = [call[c] EXCEPT !.pc = "ranked", !.rank = rank]
    OBVIOUS
  <2>2. call[c] \in Call /\ call[c].pc = "counted"
    BY CallTyped DEF RankNew
  <2>3. k \in Call /\ k.pc = "ranked" /\ k.p = call[c].p /\ k.number = call[c].number /\ k.to = call[c].to /\ k.who = call[c].who
        /\ k.prior = call[c].prior /\ k.at = call[c].at
    BY <1>2, <2>1, <2>2 DEF Call, CallPcs, Counting
  <2>4. CountingOk(c, k)
    BY <2>2, <2>3 DEF CountingOk, BoardInv, CountersInv, Counting
  <2>5. MovingOk(c, k) /\ TellingOk(k)
    BY <2>3, ClockFacts DEF MovingOk, TellingOk, Moving
  <2>6. call' = [call EXCEPT ![c] = k]
    BY <1>5, <2>1 DEF Go
  <2> QED
    BY <1>3, <2>3, <2>4, <2>5, <2>6, CallStep, StillActor
<1> QED
  BY <1>1, <1>4, <1>5 DEF RankNew, Refuse

LEMMA RollbackKeeps ==
    ASSUME BoardInv, NEW c \in Callers, RollbackCall(c)
    PROVE  BoardInv'
<1>1. "actor" \in DOMAIN benv' /\ benv'.actor = benv.actor /\ NoticesInv'
  BY SpendKeeps DEF RollbackCall, BoardInv, NoticesInv
<1> QED
  BY <1>1, GoIdle DEF RollbackCall

\* A move under way that keeps its card.
LEMMA MoverStep ==
    ASSUME BoardInv, NEW c \in Callers, NEW k \in Call, Go(c, k), call[c].pc \in Moving,
           k.pc \in Moving, k.i = call[c].i, k.from = call[c].from, k.to = call[c].to, k.at = call[c].at,
           \A n \in DOMAIN k.order : k.order[n] \in Issues, Len(k.order) <= Cardinality(IssueIds),
           UNCHANGED <<benv, projects, counter, issues, activity, notices, commits, scan>>
    PROVE  BoardInv'
<1>1. MovingOk(c, k)
  BY DEF MovingOk, BoardInv, MoversInv
<1>2. CountingOk(c, k) /\ TellingOk(k)
  BY ClockFacts DEF CountingOk, TellingOk, Counting, Moving
<1>3. call' = [call EXCEPT ![c] = k] /\ NoticesInv'
  BY DEF Go, BoardInv, NoticesInv
<1> QED
  BY <1>1, <1>2, <1>3, CallStep, StillActor

LEMMA OrderKept ==
    ASSUME BoardInv, NEW c \in Callers, call[c].pc \in Moving
    PROVE  (\A n \in DOMAIN call[c].order : call[c].order[n] \in Issues) /\ Len(call[c].order) <= Cardinality(IssueIds)
BY DEF BoardInv, MoversInv

LEMMA MoveBeginKeeps ==
    ASSUME BoardInv, NEW c \in Callers, NEW i \in Issues, NEW a \in IssueIds \cup {None}, NEW b \in IssueIds \cup {None},
           NEW st \in States \cup {""}, MoveBegin(c, i, a, b, st)
    PROVE  BoardInv'
<1>1. PICK k : k = [IdleCall EXCEPT !.pc = "begun", !.i = i, !.a = a, !.b = b, !.to = st, !.at = commits]
  OBVIOUS
<1>2. i \in IssueIds /\ commits \in Nat
  BY ClockFacts DEF Issues
<1>3. k \in Call
  BY <1>1, <1>2, IdleTyped DEF Call, CallPcs
<1>4. k.pc = "begun" /\ k.i = i /\ k.at = commits /\ k.order = IdleCall.order
  BY <1>1, IdleTyped DEF Call
<1>5. TellingOk(k) /\ CountingOk(c, k) /\ MovingOk(c, k)
  <2>1. k.order = <<>>
    BY <1>4, IdleFacts, Zenon
  <2>2. k.at <= commits
    BY <1>2, <1>4, SameTime, Zenon
  <2>3. CountingOk(c, k) /\ MovingOk(c, k)
    BY <1>4 DEF CountingOk, MovingOk, Counting, Moving
  <2>4. TellingOk(k)
    BY <1>4, <2>1, <2>2, Zenon DEF TellingOk
  <2> QED
    BY <2>3, <2>4
<1>6. call' = [call EXCEPT ![c] = k]
  BY <1>1 DEF MoveBegin, Go
<1>7. "actor" \in DOMAIN benv' /\ benv'.actor = benv.actor /\ NoticesInv'
  BY SpendKeeps DEF MoveBegin, BoardInv, NoticesInv
<1> QED
  BY <1>3, <1>5, <1>6, <1>7, CallStep DEF MoveBegin

LEMMA MoveLockKeeps ==
    ASSUME BoardInv, NEW c \in Callers, MoveLock(c)
    PROVE  BoardInv'
<1>a. PICK q \in Call : q = call[c] /\ q.pc = "begun" /\ q.i \in Issues /\ q.order = <<>>
  BY CallTyped DEF MoveLock, BoardInv, TellersInv
<1>b. PICK i \in Issues : i = q.i
  BY <1>a
<1>2. issues[i] \in Issue /\ i \in IssueIds
  BY DEF BoardInv, BoardTypes, Issues
<1>0. PICK pc \in {"placed", "locked"} : pc = IF q.a = None /\ q.b = None THEN "placed" ELSE "locked"
  OBVIOUS
<1>c. PICK st \in States : st = IF q.to = "" THEN issues[i].state ELSE q.to
  BY <1>2 DEF Issue, Call
<1>1. PICK k : k = [q EXCEPT !.pc = pc, !.p = issues[i].p, !.rank = issues[i].rank, !.from = issues[i].state, !.to = st]
  OBVIOUS
<1>3. k \in Call
  BY <1>1, <1>2 DEF Call, CallPcs, Moving, Issue
<1>4. k.pc = pc /\ k.i = i /\ k.from = issues[i].state /\ k.to = st /\ k.order = <<>> /\ k.at = call[c].at
  BY <1>a, <1>b, <1>1 DEF Call
<1>6. Len(k.order) <= Cardinality(IssueIds) /\ DOMAIN k.order = {}
  BY <1>4, IdsFacts, FS_CardinalityType
<1>7. ASSUME NEW d \in Callers \ {c}, call[d].pc \in Moving PROVE call[d].i # i
  BY <1>a, <1>b, <1>7 DEF MoveLock, Locked, Holds
<1>8. MovingOk(c, k)
  BY <1>4, <1>6, <1>7 DEF MovingOk
<1>9. CountingOk(c, k) /\ TellingOk(k)
  BY <1>4, ClockFacts DEF CountingOk, TellingOk, Counting
<1>10. call' = [call EXCEPT ![c] = k]
  BY <1>0, <1>a, <1>b, <1>c, <1>1 DEF MoveLock, Go
<1>11. NoticesInv'
  BY DEF MoveLock, BoardInv, NoticesInv
<1> QED
  BY <1>3, <1>8, <1>9, <1>10, <1>11, CallStep, StillActor DEF MoveLock

LEMMA MoveAnchorKeeps ==
    ASSUME BoardInv, NEW c \in Callers, MoveAnchor(c)
    PROVE  BoardInv'
<1> DEFINE rankOf(j) == IF j = None THEN <<>> ELSE View(c)[j]
<1>1. call[c].pc = "locked" /\ call[c].pc \in Moving /\ call[c] \in Call /\ commits \in Nat
  BY CallTyped DEF MoveAnchor, Moving, BoardInv, BoardTypes
<1>2. \A j \in IssueIds \cup {None} : rankOf(j) \in RankType
  BY <1>1, ViewTyped, InitialRank DEF RankMap
<1>3. PICK lo \in RankType, hi \in RankType : lo = rankOf(call[c].a) /\ hi = rankOf(call[c].b)
  BY <1>1, <1>2 DEF Call
<1>4. PICK since \in Nat : since = IF call[c].tried THEN call[c].since ELSE commits
  BY <1>1 DEF Call
<1>5. PICK k : k = [call[c] EXCEPT !.pc = "anchored", !.lo = lo, !.hi = hi, !.since = since]
  OBVIOUS
<1>6. k \in Call
  BY <1>1, <1>5 DEF Call, CallPcs, Moving
<1>7. k.pc = "anchored" /\ k.i = call[c].i /\ k.from = call[c].from /\ k.to = call[c].to /\ k.order = call[c].order /\ k.at = call[c].at
  BY <1>1, <1>5 DEF Call
<1>8. Go(c, k)
  BY <1>3, <1>4, <1>5 DEF MoveAnchor, Go
<1>9. k.pc \in Moving
  BY <1>7 DEF Moving
<1> QED
  BY <1>1, <1>6, <1>7, <1>8, <1>9, OrderKept, MoverStep DEF MoveAnchor

LEMMA MovePlaceKeeps ==
    ASSUME BoardInv, NEW c \in Callers, MovePlace(c)
    PROVE  BoardInv'
<1>1. call[c].pc = "anchored" /\ call[c].pc \in Moving /\ call[c] \in Call
  BY CallTyped DEF MovePlace, Moving
<1>2. View(c) \in RankMap
  BY <1>1, ViewTyped
<1>3. nextRankAfter(c, call[c].lo) \in RankType /\ prevRankBefore(c, call[c].hi) \in RankType
  <2>1. IssuesOf(call[c].p) \in SUBSET IssueIds
    BY DEF IssuesOf, Issues
  <2> QED
    BY <1>2, <2>1, EndRanks DEF nextRankAfter, prevRankBefore
<1>4. PICK lo \in RankType : lo = IF call[c].a # None THEN call[c].lo ELSE prevRankBefore(c, call[c].hi)
  BY <1>1, <1>3 DEF Call
<1>5. PICK hi \in RankType : hi = IF call[c].a # None THEN nextRankAfter(c, call[c].lo) ELSE call[c].hi
  BY <1>1, <1>3 DEF Call
<1>6. PICK rank \in RankType : rank = Between(lo, hi)
  BY BetweenRank
<1>7. UNCHANGED <<benv, projects, counter, issues, activity, notices, commits, scan>>
  BY DEF MovePlace
<1>8. CASE Go(c, [call[c] EXCEPT !.pc = "placed", !.rank = rank])
  <2>1. PICK k : k = [call[c] EXCEPT !.pc = "placed", !.rank = rank]
    OBVIOUS
  <2>2. k \in Call
    BY <1>1, <2>1 DEF Call, CallPcs, Moving
  <2>3. k.pc = "placed" /\ k.i = call[c].i /\ k.from = call[c].from /\ k.to = call[c].to /\ k.order = call[c].order /\ k.at = call[c].at
    BY <1>1, <2>1 DEF Call
  <2>4. k.pc \in Moving /\ Go(c, k)
    BY <1>8, <2>1, <2>3 DEF Moving
  <2> QED
    BY <1>1, <1>7, <2>2, <2>3, <2>4, OrderKept, MoverStep
<1>9. CASE Go(c, [call[c] EXCEPT !.pc = "exhausted"])
  <2>1. PICK k : k = [call[c] EXCEPT !.pc = "exhausted"]
    OBVIOUS
  <2>2. k \in Call
    BY <1>1, <2>1 DEF Call, CallPcs, Moving
  <2>3. k.pc = "exhausted" /\ k.i = call[c].i /\ k.from = call[c].from /\ k.to = call[c].to /\ k.order = call[c].order /\ k.at = call[c].at
    BY <1>1, <2>1 DEF Call
  <2>4. k.pc \in Moving /\ Go(c, k)
    BY <1>9, <2>1, <2>3 DEF Moving
  <2> QED
    BY <1>1, <1>7, <2>2, <2>3, <2>4, OrderKept, MoverStep
<1>10. CASE Go(c, IdleCall)
  <2>1. NoticesInv'
    BY <1>7 DEF BoardInv, NoticesInv
  <2> QED
    BY <1>7, <1>10, <2>1, GoIdle, StillActor
<1> QED
  BY <1>4, <1>5, <1>6, <1>8, <1>9, <1>10 DEF MovePlace, Refuse

LEMMA RenormaliseReadKeeps ==
    ASSUME BoardInv, NEW c \in Callers, RenormaliseRead(c)
    PROVE  BoardInv'
<1>1. call[c].pc = "exhausted" /\ call[c].pc \in Moving /\ call[c] \in Call
  BY CallTyped DEF RenormaliseRead, Moving
<1>2. PICK S \in SUBSET Issues : S = IssuesOf(call[c].p)
  BY DEF IssuesOf
<1>3. S \in SUBSET IssueIds /\ Ranks \in RankMap
  BY RanksTyped DEF Issues, BoardInv, BoardTypes
<1>4. PICK n \in Nat : n = Cardinality(S)
  BY <1>3, OrderedSorts
<1>5. PICK order \in [1..n -> S] : order = Ordered(S, Ranks)
  BY <1>3, <1>4, OrderedSorts
<1>6. order \in Seq(IssueIds) /\ Len(order) = n /\ DOMAIN order = 1..n /\ \A m \in 1..n : order[m] \in Issues
  <2>1. order \in [1..n -> IssueIds]
    BY <1>3
  <2> QED
    BY <2>1, FunctionIsSeq
<1>7. n <= Cardinality(IssueIds)
  BY <1>3, <1>4, IdsFacts, FS_Subset
<1>8. PICK k : k = [call[c] EXCEPT !.pc = "spreading", !.order = order]
  OBVIOUS
<1>9. k \in Call
  BY <1>1, <1>6, <1>8 DEF Call, CallPcs, Moving
<1>10. k.pc = "spreading" /\ k.i = call[c].i /\ k.from = call[c].from /\ k.to = call[c].to /\ k.order = order /\ k.at = call[c].at
  BY <1>1, <1>8 DEF Call
<1>11. k.pc \in Moving /\ Go(c, k)
  BY <1>2, <1>5, <1>8, <1>10 DEF Moving, RenormaliseRead
<1> QED
  BY <1>1, <1>6, <1>7, <1>9, <1>10, <1>11, MoverStep DEF RenormaliseRead

LEMMA RenormaliseWriteKeeps ==
    ASSUME BoardInv, NEW c \in Callers, RenormaliseWrite(c)
    PROVE  BoardInv'
<1>1. call[c].pc = "spreading" /\ call[c].pc \in Moving /\ call[c] \in Call
  BY CallTyped DEF RenormaliseWrite, Moving
<1>2. PICK yes \in BOOLEAN : yes = TRUE
  OBVIOUS
<1>3. PICK k : k = [call[c] EXCEPT !.pc = "locked", !.tried = yes]
  OBVIOUS
<1>4. k \in Call
  BY <1>1, <1>3 DEF Call, CallPcs, Moving
<1>5. k.pc = "locked" /\ k.i = call[c].i /\ k.from = call[c].from /\ k.to = call[c].to /\ k.order = call[c].order /\ k.at = call[c].at
  BY <1>1, <1>3 DEF Call
<1>6. k.pc \in Moving /\ Go(c, k)
  BY <1>2, <1>3, <1>5 DEF Moving, RenormaliseWrite
<1> QED
  BY <1>1, <1>4, <1>5, <1>6, OrderKept, MoverStep DEF RenormaliseWrite

LEMMA RenormaliseDeadlockKeeps ==
    ASSUME BoardInv, NEW c \in Callers, RenormaliseDeadlock(c)
    PROVE  BoardInv'
<1>1. NoticesInv'
  BY DEF BoardInv, NoticesInv, RenormaliseDeadlock
<1> QED
  BY <1>1, GoIdle, StillActor DEF RenormaliseDeadlock

LEMMA UpdateReadKeeps ==
    ASSUME BoardInv, NEW c \in Callers, NEW i \in Issues, NEW u \in People0, UpdateRead(c, i, u)
    PROVE  BoardInv'
<1>1. PICK k : k = [IdleCall EXCEPT !.pc = "read", !.i = i, !.who = u, !.by = benv.actor,
                                    !.prior = issues[i].assignee, !.since = commits]
  OBVIOUS
<1>2. issues[i].assignee \in People0 /\ i \in IssueIds /\ benv.actor \in People0 /\ commits \in Nat
  BY DEF BoardInv, BoardTypes, Issues, Issue, People0
<1>3. k \in Call
  BY <1>1, <1>2, IdleTyped DEF Call, CallPcs
<1>4. k.pc = "read" /\ k.i = i /\ k.since = commits /\ k.prior = issues[i].assignee /\ k.at = 0
  BY <1>1, IdleTyped DEF Call, IdleCall
<1>5. TellingOk(k) /\ CountingOk(c, k) /\ MovingOk(c, k)
  BY <1>2, <1>4 DEF TellingOk, CountingOk, MovingOk, Counting, Moving
<1>6. call' = [call EXCEPT ![c] = k]
  BY <1>1 DEF UpdateRead, Go
<1>7. "actor" \in DOMAIN benv' /\ benv'.actor = benv.actor /\ NoticesInv'
  BY SpendKeeps DEF UpdateRead, BoardInv, NoticesInv
<1> QED
  BY <1>3, <1>5, <1>6, <1>7, CallStep DEF UpdateRead

LEMMA UpdateBeginKeeps ==
    ASSUME BoardInv, NEW c \in Callers, UpdateBegin(c)
    PROVE  BoardInv'
<1>1. PICK q \in Call : q = call[c] /\ q.pc = "read"
  BY CallTyped DEF UpdateBegin
<1>2. q.i \in Issues /\ q.since <= commits /\ (q.since = commits => q.prior = issues[q.i].assignee) /\ commits \in Nat
  BY <1>1, ClockFacts DEF BoardInv, TellersInv
<1>3. PICK k : k = [q EXCEPT !.pc = "updating", !.at = commits]
  OBVIOUS
<1>4. k \in Call
  BY <1>2, <1>3 DEF Call, CallPcs
<1>5. k.pc = "updating" /\ k.i = q.i /\ k.since = q.since /\ k.prior = q.prior /\ k.at = commits
  BY <1>3 DEF Call
<1>6. TellingOk(k) /\ CountingOk(c, k) /\ MovingOk(c, k)
  BY <1>2, <1>5 DEF TellingOk, CountingOk, MovingOk, Counting, Moving
<1>7. call' = [call EXCEPT ![c] = k] /\ NoticesInv'
  BY <1>1, <1>3 DEF UpdateBegin, Go, BoardInv, NoticesInv
<1> QED
  BY <1>4, <1>6, <1>7, CallStep, StillActor DEF UpdateBegin

\* A notice that is clean is right.
LEMMA NoticeAdded ==
    ASSUME BoardInv, NEW c \in Callers, NEW told \in BOOLEAN, NEW clean \in BOOLEAN, Notice(c, told, clean),
           clean => (told <=> call[c].news /\ call[c].who # None /\ call[c].who # call[c].by)
    PROVE  NoticesInv'
<1>0. PICK news \in BOOLEAN : news = (call[c].news /\ call[c].who # None /\ call[c].who # call[c].by)
  OBVIOUS
<1>1. PICK n : n = [told |-> told, news |-> news, clean |-> clean]
  OBVIOUS
<1>2. n.told = told /\ n.news = news /\ n.clean = clean
  BY <1>1
<1>3. notices' = notices \cup {n}
  BY <1>0, <1>1, Zenon DEF Notice
<1>5. clean => (told <=> news)
  BY <1>0, Zenon
<1>4. n.clean => (n.told <=> n.news)
  BY <1>2, <1>5, Zenon
<1> QED
  BY <1>3, <1>4, Zenon DEF BoardInv, NoticesInv

LEMMA NotifyAssignedKeeps ==
    ASSUME BoardInv, NEW c \in Callers, NotifyAssigned(c)
    PROVE  BoardInv'
<1>1. PICK told \in BOOLEAN, clean \in BOOLEAN :
         told = Tells(call[c].who, call[c].prior, call[c].by) /\ clean = (call[c].since = 1)
  BY DEF Tells
<1>2. Notice(c, told, clean)
  BY <1>1, Zenon DEF NotifyAssigned
<1>3. call[c].since = 1 => (call[c].news <=> call[c].who # call[c].prior)
  BY DEF BoardInv, TellersInv, NotifyAssigned, Notice
<1>4. clean => (told <=> call[c].news /\ call[c].who # None /\ call[c].who # call[c].by)
  BY <1>1, <1>3, Zenon DEF Tells
<1>5. NoticesInv'
  BY <1>2, <1>4, NoticeAdded
<1> QED
  BY <1>2, <1>5, GoIdle, StillActor DEF NotifyAssigned, Notice

LEMMA NotifyLostKeeps ==
    ASSUME BoardInv, NEW c \in Callers, NotifyLost(c)
    PROVE  BoardInv'
<1>1. PICK no \in BOOLEAN : no = FALSE
  OBVIOUS
<1>2. Notice(c, no, no)
  BY <1>1 DEF NotifyLost
<1>3. NoticesInv'
  BY <1>1, <1>2, NoticeAdded
<1>4. "actor" \in DOMAIN benv' /\ benv'.actor = benv.actor
  BY SpendKeeps DEF NotifyLost, BoardInv
<1> QED
  BY <1>2, <1>3, <1>4, GoIdle DEF Notice

-----------------------------------------------------------------------------
(* Projects and new issues.                                                *)

LEMMA IssueIsSound ==
    ASSUME BoardInv, NEW i \in Issues
    PROVE  /\ i \in IssueIds /\ issues[i] \in Issue /\ issues[i].p \in projects
           /\ issues[i].number \in 1..(counter[issues[i].p] - 1)
<1>1. i \in IssueIds /\ issues[i] \in Issue /\ issues[i].p \in projects
  BY DEF Issues, BoardInv, BoardTypes, CountersInv
<1>2. i \in IssuesOf(issues[i].p)
  BY DEF IssuesOf
<1> QED
  BY <1>1, <1>2 DEF BoardInv, NumbersDense

LEMMA CreateProjectKeeps ==
    ASSUME BoardInv, NEW p \in Projects, CreateProject(p)
    PROVE  BoardInv'
<1>1. /\ p \notin projects /\ projects' = projects \cup {p} /\ counter' = [counter EXCEPT ![p] = 1]
      /\ UNCHANGED <<issues, activity, call, notices, commits, scan>>
  BY DEF CreateProject
<1>2. counter' \in [Projects -> Nat] /\ counter'[p] = 1 /\ \A q \in Projects : q # p => counter'[q] = counter[q]
  BY <1>1 DEF BoardInv, BoardTypes
<1>3. "actor" \in DOMAIN benv' /\ benv'.actor = benv.actor
  BY SpendKeeps DEF CreateProject, BoardInv
<1>4. BoardTypes'
  BY <1>1, <1>2, <1>3 DEF BoardInv, BoardTypes
<1>5. Issues' = Issues /\ projects \subseteq Projects
  BY <1>1 DEF Issues, BoardInv, BoardTypes
<1>6. CountersInv'
  BY <1>1, <1>2, <1>5 DEF BoardInv, CountersInv
<1>7. MoversInv' /\ TellersInv'
  BY <1>1, <1>5 DEF BoardInv, MoversInv, TellersInv
<1>8. EntriesInv' /\ UntoldInv' /\ NoticesInv'
  BY <1>1, <1>5 DEF BoardInv, EntriesInv, UntoldInv, NoticesInv, Current
<1>9. PagesInv' /\ StampInv'
  BY <1>1, <1>5 DEF BoardInv, PagesInv, StampInv, IssuesOf, AfterCursor, Shown, Hidden
<1>10. ASSUME NEW q \in projects'
       PROVE  /\ {issues'[i].number : i \in IssuesOf(q)'} = 1..(counter'[q] - 1)
              /\ Cardinality(IssuesOf(q)') = counter'[q] - 1
  <2>1. IssuesOf(q)' = IssuesOf(q)
    BY <1>1, <1>5 DEF IssuesOf
  <2>2. CASE q = p
    <3>1. IssuesOf(q) = {}
      BY <1>1, <2>2 DEF IssuesOf, BoardInv, CountersInv
    <3> QED
      BY <1>2, <2>1, <2>2, <3>1, FS_EmptySet
  <2>3. CASE q # p
    <3>1. q \in projects /\ counter'[q] = counter[q]
      BY <1>1, <1>2, <1>5, <2>3
    <3> QED
      BY <1>1, <2>1, <3>1 DEF BoardInv, NumbersDense
  <2> QED
    BY <2>2, <2>3
<1>11. NumbersDense'
  BY <1>10 DEF NumbersDense
<1> QED
  BY <1>4, <1>6, <1>7, <1>8, <1>9, <1>11 DEF BoardInv

\* What a listing under way may count on when cards outside of it change, or are noted.
LEMMA TouchTyped ==
    ASSUME BoardInv, NEW S \in SUBSET IssueIds, NEW x \in IssueIds, Touch(S, x)
    PROVE  /\ scan' \in Scan
           /\ scan'.on = scan.on /\ scan'.p = scan.p /\ scan'.base = scan.base /\ scan'.at = scan.at
           /\ scan'.atRank = scan.atRank /\ scan'.seen = scan.seen
           /\ scan'.touched = IF scan.on THEN scan.touched \cup S ELSE scan.touched
BY DEF BoardInv, BoardTypes, Touch, Scan

LEMMA PagesKept ==
    ASSUME BoardInv, NEW S \in SUBSET IssueIds, NEW x \in IssueIds, Touch(S, x),
           \A i \in Issues \ S : i \in Issues' /\ issues'[i].rank = issues[i].rank,
           \A i \in Issues : i \in Issues' /\ issues'[i].p = issues[i].p
    PROVE  PagesInv'
<1>1. /\ scan'.on = scan.on /\ scan'.p = scan.p /\ scan'.base = scan.base /\ scan'.at = scan.at
      /\ scan'.atRank = scan.atRank /\ scan'.seen = scan.seen
      /\ scan'.touched = IF scan.on THEN scan.touched \cup S ELSE scan.touched
  BY TouchTyped
<1>2. \A i : Shown(i)' = Shown(i) /\ Hidden(i)' = Hidden(i)
  BY <1>1 DEF Shown, Hidden
<1>3. CASE scan.on
  <2>1. ASSUME NEW i \in scan.base
        PROVE  i \in IssuesOf(scan.p)' /\ (i \notin scan'.touched => IF AfterCursor(i)' THEN Hidden(i)' ELSE Shown(i)')
    <3>1. i \in IssuesOf(scan.p) /\ (i \notin scan.touched => IF AfterCursor(i) THEN Hidden(i) ELSE Shown(i))
      BY <1>3, <2>1 DEF BoardInv, PagesInv
    <3>2. i \in IssuesOf(scan.p)'
      BY <1>1, <3>1 DEF IssuesOf
    <3>3. ASSUME i \notin scan'.touched PROVE IF AfterCursor(i)' THEN Hidden(i)' ELSE Shown(i)'
      <4>1. i \notin scan.touched /\ i \in Issues \ S
        BY <1>1, <1>3, <3>1, <3>3 DEF IssuesOf
      <4>2. AfterCursor(i)' = AfterCursor(i)
        BY <1>1, <4>1 DEF AfterCursor
      <4> QED
        BY <1>2, <3>1, <4>1, <4>2
    <3> QED
      BY <3>2, <3>3
  <2> QED
    BY <1>1, <1>3, <2>1 DEF PagesInv
<1>4. CASE ~scan.on
  BY <1>1, <1>2, <1>4 DEF BoardInv, PagesInv
<1> QED
  BY <1>3, <1>4

LEMMA CreateIssueKeeps ==
    ASSUME BoardInv, NEW c \in Callers, NEW i \in IssueIds, CreateIssue(c, i)
    PROVE  BoardInv'
<1>1. PICK k \in Call : k = call[c] /\ k.pc = "ranked" /\ k.pc \in Counting
  BY CallTyped DEF CreateIssue, Counting
<1>2. k.p \in projects /\ k.p \in Projects /\ k.number = counter[k.p] /\ k.to \in States /\ k.number \in Nat /\ k.number >= 1 /\ k.prior = None
  BY <1>1 DEF BoardInv, BoardTypes, CountersInv
<1>3. PICK new : new = [p |-> k.p, number |-> k.number, rank |-> k.rank, state |-> k.to, assignee |-> k.who, completed |-> 0]
  OBVIOUS
<1>4. new \in Issue
  BY <1>1, <1>2, <1>3 DEF Issue, Call
<1>5. new.p = k.p /\ new.number = k.number /\ new.completed = 0 /\ new # NoIssue
  <2>1. new.p = k.p /\ new.number = k.number /\ new.completed = 0
    BY <1>3
  <2>2. NoIssue.number = 0
    BY DEF NoIssue
  <2> QED
    BY <1>2, <2>1, <2>2
<1>6. /\ i \notin Issues /\ issues' = [issues EXCEPT ![i] = new] /\ counter' = [counter EXCEPT ![k.p] = k.number + 1]
      /\ commits' = commits + 1 /\ Touch({i}, i)
      /\ UNCHANGED <<benv, projects, activity, notices>>
  BY <1>1, <1>3 DEF CreateIssue, Go, Commit
<1>a. PICK news \in BOOLEAN : news = (k.who # None)
  OBVIOUS
<1>b. PICK told : told = [k EXCEPT !.pc = "tell", !.news = news, !.since = 1]
  OBVIOUS
<1>c. told \in Call
  BY <1>b DEF Call, CallPcs
<1>d. told.pc = "tell" /\ told.news = news /\ told.who = k.who /\ told.prior = k.prior /\ told.at = k.at
  BY <1>b DEF Call
<1>e. call' = [call EXCEPT ![c] = told]
  BY <1>1, <1>a, <1>b, Zenon DEF CreateIssue, Go
<1>7. /\ issues' \in [IssueIds -> Issue] /\ issues'[i] = new
      /\ \A j \in IssueIds : j # i => issues'[j] = issues[j]
  BY <1>4, <1>6 DEF BoardInv, BoardTypes
<1>8. Issues' = Issues \cup {i}
  BY <1>5, <1>6, <1>7 DEF Issues
<1>9. /\ counter' \in [Projects -> Nat] /\ counter'[k.p] = k.number + 1
      /\ \A q \in Projects : q # k.p => counter'[q] = counter[q]
  BY <1>2, <1>6 DEF BoardInv, BoardTypes
<1>10. /\ call' \in [Callers -> Call] /\ call'[c] = told /\ \A d \in Callers : d # c => call'[d] = call[d]
  BY <1>c, <1>e DEF BoardInv, BoardTypes
<1>11. \A d \in Callers : call'[d].pc # "tell" => d # c
  BY <1>10, <1>d
<1>12. commits \in Nat
  BY DEF BoardInv, BoardTypes
<1>13. scan' \in Scan
  BY <1>6, TouchTyped
<1>14. BoardTypes'
  BY <1>6, <1>7, <1>9, <1>10, <1>12, <1>13 DEF BoardInv, BoardTypes
<1>15. CountersInv'
  <2>1. \A p \in projects' : counter'[p] >= 1
    BY <1>2, <1>6, <1>9 DEF BoardInv, CountersInv, BoardTypes
  <2>2. \A j \in Issues' : issues'[j].p \in projects'
    BY <1>2, <1>5, <1>6, <1>7, <1>8 DEF BoardInv, CountersInv, Issues
  <2>3. ASSUME NEW d \in Callers, call'[d].pc \in Counting
        PROVE  /\ d # c /\ call'[d] = call[d] /\ call[d].p # k.p
               /\ call'[d].p \in projects' /\ call'[d].number = counter'[call'[d].p] /\ call'[d].to \in States
               /\ call'[d].prior = None
    <3>1. d # c /\ call'[d] = call[d]
      BY <1>10, <1>11, <2>3 DEF Counting
    <3>2. call[d].p # k.p /\ call[d].p \in projects /\ call[d].number = counter[call[d].p] /\ call[d].to \in States
          /\ call[d].prior = None
      BY <1>1, <2>3, <3>1 DEF BoardInv, CountersInv
    <3> QED
      BY <1>6, <1>9, <3>1, <3>2 DEF BoardInv, BoardTypes
  <2>4. \A d, e \in Callers : call'[d].pc \in Counting /\ call'[e].pc \in Counting /\ call'[d].p = call'[e].p => d = e
    BY <2>3 DEF BoardInv, CountersInv
  <2> QED
    BY <2>1, <2>2, <2>3, <2>4 DEF CountersInv
<1>16. MoversInv'
  <2>1. ASSUME NEW d \in Callers, call'[d].pc \in Moving
        PROVE  call'[d] = call[d] /\ call[d].i \in Issues /\ issues'[call[d].i] = issues[call[d].i]
    <3>1. call'[d] = call[d]
      BY <1>10, <1>11, <2>1 DEF Moving
    <3>2. call[d].i \in Issues
      BY <2>1, <3>1 DEF BoardInv, MoversInv
    <3> QED
      BY <1>6, <1>7, <3>1, <3>2 DEF Issues
  <2> QED
    BY <1>8, <2>1 DEF BoardInv, MoversInv
<1>17. TellersInv'
  <2>1. ASSUME NEW d \in Callers, call'[d].pc \in {"read", "updating"}
        PROVE  call'[d].i \in Issues' /\ call'[d].since <= commits' /\ call'[d].since # commits'
    <3>1. call'[d] = call[d]
      BY <1>10, <1>11, <2>1
    <3>2. call[d].i \in Issues /\ call[d].since <= commits /\ call[d].since \in Nat
      BY <2>1, <3>1, CallTyped DEF BoardInv, TellersInv, Call
    <3> QED
      BY <1>6, <1>8, <1>12, <3>1, <3>2
  <2>2. ASSUME NEW d \in Callers, call'[d].pc = "tell", call'[d].since = 1
        PROVE  call'[d].news <=> call'[d].who # call'[d].prior
    <3>1. CASE d = c
      <4>1. call'[d].news = news /\ call'[d].who = k.who /\ call'[d].prior = None
        BY <1>2, <1>10, <1>d, <3>1
      <4> QED
        BY <1>a, <4>1, Zenon
    <3>2. CASE d # c
      BY <1>10, <2>2, <3>2 DEF BoardInv, TellersInv
    <3> QED
      BY <3>1, <3>2
  <2>3. ASSUME NEW d \in Callers
        PROVE  call'[d].at <= commits' /\ (call'[d].pc = "begun" => call'[d].i \in Issues' /\ call'[d].order = <<>>)
    <3>1. call'[d].at = call[d].at
      BY <1>1, <1>10, <1>d
    <3>2. call'[d].pc = "begun" => call'[d] = call[d]
      BY <1>10, <1>11
    <3> QED
      BY <1>6, <1>8, <3>1, <3>2, ClockFacts DEF BoardInv, TellersInv
  <2> QED
    BY <2>1, <2>2, <2>3 DEF TellersInv
<1>18. EntriesInv' /\ UntoldInv'
  <2>1. UntoldInv'
    BY <1>6, <1>8 DEF BoardInv, UntoldInv
  <2>2. ASSUME NEW j \in Issues', NEW kind \in {"state", "assignee"}
        PROVE  LineTells(activity'[j], kind, Current(j, kind)')
    <3>1. CASE j = i
      <4>1. activity'[j] = <<>>
        BY <1>6, <3>1 DEF BoardInv, UntoldInv
      <4> QED
        BY <4>1 DEF LineTells, Of
    <3>2. CASE j # i
      <4>1. j \in Issues /\ issues'[j] = issues[j]
        BY <1>7, <1>8, <3>2 DEF Issues
      <4> QED
        BY <1>6, <4>1 DEF BoardInv, EntriesInv, Current
    <3> QED
      BY <3>1, <3>2
  <2> QED
    BY <2>1, <2>2 DEF EntriesInv
<1>19. NoticesInv'
  BY <1>6 DEF BoardInv, NoticesInv
<1>20. PagesInv'
  <2>1. \A j \in Issues : j \in Issues' /\ issues'[j] = issues[j]
    BY <1>6, <1>7, <1>8 DEF Issues
  <2> QED
    BY <1>6, <2>1, PagesKept
<1>21. StampInv'
  BY <1>5, <1>6, <1>7, <1>8 DEF BoardInv, StampInv, Issues
<1>22. ASSUME NEW q \in projects'
       PROVE  /\ {issues'[j].number : j \in IssuesOf(q)'} = 1..(counter'[q] - 1)
              /\ Cardinality(IssuesOf(q)') = counter'[q] - 1
  <2>1. /\ q \in projects /\ q \in Projects /\ counter[q] \in Nat /\ counter[q] >= 1
        /\ {issues[j].number : j \in IssuesOf(q)} = 1..(counter[q] - 1)
        /\ Cardinality(IssuesOf(q)) = counter[q] - 1
    BY <1>6, <1>22 DEF BoardInv, NumbersDense, BoardTypes, CountersInv
  <2>2. \A j \in IssuesOf(q) : j # i /\ issues'[j] = issues[j]
    BY <1>6, <1>7 DEF IssuesOf, Issues
  <2>3. CASE q # k.p
    <3>1. IssuesOf(q)' = IssuesOf(q) /\ counter'[q] = counter[q]
      BY <1>5, <1>7, <1>8, <1>9, <2>1, <2>2, <2>3 DEF IssuesOf, Issues
    <3> QED
      BY <2>1, <2>2, <3>1
  <2>4. CASE q = k.p
    <3>1. IssuesOf(q)' = IssuesOf(q) \cup {i} /\ i \notin IssuesOf(q)
      BY <1>5, <1>6, <1>7, <1>8, <2>2, <2>4 DEF IssuesOf, Issues
    <3>2. {issues'[j].number : j \in IssuesOf(q)'} = {issues[j].number : j \in IssuesOf(q)} \cup {k.number}
      BY <1>5, <1>7, <2>2, <3>1
    <3>3. k.number = counter[q] /\ counter'[q] = counter[q] + 1
      BY <1>2, <1>9, <2>4
    <3>4. 1..(counter[q] - 1) \cup {counter[q]} = 1..(counter'[q] - 1)
      BY <2>1, <3>3
    <3>5. IsFiniteSet(IssuesOf(q))
      BY IdsFacts, FS_Subset DEF IssuesOf, Issues
    <3>6. Cardinality(IssuesOf(q) \cup {i}) = Cardinality(IssuesOf(q)) + 1
      BY <3>1, <3>5, FS_AddElement
    <3>7. Cardinality(IssuesOf(q)') = counter'[q] - 1
      BY <2>1, <3>1, <3>3, <3>6
    <3> QED
      BY <2>1, <3>2, <3>3, <3>4, <3>7
  <2> QED
    BY <2>3, <2>4
<1>23. NumbersDense'
  BY <1>22 DEF NumbersDense
<1> QED
  BY <1>14, <1>15, <1>16, <1>17, <1>18, <1>19, <1>20, <1>21, <1>23 DEF BoardInv

-----------------------------------------------------------------------------
(* Moves and updates.                                                      *)

\* An entry that starts at the current value and ends elsewhere goes on with the line of
\* its kind, and leaves the other alone.
LEMMA LineGoesOn ==
    ASSUME NEW line \in Seq(Entry), NEW x \in Entry, NEW now,
           LineTells(line, x.kind, now), x.from = now, x.to # now
    PROVE  LineTells(Append(line, x), x.kind, x.to)
<1>1. PICK kind : kind = x.kind
  OBVIOUS
<1>2. PICK n \in Nat : n = Len(line)
  OBVIOUS
<1>3. PICK long : long = Append(line, x)
  OBVIOUS
<1>4. /\ DOMAIN long = 1..(n + 1) /\ long[n + 1] = x /\ \A m \in 1..n : long[m] = line[m]
      /\ DOMAIN line = 1..n
  BY <1>2, <1>3
<1>5. Of(long, kind) = Of(line, kind) \cup {n + 1}
  BY <1>1, <1>4 DEF Of
<1>6. Of(line, kind) \subseteq 1..n
  BY <1>4 DEF Of
<1>7. ASSUME NEW m \in Of(long, kind)
      PROVE  /\ long[m].from # long[m].to
             /\ \/ (\A l \in Of(long, kind) : l <= m) /\ long[m].to = x.to
                \/ \E l \in Of(long, kind) :
                     /\ m < l /\ \A o \in Of(long, kind) : o <= m \/ l <= o
                     /\ long[m].to = long[l].from
  <2>1. CASE m = n + 1
    BY <1>4, <1>5, <1>6, <2>1
  <2>2. CASE m # n + 1
    <3>1. m \in Of(line, kind) /\ m \in 1..n /\ long[m] = line[m]
      BY <1>4, <1>5, <1>6, <2>2
    <3>2. CASE (\A l \in Of(line, kind) : l <= m) /\ line[m].to = now
      <4>1. n + 1 \in Of(long, kind) /\ m < n + 1 /\ long[m].to = long[n + 1].from
        BY <1>4, <1>5, <3>1, <3>2
      <4>2. \A o \in Of(long, kind) : o <= m \/ n + 1 <= o
        BY <1>5, <3>2
      <4> QED
        BY <1>1, <3>1, <4>1, <4>2 DEF LineTells
    <3>3. CASE \E l \in Of(line, kind) :
                 /\ m < l /\ \A o \in Of(line, kind) : o <= m \/ l <= o
                 /\ line[m].to = line[l].from
      <4>1. PICK l \in Of(line, kind) :
                 /\ m < l /\ \A o \in Of(line, kind) : o <= m \/ l <= o
                 /\ line[m].to = line[l].from
        BY <3>3
      <4>2. l \in 1..n /\ long[l] = line[l] /\ l \in Of(long, kind)
        BY <1>4, <1>5, <1>6, <4>1
      <4>3. \A o \in Of(long, kind) : o <= m \/ l <= o
        BY <1>5, <4>1, <4>2
      <4> QED
        BY <1>1, <3>1, <4>1, <4>2, <4>3 DEF LineTells
    <3> QED
      BY <1>1, <3>1, <3>2, <3>3 DEF LineTells
  <2> QED
    BY <2>1, <2>2
<1> QED
  BY <1>1, <1>3, <1>7 DEF LineTells

LEMMA OtherLineStays ==
    ASSUME NEW line \in Seq(Entry), NEW x \in Entry, NEW kind, kind # x.kind, NEW now, LineTells(line, kind, now)
    PROVE  LineTells(Append(line, x), kind, now)
<1>2. PICK n \in Nat : n = Len(line)
  OBVIOUS
<1>3. PICK long : long = Append(line, x)
  OBVIOUS
<1>4. /\ DOMAIN long = 1..(n + 1) /\ long[n + 1] = x /\ \A m \in 1..n : long[m] = line[m]
      /\ DOMAIN line = 1..n
  BY <1>2, <1>3
<1>5. Of(long, kind) = Of(line, kind) /\ \A m \in Of(line, kind) : long[m] = line[m]
  BY <1>4 DEF Of
<1>6. ASSUME NEW m \in Of(long, kind)
      PROVE  /\ long[m].from # long[m].to
             /\ \/ (\A l \in Of(long, kind) : l <= m) /\ long[m].to = now
                \/ \E l \in Of(long, kind) :
                     /\ m < l /\ \A o \in Of(long, kind) : o <= m \/ l <= o
                     /\ long[m].to = long[l].from
  <2>1. m \in Of(line, kind) /\ long[m] = line[m]
    BY <1>5
  <2>2. CASE (\A l \in Of(line, kind) : l <= m) /\ line[m].to = now
    BY <1>5, <2>1, <2>2 DEF LineTells
  <2>3. CASE \E l \in Of(line, kind) :
               /\ m < l /\ \A o \in Of(line, kind) : o <= m \/ l <= o
               /\ line[m].to = line[l].from
    <3>1. line[m].from # line[m].to
      BY <2>1 DEF LineTells
    <3> QED
      BY <1>5, <2>1, <2>3, <3>1
  <2> QED
    BY <2>1, <2>2, <2>3 DEF LineTells
<1> QED
  BY <1>3, <1>6 DEF LineTells

\* The issues stay the same issues, with their numbers.
LEMMA SameIssues ==
    ASSUME BoardInv, issues' \in [IssueIds -> Issue],
           \A i \in Issues : issues'[i].p = issues[i].p /\ issues'[i].number = issues[i].number,
           \A i \in IssueIds \ Issues : issues'[i] = issues[i],
           UNCHANGED <<projects, counter>>
    PROVE  Issues' = Issues /\ NumbersDense'
<1>1. \A i \in Issues : issues'[i] # NoIssue
  <2>1. NoIssue.number = 0
    BY DEF NoIssue
  <2> QED
    BY <2>1, IssueIsSound
<1>2. Issues' = Issues
  BY <1>1 DEF Issues
<1>3. ASSUME NEW q \in projects
      PROVE  IssuesOf(q)' = IssuesOf(q) /\ {issues'[i].number : i \in IssuesOf(q)} = {issues[i].number : i \in IssuesOf(q)}
  BY <1>2 DEF IssuesOf
<1>4. NumbersDense'
  BY <1>3 DEF BoardInv, NumbersDense
<1> QED
  BY <1>2, <1>4

LEMMA MoveKeeps ==
    ASSUME BoardInv, NEW c \in Callers, Move(c)
    PROVE  BoardInv'
<1>1. PICK k \in Call : k = call[c] /\ k.pc = "placed" /\ k.pc \in Moving
  BY CallTyped DEF Move, Moving
<1>2. k.i \in Issues /\ k.i \in IssueIds /\ k.from = issues[k.i].state /\ k.to \in States /\ k.from \in States /\ k.rank \in RankType
  BY <1>1 DEF BoardInv, MoversInv, BoardTypes, Issue, Issues, Call
<1>3. PICK view \in RankMap : view = View(c) /\ \A i \in IssueIds \ Issues : view[i] = issues[i].rank
  BY <1>1, ViewTyped
<1>4. commits \in Nat /\ issues \in [IssueIds -> Issue]
  BY DEF BoardInv, BoardTypes
<1>5. PICK done \in Nat : done = CompletedAt(k.i, k.to)
  BY <1>2, <1>4 DEF CompletedAt, Issue
<1>6. issues' = [j \in IssueIds |-> IF j = k.i THEN [issues[j] EXCEPT !.rank = k.rank, !.state = k.to, !.completed = done]
                                    ELSE [issues[j] EXCEPT !.rank = view[j]]]
  BY <1>1, <1>3, <1>5 DEF Move
<1>7. PICK mine : mine = [issues[k.i] EXCEPT !.rank = k.rank, !.state = k.to, !.completed = done]
  OBVIOUS
<1>8. /\ mine \in Issue /\ mine.rank = k.rank /\ mine.state = k.to /\ mine.completed = done /\ mine.p = issues[k.i].p
      /\ mine.number = issues[k.i].number /\ mine.assignee = issues[k.i].assignee
  BY <1>2, <1>4, <1>7 DEF Issue
<1>9. issues'[k.i] = mine
  BY <1>2, <1>6, <1>7
<1>10. ASSUME NEW j \in IssueIds, j # k.i
       PROVE  /\ issues'[j] \in Issue /\ issues'[j].rank = view[j] /\ issues'[j].p = issues[j].p
              /\ issues'[j].number = issues[j].number /\ issues'[j].assignee = issues[j].assignee
              /\ issues'[j].state = issues[j].state /\ issues'[j].completed = issues[j].completed
              /\ j \notin Issues => issues'[j] = issues[j]
  <2>1. issues'[j] = [issues[j] EXCEPT !.rank = view[j]]
    BY <1>6, <1>10
  <2>2. issues[j] \in Issue /\ view[j] \in RankType
    BY <1>4 DEF RankMap
  <2>3. j \notin Issues => issues'[j] = issues[j]
    BY <1>3, <2>1, <2>2 DEF Issue
  <2> QED
    BY <2>1, <2>2, <2>3 DEF Issue
<1>11. issues' \in [IssueIds -> Issue]
  <2>1. \A j \in IssueIds : issues'[j] \in Issue
    BY <1>8, <1>9, <1>10
  <2> QED
    BY <1>6, <2>1
<1>12. \A i \in Issues : issues'[i].p = issues[i].p /\ issues'[i].number = issues[i].number /\ issues'[i].assignee = issues[i].assignee
  BY <1>8, <1>9, <1>10 DEF Issues
<1>13. UNCHANGED <<benv, projects, counter, notices>>
  BY DEF Move
<1>14. Issues' = Issues /\ NumbersDense'
  <2>1. \A i \in IssueIds \ Issues : issues'[i] = issues[i]
    BY <1>2, <1>10
  <2> QED
    BY <1>11, <1>12, <1>13, <2>1, SameIssues
<1>15. /\ call' \in [Callers -> Call] /\ call'[c] = IdleCall /\ \A d \in Callers : d # c => call'[d] = call[d]
  BY IdleTyped DEF BoardInv, BoardTypes, Move, Go
<1>16. \A d \in Callers : call'[d].pc # "idle" => d # c
  <2>1. IdleCall.pc = "idle"
    BY DEF IdleCall
  <2> QED
    BY <1>15, <2>1
<1>17. commits' = commits + 1
  BY DEF Move, Commit
<1>18. PICK touched \in SUBSET IssueIds : touched = {j \in Issues : issues'[j].rank # issues[j].rank} /\ Touch(touched, k.i)
  BY <1>1 DEF Move, Issues
<1>19. scan' \in Scan
  BY <1>2, <1>18, TouchTyped
<1>20. PagesInv'
  <2>1. \A i \in Issues : i \in Issues' /\ issues'[i].p = issues[i].p
    BY <1>12, <1>14
  <2>2. \A i \in Issues \ touched : i \in Issues' /\ issues'[i].rank = issues[i].rank
    BY <1>14, <1>18
  <2> QED
    BY <1>2, <1>18, <2>1, <2>2, PagesKept
<1>21. PICK line : line = activity[k.i]
  OBVIOUS
<1>22. line \in Seq(Entry)
  BY <1>2, <1>21 DEF BoardInv, BoardTypes
<1>23. PICK x : x = TimelineEntry(k, "state", k.from, k.to)
  OBVIOUS
<1>24. x \in Entry /\ x.kind = "state" /\ x.from = k.from /\ x.to = k.to
  BY <1>1, <1>2, <1>23, ClockFacts DEF Entry, StateEntry, TimelineEntry
<1>25. activity' = IF k.to = k.from THEN activity ELSE [activity EXCEPT ![k.i] = Append(line, x)]
  BY <1>1, <1>21, <1>23 DEF Move
<1>26. /\ activity' \in [IssueIds -> Seq(Entry)]
       /\ \A j \in IssueIds : j # k.i => activity'[j] = activity[j]
       /\ activity'[k.i] = IF k.to = k.from THEN line ELSE Append(line, x)
  BY <1>2, <1>21, <1>22, <1>24, <1>25 DEF BoardInv, BoardTypes
<1>27. BoardTypes'
  BY <1>4, <1>11, <1>13, <1>15, <1>17, <1>19, <1>26 DEF BoardInv, BoardTypes
<1>28. CountersInv'
  <2>1. \A d \in Callers : call'[d].pc \in Counting => call'[d] = call[d]
    BY <1>15, <1>16 DEF Counting
  <2> QED
    BY <1>12, <1>13, <1>14, <2>1 DEF BoardInv, CountersInv
<1>29. MoversInv'
  <2>1. ASSUME NEW d \in Callers, call'[d].pc \in Moving
        PROVE  call'[d] = call[d] /\ call[d].i \in Issues /\ issues'[call[d].i].state = issues[call[d].i].state
    <3>1. d # c /\ call'[d] = call[d]
      BY <1>15, <1>16, <2>1 DEF Moving
    <3>2. call[d].i \in Issues /\ call[d].i # k.i
      BY <1>1, <2>1, <3>1 DEF BoardInv, MoversInv
    <3> QED
      BY <1>10, <3>1, <3>2 DEF Issues
  <2> QED
    BY <1>14, <2>1 DEF BoardInv, MoversInv
<1>30. TellersInv'
  <2>1. ASSUME NEW d \in Callers, call'[d].pc \in {"read", "updating"}
        PROVE  call'[d].i \in Issues' /\ call'[d].since <= commits' /\ call'[d].since # commits'
    <3>1. call'[d] = call[d]
      BY <1>15, <1>16, <2>1
    <3>2. call[d].i \in Issues /\ call[d].since <= commits /\ call[d].since \in Nat
      BY <2>1, <3>1, CallTyped DEF BoardInv, TellersInv, Call
    <3> QED
      BY <1>4, <1>14, <1>17, <3>1, <3>2
  <2>2. ASSUME NEW d \in Callers, call'[d].pc = "tell"
        PROVE  call'[d] = call[d]
    BY <1>15, <1>16, <2>2
  <2>3. ASSUME NEW d \in Callers
        PROVE  call'[d].at <= commits' /\ (call'[d].pc = "begun" => call'[d].i \in Issues' /\ call'[d].order = <<>>)
    <3>1. CASE d = c
      <4>1. call'[d].pc = "idle" /\ call'[d].at = 0
        BY <1>15, <3>1, IdleFacts, Zenon
      <4> QED
        BY <1>17, <4>1, ClockFacts
    <3>2. CASE d # c
      BY <1>14, <1>15, <1>17, <3>2, ClockFacts DEF BoardInv, TellersInv
    <3> QED
      BY <3>1, <3>2
  <2> QED
    BY <2>1, <2>2, <2>3 DEF BoardInv, TellersInv
<1>31. UntoldInv' /\ NoticesInv'
  BY <1>2, <1>13, <1>14, <1>26 DEF BoardInv, UntoldInv, NoticesInv
<1>32. ASSUME NEW i \in Issues, NEW kind \in {"state", "assignee"}
       PROVE  LineTells(activity'[i], kind, Current(i, kind)')
  <2>1. LineTells(activity[i], kind, Current(i, kind))
    BY <1>32 DEF BoardInv, EntriesInv
  <2>2. CASE i # k.i
    <3>1. i \in IssueIds
      BY DEF Issues
    <3>2. Current(i, kind)' = Current(i, kind) /\ activity'[i] = activity[i]
      BY <1>10, <1>26, <2>2, <3>1 DEF Current
    <3> QED
      BY <2>1, <3>2
  <2>3. CASE i = k.i /\ k.to = k.from
    <3>1. Current(i, kind)' = Current(i, kind) /\ activity'[i] = activity[i]
      BY <1>2, <1>8, <1>9, <1>21, <1>26, <2>3 DEF Current
    <3> QED
      BY <2>1, <3>1
  <2>4. CASE i = k.i /\ k.to # k.from /\ kind = "state"
    <3>1. Current(i, kind)' = x.to /\ Current(i, kind) = x.from /\ activity'[i] = Append(line, x) /\ x.kind = kind
      BY <1>2, <1>8, <1>9, <1>24, <1>26, <2>4 DEF Current
    <3>2. LineTells(Append(line, x), x.kind, x.to)
      BY <1>21, <1>22, <1>24, <2>1, <2>4, <3>1, LineGoesOn
    <3> QED
      BY <3>1, <3>2
  <2>5. CASE i = k.i /\ k.to # k.from /\ kind = "assignee"
    <3>1. Current(i, kind)' = Current(i, kind) /\ activity'[i] = Append(line, x) /\ kind # x.kind
      BY <1>8, <1>9, <1>24, <1>26, <2>5 DEF Current
    <3>2. LineTells(Append(line, x), kind, Current(i, kind))
      BY <1>21, <1>22, <1>24, <2>1, <2>5, <3>1, OtherLineStays
    <3> QED
      BY <3>1, <3>2
  <2> QED
    BY <2>2, <2>3, <2>4, <2>5
<1>33. EntriesInv'
  BY <1>14, <1>32 DEF EntriesInv
<1>34. StampInv'
  <2>1. ~Completed(k.to) => done = 0
    BY <1>5 DEF CompletedAt
  <2> QED
    BY <1>8, <1>9, <1>10, <1>14, <2>1 DEF BoardInv, StampInv, Issues
<1> QED
  BY <1>14, <1>20, <1>27, <1>28, <1>29, <1>30, <1>31, <1>33, <1>34 DEF BoardInv

LEMMA UpdateKeeps ==
    ASSUME BoardInv, NEW c \in Callers, Update(c)
    PROVE  BoardInv'
<1>1. PICK k \in Call : k = call[c] /\ k.pc = "updating"
  BY CallTyped DEF Update
<1>2. /\ k.i \in Issues /\ k.i \in IssueIds /\ issues[k.i] \in Issue
      /\ k.since = commits => k.prior = issues[k.i].assignee
  BY <1>1 DEF BoardInv, TellersInv, BoardTypes, Issues
<1>3. PICK was \in People0 : was = issues[k.i].assignee
  BY <1>2 DEF Issue
<1>4. PICK now \in People0 : now = IF k.who = Keep THEN was ELSE k.who
  BY DEF Call
<1>5. PICK changed \in BOOLEAN : changed = (k.who # Keep /\ k.who # was)
  OBVIOUS
<1>6. changed <=> now # was
  BY <1>4, <1>5
<1>7. commits \in Nat /\ issues \in [IssueIds -> Issue]
  BY DEF BoardInv, BoardTypes
<1>8. PICK mine : mine = [issues[k.i] EXCEPT !.assignee = now]
  OBVIOUS
<1>9. /\ mine \in Issue /\ mine.assignee = now /\ mine.state = issues[k.i].state /\ mine.p = issues[k.i].p
      /\ mine.number = issues[k.i].number /\ mine.rank = issues[k.i].rank /\ mine.completed = issues[k.i].completed
  BY <1>2, <1>8 DEF Issue
<1>10. issues' = [issues EXCEPT ![k.i] = mine]
  BY <1>1, <1>3, <1>4, <1>8 DEF Update
<1>11. issues' \in [IssueIds -> Issue] /\ issues'[k.i] = mine /\ \A j \in IssueIds : j # k.i => issues'[j] = issues[j]
  BY <1>2, <1>7, <1>9, <1>10
<1>12. /\ UNCHANGED <<benv, projects, counter, notices, scan>> /\ commits' = commits + 1
  BY DEF Update, Commit
<1>13. \A i \in Issues : /\ issues'[i].p = issues[i].p /\ issues'[i].number = issues[i].number
                         /\ issues'[i].state = issues[i].state /\ issues'[i].rank = issues[i].rank
                         /\ issues'[i].completed = issues[i].completed
  BY <1>9, <1>11 DEF Issues
<1>14. Issues' = Issues /\ NumbersDense'
  <2>1. \A i \in IssueIds \ Issues : issues'[i] = issues[i]
    BY <1>2, <1>11
  <2> QED
    BY <1>11, <1>12, <1>13, <2>1, SameIssues
<1>15. PICK since \in Nat : since = IF k.since = commits THEN 1 ELSE 0
  OBVIOUS
<1>16. PICK told : told = [k EXCEPT !.pc = "tell", !.who = now, !.news = changed, !.since = since]
  OBVIOUS
<1>17. told \in Call /\ told.pc = "tell" /\ told.who = now /\ told.news = changed /\ told.since = since /\ told.prior = k.prior /\ told.at = k.at
  <2>1. told.pc = "tell" /\ told.who = now /\ told.since = since /\ told.prior = k.prior /\ told.at = k.at
    BY <1>16 DEF Call
  <2>2. told.news = changed
    BY <1>16 DEF Call
  <2>3. told \in Call
    BY <1>16 DEF Call, CallPcs
  <2> QED
    BY <2>1, <2>2, <2>3
<1>18. call' = [call EXCEPT ![c] = told]
  <2>1. issues'[call[c].i].assignee = now
    BY <1>1, <1>9, <1>11
  <2>2. (call[c].who # Keep /\ call[c].who # PreviousAssignee(c)) = changed
    BY <1>1, <1>3, <1>5, Zenon DEF PreviousAssignee
  <2> QED
    BY <1>1, <1>15, <1>16, <2>1, <2>2, Zenon DEF Update, Go
<1>19. call' \in [Callers -> Call] /\ call'[c] = told /\ \A d \in Callers : d # c => call'[d] = call[d]
  BY <1>17, <1>18 DEF BoardInv, BoardTypes
<1>20. PICK line : line = activity[k.i]
  OBVIOUS
<1>21. line \in Seq(Entry)
  BY <1>2, <1>20 DEF BoardInv, BoardTypes
<1>22. PICK x : x = TimelineEntry(k, "assignee", was, k.who)
  OBVIOUS
<1>23. x \in Entry /\ x.kind = "assignee" /\ x.from = was /\ x.to = k.who
  <2>1. k.at \in Nat /\ k.at < commits + 1 /\ commits + 1 \in Nat
    BY <1>1, ClockFacts
  <2>2. k.who \in People0 /\ was \in People0
    BY <1>1, <1>2, <1>3, <1>7 DEF Call, Issue
  <2> QED
    BY <1>22, <2>1, <2>2 DEF Entry, AssigneeEntry, TimelineEntry
<1>24. activity' = IF ~changed THEN activity ELSE [activity EXCEPT ![k.i] = Append(line, x)]
  <2>1. PreviousAssignee(c) = was
    BY <1>1, <1>3 DEF PreviousAssignee
  <2> QED
    BY <1>1, <1>5, <1>20, <1>22, <2>1, Zenon DEF Update
<1>25. /\ activity' \in [IssueIds -> Seq(Entry)]
       /\ \A j \in IssueIds : j # k.i => activity'[j] = activity[j]
       /\ changed => activity'[k.i] = Append(line, x)
       /\ ~changed => activity'[k.i] = line
  BY <1>2, <1>20, <1>21, <1>23, <1>24 DEF BoardInv, BoardTypes
<1>26. BoardTypes'
  BY <1>7, <1>11, <1>12, <1>19, <1>25 DEF BoardInv, BoardTypes
<1>27. CountersInv'
  <2>1. \A d \in Callers : call'[d].pc \in Counting => call'[d] = call[d]
    BY <1>17, <1>19 DEF Counting
  <2> QED
    BY <1>12, <1>13, <1>14, <2>1 DEF BoardInv, CountersInv
<1>28. MoversInv'
  <2>1. ASSUME NEW d \in Callers, call'[d].pc \in Moving
        PROVE  call'[d] = call[d] /\ call[d].i \in Issues
    <3>1. call'[d] = call[d]
      BY <1>17, <1>19, <2>1 DEF Moving
    <3> QED
      BY <2>1, <3>1 DEF BoardInv, MoversInv
  <2> QED
    BY <1>13, <1>14, <2>1 DEF BoardInv, MoversInv
<1>29. TellersInv'
  <2>1. ASSUME NEW d \in Callers, call'[d].pc \in {"read", "updating"}
        PROVE  call'[d].i \in Issues' /\ call'[d].since <= commits' /\ call'[d].since # commits'
    <3>1. call'[d] = call[d]
      BY <1>17, <1>19, <2>1
    <3>2. call[d].i \in Issues /\ call[d].since <= commits /\ call[d].since \in Nat
      BY <2>1, <3>1, CallTyped DEF BoardInv, TellersInv, Call
    <3> QED
      BY <1>7, <1>12, <1>14, <3>1, <3>2
  <2>2. ASSUME NEW d \in Callers, call'[d].pc = "tell", call'[d].since = 1
        PROVE  call'[d].news <=> call'[d].who # call'[d].prior
    <3>1. CASE d = c
      <4>1. k.prior = was
        BY <1>2, <1>3, <1>15, <1>17, <1>19, <2>2, <3>1
      <4>2. call'[d].news = changed /\ call'[d].who = now /\ call'[d].prior = was
        BY <1>17, <1>19, <3>1, <4>1
      <4>3. CASE changed
        BY <1>6, <4>2, <4>3
      <4>4. CASE ~changed
        BY <1>6, <4>2, <4>4
      <4> QED
        BY <4>3, <4>4
    <3>2. CASE d # c
      BY <1>19, <2>2, <3>2 DEF BoardInv, TellersInv
    <3> QED
      BY <3>1, <3>2
  <2>3. ASSUME NEW d \in Callers
        PROVE  call'[d].at <= commits' /\ (call'[d].pc = "begun" => call'[d].i \in Issues' /\ call'[d].order = <<>>)
    <3>1. CASE d = c
      BY <1>1, <1>12, <1>17, <1>19, <3>1, ClockFacts
    <3>2. CASE d # c
      BY <1>12, <1>14, <1>19, <3>2, ClockFacts DEF BoardInv, TellersInv
    <3> QED
      BY <3>1, <3>2
  <2> QED
    BY <2>1, <2>2, <2>3 DEF TellersInv
<1>30. UntoldInv' /\ NoticesInv'
  BY <1>2, <1>12, <1>14, <1>25 DEF BoardInv, UntoldInv, NoticesInv
<1>31. ASSUME NEW i \in Issues, NEW kind \in {"state", "assignee"}
       PROVE  LineTells(activity'[i], kind, Current(i, kind)')
  <2>1. LineTells(activity[i], kind, Current(i, kind))
    BY <1>31 DEF BoardInv, EntriesInv
  <2>2. CASE i # k.i
    <3>1. i \in IssueIds
      BY DEF Issues
    <3>2. Current(i, kind)' = Current(i, kind) /\ activity'[i] = activity[i]
      BY <1>11, <1>25, <2>2, <3>1 DEF Current
    <3> QED
      BY <2>1, <3>2
  <2>3. CASE i = k.i /\ ~changed
    <3>1. Current(i, kind)' = Current(i, kind) /\ activity'[i] = activity[i]
      BY <1>3, <1>6, <1>9, <1>11, <1>20, <1>25, <2>3 DEF Current
    <3> QED
      BY <2>1, <3>1
  <2>4. CASE i = k.i /\ changed /\ kind = "assignee"
    <3>1. now = k.who /\ now # was
      BY <1>4, <1>5, <2>4
    <3>2. Current(i, kind)' = x.to /\ Current(i, kind) = x.from /\ activity'[i] = Append(line, x) /\ x.kind = kind
      BY <1>3, <1>9, <1>11, <1>23, <1>25, <2>4, <3>1 DEF Current
    <3>3. LineTells(Append(line, x), x.kind, x.to)
      BY <1>20, <1>21, <1>23, <2>1, <2>4, <3>1, <3>2, LineGoesOn
    <3> QED
      BY <3>2, <3>3
  <2>5. CASE i = k.i /\ changed /\ kind = "state"
    <3>1. Current(i, kind)' = Current(i, kind) /\ activity'[i] = Append(line, x) /\ kind # x.kind
      BY <1>9, <1>11, <1>23, <1>25, <2>5 DEF Current
    <3>2. LineTells(Append(line, x), kind, Current(i, kind))
      BY <1>20, <1>21, <1>23, <2>1, <2>5, <3>1, OtherLineStays
    <3> QED
      BY <3>1, <3>2
  <2> QED
    BY <2>2, <2>3, <2>4, <2>5
<1>32. EntriesInv'
  BY <1>14, <1>31 DEF EntriesInv
<1>33. StampInv'
  BY <1>13, <1>14 DEF BoardInv, StampInv
<1>34. PagesInv'
  <2>1. \A i \in Issues : (i \in IssuesOf(scan.p)') = (i \in IssuesOf(scan.p)) /\ AfterCursor(i)' = AfterCursor(i)
    BY <1>12, <1>13, <1>14 DEF IssuesOf, AfterCursor
  <2>2. \A i : Shown(i)' = Shown(i) /\ Hidden(i)' = Hidden(i)
    BY <1>12 DEF Shown, Hidden
  <2>3. scan.on => \A i \in scan.base : i \in Issues
    BY DEF BoardInv, PagesInv, IssuesOf
  <2>4. CASE scan.on
    BY <1>12, <2>1, <2>2, <2>3, <2>4 DEF BoardInv, PagesInv
  <2>5. CASE ~scan.on
    BY <1>12, <2>2, <2>5 DEF BoardInv, PagesInv
  <2> QED
    BY <2>4, <2>5
<1> QED
  BY <1>14, <1>26, <1>27, <1>28, <1>29, <1>30, <1>32, <1>33, <1>34 DEF BoardInv

-----------------------------------------------------------------------------
(* A client that pages.                                                    *)

LEMMA NoScanTyped == NoScan \in Scan /\ NoScan.seen = <<>> /\ NoScan.at = None /\ NoScan.base = {} /\ ~NoScan.on
<1> DEFINE e == <<>>
           s == {}
<1>1. e \in RankType /\ e \in Seq(IssueIds) /\ s \in SUBSET IssueIds
  BY DEF RankType
<1>2. PICK f \in BOOLEAN : f = FALSE
  OBVIOUS
<1> HIDE DEF e, s
<1>3. NoScan = [on |-> f, p |-> None, base |-> s, at |-> None, atRank |-> e, seen |-> e, touched |-> s, dragged |-> s]
  BY <1>2 DEF e, s, NoScan
<1>4. NoScan \in Scan
  BY <1>1, <1>3 DEF Scan
<1>5. NoScan.seen = <<>> /\ NoScan.at = None /\ NoScan.base = {} /\ ~NoScan.on
  BY DEF NoScan
<1> QED
  BY <1>4, <1>5

\* A step of a listing leaves the board alone.
LEMMA ScanStep ==
    ASSUME BoardInv, scan' \in Scan, PagesInv', "actor" \in DOMAIN benv', benv'.actor = benv.actor,
           UNCHANGED <<projects, counter, issues, activity, call, notices, commits>>
    PROVE  BoardInv'
<1>1. Issues' = Issues
  BY DEF Issues
<1>2. BoardTypes'
  BY DEF BoardInv, BoardTypes
<1>3. CountersInv' /\ MoversInv' /\ TellersInv'
  BY <1>1 DEF BoardInv, CountersInv, MoversInv, TellersInv
<1>4. EntriesInv' /\ UntoldInv' /\ NoticesInv'
  BY <1>1 DEF BoardInv, EntriesInv, UntoldInv, NoticesInv, Current
<1>5. StampInv' /\ NumbersDense'
  BY <1>1 DEF BoardInv, StampInv, NumbersDense, IssuesOf
<1> QED
  BY <1>2, <1>3, <1>4, <1>5 DEF BoardInv

LEMMA ScanBeginKeeps ==
    ASSUME BoardInv, NEW p \in Projects, ScanBegin(p)
    PROVE  BoardInv'
<1>1. PICK base \in SUBSET IssueIds : base = IssuesOf(p)
  BY DEF IssuesOf, Issues
<1>2. PICK yes \in BOOLEAN : yes = TRUE
  OBVIOUS
<1>3. scan' = [NoScan EXCEPT !.on = yes, !.p = p, !.base = base]
  BY <1>1, <1>2 DEF ScanBegin
<1>4. scan' \in Scan /\ scan'.p = p /\ scan'.base = base /\ scan'.at = NoScan.at /\ scan'.seen = NoScan.seen
  BY <1>3, NoScanTyped DEF Scan
<1>5. scan'.on = yes
  BY <1>3, NoScanTyped DEF Scan
<1>6. \A i : AfterCursor(i)' /\ Hidden(i)'
  BY <1>4, NoScanTyped DEF AfterCursor, Hidden
<1>7. issues' = issues
  BY DEF ScanBegin
<1>8. \A i \in base : i \in IssuesOf(scan.p)'
  BY <1>1, <1>4, <1>7 DEF IssuesOf, Issues
<1>9. PagesInv'
  BY <1>2, <1>4, <1>5, <1>6, <1>8 DEF PagesInv
<1>10. "actor" \in DOMAIN benv' /\ benv'.actor = benv.actor
  BY SpendKeeps DEF ScanBegin, BoardInv
<1> QED
  BY <1>4, <1>9, <1>10, ScanStep DEF ScanBegin

\* The first of some cards.
LEMMA FirstCard ==
    ASSUME NEW rank \in RankMap, NEW S \in SUBSET IssueIds, S # {}
    PROVE  /\ Ordered(S, rank)[1] \in S
           /\ \A y \in S : y = Ordered(S, rank)[1] \/ CardAhead(rank, Ordered(S, rank)[1], y)
<1>0. PICK n \in Nat : n = Cardinality(S)
  BY OrderedSorts
<1>1. PICK s \in [1..n -> S] : s = Ordered(S, rank)
  BY <1>0, OrderedSorts
<1>2. n >= 1
  BY <1>0, OrderedSorts, FS_EmptySet
<1>3. ASSUME NEW y \in S PROVE y = s[1] \/ CardAhead(rank, s[1], y)
  <2>1. PICK m \in 1..n : s[m] = y
    BY <1>0, <1>1, OrderedSorts
  <2>2. CASE m = 1
    BY <2>1, <2>2
  <2>3. CASE m # 1
    <3>1. 1 < m /\ 1 \in DOMAIN s /\ m \in DOMAIN s
      BY <1>2, <2>3
    <3>2. Sorted(s, rank)
      BY <1>1, OrderedSorts
    <3> QED
      BY <2>1, <3>1, <3>2 DEF Sorted, CardAhead
  <2> QED
    BY <2>2, <2>3
<1> QED
  BY <1>1, <1>2, <1>3

LEMMA ListKeeps ==
    ASSUME BoardInv, List
    PROVE  BoardInv'
<1>1. scan \in Scan /\ scan.on /\ Ranks \in RankMap /\ issues \in [IssueIds -> Issue]
  BY RanksTyped DEF BoardInv, BoardTypes, List
<1>2. PICK rest \in SUBSET IssueIds : rest = {i \in IssuesOf(scan.p) : AfterCursor(i)}
  BY DEF IssuesOf, Issues
<1>3. \A i \in scan.base : /\ i \in IssuesOf(scan.p)
                           /\ i \notin scan.touched => IF AfterCursor(i) THEN Hidden(i) ELSE Shown(i)
  BY <1>1 DEF BoardInv, PagesInv
<1>4. UNCHANGED <<benv, projects, counter, issues, activity, call, notices, commits>>
  BY DEF List
<1>5. scan' \in Scan /\ PagesInv'
  <2>1. CASE rest = {}
    <3>1. PICK no \in BOOLEAN : no = FALSE
      OBVIOUS
    <3>2. scan' = [scan EXCEPT !.on = no]
      BY <1>2, <2>1, <3>1 DEF List
    <3>3. scan' \in Scan /\ scan'.base = scan.base /\ scan'.touched = scan.touched /\ scan'.seen = scan.seen
      BY <1>1, <3>2 DEF Scan
    <3>4. scan'.on = no
      BY <1>1, <3>2 DEF Scan
    <3>5. \A i \in scan.base \ scan.touched : Shown(i)
      BY <1>2, <1>3, <2>1
    <3>6. \A i : Shown(i)' = Shown(i)
      BY <3>3 DEF Shown
    <3>7. PagesInv'
      BY <3>1, <3>3, <3>4, <3>5, <3>6 DEF PagesInv
    <3> QED
      BY <3>3, <3>7
  <2>2. CASE rest # {}
    <3>1. PICK card \in rest : card = Ordered(rest, Ranks)[1] /\ \A y \in rest : y = card \/ CardAhead(Ranks, card, y)
      BY <1>1, <2>2, FirstCard
    <3>0. PICK size \in Nat : size = Cardinality(rest) /\ IsFiniteSet(rest)
      BY IdsFacts, FS_Subset, FS_CardinalityType
    <3>a. (size > 1) \in BOOLEAN
      OBVIOUS
    <3>2. PICK more \in BOOLEAN : more = (size > 1)
      BY <3>a, Zenon
    <3>3. card \in IssueIds /\ issues[card].rank \in RankType /\ card \in Nat /\ card # None
      BY <1>1, <3>1, IdsFacts DEF Issue
    <3>4. PICK rank \in RankType : rank = issues[card].rank
      BY <3>3
    <3>5. PICK seen \in Seq(IssueIds) : seen = scan.seen
      BY <1>1 DEF Scan
    <3>6. scan' = [scan EXCEPT !.on = more, !.at = card, !.atRank = rank, !.seen = Append(seen, card)]
      BY <1>2, <2>2, <3>0, <3>1, <3>2, <3>4, <3>5, Zenon DEF List
    <3>7. Append(seen, card) \in Seq(IssueIds)
      BY <3>3
    <3>8. /\ scan' \in Scan /\ scan'.base = scan.base /\ scan'.touched = scan.touched /\ scan'.seen = Append(seen, card)
          /\ scan'.at = card /\ scan'.atRank = rank /\ scan'.p = scan.p
      BY <1>1, <3>3, <3>6, <3>7 DEF Scan
    <3>9. scan'.on = more
      BY <1>1, <3>6 DEF Scan
    <3>10. ASSUME NEW i \in scan.base, i \notin scan.touched
           PROVE  IF AfterCursor(i)' THEN i \in rest /\ i # card /\ Hidden(i)' ELSE Shown(i)'
      <4>1. i \in IssuesOf(scan.p) /\ i \in IssueIds /\ i \in Nat /\ issues[i].rank \in RankType
        BY <1>1, <1>3, IdsFacts DEF IssuesOf, Issues, Issue
      <4>2. AfterCursor(i)' <=> Precedes(rank, card, issues[i].rank, i)
        BY <1>4, <3>3, <3>8 DEF AfterCursor
      <4>3. /\ DOMAIN seen = 1..Len(seen) /\ DOMAIN Append(seen, card) = 1..(Len(seen) + 1) /\ Len(seen) \in Nat
            /\ Append(seen, card)[Len(seen) + 1] = card /\ \A n \in 1..Len(seen) : Append(seen, card)[n] = seen[n]
        BY <3>3
      <4>4. CASE i = card
        <5>1. ~AfterCursor(i)'
          BY <3>3, <3>4, <4>2, <4>4, PrecedesIrreflexive
        <5>2. Hidden(i)
          BY <1>2, <1>3, <3>1, <3>10, <4>4
        <5>3. \A n \in 1..Len(seen) : seen[n] # i
          BY <3>5, <4>3, <5>2 DEF Hidden
        <5>4. \A m \in 1..(Len(seen) + 1) : Append(seen, card)[m] = i <=> m = Len(seen) + 1
          BY <4>3, <4>4, <5>3
        <5>a. PICK n \in DOMAIN Append(seen, card) : n = Len(seen) + 1
          BY <4>3
        <5>b. \A m \in DOMAIN Append(seen, card) : Append(seen, card)[m] = i <=> m = n
          BY <4>3, <5>4, <5>a
        <5>5. Shown(i)'
          BY <3>8, <5>b DEF Shown
        <5> QED
          BY <5>1, <5>5
      <4>5. CASE i # card /\ AfterCursor(i)
        <5>1. i \in rest /\ CardAhead(Ranks, card, i)
          BY <1>2, <3>1, <4>1, <4>5
        <5>2. AfterCursor(i)'
          BY <1>1, <3>3, <3>4, <4>1, <4>2, <5>1, RanksTyped DEF CardAhead
        <5>3. Hidden(i)
          BY <1>3, <3>10, <4>5
        <5>4. Hidden(i)'
          BY <3>5, <3>8, <4>3, <4>5, <5>3 DEF Hidden
        <5> QED
          BY <4>5, <5>1, <5>2, <5>4
      <4>6. CASE i # card /\ ~AfterCursor(i)
        <5>1. Shown(i)
          BY <1>3, <3>10, <4>6
        <5>2. PICK n \in DOMAIN seen : \A m \in DOMAIN seen : seen[m] = i <=> m = n
          BY <3>5, <5>1 DEF Shown
        <5>3. \A m \in DOMAIN Append(seen, card) : Append(seen, card)[m] = i <=> m = n
          BY <4>3, <4>6, <5>2
        <5>4. Shown(i)'
          BY <3>8, <4>3, <5>2, <5>3 DEF Shown
        <5>5. scan.at # None /\ ~Precedes(scan.atRank, scan.at, issues[i].rank, i)
          BY <4>6 DEF AfterCursor
        <5>6. Precedes(scan.atRank, scan.at, rank, card)
          BY <1>2, <3>1, <3>4, <5>5 DEF AfterCursor
        <5>7. scan.at \in Nat /\ scan.atRank \in RankType
          BY <1>1, <5>5, IdsFacts DEF Scan
        <5>8. ~Precedes(rank, card, issues[i].rank, i)
          BY <3>3, <4>1, <5>5, <5>6, <5>7, PrecedesTransitive
        <5> QED
          BY <4>2, <5>4, <5>8
      <4> QED
        BY <4>4, <4>5, <4>6
    <3>11. IssuesOf(scan.p)' = IssuesOf(scan.p)
      BY <1>4, <3>8 DEF IssuesOf, Issues
    <3>12. CASE more
      BY <1>3, <3>8, <3>9, <3>10, <3>11, <3>12 DEF PagesInv
    <3>13. CASE ~more
      <4>2. size # 0
        BY <2>2, <3>0, FS_EmptySet
      <4>1. ~(size > 1)
        BY <3>2, <3>13, Zenon
      <4>3. size = 1
        BY <4>1, <4>2
      <4>a. Cardinality(rest) = 1
        BY <3>0, <4>3
      <4>b. \E y : rest = {y}
        BY <3>0, <4>a, FS_Singleton
      <4>4. rest = {card}
        BY <3>1, <4>b
      <4>5. \A i \in scan.base \ scan.touched : Shown(i)'
        BY <3>10, <4>4
      <4> QED
        BY <3>8, <3>9, <3>13, <4>5 DEF PagesInv
    <3> QED
      BY <3>8, <3>12, <3>13
  <2> QED
    BY <2>1, <2>2
<1> QED
  BY <1>4, <1>5, ScanStep, StillActor

-----------------------------------------------------------------------------
(* The theorems.                                                           *)

LEMMA BoardStarts ==
    ASSUME BoardInit
    PROVE  BoardInv
<1>1. benv \in BoardEnvironments
  BY DEF BoardInit
<1>2. /\ DOMAIN benv = {"board", "home", "states", "actor", "ops"}
      /\ benv.home \in Projects /\ benv.actor \in People
      /\ benv.board \in Seq(Seq(Digits)) /\ DOMAIN benv.board \subseteq IssueIds
  BY <1>1, BoardAssumption
<1>3. Digits \subseteq Nat
  BY BaseFacts DEF Digits
<1>4. PICK board \in Seq(RankType) : board = benv.board
  <2>1. ASSUME NEW s \in Seq(Digits) PROVE s \in RankType
    <3>a. s \in [1..Len(s) -> Digits] /\ Len(s) \in Nat
      OBVIOUS
    <3>1. s \in [1..Len(s) -> Nat] /\ Len(s) \in Nat
      BY <1>3, <3>a
    <3> QED
      BY <3>1 DEF RankType
  <2>2. PICK b \in Seq(Seq(Digits)) : b = benv.board
    BY <1>2
  <2>3. b \in Seq(RankType)
    <3>1. b \in [1..Len(b) -> RankType] /\ Len(b) \in Nat
      BY <2>1
    <3> QED
      BY <3>1
  <2> QED
    BY <2>2, <2>3
<1>5. PICK size \in Nat : size = Len(board) /\ DOMAIN board = 1..size
  OBVIOUS
<1>6. NoIssue \in Issue /\ NoIssue.number = 0 /\ NoIssue.state = "open" /\ NoIssue.completed = 0
  BY InitialRank DEF NoIssue, Issue, States, DefaultState, People0
<1>7. ASSUME NEW i \in 1..size
      PROVE  /\ i \in IssueIds /\ issues[i] \in Issue /\ issues[i].p = benv.home /\ issues[i].number = i
             /\ issues[i].state = "open" /\ issues[i].completed = 0 /\ issues[i] # NoIssue
  <2>1. i \in IssueIds /\ board[i] \in RankType
    BY <1>2, <1>4, <1>5
  <2>a. PICK home \in Projects, rank \in RankType : home = benv.home /\ rank = board[i]
    BY <1>2, <2>1
  <2>b. PICK r : r = [NoIssue EXCEPT !.p = home, !.number = i, !.rank = rank]
    OBVIOUS
  <2>d. PICK no \in Issue : no = NoIssue
    BY <1>6
  <2>e. r = [no EXCEPT !.p = home, !.number = i, !.rank = rank] /\ i \in Nat
    BY <2>b, <2>d
  <2>c. r \in Issue
    BY <2>e DEF Issue
  <2>2. r \in Issue /\ r = [NoIssue EXCEPT !.p = benv.home, !.number = i, !.rank = board[i]]
    BY <2>a, <2>b, <2>c
  <2>3. issues[i] = r
    BY <1>4, <1>5, <2>1, <2>2 DEF BoardInit
  <2>4. r.p = benv.home /\ r.number = i /\ r.state = NoIssue.state /\ r.completed = NoIssue.completed
    BY <1>6, <2>2 DEF Issue
  <2>5. i # 0
    OBVIOUS
  <2>6. r # NoIssue
    BY <1>6, <2>4, <2>5
  <2> QED
    BY <1>6, <2>1, <2>2, <2>3, <2>4, <2>6
<1>8. ASSUME NEW i \in IssueIds, i \notin 1..size PROVE issues[i] = NoIssue
  BY <1>4, <1>5, <1>8 DEF BoardInit
<1>9. Issues = 1..size
  BY <1>7, <1>8 DEF Issues
<1>10. issues \in [IssueIds -> Issue]
  <2>1. \A i \in IssueIds : issues[i] \in Issue
    BY <1>6, <1>7, <1>8
  <2> QED
    BY <2>1 DEF BoardInit
<1>11. projects = (IF size = 0 THEN {} ELSE {benv.home}) /\ projects \subseteq Projects
  <2>1. board = <<>> <=> size = 0
    BY <1>5
  <2>2. projects = IF board = <<>> THEN {} ELSE {benv.home}
    BY <1>4 DEF BoardInit
  <2> QED
    BY <1>2, <2>1, <2>2
<1>12. counter \in [Projects -> Nat] /\ \A p \in projects : counter[p] = size + 1
  <2>1. counter = [p \in Projects |-> IF p \in projects THEN size + 1 ELSE 0]
    BY <1>4, <1>5 DEF BoardInit
  <2> QED
    BY <1>11, <2>1
<1>13. call \in [Callers -> Call] /\ \A c \in Callers : call[c].pc = "idle" /\ call[c].at = 0
  <2>1. IdleCall.pc = "idle" /\ IdleCall.at = 0
    BY IdleFacts
  <2> QED
    BY <2>1, IdleTyped DEF BoardInit
<1>14. activity \in [IssueIds -> Seq(Entry)] /\ \A i \in IssueIds : activity[i] = <<>>
  <2>1. PICK none \in Seq(Entry) : none = <<>>
    BY EmptySeq, Zenon
  <2>2. activity = [i \in IssueIds |-> none]
    BY <2>1 DEF BoardInit
  <2> QED
    BY <2>1, <2>2
<1>15. BoardTypes
  BY <1>2, <1>10, <1>11, <1>12, <1>13, <1>14, NoScanTyped DEF BoardTypes, BoardInit
<1>16. CountersInv
  BY <1>7, <1>9, <1>11, <1>12, <1>13 DEF CountersInv, Counting
<1>17. MoversInv /\ TellersInv
  <2>1. commits = 0
    BY DEF BoardInit
  <2>2. \A c \in Callers : call[c].at <= commits
    BY <1>13, <2>1
  <2> QED
    BY <1>13, <2>2 DEF MoversInv, TellersInv, Moving
<1>18. EntriesInv /\ UntoldInv /\ NoticesInv
  <2>1. \A i \in IssueIds : \A kind : Of(activity[i], kind) = {}
    BY <1>14 DEF Of
  <2> QED
    BY <1>14, <2>1 DEF EntriesInv, LineTells, UntoldInv, NoticesInv, BoardInit, Issues
<1>19. PagesInv
  BY NoScanTyped DEF PagesInv, BoardInit
<1>20. StampInv
  BY <1>7, <1>9 DEF StampInv
<1>21. ASSUME NEW p \in projects
       PROVE  /\ {issues[i].number : i \in IssuesOf(p)} = 1..(counter[p] - 1)
              /\ Cardinality(IssuesOf(p)) = counter[p] - 1
  <2>1. p = benv.home /\ counter[p] - 1 = size
    BY <1>11, <1>12
  <2>2. IssuesOf(p) = 1..size
    BY <1>7, <1>9, <2>1 DEF IssuesOf
  <2>3. {issues[i].number : i \in 1..size} = 1..size
    BY <1>7
  <2>4. Cardinality(1..size) = size
    BY FS_Interval
  <2> QED
    BY <2>1, <2>2, <2>3, <2>4
<1>22. NumbersDense
  BY <1>21 DEF NumbersDense
<1> QED
  BY <1>15, <1>16, <1>17, <1>18, <1>19, <1>20, <1>22 DEF BoardInv

LEMMA BoardStutters ==
    ASSUME BoardInv, UNCHANGED boardvars
    PROVE  BoardInv'
<1>1. PagesInv' /\ scan' \in Scan
  BY DEF boardvars, BoardInv, BoardTypes, PagesInv, IssuesOf, Issues, AfterCursor, Shown, Hidden
<1> QED
  BY <1>1, ScanStep, StillActor DEF boardvars

LEMMA BoardSteps ==
    ASSUME BoardInv, BoardNext
    PROVE  BoardInv'
<1>1. CASE \E p \in Projects : CreateProject(p) \/ ScanBegin(p)
  BY <1>1, CreateProjectKeeps, ScanBeginKeeps
<1>2. CASE List
  BY <1>2, ListKeeps
<1>3. ASSUME NEW c \in Callers, NEW p \in Projects, NEW u \in People \cup {None}, NEW st \in States, Allocate(c, p, st, u)
      PROVE  BoardInv'
  BY <1>3, AllocateKeeps DEF People0
<1>4. ASSUME NEW c \in Callers, RankNew(c) \/ RollbackCall(c) \/ (\E i \in IssueIds : CreateIssue(c, i))
      PROVE  BoardInv'
  BY <1>4, RankNewKeeps, RollbackKeeps, CreateIssueKeeps
<1>5. ASSUME NEW c \in Callers, NEW i \in Issues, NEW ab \in Anchors(i), NEW st \in Columns, MoveBegin(c, i, ab[1], ab[2], st)
      PROVE  BoardInv'
  <2>1. ab[1] \in IssueIds \cup {None} /\ ab[2] \in IssueIds \cup {None}
    BY DEF Anchors, Issues
  <2>2. st \in States \cup {""}
    BY DEF Columns
  <2> QED
    BY <1>5, <2>1, <2>2, MoveBeginKeeps
<1>6. ASSUME NEW c \in Callers, MoveLock(c) \/ MoveAnchor(c) \/ MovePlace(c) \/ Move(c)
      PROVE  BoardInv'
  BY <1>6, MoveLockKeeps, MoveAnchorKeeps, MovePlaceKeeps, MoveKeeps
<1>7. ASSUME NEW c \in Callers, RenormaliseRead(c) \/ RenormaliseWrite(c) \/ RenormaliseDeadlock(c)
      PROVE  BoardInv'
  BY <1>7, RenormaliseReadKeeps, RenormaliseWriteKeeps, RenormaliseDeadlockKeeps
<1>8. ASSUME NEW c \in Callers, NEW i \in Issues, NEW u \in People \cup {None, Keep}, UpdateRead(c, i, u)
      PROVE  BoardInv'
  BY <1>8, UpdateReadKeeps DEF People0
<1>9. ASSUME NEW c \in Callers, UpdateBegin(c) \/ Update(c) \/ NotifyAssigned(c) \/ NotifyLost(c)
      PROVE  BoardInv'
  BY <1>9, UpdateBeginKeeps, UpdateKeeps, NotifyAssignedKeeps, NotifyLostKeeps
<1> QED
  BY <1>1, <1>2, <1>3, <1>4, <1>5, <1>6, <1>7, <1>8, <1>9 DEF BoardNext

LEMMA BoardInvEnough ==
    ASSUME BoardInv
    PROVE  BoardSound
<1>1. ASSUME NEW i \in Issues, NEW kind \in {"state", "assignee"}
      PROVE  Chain(i, kind, Committed(i)) /\ (InTurn(i, kind) => Chain(i, kind, Created(i)))
  <2>1. Entries(i, kind) = Of(activity[i], kind)
    BY DEF Entries, Of
  <2>2. LineTells(activity[i], kind, Current(i, kind))
    BY DEF BoardInv, EntriesInv
  <2>3. \A n \in Entries(i, kind) : /\ n \in Nat /\ Committed(i)[n] = n /\ Created(i)[n] = activity[i][n].at
                                   /\ activity[i][n].at \in Nat /\ activity[i][n].done \in Nat
                                   /\ activity[i][n].at < activity[i][n].done
    <3>1. activity[i] \in Seq(Entry)
      BY DEF BoardInv, BoardTypes, Issues
    <3>2. \A n \in DOMAIN activity[i] : n \in Nat /\ activity[i][n] \in Entry
      BY <3>1
    <3>3. \A e \in Entry : e.at \in Nat /\ e.done \in Nat /\ e.at < e.done
      BY DEF Entry, StateEntry, AssigneeEntry
    <3> QED
      BY <3>2, <3>3 DEF Entries, Committed, Created
  <2>4. Chain(i, kind, Committed(i))
    BY <2>1, <2>2, <2>3 DEF Chain, LineTells
  <2>5. ASSUME InTurn(i, kind) PROVE Chain(i, kind, Created(i))
    <3>1. \A m, n \in Entries(i, kind) : m < n => Created(i)[m] < Created(i)[n]
      BY <2>3, <2>5 DEF InTurn
    <3>2. \A m, n \in Entries(i, kind) : (m < n <=> Created(i)[m] < Created(i)[n]) /\ (m <= n <=> Created(i)[m] <= Created(i)[n])
      BY <2>3, <3>1
    <3> QED
      BY <2>3, <2>4, <3>2 DEF Chain
  <2> QED
    BY <2>4, <2>5
<1>4. TimelineTells
  BY <1>1 DEF TimelineTells, BoardInv, NoticesInv
<1>2. PagesShowEachOnce
  <2>1. ASSUME ~scan.on, NEW i \in scan.base \ scan.touched
        PROVE  Cardinality({n \in DOMAIN scan.seen : scan.seen[n] = i}) = 1
    <3>1. Shown(i)
      BY <2>1 DEF BoardInv, PagesInv
    <3>2. PICK n \in DOMAIN scan.seen : \A m \in DOMAIN scan.seen : scan.seen[m] = i <=> m = n
      BY <3>1 DEF Shown
    <3>3. {m \in DOMAIN scan.seen : scan.seen[m] = i} = {n}
      BY <3>2
    <3> QED
      BY <3>3, FS_Singleton
  <2> QED
    BY <2>1 DEF PagesShowEachOnce
<1> QED
  BY <1>2, <1>4 DEF BoardSound, BoardInv

LEMMA BoardInvariant == BoardSpec => []BoardInv
<1>1. BoardInv /\ [BoardNext]_boardvars => BoardInv'
  BY BoardSteps, BoardStutters
<1> QED
  BY <1>1, BoardStarts, PTL DEF BoardSpec

\* However requests on a project overlap, fail or lose a deadlock, whatever ranks they find:
\* its issues are numbered without holes or repeats; every timeline explains, in the order of
\* the commits, the state and the assignee of its issue, and is shown in that order where the
\* transactions did not overlap; a client that pages through the project sees each card that
\* stayed in place exactly once (repository.go CreateIssue, Move, Update, Activity, List).
THEOREM BoardAlwaysSound == BoardSpec => []BoardSound
BY BoardInvariant, BoardInvEnough, PTL
=============================================================================
