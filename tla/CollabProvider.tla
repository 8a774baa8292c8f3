--------------------------- MODULE CollabProvider ---------------------------
(***************************************************************************)
(* One client of a collaboration room: app/src/lib/collab/provider.ts over *)
(* the socket manager (app/src/lib/websocket.ts), talking to a server that *)
(* keeps the log (backend/internal/collab) and relays it to the room       *)
(* (backend/internal/ws/room.go).                                          *)
(*                                                                         *)
(* The client is one record and every method of CollabProvider that        *)
(* changes it is an operator from record to record, so that an event       *)
(* handler is the composition the code runs between two awaits.  An await  *)
(* of an HTTP answer is a state of rec; the answer is computed by the      *)
(* server in a step of its own and applied in a later one.                 *)
(*                                                                         *)
(* The server is atomic here: CollabLog models its transactions and shows  *)
(* that a page is what a single read would return.                         *)
(***************************************************************************)
EXTENDS Integers, Sequences, FiniteSets, SequencesExt, FiniteSetsExt

CONSTANTS
    CatchUpPage,   \* maxStateUpdates: updates in one GET /state page
    GapLimit,    \* recordAppliedSeq: a hole wider than this is re-read
    CompactAt,   \* compactionThreshold: log length that asks for a snapshot
    ProviderEnvironments \* what a behaviour may meet, see penv

\* lose: NATS drops a broadcast; drop: the send buffer is full; http: a request
\* or its answer is lost; join, server: a join or an update frame fails on the
\* server; unscoped: an error frame that names no document; access: the user's
\* access is reduced.
FaultKinds == {"lose", "drop", "http", "join", "server", "unscoped", "access"}

ASSUME CollabProviderAssumption ==
    /\ CatchUpPage \in Nat \ {0}
    /\ GapLimit \in Nat
    /\ CompactAt \in Nat \ {0}
    /\ ProviderEnvironments \subseteq [kinds : SUBSET FaultKinds, faults : Nat, edits : Nat,
                               remote : Nat, conns : Nat, asks : Nat]

VARIABLES
    penv,     \* this behaviour's faults and bounds, chosen once
    cl,      \* the provider, and the manager's view of its room
    conn,    \* the socket: down, up, or closing (dead, onclose not yet run)
    connNo,  \* connections opened so far; the current connection's id
    out,     \* frames from the server, in order
    inq,     \* frames to the server, in order
    gap,     \* a frame was dropped since the last one put in out
    room,    \* the server's record of the membership: none, read or write
    access,  \* what the user may do with the document: none, read or write
    log,     \* the update at each seq, as the set of edits it carries
    snap,    \* the stored snapshot: [seq, content]
    bcast,   \* committed updates not yet relayed to this connection
    late,    \* writes the client gave up on that the server may still commit
    remote,  \* updates appended by other clients
    asks,    \* compaction requests sent
    faults   \* faults so far

pvars == <<penv, cl, conn, connNo, out, inq, gap, room, access, log, snap, bcast,
          late, remote, asks, faults>>
logVars == <<room, access, log, snap, bcast, late, remote, asks>>
socketVars == <<conn, connNo, out, inq, gap>>

Faults == penv.kinds       \* kinds of fault that may happen
MaxFaults == penv.faults   \* bound of the model: faults of all kinds
MaxEdits == penv.edits     \* bound of the model: local edits
MaxRemote == penv.remote   \* bound of the model: updates appended by other clients
MaxConns == penv.conns     \* bound of the model: connections opened
MaxAsks == penv.asks       \* bound of the model: compaction requests

NoRec == [at |-> "idle", since |-> 0, seq |-> 0, ver |-> 0, load |-> {},
          through |-> 0, more |-> FALSE, requested |-> FALSE]
NoComp == [at |-> "idle", seq |-> 0, content |-> {}, head |-> 0]

\* A provider just constructed: it wants the room and holds nothing.
NewClient ==
    [status |-> "connecting", canWrite |-> FALSE, wm |-> 0, ahead |-> {},
     doc |-> {}, pending |-> {}, made |-> 0, sends |-> {}, cycle |-> 0,
     needs |-> FALSE, rec |-> NoRec, compHead |-> 0, compWm |-> -1,
     comp |-> NoComp, desired |-> TRUE, joined |-> FALSE]

ProviderInit ==
    /\ penv \in ProviderEnvironments
    /\ cl = NewClient
    /\ conn = "down"
    /\ connNo = 0
    /\ out = <<>>
    /\ inq = <<>>
    /\ gap = FALSE
    /\ room = "none"
    /\ access = "write"
    /\ log = <<>>
    /\ snap = [seq |-> 0, content |-> {}]
    /\ bcast = {}
    /\ late = {}
    /\ remote = 0
    /\ asks = 0
    /\ faults = 0

\* A fault of kind k happens: it must be enabled and within the bound.
Fault(k) ==
    /\ k \in Faults
    /\ faults < MaxFaults
    /\ faults' = faults + 1

-----------------------------------------------------------------------------
(* The provider's methods.                                                 *)

Revoked(c) == c.status = "revoked"
RecoveryInFlight(c) == c.rec.at # "idle"
Settled(c) == IF c.canWrite THEN "synced" ELSE "read-only"

clearSocketSends(c) == [c EXCEPT !.sends = {}, !.cycle = 0]

\* recoveryEpoch += 1 with the three recovery flags cleared: whatever answer is
\* on its way is ignored.
fence(c) == [c EXCEPT !.rec = NoRec]

\* catchUp sends GET /state from the watermark.  seq and ver are those of the
\* append being reconciled, 0 when the catch-up is the first step of a recovery.
catchUp(c, seq, ver) ==
    [c EXCEPT !.rec = [NoRec EXCEPT !.at = "get", !.since = c.wm, !.seq = seq,
                                    !.ver = ver, !.requested = c.rec.requested]]

\* flushPending sends everything not acknowledged yet as one update.
post(c) ==
    [c EXCEPT !.rec = [NoRec EXCEPT !.at = "post", !.load = c.pending,
                                    !.ver = c.made, !.requested = c.rec.requested]]

\* startRecovery(true).
startCatchUp(c) ==
    IF RecoveryInFlight(c) \/ Revoked(c)
      THEN c
      ELSE catchUp([c EXCEPT !.status = "connecting"], 0, 0)

\* startRecovery(false): only publish asks for it, with something to flush.
startFlush(c) == IF RecoveryInFlight(c) \/ Revoked(c) THEN c ELSE post(c)

\* beginHttpRecovery up to its use of startRecovery.
distrustSocket(c) ==
    LET d == clearSocketSends(c)
    IN  [d EXCEPT !.needs = @ \/ c.pending # {}]

\* beginHttpRecovery(true).
beginHttpRecovery(c) ==
    IF Revoked(c) THEN c
    ELSE IF RecoveryInFlight(c)
           THEN [distrustSocket(c) EXCEPT !.rec.requested = TRUE]
           ELSE startCatchUp(distrustSocket(c))

\* Everything local is acknowledged and every seq up to the watermark applied.
Synchronized(c) ==
    /\ c.status = "synced"
    /\ c.pending = {}
    /\ c.sends = {}
    /\ ~c.needs
    /\ ~RecoveryInFlight(c)
    /\ c.ahead = {}

\* Mutant: the snapshot is labelled with the head the server asked for.
compactLabelsHead(c) ==
    IF c.canWrite /\ c.compHead # 0 /\ c.comp.at = "idle" /\ c.status = "synced"
      THEN [c EXCEPT !.comp = [at |-> "sent", seq |-> c.compHead, content |-> c.doc,
                               head |-> c.compHead]]
      ELSE c

maybeCompact(c) ==
    IF ~c.canWrite \/ c.compHead = 0 \/ c.comp.at # "idle" THEN c
    ELSE IF Synchronized(c) /\ c.wm >= c.compHead
      THEN [c EXCEPT !.comp = [at |-> "sent", seq |-> c.wm, content |-> c.doc,
                               head |-> c.compHead]]
    ELSE IF c.pending = {} /\ c.sends = {} /\ ~RecoveryInFlight(c) /\ c.compWm # c.wm
      THEN beginHttpRecovery([c EXCEPT !.compWm = c.wm])
    ELSE c

\* Where a watermark at w stands once the seqs of S are absorbed.
Absorb(w, S) == Min({n \in {w} \cup S : n >= w /\ n + 1 \notin S})

recordAppliedSeq(c, seq) ==
    IF seq <= c.wm THEN c
    ELSE LET held == c.ahead \cup {seq}
             w == Absorb(c.wm, held)
             d == [c EXCEPT !.wm = w, !.ahead = {s \in held : s > w}]
         IN  maybeCompact(IF d.ahead # {} /\ seq - w > GapLimit
                            THEN startCatchUp(d) ELSE d)

advanceThrough(c, through) ==
    IF through < c.wm THEN c
    ELSE LET held == {s \in c.ahead : s > through}
             w == Absorb(through, held)
         IN  maybeCompact([c EXCEPT !.wm = w, !.ahead = {s \in held : s > w}])

\* The finally block of a recovery.
endRecovery(c) ==
    LET d == [c EXCEPT !.rec = NoRec]
    IN  IF c.rec.requested THEN startCatchUp(d) ELSE maybeCompact(d)

\* The end of a recovery that threw.
failRecovery(c) ==
    endRecovery(IF c.rec.requested THEN c ELSE [c EXCEPT !.status = "error"])

\* flushPending's loop test, and the end of a recovery that has nothing left.
flushPending(c) ==
    IF c.pending # {} THEN post(c)
    ELSE LET d == [c EXCEPT !.needs = FALSE]
         IN  endRecovery(IF c.rec.requested THEN d ELSE [d EXCEPT !.status = Settled(d)])

\* Mutant: an edit made since the request is taken for saved.
reconcileAll(c, ver) ==
    flushPending([clearSocketSends(c) EXCEPT !.pending = {}, !.needs = FALSE])

\* flushPending once the append's seq is at or below the watermark: nothing is
\* pending any more unless an edit was made since the request.
appendReconciled(c, ver) ==
    IF c.made = ver
      THEN flushPending([clearSocketSends(c) EXCEPT !.pending = {}, !.needs = FALSE])
      ELSE flushPending([clearSocketSends(c) EXCEPT !.needs = TRUE])

\* A frame of a socket send came back: acknowledgeOwnEcho for an echo of this
\* connection.
acknowledgeOwnEcho(c, seq, payload) ==
    IF c.sends = {} \/ c.needs \/ ~(payload \subseteq c.sends) THEN c
    ELSE LET d == [c EXCEPT !.sends = @ \ payload]
             e == [clearSocketSends(d) EXCEPT !.pending = {}]
         IN  IF d.sends # {} \/ d.cycle # d.made THEN d
             ELSE IF e.ahead # {} \/ e.wm < seq THEN beginHttpRecovery(e)
             ELSE maybeCompact([e EXCEPT !.status = Settled(e)])

requestCompaction(c, head) ==
    IF ~c.canWrite THEN c
    ELSE maybeCompact([c EXCEPT !.compHead = Max({@, head}), !.compWm = -1])

\* handleRoom, case 'left' with reason revoked.
revoke(c) ==
    [clearSocketSends(fence(c)) EXCEPT !.canWrite = FALSE, !.compHead = 0,
                                       !.status = "revoked"]

\* handleRoom, case 'rejected' for a join: terminal codes end the session.
joinRejected(c, terminal) ==
    [clearSocketSends(fence(c)) EXCEPT
        !.canWrite = FALSE, !.needs = @ \/ c.pending # {}, !.compHead = 0,
        !.desired = FALSE, !.joined = FALSE,
        !.status = IF terminal THEN "revoked" ELSE "error"]

\* handleRoom: what one frame does to a provider that is not revoked.
handleRoom(c, f) ==
    CASE f.t = "joined"   -> startCatchUp([c EXCEPT !.canWrite = f.w])
      [] f.t = "left"     -> IF f.w THEN revoke(c) ELSE c
      [] f.t = "update"   -> LET d == recordAppliedSeq([c EXCEPT !.doc = @ \cup f.load], f.seq)
                             IN  IF f.own THEN acknowledgeOwnEcho(d, f.seq, f.load) ELSE d
      [] f.t = "compact"  -> requestCompaction(c, f.seq)
      [] f.t = "rejected" -> joinRejected(c, f.w)
      [] f.t = "error"    -> IF c.pending # {} THEN beginHttpRecovery(c) ELSE c

\* The manager's bookkeeping of a frame (dispatch).
trackRoom(c, f) ==
    CASE f.t = "joined" -> [c EXCEPT !.joined = TRUE]
      [] f.t = "left"   -> [c EXCEPT !.joined = FALSE, !.desired = @ /\ ~f.w]
      [] OTHER          -> c

\* onmessage: a sequence gap resyncs the room first, then the frame is handled;
\* an error reaches only the rooms the manager still wants.
onmessage(c, f) ==
    LET d == IF f.gap /\ c.desired THEN beginHttpRecovery(c) ELSE c
        e == trackRoom(d, f)
    IN  IF Revoked(e) \/ (f.t \in {"rejected", "error"} /\ ~e.desired)
          THEN e ELSE handleRoom(e, f)

\* publish of a local edit, over the socket or over HTTP when it is too big for
\* a frame.  sent says whether the socket took the frame.
publish(c, big, sent) ==
    LET e == c.made + 1
        d == [c EXCEPT !.doc = @ \cup {e}, !.pending = @ \cup {e}, !.made = e]
    IN  CASE c.status \in {"error", "connecting"} -> [d EXCEPT !.needs = TRUE]
          [] c.status \notin {"error", "connecting"} /\ RecoveryInFlight(c) ->
                [d EXCEPT !.needs = TRUE, !.status = "saving"]
          [] c.status \notin {"error", "connecting"} /\ ~RecoveryInFlight(c) ->
                IF c.needs \/ big
                  THEN startFlush([clearSocketSends(d) EXCEPT !.needs = TRUE,
                                                              !.status = "saving"])
                ELSE IF sent
                  THEN [d EXCEPT !.status = "saving", !.sends = @ \cup {e}, !.cycle = e]
                  ELSE [clearSocketSends(d) EXCEPT !.needs = TRUE,
                                                   !.status = "connecting"]

\* The append a step of the client leaves behind: c is the provider afterwards.
Abandoned(c) ==
    IF cl.rec.at = "post" /\ c.rec # cl.rec
      THEN {[load |-> cl.rec.load, origin |-> 0]} ELSE {}

-----------------------------------------------------------------------------
(* Client steps.                                                           *)

\* The editor changes the document.  The editor is read-only unless canWrite.
Edit(big) ==
    /\ cl.made < MaxEdits
    /\ cl.canWrite
    /\ ~Revoked(cl)
    /\ cl' = publish(cl, big, conn = "up")
    /\ inq' = IF cl'.made \in cl'.sends
                THEN Append(inq, [t |-> "update", load |-> {cl'.made}]) ELSE inq
    /\ UNCHANGED <<penv, conn, connNo, out, gap, logVars, faults>>

\* A frame arrives.  A provider that is refused the room leaves it.
Deliver ==
    /\ conn = "up"
    /\ out # <<>>
    /\ cl' = onmessage(cl, Head(out))
    /\ out' = Tail(out)
    /\ inq' = IF Head(out).t = "rejected" /\ cl.desired /\ ~cl'.desired
                THEN Append(inq, [t |-> "leave", load |-> {}]) ELSE inq
    /\ late' = late \cup Abandoned(cl')
    /\ UNCHANGED <<penv, conn, connNo, gap, room, access, log, snap, bcast, remote,
                   asks, faults>>

\* Mutant: the timer stops waiting and starts nothing.
AckTimeoutGivesUp ==
    /\ cl.sends # {}
    /\ ~Revoked(cl)
    /\ cl' = clearSocketSends(cl)
    /\ UNCHANGED <<penv, socketVars, logVars, faults>>

\* The 10 s acknowledgement timer fires.
AckTimeout ==
    /\ cl.sends # {}
    /\ ~Revoked(cl)
    /\ cl' = beginHttpRecovery(cl)
    /\ UNCHANGED <<penv, socketVars, logVars, faults>>

\* The state page arrives (catchUp's loop body and what runs after it).
StateApplied ==
    LET page == cl.rec
        c == advanceThrough([cl EXCEPT !.doc = @ \cup page.load], page.through)
    IN  /\ page.at = "got"
        /\ cl' = IF page.more
                   THEN [c EXCEPT !.rec = [page EXCEPT !.at = "get",
                                             !.since = page.through, !.load = {}]]
                 ELSE IF page.seq = 0 THEN flushPending(c)
                 ELSE IF c.wm < page.seq THEN failRecovery(c)
                 ELSE appendReconciled(c, page.ver)
        /\ UNCHANGED <<penv, socketVars, logVars, faults>>

\* The append's answer arrives: its seq is recorded and, when there is a hole
\* below it, the log is read again before anything is called saved.
AppendAcked ==
    LET c == recordAppliedSeq(cl, cl.rec.seq)
    IN  /\ cl.rec.at = "posted"
        /\ cl' = IF c.wm < cl.rec.seq THEN catchUp(c, cl.rec.seq, cl.rec.ver)
                                      ELSE appendReconciled(c, cl.rec.ver)
        /\ UNCHANGED <<penv, socketVars, logVars, faults>>

\* The server refuses a request of the recovery.
HttpRefused ==
    /\ \/ cl.rec.at = "get" /\ access = "none"
       \/ cl.rec.at = "post" /\ access # "write"
    /\ cl' = failRecovery(cl)
    /\ UNCHANGED <<penv, socketVars, logVars, faults>>

\* A request of the recovery or its answer is lost; an append that was sent may
\* still be committed.
HttpLost ==
    /\ RecoveryInFlight(cl)
    /\ Fault("http")
    /\ late' = late \cup Abandoned([rec |-> NoRec])
    /\ cl' = failRecovery(cl)
    /\ UNCHANGED <<penv, socketVars, room, access, log, snap, bcast, remote, asks>>

\* The finally block of a snapshot upload.
snapshotEnded(c) ==
    maybeCompact([c EXCEPT !.comp = NoComp,
                           !.compHead = IF @ <= c.comp.head THEN 0 ELSE @])

\* The snapshot upload is answered.
CompactionAnswered ==
    /\ cl.comp.at = "done"
    /\ cl' = snapshotEnded(cl)
    /\ UNCHANGED <<penv, socketVars, logVars, faults>>

\* The snapshot upload is lost.
CompactionLost ==
    /\ cl.comp.at = "sent"
    /\ Fault("http")
    /\ cl' = snapshotEnded(cl)
    /\ UNCHANGED <<penv, socketVars, logVars>>

\* The user presses retry on a provider that stopped with an error.
Retry ==
    /\ cl.status = "error"
    /\ LET c == [cl EXCEPT !.status = "connecting"]
           rejoin == ~cl.desired
       IN  /\ cl' = IF conn # "down" /\ c.joined
                      THEN startCatchUp(c) ELSE [c EXCEPT !.desired = TRUE]
           /\ inq' = IF ~(conn # "down" /\ c.joined) /\ rejoin /\ conn = "up"
                       THEN Append(inq, [t |-> "join", load |-> {}]) ELSE inq
    /\ UNCHANGED <<penv, conn, connNo, out, gap, logVars, faults>>

-----------------------------------------------------------------------------
(* The socket.                                                             *)

\* The connection dies.  The server forgets it; frames it had received may yet
\* be processed.
Sever ==
    /\ conn = "up"
    /\ connNo < MaxConns
    /\ conn' = "closing"
    /\ room' = "none"
    /\ late' = late \cup {[load |-> f.load, origin |-> connNo] :
                            f \in {g \in Range(inq) : g.t = "update" /\ room = "write"}}
    /\ out' = <<>>
    /\ inq' = <<>>
    /\ gap' = FALSE
    /\ UNCHANGED <<penv, cl, connNo, access, log, snap, bcast, remote, asks, faults>>

\* onclose.
OnClose ==
    /\ conn = "closing"
    /\ conn' = "down"
    /\ cl' = IF Revoked(cl) THEN cl
             ELSE [distrustSocket(fence(cl)) EXCEPT !.status = "connecting"]
    /\ late' = late \cup Abandoned([rec |-> NoRec])
    /\ UNCHANGED <<penv, connNo, out, inq, gap, room, access, log, snap, bcast,
                   remote, asks, faults>>

\* onopen: every wanted room is joined again.
OnOpen ==
    /\ conn = "down"
    /\ connNo < MaxConns
    /\ conn' = "up"
    /\ connNo' = connNo + 1
    /\ inq' = IF cl.desired THEN <<[t |-> "join", load |-> {}]>> ELSE <<>>
    /\ cl' = [cl EXCEPT !.joined = FALSE,
                        !.status = IF cl.desired /\ ~Revoked(cl) THEN "connecting" ELSE @]
    /\ UNCHANGED <<penv, out, gap, logVars, faults>>

-----------------------------------------------------------------------------
(* Server steps.                                                           *)

\* Puts a frame in the connection's queue (sendFrame); it carries a gap when the
\* one before it was dropped.
Send(f) == out' = Append(out, [f EXCEPT !.gap = gap]) /\ gap' = FALSE

Frame(t, seq, load, own, w) ==
    [t |-> t, seq |-> seq, load |-> load, own |-> own, w |-> w, gap |-> FALSE]

\* handleCollabJoin; over the connection's budget ReadPump discards the join with an error
\* that names no document, and it is never answered.
ServerJoin ==
    /\ conn = "up"
    /\ inq # <<>>
    /\ Head(inq).t = "join"
    /\ inq' = Tail(inq)
    /\ \/ /\ access # "none"
          /\ room' = access
          /\ Send(Frame("joined", 0, {}, FALSE, access = "write"))
          /\ UNCHANGED faults
       \/ /\ access = "none"
          /\ Send(Frame("rejected", 0, {}, FALSE, TRUE))
          /\ UNCHANGED <<room, faults>>
       \/ /\ Fault("join")
          /\ Send(Frame("rejected", 0, {}, FALSE, FALSE))
          /\ UNCHANGED room
       \/ /\ Fault("unscoped")
          /\ Send(Frame("error", 0, {}, FALSE, FALSE))
          /\ UNCHANGED room
    /\ UNCHANGED <<penv, cl, conn, connNo, access, log, snap, bcast, late, remote, asks>>

\* handleCollabLeave.
ServerLeave ==
    /\ conn = "up"
    /\ inq # <<>>
    /\ Head(inq).t = "leave"
    /\ inq' = Tail(inq)
    /\ room' = "none"
    /\ Send(Frame("left", 0, {}, FALSE, FALSE))
    /\ UNCHANGED <<penv, cl, conn, connNo, access, log, snap, bcast, late, remote, asks, faults>>

\* handleCollabUpdate: appended and relayed; refused, over the rate limit, or
\* failed; or committed although the server's deadline passed, and not relayed.
ServerUpdate ==
    /\ conn = "up"
    /\ inq # <<>>
    /\ Head(inq).t = "update"
    /\ inq' = Tail(inq)
    /\ \/ /\ room = "write"
          /\ log' = Append(log, Head(inq).load)
          /\ bcast' = bcast \cup {[seq |-> Len(log) + 1, origin |-> connNo]}
          /\ UNCHANGED <<out, gap, faults>>
       \/ /\ \/ room # "write" /\ UNCHANGED faults
             \/ Fault("server")
             \/ Fault("unscoped")
          /\ Send(Frame("error", 0, {}, FALSE, FALSE))
          /\ UNCHANGED <<log, bcast>>
       \/ /\ room = "write"
          /\ Fault("server")
          /\ Send(Frame("error", 0, {}, FALSE, FALSE))
          /\ log' = Append(log, Head(inq).load)
          /\ UNCHANGED bcast
    /\ UNCHANGED <<penv, cl, conn, connNo, room, access, snap, late, remote, asks>>

\* Any other frame of this connection is refused with an error that names no
\* document (sendError).
UnscopedError ==
    /\ conn = "up"
    /\ Fault("unscoped")
    /\ Send(Frame("error", 0, {}, FALSE, FALSE))
    /\ UNCHANGED <<penv, cl, conn, connNo, inq, logVars>>

\* A committed update is relayed to this connection if it is in the room.
Fanout(b) ==
    /\ b \in bcast
    /\ bcast' = bcast \ {b}
    /\ IF room # "none" /\ conn = "up"
         THEN Send(Frame("update", b.seq, log[b.seq], b.origin = connNo, FALSE))
         ELSE UNCHANGED <<out, gap>>
    /\ UNCHANGED <<penv, cl, conn, connNo, inq, room, access, log, snap, late, remote,
                   asks, faults>>

\* The relay fails: another replica's publish is lost, or the send buffer is
\* full and the frame dropped after its sequence number was taken.
FanoutFails(b) ==
    /\ b \in bcast
    /\ bcast' = bcast \ {b}
    /\ \/ b.origin # connNo /\ Fault("lose") /\ UNCHANGED gap
       \/ room # "none" /\ conn = "up" /\ Fault("drop") /\ gap' = TRUE
    /\ UNCHANGED <<penv, cl, conn, connNo, out, inq, room, access, log, snap, late,
                   remote, asks>>

\* Append by another client of the room.  This client's edits are 1..MaxEdits; a
\* remote update carries one edit of its own.
RemoteAppend ==
    /\ remote < MaxRemote
    /\ remote' = remote + 1
    /\ log' = Append(log, {MaxEdits + remote + 1})
    /\ bcast' = bcast \cup {[seq |-> Len(log) + 1, origin |-> 0]}
    /\ UNCHANGED <<penv, cl, socketVars, room, access, snap, late, asks, faults>>

\* A write the client gave up on commits after all.
LateAppend(x) ==
    /\ x \in late
    /\ late' = late \ {x}
    /\ access = "write"
    /\ log' = Append(log, x.load)
    /\ bcast' = bcast \cup {[seq |-> Len(log) + 1, origin |-> x.origin]}
    /\ UNCHANGED <<penv, cl, socketVars, room, access, snap, remote, asks, faults>>

\* What GET /state returns past since: the snapshot when it is newer, and a page
\* of the updates it does not cover.
StateServed ==
    LET since == cl.rec.since
        base == Max({since, snap.seq})
        last == Min({Len(log), base + CatchUpPage})
    IN  /\ cl.rec.at = "get"
        /\ access # "none"
        /\ cl' = [cl EXCEPT !.rec.at = "got",
                    !.rec.load = (IF snap.seq > since THEN snap.content ELSE {})
                                   \cup UNION {log[s] : s \in (base + 1)..last},
                    !.rec.through = last,
                    !.rec.more = last < Len(log)]
        /\ UNCHANGED <<penv, socketVars, logVars, faults>>

\* POST /updates.
AppendServed ==
    /\ cl.rec.at = "post"
    /\ access = "write"
    /\ log' = Append(log, cl.rec.load)
    /\ bcast' = bcast \cup {[seq |-> Len(log) + 1, origin |-> 0]}
    /\ cl' = [cl EXCEPT !.rec.at = "posted", !.rec.seq = Len(log) + 1]
    /\ UNCHANGED <<penv, socketVars, room, access, snap, late, remote, asks, faults>>

\* maybeRequestCompaction reaches this connection as its replica's leader.
AskCompaction ==
    /\ asks < MaxAsks
    /\ asks' = asks + 1
    /\ Len(log) - snap.seq >= CompactAt
    /\ room # "none"
    /\ conn = "up"
    /\ Send(Frame("compact", Len(log), {}, FALSE, FALSE))
    /\ UNCHANGED <<penv, cl, conn, connNo, inq, room, access, log, snap, bcast, late,
                   remote, faults>>

\* POST /snapshot: stored, or refused because a later one is there.
SnapshotServed ==
    /\ cl.comp.at = "sent"
    /\ cl' = [cl EXCEPT !.comp.at = "done"]
    /\ snap' = IF access = "write" /\ cl.comp.seq > snap.seq
                 THEN [seq |-> cl.comp.seq, content |-> cl.comp.content] ELSE snap
    /\ UNCHANGED <<penv, socketVars, room, access, log, bcast, late, remote, asks, faults>>

\* The user's access to the document is reduced or withdrawn.
ChangeAccess ==
    /\ Fault("access")
    /\ \/ access = "write" /\ access' \in {"read", "none"}
       \/ access = "read" /\ access' = "none"
    /\ UNCHANGED <<penv, cl, socketVars, room, log, snap, bcast, late, remote, asks>>

\* RevokeRoom, or recheckRooms, finds a membership the access no longer backs:
\* it is ended and the client told, or its write flag is refreshed.
Recheck ==
    /\ room # "none"
    /\ room # access
    /\ room' = access
    /\ IF access = "none" THEN Send(Frame("left", 0, {}, FALSE, TRUE))
                          ELSE UNCHANGED <<out, gap>>
    /\ UNCHANGED <<penv, cl, conn, connNo, inq, access, log, snap, bcast, late, remote,
                   asks, faults>>

-----------------------------------------------------------------------------
ProviderNext ==
    \/ \E big \in BOOLEAN : Edit(big)
    \/ Deliver
    \/ AckTimeout
    \/ StateApplied
    \/ AppendAcked
    \/ HttpRefused
    \/ HttpLost
    \/ CompactionAnswered
    \/ CompactionLost
    \/ Retry
    \/ Sever
    \/ OnClose
    \/ OnOpen
    \/ ServerJoin
    \/ ServerLeave
    \/ ServerUpdate
    \/ UnscopedError
    \/ \E b \in bcast : Fanout(b)
    \/ \E b \in bcast : FanoutFails(b)
    \/ RemoteAppend
    \/ \E x \in late : LateAppend(x)
    \/ StateServed
    \/ AppendServed
    \/ AskCompaction
    \/ SnapshotServed
    \/ ChangeAccess
    \/ Recheck

ProviderSpec == ProviderInit /\ [][ProviderNext]_pvars

\* The steps the code takes by itself: timers fire, sockets reconnect, requests
\* are answered, frames are handled.
SystemStep ==
    \/ Deliver \/ AckTimeout \/ StateApplied \/ AppendAcked \/ HttpRefused
    \/ CompactionAnswered \/ OnClose \/ OnOpen \/ ServerJoin \/ ServerLeave
    \/ ServerUpdate \/ StateServed \/ AppendServed \/ SnapshotServed \/ Recheck
    \/ \E b \in bcast : Fanout(b)

\* Those steps do not stop while one of them can be taken.  Nothing makes the
\* user act, another client edit, or a fault happen.
ProviderFairSpec == ProviderSpec /\ WF_pvars(SystemStep)

-----------------------------------------------------------------------------
(* Properties.                                                             *)

Logged(e) == \E s \in 1..Len(log) : e \in log[s]

(* Type correctness; the seqs held ahead leave a hole above the watermark,   *)
(* and unacknowledged frames are part of what is pending.                   *)
ProviderTypeOK ==
    /\ cl.status \in {"connecting", "saving", "synced", "read-only", "revoked", "error"}
    /\ {cl.canWrite, cl.needs, cl.desired, cl.joined} \subseteq BOOLEAN
    /\ cl.wm \in 0..Len(log)
    /\ cl.ahead \subseteq (cl.wm + 2)..Len(log)
    /\ cl.made \in 0..MaxEdits
    /\ cl.pending \subseteq 1..cl.made
    /\ cl.sends \subseteq cl.pending
    /\ cl.cycle \in 0..cl.made
    /\ cl.compHead \in 0..Len(log)
    /\ cl.rec.at \in {"idle", "get", "got", "post", "posted"}
    /\ cl.comp.at \in {"idle", "sent", "done"}
    /\ conn \in {"down", "up", "closing"}
    /\ {room, access} \subseteq {"none", "read", "write"}
    /\ conn # "up" => room = "none"

(* The watermark and the seqs held ahead of it name updates the document    *)
(* really contains, so that a catch-up from the watermark misses nothing    *)
(* (recordAppliedSeq and advanceThrough).                                   *)
AppliedBelowWatermark ==
    \A s \in (1..cl.wm) \cup cl.ahead : log[s] \subseteq cl.doc

(* No edit is forgotten: until the log holds it, it stays pending, whatever *)
(* echoes, timeouts, recoveries and disconnections happen in between.       *)
NoEditForgotten == \A e \in 1..cl.made : e \in cl.pending \/ Logged(e)

(* The status shown when nothing is being saved is true: every edit the     *)
(* user made is in the log.                                                 *)
SyncedIsDurable ==
    cl.status \in {"synced", "read-only"} => \A e \in 1..cl.made : Logged(e)

(* A snapshot the client uploads covers every update at or below the seq it *)
(* is labelled with, and the server deletes those (maybeCompact).           *)
SnapshotCoversItsPrefix ==
    \A s \in 1..snap.seq : log[s] \subseteq snap.content

(* Nothing is under way that would change what the provider shows.          *)
Quiescent ==
    /\ conn = "up" /\ room # "none" /\ out = <<>> /\ inq = <<>>
    /\ bcast = {} /\ ~RecoveryInFlight(cl)

(* A provider at rest in its room that says it is synced has every update   *)
(* of the log: joining before loading leaves no window.                     *)
SyncedIsCurrent ==
    Quiescent /\ cl.status = "synced" => cl.wm = Len(log)

(* ... across disconnections and rejoins, when nothing fails and no second   *)
(* compaction is asked for: one that waits for the upload of the first makes *)
(* the provider read the log while it is out of the room (maybeCompact).     *)
CurrentAfterRejoin == Faults = {} /\ MaxAsks <= 1 => SyncedIsCurrent

(* The provider shows that it is loading and is not in its room: its join   *)
(* failed or was discarded, and nothing will answer it (handleRoom).        *)
LeftWaiting == cl.status = "connecting" /\ ~cl.joined
JoinsAreAnswered == Faults \cap {"join", "unscoped"} = {}

(* Every edit is eventually acknowledged, or the user is told: the ack      *)
(* watchdog, the rejected frames and the reconnect leave no edit behind,    *)
(* unless the provider waits for a room that nobody lets it into.           *)
EditsResolve ==
    []<>(\/ cl.pending = {} \/ cl.status \in {"error", "revoked"}
         \/ LeftWaiting /\ ~JoinsAreAnswered)

(* The provider does not stay in the loading state once it is in its room,  *)
(* and where every join is answered it gets there after every reconnect.    *)
ConnectingEnds ==
    []<>(cl.status # "connecting" \/ (LeftWaiting /\ ~JoinsAreAnswered))

(* What a reader of ConnectingEnds would rather have, and a discarded join  *)
(* prevents: loading ends.                                                  *)
LoadingEnds == []<>(cl.status # "connecting")

(* The replica is what its bookkeeping says it is: the watermark, the seqs  *)
(* held ahead, the snapshots it uploads and the status "synced" all tell    *)
(* the truth about the document.                                            *)
ReplicaSound ==
    ProviderTypeOK /\ AppliedBelowWatermark /\ SnapshotCoversItsPrefix /\ CurrentAfterRejoin

(* An edit is in the log or pending, and is in the log when the status says *)
(* that nothing is left to save.                                            *)
EditsKept == NoEditForgotten /\ SyncedIsDurable

(* Edits are acknowledged or reported, and loading ends.                    *)
ProviderSettles == EditsResolve /\ ConnectingEnds
=============================================================================
