------------------------------- MODULE Huddle -------------------------------
(***************************************************************************)
(* The calls of one channel (backend/internal/huddle, cmd/worker's         *)
(* reconcileHuddles): the database's view of them, the media server (SFU)  *)
(* that really holds the rooms, the webhooks between the two and the       *)
(* reconciler that repairs what the webhooks missed.                       *)
(***************************************************************************)
EXTENDS Integers, FiniteSets

CONSTANTS
    Requests,   \* HTTP requests that run at the same time
    MaxHuddles, \* bound of the model: calls ever started
    Sids,       \* SFU sessions
    MaxOutages, \* bound of the model: times the reconciler fails
    CallFaults  \* subset of {"lose", "duplicate", "restart", "media"}

ASSUME HuddleAssumption ==
    /\ MaxHuddles \in Nat /\ MaxOutages \in Nat
    /\ CallFaults \subseteq {"lose", "duplicate", "restart", "media"}

Huddles == 1..MaxHuddles

VARIABLES
    huddle,  \* rows of huddles: state and reason
    aged,    \* calls older than huddleReconcileGrace
    room,    \* the SFU's rooms
    tokens,  \* rooms a client holds a token of
    sess,    \* each session: its call and whether it is connected
    row,     \* rows of huddle_participants: none, live or left
    hooks,   \* webhooks on their way, in any order; seen: its id is in huddle_webhook_events
    req,     \* each request
    job,     \* the reconciler
    outages  \* its failures so far

huddlevars == <<huddle, aged, room, tokens, sess, row, hooks, req, job, outages>>
dbVars == <<huddle, row>>
sfuVars == <<room, sess, hooks>>

Quiet == [at |-> "idle", h |-> 0]
NoJob == [at |-> "idle", h |-> 0, report |-> {}]

HuddleInit ==
    /\ huddle = [h \in Huddles |-> [state |-> "none", reason |-> "none"]]
    /\ aged = {} /\ room = [h \in Huddles |-> "none"] /\ tokens = {}
    /\ sess = [s \in Sids |-> [h |-> 0, in |-> FALSE]]
    /\ row = [s \in Sids |-> "none"]
    /\ hooks = {} /\ outages = 0
    /\ req = [r \in Requests |-> Quiet]
    /\ job = NoJob

Live == {h \in Huddles : huddle[h].state = "live"}
InRoom(h) == {s \in Sids : sess[s].h = h /\ sess[s].in}
Roster(h) == {s \in Sids : sess[s].h = h /\ row[s] = "live"}

\* What the SFU tells: an event is sent until it is answered.
Hook(type, h, s) == [type |-> type, h |-> h, s |-> s, seen |-> FALSE]
RoomFinished(h) == Hook("finished", h, "nobody")

-----------------------------------------------------------------------------
(* Starting and ending a call.                                             *)

\* StartOrJoin: the partial unique index lets one call live per channel.
Start(r) ==
    /\ req[r].at = "idle"
    /\ IF Live # {}
       THEN /\ req' = [req EXCEPT ![r] = [at |-> "token", h |-> CHOOSE h \in Live : TRUE]]
            /\ UNCHANGED huddle
       ELSE \E h \in Huddles :
            /\ huddle[h].state = "none" /\ \A g \in 1..(h - 1) : huddle[g].state # "none"
            /\ huddle' = [huddle EXCEPT ![h] = [state |-> "live", reason |-> "none"]]
            /\ req' = [req EXCEPT ![r] = [at |-> "create", h |-> h]]
    /\ UNCHANGED <<aged, row, tokens, sfuVars, job, outages>>

CreateRoom(r) ==
    /\ req[r].at = "create"
    /\ room' = [room EXCEPT ![req[r].h] = "open"]
    /\ req' = [req EXCEPT ![r].at = "token"]
    /\ UNCHANGED <<dbVars, aged, tokens, sess, hooks, job, outages>>

\* The SFU does not answer, whether or not it made the room: the row is to be undone.
CreateRoomFails(r) ==
    /\ "media" \in CallFaults /\ req[r].at = "create"
    /\ \/ UNCHANGED room
       \/ room' = [room EXCEPT ![req[r].h] = "open"]
    /\ req' = [req EXCEPT ![r].at = "undo"]
    /\ UNCHANGED <<dbVars, aged, tokens, sess, hooks, job, outages>>

\* Mutant: the last to end a call writes its reason.
EndAgain(h, reason) ==
    /\ huddle' = [huddle EXCEPT ![h] = [state |-> "ended", reason |-> reason]]
    /\ row' = [s \in Sids |-> IF s \in Roster(h) THEN "left" ELSE row[s]]

\* Repository.End: the first to end a call wins, and closes its sessions.
EndCall(h, reason) ==
    IF huddle[h].state = "live"
    THEN /\ huddle' = [huddle EXCEPT ![h] = [state |-> "ended", reason |-> reason]]
         /\ row' = [s \in Sids |-> IF s \in Roster(h) THEN "left" ELSE row[s]]
    ELSE UNCHANGED dbVars

Undo(r) ==
    /\ req[r].at = "undo"
    /\ EndCall(req[r].h, "failed")
    /\ req' = [req EXCEPT ![r] = Quiet]
    /\ UNCHANGED <<aged, tokens, sfuVars, job, outages>>

\* writeJoin: the client gets a token for the room.
Token(r) ==
    /\ req[r].at = "token"
    /\ tokens' = tokens \cup {req[r].h}
    /\ req' = [req EXCEPT ![r] = Quiet]
    /\ UNCHANGED <<dbVars, aged, sfuVars, job, outages>>

\* The End handler reads the live call, ends it in the database and then
\* deletes the room.
EndRead(r) ==
    /\ req[r].at = "idle"
    /\ \E h \in Live : req' = [req EXCEPT ![r] = [at |-> "end", h |-> h]]
    /\ UNCHANGED <<dbVars, aged, tokens, sfuVars, job, outages>>

EndCommit(r) ==
    /\ req[r].at = "end"
    /\ EndCall(req[r].h, "ended_by_user")
    /\ req' = [req EXCEPT ![r].at = "delete"]
    /\ UNCHANGED <<aged, tokens, sfuVars, job, outages>>

\* The room goes, with everyone in it; the SFU says so.
Close(h) ==
    /\ room' = [room EXCEPT ![h] = "gone"]
    /\ sess' = [s \in Sids |-> IF s \in InRoom(h) THEN [sess[s] EXCEPT !.in = FALSE]
                               ELSE sess[s]]
    /\ hooks' = hooks \cup {Hook("left", h, s) : s \in InRoom(h)} \cup {RoomFinished(h)}

DeleteRoom(r) ==
    /\ req[r].at = "delete"
    /\ IF room[req[r].h] = "open" THEN Close(req[r].h) ELSE UNCHANGED <<room, sess, hooks>>
    /\ req' = [req EXCEPT ![r] = Quiet]
    /\ UNCHANGED <<dbVars, aged, tokens, job, outages>>

\* The SFU does not answer, or the request dies: what is written stays written.
RequestDies(r) ==
    /\ "media" \in CallFaults /\ req[r].at # "idle"
    /\ req' = [req EXCEPT ![r] = Quiet]
    /\ UNCHANGED <<dbVars, aged, tokens, sfuVars, job, outages>>

-----------------------------------------------------------------------------
(* The SFU (external).                                                     *)

Join(s, h) ==
    /\ sess[s].h = 0 /\ h \in tokens /\ room[h] = "open"
    /\ sess' = [sess EXCEPT ![s] = [h |-> h, in |-> TRUE]]
    /\ hooks' = hooks \cup {Hook("joined", h, s)}
    /\ UNCHANGED <<dbVars, aged, room, tokens, req, job, outages>>

LeaveCall(s) ==
    /\ sess[s].in
    /\ sess' = [sess EXCEPT ![s].in = FALSE]
    /\ hooks' = hooks \cup {Hook("left", sess[s].h, s)}
    /\ UNCHANGED <<dbVars, aged, room, tokens, req, job, outages>>

\* empty_timeout.
RoomTimesOut(h) ==
    /\ room[h] = "open" /\ InRoom(h) = {}
    /\ Close(h)
    /\ UNCHANGED <<dbVars, aged, tokens, req, job, outages>>

\* A restart: the SFU has forgotten every room, and says nothing.
SfuRestarts ==
    /\ "restart" \in CallFaults /\ \E h \in Huddles : room[h] = "open"
    /\ room' = [h \in Huddles |-> IF room[h] = "open" THEN "gone" ELSE room[h]]
    /\ sess' = [s \in Sids |-> [sess[s] EXCEPT !.in = FALSE]]
    /\ UNCHANGED <<dbVars, aged, tokens, hooks, req, job, outages>>

-----------------------------------------------------------------------------
(* Webhooks.                                                               *)

\* Apply, for an event that is new.
Effect(e) ==
    CASE e.type = "joined" ->
            /\ row' = [row EXCEPT ![e.s] = IF @ = "none" THEN "live" ELSE @]
            /\ UNCHANGED huddle
      [] e.type = "left" ->
            /\ row' = [row EXCEPT ![e.s] = IF @ = "live" THEN "left" ELSE @]
            /\ UNCHANGED huddle
      [] OTHER ->
            /\ huddle' = IF huddle[e.h].state = "live"
                         THEN [huddle EXCEPT ![e.h] = [state |-> "ended", reason |-> "empty"]] ELSE huddle
            /\ row' = [s \in Sids |-> IF s \in Roster(e.h) THEN "left" ELSE row[s]]

\* The dedupe row and the effect are one transaction.  The SFU may not hear the
\* answer and send the event once more.
DeliverHook(e) ==
    /\ IF e.seen THEN UNCHANGED dbVars ELSE Effect(e)
    /\ \/ hooks' = hooks \ {e}
       \/ "duplicate" \in CallFaults /\ ~e.seen /\ hooks' = (hooks \ {e}) \cup {[e EXCEPT !.seen = TRUE]}
    /\ UNCHANGED <<aged, room, tokens, sess, req, job, outages>>

LoseHook(e) ==
    /\ "lose" \in CallFaults
    /\ hooks' = hooks \ {e}
    /\ UNCHANGED <<dbVars, aged, room, tokens, sess, req, job, outages>>

-----------------------------------------------------------------------------
(* The reconciler.                                                         *)

\* The grace is much longer than a Start takes to create its room.
Ages(h) ==
    /\ h \in Live \ aged
    /\ \A r \in Requests : req[r].h = h => req[r].at \notin {"create", "undo"}
    /\ aged' = aged \cup {h}
    /\ UNCHANGED <<dbVars, tokens, sfuVars, req, job, outages>>

\* StaleLive: the live calls, a while after they started.
StaleLive(h) ==
    /\ job.at = "idle" /\ h \in Live \cap aged
    /\ job' = [NoJob EXCEPT !.at = "ask", !.h = h]
    /\ UNCHANGED <<dbVars, aged, tokens, sfuVars, req, outages>>

\* Mutant: a room the SFU does not know is skipped like an error.
AskSkipsGone ==
    /\ job.at = "ask"
    /\ job' = IF room[job.h] # "open" THEN NoJob
              ELSE [job EXCEPT !.at = IF InRoom(job.h) = {} THEN "empty" ELSE "apply",
                               !.report = InRoom(job.h)]
    /\ UNCHANGED <<dbVars, aged, tokens, sfuVars, req, outages>>

\* The SFU's answer: no such room, nobody, or who is there.
ReconcileAsk ==
    /\ job.at = "ask"
    /\ job' = [job EXCEPT !.at = CASE room[job.h] # "open" -> "reconciled"
                                   [] InRoom(job.h) = {}   -> "empty"
                                   [] OTHER                -> "apply",
                          !.report = InRoom(job.h)]
    /\ UNCHANGED <<dbVars, aged, tokens, sfuVars, req, outages>>

ReconcileEnd ==
    /\ job.at \in {"reconciled", "empty"}
    /\ EndCall(job.h, job.at)
    /\ job' = NoJob
    /\ UNCHANGED <<aged, tokens, sfuVars, req, outages>>

\* ReconcileParticipants: reported sessions without a row get one (a row that is
\* there keeps its left_at), sessions that are not reported are closed.
ReconcileRoster ==
    /\ job.at = "apply"
    /\ row' = [s \in Sids |->
         CASE s \in job.report /\ row[s] = "none" -> "live"
           [] s \in Roster(job.h) \ job.report    -> "left"
           [] OTHER                               -> row[s]]
    /\ job' = NoJob
    /\ UNCHANGED <<huddle, aged, tokens, sfuVars, req, outages>>

\* The SFU or the database does not answer: the next pass starts over.
ReconcileFails ==
    /\ outages < MaxOutages /\ job.at # "idle"
    /\ outages' = outages + 1
    /\ job' = NoJob
    /\ UNCHANGED <<dbVars, aged, tokens, sfuVars, req>>

HuddleNext ==
    \/ \E r \in Requests :
        \/ Start(r) \/ CreateRoom(r) \/ CreateRoomFails(r) \/ Undo(r) \/ Token(r)
        \/ EndRead(r) \/ EndCommit(r) \/ DeleteRoom(r) \/ RequestDies(r)
    \/ \E s \in Sids : LeaveCall(s) \/ \E h \in Huddles : Join(s, h)
    \/ \E h \in Huddles : RoomTimesOut(h) \/ Ages(h) \/ StaleLive(h)
    \/ SfuRestarts
    \/ \E e \in hooks : DeliverHook(e) \/ LoseHook(e)
    \/ ReconcileAsk \/ ReconcileEnd \/ ReconcileRoster \/ ReconcileFails

HuddleSpec == HuddleInit /\ [][HuddleNext]_huddlevars

\* Requests run to their end, webhooks are retried until they are answered, the
\* job runs every 30 seconds, and time passes.
HuddleFairness ==
    /\ \A r \in Requests : WF_huddlevars(CreateRoom(r) \/ Undo(r) \/ Token(r) \/ EndCommit(r) \/ DeleteRoom(r))
    /\ WF_huddlevars(\E e \in hooks : DeliverHook(e))
    /\ \A h \in Huddles : WF_huddlevars(Ages(h)) /\ WF_huddlevars(StaleLive(h))
    /\ WF_huddlevars(ReconcileAsk) /\ WF_huddlevars(ReconcileEnd) /\ WF_huddlevars(ReconcileRoster)

HuddleFairSpec == HuddleSpec /\ HuddleFairness

-----------------------------------------------------------------------------
(* Properties.                                                             *)

\* Type correctness, with the schema's constraint that a call has a reason
\* exactly when it has ended.
HuddleTypeOK ==
    /\ huddle \in [Huddles -> [state : {"none", "live", "ended"},
                    reason : {"none", "failed", "ended_by_user", "empty", "reconciled"}]]
    /\ \A h \in Huddles : (huddle[h].state = "ended") <=> (huddle[h].reason # "none")
    /\ aged \subseteq Huddles /\ tokens \subseteq Huddles
    /\ room \in [Huddles -> {"none", "open", "gone"}]
    /\ sess \in [Sids -> [h : 0..MaxHuddles, in : BOOLEAN]]
    /\ row \in [Sids -> {"none", "live", "left"}]
    /\ hooks \subseteq [type : {"joined", "left", "finished"}, h : Huddles,
                       s : Sids \cup {"nobody"}, seen : BOOLEAN]
    /\ outages \in 0..MaxOutages

\* The reason of an ended call is never overwritten, whoever races to end it: the
\* End handler, the undo of a Start, room_finished and the reconciler; and every
\* step leaves a well-typed state.
FirstReasonWins ==
    [][HuddleTypeOK' /\ \A h \in Huddles : huddle[h].state = "ended" => huddle'[h] = huddle[h]]_huddlevars

\* A call that has no room does not stay live, so that the channel can have
\* another: also when the SFU restarted, when room_finished got lost and when the
\* request that started the call died before it made the room.
ChannelIsFreed ==
    []<>(\A h \in Huddles : huddle[h].state = "live" => room[h] = "open")

\* A session that has left does not stay in the roster of a live call, although
\* its participant_left may be lost or overtaken by its participant_joined, or
\* the reconciler may hold a report from before it left.
GhostsGo ==
    []<>(\A s \in Sids : sess[s].h # 0 /\ ~sess[s].in /\ row[s] = "live" => huddle[sess[s].h].state = "ended")

\* Nothing that is over stays on show: neither a call without a room nor a
\* session that has left.
CallsWindUp == ChannelIsFreed /\ GhostsGo
==============================================================================
