----------------------------- MODULE ClientSend -----------------------------
(***************************************************************************)
(* The outbound side of one WebSocket connection: any number of goroutines *)
(* (broadcasts, the read pump, the recheck) send frames through sendFrame  *)
(* and trySend (backend/internal/ws/client.go), the write pump drains the  *)
(* buffer, and the app watches the sequence numbers (trackSeq and resync   *)
(* in app/src/lib/websocket.ts).  Nothing is replayed, so a dropped frame  *)
(* has to show as a gap, or the connection has to end.                     *)
(***************************************************************************)
EXTENDS Integers, Sequences

CONSTANTS
    Senders,    \* goroutines
    SendBuffer, \* capacity of the send channel
    MaxDrops,   \* maxConsecutiveDrops
    MaxFrames   \* bound of the model: frames sent

ASSUME ClientSendAssumption ==
    /\ SendBuffer \in Nat \ {0}
    /\ MaxDrops \in Nat \ {0}
    /\ MaxFrames \in Nat

VARIABLES
    seq,      \* Client.seq
    held,     \* the number each sender has taken and not yet handed over, or 0
    send,     \* the buffered channel
    drops,    \* consecutive drops
    closing,  \* kill was called
    lastSeq,  \* the app: the last number it saw
    dropped,  \* numbers of the frames that were dropped
    told,     \* the missing numbers the open documents were told of
    inFlight, \* resyncInFlight
    cooling,  \* less than RESYNC_COOLDOWN_MS since lastResyncAt
    began,    \* lastSeq when the last refetch of the stores began
    fetched,  \* lastSeq when the last one that got its answers began
    stale     \* missing numbers the stores have not been refetched for

appvars == <<lastSeq, told, inFlight, cooling, began, fetched, stale>>
clientvars == <<seq, held, send, drops, closing, dropped, appvars>>

ClientInit ==
    /\ seq = 0
    /\ held = [g \in Senders |-> 0]
    /\ send = <<>>
    /\ drops = 0
    /\ closing = FALSE
    /\ lastSeq = 0
    /\ dropped = {}
    /\ told = {}
    /\ inFlight = FALSE
    /\ cooling = FALSE
    /\ began = 0
    /\ fetched = 0
    /\ stale = {}

\* Mutant: the number is taken outside the mutex.
TakeUnlocked(g) ==
    /\ held[g] = 0
    /\ seq < MaxFrames
    /\ seq' = seq + 1
    /\ held' = [held EXCEPT ![g] = seq + 1]
    /\ UNCHANGED <<send, drops, closing, dropped, appvars>>

\* sendFrame takes sendMu and the next number.
Take(g) ==
    /\ \A h \in Senders : held[h] = 0
    /\ seq < MaxFrames
    /\ seq' = seq + 1
    /\ held' = [held EXCEPT ![g] = seq + 1]
    /\ UNCHANGED <<send, drops, closing, dropped, appvars>>

\* trySend: the buffer takes the frame.
Enqueue(g) ==
    /\ held[g] # 0
    /\ Len(send) < SendBuffer
    /\ send' = Append(send, held[g])
    /\ drops' = 0
    /\ held' = [held EXCEPT ![g] = 0]
    /\ UNCHANGED <<seq, closing, dropped, appvars>>

\* trySend: the buffer is full; too many in a row end the connection.
DropFrame(g) ==
    /\ held[g] # 0
    /\ Len(send) = SendBuffer
    /\ dropped' = dropped \cup {held[g]}
    /\ drops' = drops + 1
    /\ closing' = (closing \/ drops + 1 >= MaxDrops)
    /\ held' = [held EXCEPT ![g] = 0]
    /\ UNCHANGED <<seq, send, appvars>>

\* resync, after the app has seen the number last: one at a time and none during the cooldown.
resync(last) ==
    LET begins == ~inFlight /\ ~cooling
    IN  /\ inFlight' = (inFlight \/ begins)
        /\ cooling' = (cooling \/ begins)
        /\ began' = IF begins THEN last ELSE began

\* The write pump sends the oldest frame and the app tracks its number: over a gap it
\* tells the documents and refetches the stores.
Write ==
    /\ send # <<>>
    /\ LET n == Head(send)
           gap == IF lastSeq # 0 THEN (lastSeq + 1)..(n - 1) ELSE {}
       IN  /\ send' = Tail(send)
           /\ lastSeq' = IF n > lastSeq THEN n ELSE lastSeq
           /\ told' = told \cup gap
           /\ stale' = stale \cup gap
           /\ IF gap # {} THEN resync(n) ELSE UNCHANGED <<inFlight, cooling, began>>
    /\ UNCHANGED <<seq, held, drops, closing, dropped, fetched>>

\* A refetch for another reason: a reconnect, a revocation, an event, the user.
Refetch ==
    /\ resync(lastSeq)
    /\ UNCHANGED <<seq, held, send, drops, closing, dropped, lastSeq, told, fetched, stale>>

\* The answers are in and replace what the stores held, or none is and they keep it.
RefetchDone ==
    /\ inFlight
    /\ inFlight' = FALSE
    /\ \/ fetched' = began /\ stale' = {n \in stale : n > began}
       \/ UNCHANGED <<fetched, stale>>
    /\ UNCHANGED <<seq, held, send, drops, closing, dropped, lastSeq, told, cooling, began>>

\* RESYNC_COOLDOWN_MS have passed.
CooldownEnds ==
    /\ cooling
    /\ cooling' = FALSE
    /\ UNCHANGED <<seq, held, send, drops, closing, dropped, lastSeq, told, inFlight, began, fetched, stale>>

ClientNext ==
    \/ \E g \in Senders : Take(g) \/ Enqueue(g) \/ DropFrame(g)
    \/ Write \/ Refetch \/ RefetchDone \/ CooldownEnds

ClientSpec == ClientInit /\ [][ClientNext]_clientvars

-----------------------------------------------------------------------------
(* The open documents are told of exactly the frames that were dropped      *)
(* before the last one the app saw: no drop goes unnoticed once a later      *)
(* frame arrives, and goroutines that send at the same time cause no false   *)
(* gap.                                                                      *)
EveryDropIsNoticed == told = {n \in dropped : n < lastSeq}

(* A client that has not read anything for MaxDrops frames in a row is      *)
(* being disconnected rather than left to miss everything silently.         *)
SlowClientIsClosed ==
    \A n \in 0..(seq - MaxDrops) : (n + 1)..(n + MaxDrops) \subseteq dropped => closing

(* The stores lack only frames that were dropped and that the app jumped    *)
(* over after its last successful refetch began: one refetch makes up for   *)
(* every gap that another in flight or its cooldown made resync ignore.     *)
StaleIsRecent == \A n \in stale : n \in told /\ fetched < n

(* A full buffer never loses a frame silently: the documents are told, the  *)
(* next refetch makes up for it, or the connection is being closed.         *)
DropsAreNoticed == EveryDropIsNoticed /\ SlowClientIsClosed /\ StaleIsRecent

(* What the comment in trackSeq says: the only correct response to a gap is *)
(* to refetch.                                                              *)
GapIsRefetched == ~inFlight /\ ~cooling => stale = {}
=============================================================================
