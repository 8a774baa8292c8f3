----------------------------- MODULE MCRealtime -----------------------------
(***************************************************************************)
(* An instance of RoomHub and of ClientSend for TLC.  One user has a       *)
(* connection on each of two replicas: NATS is reliable while an update    *)
(* meets a change of access, and while a leader is asked for; then one     *)
(* connection meets two changes of access, a lossy NATS and shutdowns.     *)
(* The hubs and the send buffer of a client share no state: each behaviour *)
(* runs one of them while the other stays as it began.                     *)
(***************************************************************************)
EXTENDS RoomHub, ClientSend

MCUserOf == [c \in Conns |-> "ann"]
MCHomeOf == [c \in Conns |-> IF c = 2 THEN "r2" ELSE "r1"]
Reliable == [faults |-> {}, conns |-> {1, 2}, topics |-> {"doc"},
             changes |-> 0, updates |-> 0, asks |-> 0]
HubAtRest == [Reliable EXCEPT !.conns = {}, !.topics = {}]
RealtimeEnvironments ==
    {[Reliable EXCEPT !.changes = 1, !.updates = 1],
     [Reliable EXCEPT !.asks = 1],
     [Reliable EXCEPT !.faults = {"lose", "shutdown"}, !.conns = {2},
                      !.topics = {"doc", "chan"}, !.changes = 2],
     HubAtRest}

RealtimeInit == HubInit /\ ClientInit
RealtimeNext ==
    \/ henv # HubAtRest /\ HubNext /\ UNCHANGED clientvars
    \/ henv = HubAtRest /\ ClientNext /\ UNCHANGED hubvars
RealtimeSpec == RealtimeInit /\ [][RealtimeNext]_<<hubvars, clientvars>> /\ HubFairness
=============================================================================
