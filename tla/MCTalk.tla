------------------------------- MODULE MCTalk -------------------------------
(***************************************************************************)
(* What happens in a channel: messages and their events, the workflows     *)
(* that such events start, and calls.  Each behaviour runs one of them     *)
(* while the others have no operation to take.                             *)
(***************************************************************************)
EXTENDS MCMessaging, MCWorkflowEngine, Huddle

ChannelAtRest == Channel(Empty, {}, NoMessageOps)
EngineAtRest == Engine(Off, Off, {}, 0, 0, FALSE, FALSE, NoWfOps)
TalkChannels == MCMessageEnvironments \cup {ChannelAtRest}
TalkEngines == MCWfEnvironments \cup {EngineAtRest}

Messages == menv # ChannelAtRest
Engines == wenv # EngineAtRest
TalkInit == MessageInit /\ WfInit /\ HuddleInit /\ ~(Messages /\ Engines)
TalkNext ==
    \/ Messages /\ MessageNext /\ UNCHANGED <<wfvars, huddlevars>>
    \/ Engines /\ WfNext /\ UNCHANGED <<mvars, huddlevars>>
    \/ ~Messages /\ ~Engines /\ HuddleNext /\ UNCHANGED <<mvars, wfvars>>
TalkSpec ==
    /\ TalkInit /\ [][TalkNext]_<<mvars, wfvars, huddlevars>>
    /\ MessageFairness /\ WfFairness /\ HuddleFairness
=============================================================================
