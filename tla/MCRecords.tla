----------------------------- MODULE MCRecords -----------------------------
(***************************************************************************)
(* What is written down about what people did: the audit chain of two      *)
(* workspaces, with a request, a buffer worker and a queue that overflows; *)
(* and the items of the inbox.  Each behaviour runs one of them while the  *)
(* other stays as it began.                                                *)
(***************************************************************************)
EXTENDS AuditChain, MCInbox

CONSTANTS w1, w2, e1, e2, e3, e4

MCHome == e1 :> w1 @@ e2 :> w1 @@ e3 :> w2 @@ e4 :> "loose"
InboxAtRest == [prefs |-> {Pref(FALSE, FALSE)}, deliver |-> 0, touches |-> 0, digests |-> 0, recounts |-> 0]
RecordsInboxes == MCInboxEnvironments \cup {InboxAtRest}

RecordsInit == AuditInit /\ InboxInit
RecordsNext ==
    \/ ienv = InboxAtRest /\ AuditNext /\ UNCHANGED ivars
    \/ ienv # InboxAtRest /\ InboxNext /\ UNCHANGED auditvars
RecordsSpec == RecordsInit /\ [][RecordsNext]_<<auditvars, ivars>>
=============================================================================
