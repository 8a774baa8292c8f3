-------------------------- MODULE MCWorkflowEngine --------------------------
(***************************************************************************)
(* An instance of WorkflowEngine for TLC: two workflows, two admins, two   *)
(* consumers and two runners.  Each environment names what meets in it.    *)
(***************************************************************************)
EXTENDS WorkflowEngine

WfOps == {"create", "save", "archive", "lose", "post", "nak", "minute", "stop", "release", "unwritten"}
NoWfOps == [k \in WfOps |-> 0]
Flow(by, steps, on) == [owner |-> by, enabled |-> on, archived |-> FALSE, triggered |-> on, versions |-> <<[steps |-> steps, author |-> by]>>]
Off == [owner |-> 0, enabled |-> FALSE, archived |-> FALSE, triggered |-> FALSE, versions |-> <<>>]
All == [u \in Admins |-> {"post", "notify", "comment"}]
Engine(w1, w2, steps, consumers, runners, dup, slow, ops) ==
    [workflows |-> [w \in Workflows |-> IF w = 1 THEN w1 ELSE w2], admins |-> Admins, can |-> All, steps |-> steps,
     consumers |-> consumers, runners |-> runners, dup |-> dup, slow |-> slow, ops |-> ops]
Two == <<"comment", "comment">>
MCWfEnvironments ==
    {\* two admins edit one workflow while events arrive
     Engine(Flow(1, <<"comment">>, TRUE), Off, {Two}, 1, 1, FALSE, FALSE, [NoWfOps EXCEPT !["save"] = 2, !["archive"] = 1, !["post"] = 1]),
     \* redeliveries, two workflows on one event
     Engine(Flow(1, <<"comment">>, TRUE), Flow(2, <<"comment">>, TRUE), {}, 2, 1, TRUE, FALSE, [NoWfOps EXCEPT !["post"] = 1, !["nak"] = 1]),
     \* a runner stops inside a run of two steps; a right is lost in between
     Engine(Flow(1, Two, TRUE), Off, {}, 1, 2, FALSE, FALSE, [NoWfOps EXCEPT !["post"] = 1, !["stop"] = 2]),
     Engine(Flow(1, <<"comment", "post">>, TRUE), Off, {}, 1, 2, FALSE, FALSE, [NoWfOps EXCEPT !["post"] = 1, !["stop"] = 1, !["lose"] = 1]),
     \* a workflow that triggers itself; the rate cap; a slow runner
     Engine(Off, Off, {<<"comment">>}, 1, 1, FALSE, FALSE, [NoWfOps EXCEPT !["create"] = 1, !["save"] = 1, !["post"] = 1]),
     Engine(Flow(1, <<"post">>, TRUE), Off, {}, 1, 2, FALSE, FALSE, [NoWfOps EXCEPT !["post"] = 1, !["minute"] = 1, !["unwritten"] = 1]),
     Engine(Flow(1, <<"notify", "comment">>, TRUE), Off, {}, 1, 2, FALSE, TRUE, [NoWfOps EXCEPT !["post"] = 1, !["release"] = 1])}
StopEnvironments == {Engine(Flow(1, Two, TRUE), Off, {}, 1, 2, FALSE, FALSE, [NoWfOps EXCEPT !["post"] = 1, !["stop"] = 1])}
OwnerEnvironments == {Engine(Flow(1, <<"post">>, TRUE), Off, {Two}, 1, 1, FALSE, FALSE, [NoWfOps EXCEPT !["post"] = 1, !["save"] = 1])}
=============================================================================
