--------------------------- MODULE WorkflowEngine ---------------------------
(***************************************************************************)
(* Automation: when something happens, do something.                       *)
(*                                                                         *)
(* Admins save workflows, each save a new immutable version.  A durable    *)
(* consumer turns an event of the stream into one run per matching         *)
(* workflow, and may see the same event again.  Runners on every replica   *)
(* claim pending runs and walk their steps, recording each step's effect   *)
(* in a table that a later attempt consults.  A runner may stop anywhere;  *)
(* a reaper puts back the runs that have been `running' for too long.      *)
(***************************************************************************)
EXTENDS Integers, Sequences, FiniteSets, SequencesExt, FiniteSetsExt

CONSTANTS Admins,             \* accounts that may administer the workspace
          Workflows,          \* workflow ids
          Editors,            \* save requests in flight
          Consumers,          \* replicas of the trigger consumer, numbered
          Runners,            \* replicas of the step runner, numbered
          MaxSteps,           \* steps a workflow may have
          MaxDepth,           \* generations a chain may have
          MaxRunsPerMinute,   \* runs one workflow may start in a minute
          MaxRunIds,          \* bound on the number of runs
          MaxEvents,          \* bound on the length of the stream
          WfEnvironments      \* initial workflows, rights and budgets

\* A saved version: its steps, and who saved it.  A row of workflows has a version and
\* its triggers once it exists, and archiving disables it.
Version == [steps : Seq(STRING), author : Admins]
Workflow == [owner : Admins \cup {0}, enabled : BOOLEAN, archived : BOOLEAN, triggered : BOOLEAN,
             versions : Seq(Version)]

ASSUME WfAssumption ==
    /\ MaxSteps \in Nat /\ MaxDepth \in Nat /\ MaxRunsPerMinute \in Nat
    /\ MaxRunIds \in Nat /\ MaxEvents \in Nat
    /\ \A e \in WfEnvironments :
          /\ {"ops", "workflows", "steps", "slow"} \subseteq DOMAIN e
          /\ e.slow \in BOOLEAN /\ e.steps \subseteq Seq(STRING) /\ e.workflows \in [Workflows -> Workflow]
          /\ \A w \in Workflows :
                /\ \A k \in DOMAIN e.workflows[w].versions : Len(e.workflows[w].versions[k].steps) <= MaxSteps
                /\ e.workflows[w].triggered => e.workflows[w].versions # <<>>
                /\ e.workflows[w].archived => ~e.workflows[w].enabled

VARIABLES wenv,      \* the environment, its budgets going down
          wf,        \* the workflows, their versions and triggers
          intent,    \* per field, the value of the last save that committed
          editor,    \* saves in progress; one that is not idle holds the row
          can,       \* the steps each admin may perform by hand
          stream,    \* the events: trigger name and provenance
          acked,     \* events the consumer has acknowledged
          consumer,  \* what each consumer is doing
          runs,      \* workflow_runs
          rejected,  \* workflow_trigger_rejections, as <<event, workflow>>
          unrecorded, \* refusals whose row the database did not take
          effects,   \* workflow_effects.status
          performed, \* how often each step's action took effect
          actedAs,   \* <<run, principal>>: whom the run's actions acted as
          runner     \* what each runner is doing

wfvars == <<wenv, wf, intent, editor, can, stream, acked, consumer, runs, rejected, unrecorded, effects,
            performed, actedAs, runner>>
savedVars == <<wf, intent, editor, can>>
triggerVars == <<acked, consumer, rejected, unrecorded>>
runVars == <<effects, performed, actedAs, runner>>

RunIds == 1..MaxRunIds
StepIndexes == 1..MaxSteps
IdleEditor == [pc |-> "idle", w |-> 0, by |-> 0, steps |-> <<>>, on |-> FALSE]
NoMatch == [w |-> 0, ver |-> 0, owner |-> 0]
IdleConsumer == [pc |-> "idle", ev |-> 0, left |-> {}, m |-> NoMatch]
IdleRunner == [pc |-> "idle", run |-> 0, i |-> 0, owner |-> 0]
NoRun == [w |-> 0, ver |-> 0, ev |-> 0, depth |-> 0, gen |-> 0, status |-> "none", fresh |-> FALSE, queuedFor |-> 0]
CanWf(op) == wenv.ops[op] > 0
SpendWf(op) == wenv' = [wenv EXCEPT !.ops[op] = @ - 1]

-----------------------------------------------------------------------------
(* Saving.  Patch locks the row, reads it, lays the fields that were sent  *)
(* over it and writes; saveTx makes the saver the owner.                   *)

mayAdmin(u) == u \in wenv.admins
Exists(w) == wf[w].versions # <<>>
Latest(w) == Last(wf[w].versions)
Kinds == {"post", "notify", "comment"}
validSteps(steps) == Len(steps) <= MaxSteps /\ Range(steps) \subseteq Kinds

\* A new workflow, its first version and its triggers, owned by its author.
CreateWorkflow(w, by, steps) ==
    /\ CanWf("create") /\ ~Exists(w) /\ mayAdmin(by) /\ validSteps(steps) /\ SpendWf("create")
    /\ wf' = [wf EXCEPT ![w] = [owner |-> by, enabled |-> TRUE, archived |-> FALSE, triggered |-> TRUE,
                                versions |-> <<[steps |-> steps, author |-> by]>>]]
    /\ intent' = [intent EXCEPT ![w] = [steps |-> steps, enabled |-> TRUE]]
    /\ UNCHANGED <<editor, can, stream, runs>> /\ UNCHANGED triggerVars /\ UNCHANGED runVars

Locked(w) == \E p \in Editors : editor[p].pc # "idle" /\ editor[p].w = w

\* A fault: the row is read without FOR UPDATE.
LockWithoutWaiting(w) == TRUE
RowLock(w) == ~Locked(w)

\* The current workflow with the sent fields laid over it: the steps, or
\* whether it is enabled.
PatchLock(p, w, by, field, steps, on) ==
    /\ editor[p] = IdleEditor /\ Exists(w) /\ ~wf[w].archived /\ RowLock(w)
    /\ editor' = [editor EXCEPT ![p] =
                    [pc |-> field, w |-> w, by |-> by,
                     steps |-> IF field = "steps" THEN steps ELSE Latest(w).steps,
                     on |-> IF field = "enabled" THEN on ELSE wf[w].enabled]]
    /\ UNCHANGED <<wf, intent, can, stream, runs>> /\ UNCHANGED triggerVars /\ UNCHANGED runVars

Update(p, w, by, field, steps, on) ==
    /\ CanWf("save") /\ mayAdmin(by) /\ validSteps(steps) /\ SpendWf("save")
    /\ PatchLock(p, w, by, field, steps, on)

saveTx(p) ==
    LET e == editor[p] IN
    /\ e.pc # "idle"
    /\ wf' = [wf EXCEPT ![e.w].owner = e.by, ![e.w].enabled = e.on,
                        ![e.w].versions = Append(@, [steps |-> e.steps, author |-> e.by])]
    /\ intent' = IF e.pc = "steps" THEN [intent EXCEPT ![e.w].steps = e.steps]
                                   ELSE [intent EXCEPT ![e.w].enabled = e.on]
    /\ editor' = [editor EXCEPT ![p] = IdleEditor]
    /\ UNCHANGED <<wenv, can, stream, runs>> /\ UNCHANGED triggerVars /\ UNCHANGED runVars

\* Archived and disabled, in one statement that waits for the row.
Archive(w) ==
    /\ CanWf("archive") /\ Exists(w) /\ ~wf[w].archived /\ ~Locked(w) /\ SpendWf("archive")
    /\ wf' = [wf EXCEPT ![w].archived = TRUE, ![w].enabled = FALSE]
    /\ intent' = [intent EXCEPT ![w].enabled = FALSE]
    /\ UNCHANGED <<editor, can, stream, runs>> /\ UNCHANGED triggerVars /\ UNCHANGED runVars

\* An admin loses the right to do something by hand.
RightLost(u, kind) ==
    /\ CanWf("lose") /\ kind \in can[u] /\ SpendWf("lose")
    /\ can' = [can EXCEPT ![u] = @ \ {kind}]
    /\ UNCHANGED <<wf, intent, editor, stream, runs>> /\ UNCHANGED triggerVars /\ UNCHANGED runVars

-----------------------------------------------------------------------------
(* Triggers.                                                               *)

\* A person posts a message: an event with no provenance.
PersonPosts ==
    /\ CanWf("post") /\ Len(stream) < MaxEvents /\ SpendWf("post")
    /\ stream' = Append(stream, [depth |-> 0, gen |-> 0])
    /\ UNCHANGED runs /\ UNCHANGED savedVars /\ UNCHANGED triggerVars /\ UNCHANGED runVars

\* The enabled workflows the event triggers, each at its latest version.
MatchingWorkflows ==
    {[w |-> w, ver |-> Len(wf[w].versions), owner |-> wf[w].owner] :
        w \in {v \in Workflows : wf[v].enabled /\ ~wf[v].archived /\ wf[v].triggered}}

Handle(c, e) ==
    /\ c <= wenv.consumers /\ consumer[c] = IdleConsumer /\ e \in DOMAIN stream \ acked
    /\ wenv.dup \/ \A d \in Consumers : consumer[d].ev # e
    /\ IF MatchingWorkflows = {}
       THEN acked' = acked \cup {e} /\ UNCHANGED consumer
       ELSE /\ consumer' = [consumer EXCEPT ![c] = [pc |-> "next", ev |-> e, left |-> MatchingWorkflows, m |-> NoMatch]]
            /\ UNCHANGED acked
    /\ UNCHANGED <<wenv, stream, runs, rejected, unrecorded>> /\ UNCHANGED savedVars /\ UNCHANGED runVars

Recent(w) == Cardinality({r \in RunIds : runs[r].w = w /\ runs[r].fresh})
RecordRejection(c, w) == rejected' = rejected \cup {<<consumer[c].ev, w>>}
LoopGuard(c, w) == stream[consumer[c].ev].depth > MaxDepth \/ Recent(w) >= MaxRunsPerMinute

\* The loop guards, read before the insert.
EnqueueCheck(c) ==
    /\ consumer[c].pc = "next"
    /\ \E m \in consumer[c].left :
          IF LoopGuard(c, m.w)
          THEN /\ consumer' = [consumer EXCEPT ![c].left = @ \ {m}]
               /\ RecordRejection(c, m.w)
          ELSE /\ consumer' = [consumer EXCEPT ![c].pc = "insert", ![c].m = m]
               /\ UNCHANGED rejected
    /\ UNCHANGED <<wenv, stream, acked, runs, unrecorded>> /\ UNCHANGED savedVars /\ UNCHANGED runVars

\* RecordRejection's error is discarded: the refusal stands, without a row, and the event
\* is acknowledged with the others.
RejectionLost(c) ==
    /\ CanWf("unwritten") /\ consumer[c].pc = "next" /\ SpendWf("unwritten")
    /\ \E m \in consumer[c].left :
          /\ LoopGuard(c, m.w)
          /\ consumer' = [consumer EXCEPT ![c].left = @ \ {m}]
          /\ unrecorded' = unrecorded \cup {<<consumer[c].ev, m.w>>}
    /\ UNCHANGED <<stream, acked, runs, rejected>> /\ UNCHANGED savedVars /\ UNCHANGED runVars

Queued(w, e) == {r \in RunIds : runs[r].w = w /\ runs[r].ev = e /\ runs[r].status # "none"}
FreeRun == {r \in RunIds : runs[r].status = "none" /\ \A q \in RunIds : q < r => runs[q].status # "none"}
Insert(m, e, r) ==
    runs' = [runs EXCEPT ![r] = [w |-> m.w, ver |-> m.ver, ev |-> e, depth |-> stream[e].depth, gen |-> stream[e].gen,
                                 status |-> "pending", fresh |-> TRUE, queuedFor |-> m.owner]]
\* ON CONFLICT (workflow_id, trigger_key) DO NOTHING: the run exists already.
InsertRun(m, e) ==
    \/ Queued(m.w, e) # {} /\ UNCHANGED runs
    \/ Queued(m.w, e) = {} /\ \E r \in FreeRun : Insert(m, e, r)

EnqueueRunAt(c) ==
    /\ consumer[c].pc = "insert"
    /\ InsertRun(consumer[c].m, consumer[c].ev)
    /\ consumer' = [consumer EXCEPT ![c].pc = "next", ![c].left = @ \ {consumer[c].m}, ![c].m = NoMatch]
    /\ UNCHANGED <<wenv, stream, acked, rejected, unrecorded>> /\ UNCHANGED savedVars /\ UNCHANGED runVars

HandleAck(c) ==
    /\ consumer[c].pc = "next" /\ consumer[c].left = {}
    /\ acked' = acked \cup {consumer[c].ev}
    /\ consumer' = [consumer EXCEPT ![c] = IdleConsumer]
    /\ UNCHANGED <<wenv, stream, runs, rejected, unrecorded>> /\ UNCHANGED savedVars /\ UNCHANGED runVars

\* A failed statement, or the replica stops: the event comes back.
HandleFails(c) ==
    /\ CanWf("nak") /\ consumer[c].pc # "idle" /\ SpendWf("nak")
    /\ consumer' = [consumer EXCEPT ![c] = IdleConsumer]
    /\ UNCHANGED <<stream, acked, runs, rejected, unrecorded>> /\ UNCHANGED savedVars /\ UNCHANGED runVars

\* The rate cap's window moves on.
MinutePasses ==
    /\ CanWf("minute") /\ SpendWf("minute")
    /\ runs' = [r \in RunIds |-> [runs[r] EXCEPT !.fresh = FALSE]]
    /\ UNCHANGED stream /\ UNCHANGED savedVars /\ UNCHANGED triggerVars /\ UNCHANGED runVars

-----------------------------------------------------------------------------
(* Running.                                                                *)

StepsOf(r) == wf[runs[r].w].versions[runs[r].ver].steps
StepOf(x) == StepsOf(runner[x].run)[runner[x].i]
At(x, pc) == runner[x].pc = pc
Goes(x, pc) == runner' = [runner EXCEPT ![x].pc = pc]
Pending == {r \in RunIds : runs[r].status = "pending"}
Outside == UNCHANGED savedVars /\ UNCHANGED triggerVars

\* The oldest pending run; whom it acts as is read now.
ClaimRun(x) ==
    /\ x <= wenv.runners /\ runner[x] = IdleRunner /\ Pending # {}
    /\ LET r == Min(Pending) IN
       /\ runs' = [runs EXCEPT ![r].status = "running"]
       /\ runner' = [runner EXCEPT ![x] = [pc |-> "step", run |-> r, i |-> 1, owner |-> wf[runs[r].w].owner]]
    /\ UNCHANGED <<wenv, stream, effects, performed, actedAs>> /\ Outside

\* A fault: the conflict clause takes any row.
ClaimableAlways(status) == TRUE
\* An effect is claimed unless it has been recorded as done: a row left
\* `claimed' by a runner that stopped, or `failed', is claimed again.
Claimable(status) == status # "succeeded"

ClaimEffect(x) ==
    LET s == <<runner[x].run, runner[x].i>> IN
    /\ At(x, "step") /\ runner[x].i <= Len(StepsOf(runner[x].run))
    /\ IF Claimable(effects[s])
       THEN effects' = [effects EXCEPT ![s] = "claimed"] /\ Goes(x, "perform")
       ELSE runner' = [runner EXCEPT ![x].i = @ + 1] /\ UNCHANGED effects
    /\ UNCHANGED <<wenv, stream, runs, performed, actedAs>> /\ Outside

\* The post stamps its event one generation further than the run's.
CreateRun(x) == [depth |-> runs[runner[x].run].depth + 1, gen |-> runs[runner[x].run].gen + 1]

\* Every action first asks whether the run's owner could do it by hand.
authorize(x) == StepOf(x) \in can[runner[x].owner]
Acts(x) ==
    /\ performed' = [performed EXCEPT ![<<runner[x].run, runner[x].i>>] = @ + 1]
    /\ actedAs' = actedAs \cup {<<runner[x].run, runner[x].owner>>}
    /\ Goes(x, "record")
\* The message is committed and then announced, best effort.
PostMessage(x) ==
    /\ At(x, "perform") /\ StepOf(x) = "post" /\ authorize(x) /\ Acts(x)
    /\ stream' \in {stream} \cup (IF Len(stream) < MaxEvents THEN {Append(stream, CreateRun(x))} ELSE {})
    /\ UNCHANGED <<wenv, runs, effects>> /\ Outside
Notify(x) ==
    /\ At(x, "perform") /\ StepOf(x) = "notify" /\ authorize(x) /\ Acts(x)
    /\ UNCHANGED <<wenv, stream, runs, effects>> /\ Outside
AddComment(x) ==
    /\ At(x, "perform") /\ StepOf(x) = "comment" /\ authorize(x) /\ Acts(x)
    /\ UNCHANGED <<wenv, stream, runs, effects>> /\ Outside
Refused(x) ==
    /\ At(x, "perform") /\ ~authorize(x) /\ Goes(x, "fail")
    /\ UNCHANGED <<wenv, stream, runs, effects, performed, actedAs>> /\ Outside
Perform(x) == PostMessage(x) \/ Notify(x) \/ AddComment(x) \/ Refused(x)

RecordEffectResult(x) ==
    /\ At(x, "record")
    /\ effects' = [effects EXCEPT ![<<runner[x].run, runner[x].i>>] = "succeeded"]
    /\ runner' = [runner EXCEPT ![x].pc = "step", ![x].i = @ + 1]
    /\ UNCHANGED <<wenv, stream, runs, performed, actedAs>> /\ Outside

FailEffect(x) ==
    /\ At(x, "fail")
    /\ effects' = [effects EXCEPT ![<<runner[x].run, runner[x].i>>] = IF @ = "succeeded" THEN @ ELSE "failed"]
    /\ Goes(x, "finish")
    /\ UNCHANGED <<wenv, stream, runs, performed, actedAs>> /\ Outside

\* Past the last step the run has succeeded; a failed step ends it.
FinishRun(x) ==
    /\ \/ /\ At(x, "step") /\ runner[x].i > Len(StepsOf(runner[x].run))
          /\ runs' = [runs EXCEPT ![runner[x].run].status = "succeeded"]
       \/ /\ At(x, "finish")
          /\ runs' = [runs EXCEPT ![runner[x].run].status = "failed"]
    /\ runner' = [runner EXCEPT ![x] = IdleRunner]
    /\ UNCHANGED <<wenv, stream, effects, performed, actedAs>> /\ Outside

\* The replica stops, or a statement fails and the tick is abandoned.
RunnerStops(x) ==
    /\ CanWf("stop") /\ runner[x] # IdleRunner /\ SpendWf("stop")
    /\ runner' = [runner EXCEPT ![x] = IdleRunner]
    /\ UNCHANGED <<stream, runs, effects, performed, actedAs>> /\ Outside

Held(r) == \E x \in Runners : runner[x].run = r
Stale == {r \in RunIds : runs[r].status = "running" /\ (wenv.slow \/ ~Held(r))}
\* A fault: runs of a stopped runner stay claimed.
ReleaseNothing == FALSE /\ UNCHANGED wfvars
\* Whatever has been `running' too long goes back to the queue: the runner
\* has stopped, or in a slow environment it may still be at work.
ReleaseStaleRuns ==
    /\ Stale # {} /\ (wenv.slow => CanWf("release"))
    /\ IF wenv.slow THEN SpendWf("release") ELSE UNCHANGED wenv
    /\ runs' = [r \in RunIds |-> IF r \in Stale THEN [runs[r] EXCEPT !.status = "pending"] ELSE runs[r]]
    /\ UNCHANGED <<stream, effects, performed, actedAs, runner>> /\ Outside

-----------------------------------------------------------------------------

WfInit ==
    /\ wenv \in WfEnvironments
    /\ wf = wenv.workflows
    /\ intent = [w \in Workflows |-> [steps |-> IF Exists(w) THEN Latest(w).steps ELSE <<>>, enabled |-> wf[w].enabled]]
    /\ editor = [p \in Editors |-> IdleEditor]
    /\ can = wenv.can
    /\ stream = <<>> /\ acked = {} /\ consumer = [c \in Consumers |-> IdleConsumer]
    /\ runs = [r \in RunIds |-> NoRun] /\ rejected = {} /\ unrecorded = {}
    /\ effects = [s \in RunIds \X StepIndexes |-> "none"]
    /\ performed = [s \in RunIds \X StepIndexes |-> 0]
    /\ actedAs = {} /\ runner = [x \in Runners |-> IdleRunner]

RunnerStep(x) == \/ ClaimRun(x) \/ ClaimEffect(x) \/ Perform(x) \/ RecordEffectResult(x) \/ FailEffect(x) \/ FinishRun(x)
ConsumerStep(c) == (\E e \in DOMAIN stream : Handle(c, e)) \/ EnqueueCheck(c) \/ EnqueueRunAt(c) \/ HandleAck(c)

WfNext ==
    \/ \E w \in Workflows, by \in Admins, steps \in wenv.steps : CreateWorkflow(w, by, steps)
    \/ \E p \in Editors, w \in Workflows, by \in Admins, steps \in wenv.steps : Update(p, w, by, "steps", steps, TRUE)
    \/ \E p \in Editors, w \in Workflows, by \in Admins, on \in BOOLEAN : Update(p, w, by, "enabled", <<>>, on)
    \/ \E p \in Editors : saveTx(p)
    \/ \E w \in Workflows : Archive(w)
    \/ \E u \in Admins : RightLost(u, "post")
    \/ PersonPosts \/ MinutePasses
    \/ \E c \in Consumers : ConsumerStep(c) \/ HandleFails(c) \/ RejectionLost(c)
    \/ \E x \in Runners : RunnerStep(x) \/ RunnerStops(x)
    \/ ReleaseStaleRuns

\* Deliveries, job loops and the reaper keep ticking on some replica.
WfFairness ==
    /\ \A c \in Consumers : WF_wfvars(ConsumerStep(c))
    /\ \A x \in Runners : WF_wfvars(RunnerStep(x))
    /\ WF_wfvars(ReleaseStaleRuns)
WfSpec == WfInit /\ [][WfNext]_wfvars /\ WfFairness

-----------------------------------------------------------------------------
(* Properties.                                                             *)

\* Two admins saving different fields of one workflow both keep their edit:
\* the version that runs and the switch are the last ones somebody sent.
EditsSurvive ==
    \A w \in Workflows : Exists(w) => Latest(w).steps = intent[w].steps /\ wf[w].enabled = intent[w].enabled

\* However often an event is delivered it starts one run of a workflow, and once it is
\* acknowledged every workflow that wanted it all along has its run, or was refused one by
\* the loop guards: with a row that says so, unless the database did not take that row.
TurnedAway == rejected \cup unrecorded
QueuedExactlyOnce ==
    \A w \in Workflows, e \in DOMAIN stream :
        /\ Cardinality(Queued(w, e)) <= 1
        /\ (e \in acked /\ wf[w].enabled /\ wf[w].triggered /\ wf[w] = wenv.workflows[w])
               => Queued(w, e) # {} \/ <<e, w>> \in TurnedAway

\* A run reported as succeeded did perform each of its steps, and no step
\* before the one in front of it, across any number of stopped runners.
SucceededMeansPerformed ==
    \A r \in RunIds : runs[r].status # "none" =>
        /\ runs[r].status = "succeeded" => \A i \in 1..Len(StepsOf(r)) : performed[<<r, i>>] > 0
        /\ \A i \in 2..Len(StepsOf(r)) : performed[<<r, i>>] > 0 => performed[<<r, i - 1>>] > 0

\* A step recorded as done stays recorded, whoever still works on its run,
\* and a run put back after its runner stopped does not do it again.
RecordedIsFinal ==
    [][\A s \in RunIds \X StepIndexes : effects[s] = "succeeded" =>
          effects'[s] = "succeeded" /\ (wenv.slow \/ performed'[s] = performed[s])]_wfvars

\* A chain of workflows that trigger one another ends after MaxDepth
\* generations, counted from the person who started it.
CascadesEnd == \A r \in RunIds : runs[r].gen <= MaxDepth

\* Every run comes to an end, stopped runners included.
RunsEnd == []<>(\A r \in RunIds : runs[r].status \notin {"pending", "running"})

\* Edits, runs and their steps agree with what was asked for.
RunsSound == EditsSurvive /\ QueuedExactlyOnce /\ SucceededMeansPerformed /\ CascadesEnd

\* What RecordRejection's comment promises, that `it never fired' and `it fired and was
\* dropped' can be told apart: an acknowledged event left its run or a row.  It fails when
\* the insert does, whose error is discarded.
RefusalsAreRecorded ==
    \A w \in Workflows, e \in acked :
        wf[w].enabled /\ wf[w].triggered /\ wf[w] = wenv.workflows[w] => Queued(w, e) # {} \/ <<e, w>> \in rejected

\* What the package comment promises: a retry skips the steps that ran.
PerformedOnce == \A s \in RunIds \X StepIndexes : performed[s] <= 1

\* What Matching's comment promises: a run acts as whoever owned the
\* workflow when it was queued.
ActsAsItsQueuer == \A a \in actedAs : runs[a[1]].queuedFor = a[2]
=============================================================================
