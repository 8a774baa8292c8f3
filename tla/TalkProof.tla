------------------------------ MODULE TalkProof -----------------------------
(***************************************************************************)
(* Proofs about workflows (WorkflowEngine), calls (Huddle) and messages    *)
(* (Messaging), for any number of admins, workflows, saves in flight,      *)
(* consumers, runners, requests, people, calls and messages, any           *)
(* environment the assumptions allow, and any bounds.                      *)
(***************************************************************************)
EXTENDS WorkflowEngine, Huddle, Messaging, FiniteSetTheorems, SequenceTheorems, WellFoundedInduction, TLAPS

(* Workflows.                                                              *)

(* The inductive invariant, in parts.  What is said of one row is an       *)
(* operator on it and on the tables it depends on: f the workflows, R the  *)
(* runs, s the stream.                                                     *)

EnvInv ==
    /\ {"ops", "workflows", "steps", "slow"} \subseteq DOMAIN wenv
    /\ wenv.slow \in BOOLEAN /\ wenv.steps \subseteq Seq(STRING) /\ wenv.workflows \in [Workflows -> Workflow]

\* A row of workflows against the row it began as: every save adds a version, and an
\* archived row stays disabled.
WorkflowOk(r, first) ==
    /\ \A k \in 1..Len(r.versions) : Len(r.versions[k].steps) <= MaxSteps
    /\ r.triggered => r.versions # <<>>
    /\ r.archived => ~r.enabled
    /\ Len(r.versions) >= Len(first.versions)
    /\ r = first \/ Len(r.versions) > Len(first.versions) \/ (r.archived /\ ~first.archived)

\* A save in progress holds its row, and what it was not sent is as it was read.
EditorOk(e, f) ==
    e.pc # "idle" =>
        /\ e.w \in Workflows /\ e.by \in Admins /\ Len(e.steps) <= MaxSteps
        /\ f[e.w].versions # <<>> /\ ~f[e.w].archived
        /\ e.pc = "steps" => e.on = f[e.w].enabled
        /\ e.pc = "enabled" => e.steps = f[e.w].versions[Len(f[e.w].versions)].steps
SaveInv ==
    /\ wf \in [Workflows -> Workflow]
    /\ intent \in [Workflows -> [steps : Seq(STRING), enabled : BOOLEAN]]
    /\ editor \in [Editors -> [pc : {"idle", "steps", "enabled"}, w : Workflows \cup {0}, by : Admins \cup {0},
                               steps : Seq(STRING), on : BOOLEAN]]
    /\ \A w \in Workflows : WorkflowOk(wf[w], wenv.workflows[w])
    /\ \A p \in Editors : EditorOk(editor[p], wf)
    /\ \A p, q \in Editors : editor[p].pc # "idle" /\ editor[q].pc # "idle" /\ editor[p].w = editor[q].w => p = q
    /\ EditsSurvive

\* The provenance an event carries counts the generations.
StreamInv ==
    /\ stream \in Seq([depth : Nat, gen : Nat]) /\ acked \subseteq DOMAIN stream
    /\ \A e \in DOMAIN stream : stream[e].depth = stream[e].gen

Statuses == {"none", "pending", "running", "succeeded", "failed"}
RunOk(q, f) ==
    /\ q.depth = q.gen /\ q.gen <= MaxDepth
    /\ q.status # "none" => q.w \in Workflows /\ q.ver \in 1..Len(f[q.w].versions)
RunInv ==
    /\ runs \in [RunIds -> [w : Workflows \cup {0}, ver : Nat, ev : Nat, depth : Nat, gen : Nat, status : Statuses,
                            fresh : BOOLEAN, queuedFor : Admins \cup {0}]]
    /\ \A r \in RunIds : RunOk(runs[r], wf)
    /\ \A r, q \in RunIds :
          runs[r].status # "none" /\ runs[q].status # "none" /\ runs[r].w = runs[q].w /\ runs[r].ev = runs[q].ev => r = q

\* A workflow nobody has touched wants every event; it has its run, or a refusal.
Wants(w, f, first) == f[w].enabled /\ f[w].triggered /\ f[w] = first[w]
Covered(w, e, R, rej) ==
    \/ \E r \in RunIds : R[r].w = w /\ R[r].ev = e /\ R[r].status # "none"
    \/ <<e, w>> \in rej
Match == [w : Workflows, ver : Nat, owner : Admins \cup {0}]
ConsumerOk(k, f, first, s, R, rej) ==
    k.pc # "idle" =>
        /\ k.ev \in DOMAIN s
        /\ \A m \in k.left : m.ver \in 1..Len(f[m.w].versions)
        /\ \A w \in Workflows : Wants(w, f, first) => (\E m \in k.left : m.w = w) \/ Covered(w, k.ev, R, rej)
        /\ k.pc = "insert" => k.m \in k.left /\ s[k.ev].depth <= MaxDepth
ConsumerInv ==
    /\ consumer \in [Consumers -> [pc : {"idle", "next", "insert"}, ev : Nat, left : SUBSET Match,
                                   m : Match \cup {NoMatch}]]
    /\ \A c \in Consumers : ConsumerOk(consumer[c], wf, wenv.workflows, stream, runs, TurnedAway)
    /\ \A e \in acked, w \in Workflows : Wants(w, wf, wenv.workflows) => Covered(w, e, runs, TurnedAway)

\* The steps before the one a runner is at were performed, and so was every step that is
\* recorded as done or about to be.
NumSteps(q, f) == Len(f[q.w].versions[q.ver].steps)
RunnerOk(x, R, f, perf) ==
    x.pc # "idle" =>
        /\ x.run \in RunIds /\ R[x.run].status # "none"
        /\ x.i \in 1..(NumSteps(R[x.run], f) + 1)
        /\ x.pc \in {"perform", "record", "fail"} => x.i <= NumSteps(R[x.run], f)
        /\ \A j \in 1..(x.i - 1) : perf[<<x.run, j>>] > 0
        /\ x.pc = "record" => perf[<<x.run, x.i>>] > 0
StepInv ==
    /\ runner \in [Runners -> [pc : {"idle", "step", "perform", "record", "fail", "finish"}, run : 0..MaxRunIds,
                               i : Nat, owner : Admins \cup {0}]]
    /\ effects \in [RunIds \X StepIndexes -> {"none", "claimed", "succeeded", "failed"}]
    /\ performed \in [RunIds \X StepIndexes -> Nat]
    /\ \A x \in Runners : RunnerOk(runner[x], runs, wf, performed)
    /\ \A s \in RunIds \X StepIndexes : effects[s] = "succeeded" => performed[s] > 0
    /\ \A r \in RunIds, i \in 2..MaxSteps : performed[<<r, i>>] > 0 => performed[<<r, i - 1>>] > 0
    /\ \A r \in RunIds : runs[r].status = "succeeded" =>
          \A i \in 1..NumSteps(runs[r], wf) : performed[<<r, i>>] > 0

\* Unless runs are put back under a runner at work, a run has one runner, and it does not
\* perform what is recorded.
AloneInv ==
    ~wenv.slow =>
        \A x \in Runners : runner[x].pc # "idle" =>
            /\ runs[runner[x].run].status = "running"
            /\ \A y \in Runners : runner[y].pc # "idle" /\ runner[y].run = runner[x].run => y = x
            /\ runner[x].pc = "perform" => effects[<<runner[x].run, runner[x].i>>] # "succeeded"

\* The inductive invariant of the engine.
WfIInv == EnvInv /\ SaveInv /\ StreamInv /\ RunInv /\ ConsumerInv /\ StepInv /\ AloneInv

-----------------------------------------------------------------------------
(* What every step of the engine leaves standing: versions are only added, *)
(* events only appended, runs keep their identity, refusals and performed  *)
(* steps stay.                                                             *)

VersionsGrow(f, g) ==
    \A w \in Workflows : \A k \in 1..Len(f[w].versions) :
        k \in 1..Len(g[w].versions) /\ g[w].versions[k] = f[w].versions[k]
WantsShrink(f, g, first) == \A w \in Workflows : Wants(w, g, first) => Wants(w, f, first)
RunsGrow(R, Q) ==
    \A r \in RunIds : R[r].status # "none" =>
        Q[r].status # "none" /\ Q[r].w = R[r].w /\ Q[r].ver = R[r].ver /\ Q[r].ev = R[r].ev
StreamGrows(s, t) == \A e \in DOMAIN s : e \in DOMAIN t /\ t[e] = s[e]
PerformedGrows(p, q) == \A r \in RunIds, i \in StepIndexes : p[<<r, i>>] > 0 => q[<<r, i>>] > 0

SameEnv == wenv'.workflows = wenv.workflows /\ wenv'.slow = wenv.slow
Grows ==
    /\ SameEnv /\ VersionsGrow(wf, wf') /\ WantsShrink(wf, wf', wenv.workflows) /\ RunsGrow(runs, runs')
    /\ StreamGrows(stream, stream') /\ TurnedAway \subseteq TurnedAway' /\ PerformedGrows(performed, performed')

\* What stays the same grows.
LEMMA StandingStill ==
    ASSUME NEW a, NEW b
    PROVE  VersionsGrow(a, a) /\ WantsShrink(a, a, b) /\ RunsGrow(a, a) /\ StreamGrows(a, a) /\ PerformedGrows(a, a)
  BY DEF VersionsGrow, WantsShrink, RunsGrow, StreamGrows, PerformedGrows

\* Spending a budget leaves the rest of the environment alone.
LEMMA Spending ==
    ASSUME EnvInv, NEW op, SpendWf(op)
    PROVE  EnvInv' /\ SameEnv
  <1>1. DOMAIN wenv' = DOMAIN wenv /\ \A k \in DOMAIN wenv : k # "ops" => wenv'[k] = wenv[k]
    BY DEF SpendWf
  <1>2. wenv'.workflows = wenv.workflows /\ wenv'.slow = wenv.slow /\ wenv'.steps = wenv.steps
    BY <1>1 DEF EnvInv
  <1> QED BY <1>1, <1>2 DEF EnvInv, SameEnv

LEMMA NotSpending ==
    ASSUME EnvInv, wenv' = wenv
    PROVE  EnvInv' /\ SameEnv
  BY DEF EnvInv, SameEnv

\* A run has at most MaxSteps steps, the same ones whatever is saved later.
LEMMA StepCount ==
    ASSUME SaveInv, RunInv, NEW r \in RunIds, runs[r].status # "none"
    PROVE  /\ runs[r].w \in Workflows /\ runs[r].ver \in 1..Len(wf[runs[r].w].versions)
           /\ NumSteps(runs[r], wf) \in 0..MaxSteps /\ NumSteps(runs[r], wf) = Len(StepsOf(r))
           /\ StepsOf(r) \in Seq(STRING)
  <1>1. runs[r].w \in Workflows /\ runs[r].ver \in 1..Len(wf[runs[r].w].versions)
    BY DEF RunInv, RunOk
  <1>2. wf[runs[r].w].versions \in Seq(Version) /\ WorkflowOk(wf[runs[r].w], wenv.workflows[runs[r].w])
    BY <1>1 DEF SaveInv, Workflow
  <1>3. wf[runs[r].w].versions[runs[r].ver] \in Version
    BY <1>1, <1>2
  <1>4. StepsOf(r) \in Seq(STRING) /\ NumSteps(runs[r], wf) = Len(StepsOf(r))
    BY <1>3 DEF Version, StepsOf, NumSteps
  <1>5. Len(StepsOf(r)) <= MaxSteps
    BY <1>1, <1>2 DEF WorkflowOk, StepsOf
  <1> QED BY <1>1, <1>4, <1>5

LEMMA SameSteps ==
    ASSUME SaveInv, RunInv, Grows, NEW r \in RunIds, runs[r].status # "none"
    PROVE  runs'[r].status # "none" /\ NumSteps(runs'[r], wf') = NumSteps(runs[r], wf)
           /\ runs'[r].ver \in 1..Len(wf'[runs'[r].w].versions) /\ runs'[r].w \in Workflows
  <1>1. runs[r].w \in Workflows /\ runs[r].ver \in 1..Len(wf[runs[r].w].versions)
    BY StepCount
  <1>2. runs'[r].status # "none" /\ runs'[r].w = runs[r].w /\ runs'[r].ver = runs[r].ver
    BY DEF Grows, RunsGrow
  <1> QED BY <1>1, <1>2 DEF Grows, VersionsGrow, NumSteps

\* What holds of a runner that does not move keeps holding.
LEMMA RunnerFrame ==
    ASSUME SaveInv, RunInv, Grows, NEW x, x.pc # "idle" => x.i \in Nat, RunnerOk(x, runs, wf, performed)
    PROVE  RunnerOk(x, runs', wf', performed')
  <1> SUFFICES ASSUME x.pc # "idle" PROVE RunnerOk(x, runs', wf', performed')
    BY DEF RunnerOk
  <1>1. x.run \in RunIds /\ runs[x.run].status # "none" /\ x.i \in 1..(NumSteps(runs[x.run], wf) + 1)
    BY DEF RunnerOk
  <1>2. runs'[x.run].status # "none" /\ NumSteps(runs'[x.run], wf') = NumSteps(runs[x.run], wf)
    BY <1>1, SameSteps
  <1>3. NumSteps(runs[x.run], wf) \in 0..MaxSteps
    BY <1>1, StepCount
  <1>4. \A i \in StepIndexes : performed[<<x.run, i>>] > 0 => performed'[<<x.run, i>>] > 0
    BY <1>1 DEF Grows, PerformedGrows
  <1>5. x.pc = "record" => performed'[<<x.run, x.i>>] > 0
    <2> SUFFICES ASSUME x.pc = "record" PROVE performed'[<<x.run, x.i>>] > 0
      OBVIOUS
    <2>1. x.i <= NumSteps(runs[x.run], wf) /\ performed[<<x.run, x.i>>] > 0
      BY DEF RunnerOk
    <2>2. x.i \in StepIndexes
      BY <2>1, <1>1, <1>3, WfAssumption DEF StepIndexes
    <2> QED BY <2>1, <2>2, <1>4
  <1>6. \A j \in 1..(x.i - 1) : performed'[<<x.run, j>>] > 0
    <2> SUFFICES ASSUME NEW j \in 1..(x.i - 1) PROVE performed'[<<x.run, j>>] > 0
      OBVIOUS
    <2>1. performed[<<x.run, j>>] > 0
      BY DEF RunnerOk
    <2>2. j \in StepIndexes
      BY <1>1, <1>3, WfAssumption DEF StepIndexes
    <2> QED BY <2>1, <2>2, <1>4
  <1> QED BY <1>1, <1>2, <1>5, <1>6 DEF RunnerOk

\* What holds of a consumer that does not move keeps holding, and so does what an
\* acknowledged event is owed.
LEMMA CoveredStays ==
    ASSUME Grows, NEW w, NEW e, Covered(w, e, runs, TurnedAway)
    PROVE  Covered(w, e, runs', TurnedAway')
  BY DEF Grows, Covered, RunsGrow

LEMMA ConsumerFrame ==
    ASSUME SaveInv, Grows, NEW k, k.left \in SUBSET Match, ConsumerOk(k, wf, wenv.workflows, stream, runs, TurnedAway)
    PROVE  ConsumerOk(k, wf', wenv'.workflows, stream', runs', TurnedAway')
  <1> SUFFICES ASSUME k.pc # "idle" PROVE ConsumerOk(k, wf', wenv'.workflows, stream', runs', TurnedAway')
    BY DEF ConsumerOk
  <1>1. k.ev \in DOMAIN stream' /\ stream'[k.ev] = stream[k.ev]
    BY DEF ConsumerOk, Grows, StreamGrows
  <1>2. \A m \in k.left : m.ver \in 1..Len(wf'[m.w].versions)
    BY DEF ConsumerOk, Grows, VersionsGrow, Match
  <1>3. \A w \in Workflows : Wants(w, wf', wenv'.workflows)
            => (\E m \in k.left : m.w = w) \/ Covered(w, k.ev, runs', TurnedAway')
    BY CoveredStays DEF ConsumerOk, Grows, WantsShrink, SameEnv
  <1> QED BY <1>1, <1>2, <1>3 DEF ConsumerOk

LEMMA AckedStays ==
    ASSUME ConsumerInv, Grows, NEW e \in acked, NEW w \in Workflows, Wants(w, wf', wenv'.workflows)
    PROVE  Covered(w, e, runs', TurnedAway')
  BY CoveredStays DEF ConsumerInv, Grows, WantsShrink, SameEnv

\* A run's row as it is after versions were added.
LEMMA RunFrame ==
    ASSUME SaveInv, RunInv, Grows, NEW r \in RunIds, runs'[r].status # "none" => runs[r].status # "none",
           runs'[r].depth = runs[r].depth, runs'[r].gen = runs[r].gen
    PROVE  RunOk(runs'[r], wf')
  BY SameSteps DEF RunInv, RunOk

-----------------------------------------------------------------------------
(* The parts of the invariant a step does not touch.                       *)

LEMMA SavesKept ==
    ASSUME SaveInv, SameEnv, UNCHANGED savedVars
    PROVE  SaveInv'
  BY DEF SaveInv, SameEnv, savedVars, EditsSurvive, Exists, Latest

LEMMA StreamKept ==
    ASSUME StreamInv, UNCHANGED <<stream, acked>>
    PROVE  StreamInv'
  BY DEF StreamInv

LEMMA RunsKept ==
    ASSUME SaveInv, RunInv, Grows, runs' = runs
    PROVE  RunInv'
  <1>1. \A r \in RunIds : RunOk(runs'[r], wf')
    BY RunFrame
  <1> QED BY <1>1 DEF RunInv

LEMMA ConsumersKept ==
    ASSUME SaveInv, ConsumerInv, Grows, consumer' = consumer, acked' = acked
    PROVE  ConsumerInv'
  <1>1. \A c \in Consumers : ConsumerOk(consumer'[c], wf', wenv'.workflows, stream', runs', TurnedAway')
    BY ConsumerFrame DEF ConsumerInv
  <1>2. \A e \in acked', w \in Workflows : Wants(w, wf', wenv'.workflows) => Covered(w, e, runs', TurnedAway')
    BY AckedStays
  <1> QED BY <1>1, <1>2 DEF ConsumerInv

LEMMA StepsKept ==
    ASSUME SaveInv, RunInv, StepInv, Grows, UNCHANGED <<effects, performed, runner>>,
           \A r \in RunIds : runs'[r].status = "succeeded" => runs[r].status = "succeeded"
    PROVE  StepInv'
  <1>1. \A x \in Runners : RunnerOk(runner'[x], runs', wf', performed')
    BY RunnerFrame DEF StepInv
  <1>2. ASSUME NEW r \in RunIds, runs'[r].status = "succeeded"
        PROVE  \A i \in 1..NumSteps(runs'[r], wf') : performed'[<<r, i>>] > 0
    BY <1>2, SameSteps DEF StepInv
  <1> QED BY <1>1, <1>2 DEF StepInv

LEMMA AloneKept ==
    ASSUME AloneInv, SameEnv, UNCHANGED <<effects, runner>>,
           \A x \in Runners : ~wenv.slow /\ runner[x].pc # "idle" /\ runs[runner[x].run].status = "running"
                                  => runs'[runner[x].run].status = "running"
    PROVE  AloneInv'
  BY DEF AloneInv, SameEnv

\* A save touches no run: it is enough that it only adds versions.
LEMMA SavingOnly ==
    ASSUME WfIInv, EnvInv', SaveInv', SameEnv, VersionsGrow(wf, wf'), WantsShrink(wf, wf', wenv.workflows),
           UNCHANGED <<stream, runs>>, UNCHANGED triggerVars, UNCHANGED runVars
    PROVE  WfIInv'
  <1>1. Grows
    BY StandingStill DEF Grows, triggerVars, runVars, TurnedAway
  <1>2. StreamInv' /\ RunInv' /\ ConsumerInv'
    BY <1>1, StreamKept, RunsKept, ConsumersKept DEF WfIInv, triggerVars
  <1>3. StepInv' /\ AloneInv'
    BY <1>1, StepsKept, AloneKept DEF WfIInv, runVars
  <1> QED BY <1>2, <1>3 DEF WfIInv

\* Nothing is saved: the parts about saves stand, and workflows want what they wanted.
LEMMA NotSaving ==
    ASSUME WfIInv, EnvInv', SameEnv, UNCHANGED savedVars
    PROVE  SaveInv' /\ VersionsGrow(wf, wf') /\ WantsShrink(wf, wf', wenv.workflows)
  BY SavesKept, StandingStill DEF WfIInv, savedVars

-----------------------------------------------------------------------------
(* Saving.                                                                 *)

LEMMA CreateKeeps ==
    ASSUME WfIInv, NEW w \in Workflows, NEW by \in Admins, NEW steps \in wenv.steps, CreateWorkflow(w, by, steps)
    PROVE  WfIInv'
  <1> DEFINE new == [owner |-> by, enabled |-> TRUE, archived |-> FALSE, triggered |-> TRUE,
                     versions |-> <<[steps |-> steps, author |-> by]>>]
  <1>1. EnvInv' /\ SameEnv
    BY Spending DEF CreateWorkflow, WfIInv
  <1>2. steps \in Seq(STRING) /\ Len(steps) <= MaxSteps /\ wf[w].versions = <<>> /\ wf[w] \in Workflow
    BY DEF CreateWorkflow, WfIInv, EnvInv, SaveInv, validSteps, Exists
  <1>3. /\ new.owner = by /\ new.enabled = TRUE /\ new.archived = FALSE /\ new.triggered = TRUE
        /\ Len(new.versions) = 1 /\ new.versions[1].steps = steps /\ new \in Workflow
    <2>1. [steps |-> steps, author |-> by] \in Version
      BY <1>2 DEF Version
    <2> QED BY <2>1 DEF Workflow
  <1>4. wf' = [wf EXCEPT ![w] = new]
    BY DEF CreateWorkflow
  <1> HIDE DEF new
  <1>5. wf' \in [Workflows -> Workflow] /\ wf'[w] = new /\ \A v \in Workflows : v # w => wf'[v] = wf[v]
    BY <1>3, <1>4 DEF WfIInv, SaveInv
  <1>6. intent' \in [Workflows -> [steps : Seq(STRING), enabled : BOOLEAN]]
        /\ intent'[w].steps = steps /\ intent'[w].enabled = TRUE /\ \A v \in Workflows : v # w => intent'[v] = intent[v]
    BY <1>2 DEF WfIInv, SaveInv, CreateWorkflow
  <1>7. Len(wenv.workflows[w].versions) = 0
    BY <1>2 DEF WfIInv, SaveInv, WorkflowOk, EnvInv, Workflow
  <1>8. \A v \in Workflows : WorkflowOk(wf'[v], wenv'.workflows[v])
    <2>1. WorkflowOk(new, wenv.workflows[w])
      BY <1>2, <1>3, <1>7 DEF WorkflowOk
    <2> QED BY <2>1, <1>1, <1>5 DEF WfIInv, SaveInv, SameEnv
  <1>9. \A p \in Editors : EditorOk(editor[p], wf')
    <2> SUFFICES ASSUME NEW p \in Editors, editor[p].pc # "idle" PROVE EditorOk(editor[p], wf')
      BY DEF EditorOk
    <2>1. EditorOk(editor[p], wf)
      BY DEF WfIInv, SaveInv
    <2>2. editor[p].w \in Workflows /\ editor[p].w # w
      BY <2>1, <1>2 DEF EditorOk
    <2> QED BY <2>1, <2>2, <1>5 DEF EditorOk
  <1>10. EditsSurvive'
    <2> SUFFICES ASSUME NEW v \in Workflows, Exists(v)' PROVE (Latest(v).steps = intent[v].steps /\ wf[v].enabled = intent[v].enabled)'
      BY DEF EditsSurvive
    <2>1. CASE v = w
      BY <2>1, <1>3, <1>5, <1>6 DEF Latest, Last
    <2>2. CASE v # w
      BY <2>2, <1>5, <1>6 DEF Latest, Exists, WfIInv, SaveInv, EditsSurvive
    <2> QED BY <2>1, <2>2
  <1>11. SaveInv'
    <2>1. editor' = editor
      BY DEF CreateWorkflow
    <2> QED BY <2>1, <1>5, <1>6, <1>8, <1>9, <1>10 DEF SaveInv, WfIInv
  <1>12. VersionsGrow(wf, wf')
    BY <1>2, <1>5 DEF VersionsGrow
  <1>13. WantsShrink(wf, wf', wenv.workflows)
    BY <1>3, <1>5, <1>7 DEF WantsShrink, Wants
  <1> QED BY <1>1, <1>11, <1>12, <1>13, SavingOnly DEF CreateWorkflow

LEMMA UpdateKeeps ==
    ASSUME WfIInv, NEW p \in Editors, NEW w \in Workflows, NEW by \in Admins, NEW field \in {"steps", "enabled"},
           NEW steps \in Seq(STRING), NEW on \in BOOLEAN, Update(p, w, by, field, steps, on)
    PROVE  WfIInv'
  <1> DEFINE new == [pc |-> field, w |-> w, by |-> by,
                     steps |-> IF field = "steps" THEN steps ELSE Latest(w).steps,
                     on |-> IF field = "enabled" THEN on ELSE wf[w].enabled]
  <1>1. EnvInv' /\ SameEnv
    BY Spending DEF Update, WfIInv
  <1>2. /\ editor' = [editor EXCEPT ![p] = new] /\ wf' = wf /\ intent' = intent
        /\ wf[w].versions # <<>> /\ ~wf[w].archived /\ ~Locked(w) /\ Len(steps) <= MaxSteps
    BY DEF Update, PatchLock, Exists, RowLock, validSteps
  <1>3. wf[w] \in Workflow /\ WorkflowOk(wf[w], wenv.workflows[w])
    BY DEF WfIInv, SaveInv
  <1>4. Latest(w) = wf[w].versions[Len(wf[w].versions)] /\ Latest(w) \in Version /\ Len(Latest(w).steps) <= MaxSteps
    <2>1. wf[w].versions \in Seq(Version) /\ Len(wf[w].versions) \in 1..Len(wf[w].versions)
      BY <1>2, <1>3 DEF Workflow
    <2>2. Latest(w) = wf[w].versions[Len(wf[w].versions)]
      BY DEF Latest, Last
    <2> QED BY <2>1, <2>2, <1>3 DEF WorkflowOk
  <1>5. /\ new \in [pc : {"idle", "steps", "enabled"}, w : Workflows \cup {0}, by : Admins \cup {0},
                    steps : Seq(STRING), on : BOOLEAN]
        /\ new.pc = field /\ new.w = w /\ new.by = by /\ Len(new.steps) <= MaxSteps
        /\ field = "steps" => new.on = wf[w].enabled
        /\ field = "enabled" => new.steps = Latest(w).steps
    BY <1>2, <1>3, <1>4 DEF Version, Workflow
  <1> HIDE DEF new
  <1>6. EditorOk(new, wf)
    BY <1>2, <1>4, <1>5 DEF EditorOk
  <1>7. /\ editor' \in [Editors -> [pc : {"idle", "steps", "enabled"}, w : Workflows \cup {0}, by : Admins \cup {0},
                                    steps : Seq(STRING), on : BOOLEAN]]
        /\ editor'[p] = new /\ \A q \in Editors : q # p => editor'[q] = editor[q]
    BY <1>2, <1>5 DEF WfIInv, SaveInv
  <1>8. \A q \in Editors : EditorOk(editor'[q], wf)
    BY <1>6, <1>7 DEF WfIInv, SaveInv
  <1>9. \A q \in Editors : editor[q].pc # "idle" => editor[q].w # w
    BY <1>2 DEF Locked
  <1>10. \A q, s \in Editors : editor'[q].pc # "idle" /\ editor'[s].pc # "idle" /\ editor'[q].w = editor'[s].w => q = s
    <2>1. \A q, s \in Editors : editor[q].pc # "idle" /\ editor[s].pc # "idle" /\ editor[q].w = editor[s].w => q = s
      BY DEF WfIInv, SaveInv
    <2>2. new.w = w
      BY <1>5
    <2>3. editor'[p] = new /\ \A q \in Editors : q # p => editor'[q] = editor[q]
      BY <1>7
    <2> QED BY <1>9, <2>1, <2>2, <2>3
  <1>11. EditsSurvive'
    BY <1>2 DEF WfIInv, SaveInv, EditsSurvive, Exists, Latest
  <1>12. SaveInv'
    BY <1>1, <1>2, <1>7, <1>8, <1>10, <1>11 DEF SaveInv, WfIInv, SameEnv
  <1>13. VersionsGrow(wf, wf') /\ WantsShrink(wf, wf', wenv.workflows)
    BY <1>2, StandingStill
  <1> QED BY <1>1, <1>12, <1>13, SavingOnly DEF Update, PatchLock

\* A row as a save leaves it.
SavedAs(o, by, on, vs) == [o EXCEPT !.owner = by, !.enabled = on, !.versions = vs]
LEMMA SavedRow ==
    ASSUME NEW o \in Workflow, NEW by \in Admins, NEW on \in BOOLEAN, NEW vs \in Seq(Version)
    PROVE  /\ SavedAs(o, by, on, vs) \in Workflow /\ SavedAs(o, by, on, vs).enabled = on
           /\ SavedAs(o, by, on, vs).archived = o.archived /\ SavedAs(o, by, on, vs).triggered = o.triggered
           /\ SavedAs(o, by, on, vs).versions = vs
  BY DEF Workflow, SavedAs

LEMMA saveTxKeeps ==
    ASSUME WfIInv, NEW p \in Editors, saveTx(p)
    PROVE  WfIInv'
  <1> DEFINE e == editor[p]
             v == [steps |-> e.steps, author |-> e.by]
             old == wf[e.w]
             vs == Append(old.versions, v)
             new == SavedAs(old, e.by, e.on, vs)
  <1>1. EnvInv' /\ SameEnv
    BY NotSpending DEF saveTx, WfIInv
  <1>2. /\ e.w \in Workflows /\ e.by \in Admins /\ e.steps \in Seq(STRING) /\ e.on \in BOOLEAN /\ Len(e.steps) <= MaxSteps
        /\ e.pc \in {"steps", "enabled"} /\ e.pc # "idle"
    BY DEF saveTx, WfIInv, SaveInv, EditorOk
  <1>3. /\ old \in Workflow /\ WorkflowOk(old, wenv.workflows[e.w])
        /\ old.versions # <<>> /\ ~old.archived
        /\ e.pc = "steps" => e.on = old.enabled
        /\ e.pc = "enabled" => e.steps = old.versions[Len(old.versions)].steps
    BY <1>2 DEF WfIInv, SaveInv, EditorOk
  <1>4. wf' = [wf EXCEPT ![e.w] = new]
    BY <1>2 DEF saveTx, WfIInv, SaveInv, SavedAs
  <1>5. v \in Version /\ v.steps = e.steps
    BY <1>2 DEF Version
  <1> HIDE DEF v
  <1>6. /\ new \in Workflow /\ new.enabled = e.on /\ new.archived = old.archived /\ new.triggered = old.triggered
        /\ new.versions = vs
    <2>1. old.versions \in Seq(Version)
      BY <1>3 DEF Workflow
    <2>2. vs \in Seq(Version)
      BY <2>1, <1>5
    <2> HIDE DEF e, old, vs
    <2>3. old \in Workflow /\ e.by \in Admins /\ e.on \in BOOLEAN
      BY <1>2, <1>3
    <2> QED BY <2>2, <2>3, SavedRow
  <1>7. /\ old.versions \in Seq(Version) /\ Len(new.versions) = Len(old.versions) + 1
        /\ new.versions[Len(new.versions)] = v /\ \A k \in 1..Len(old.versions) : new.versions[k] = old.versions[k]
    <2>1. old.versions \in Seq(Version)
      BY <1>3 DEF Workflow
    <2> DEFINE ov == old.versions
    <2>2. ov \in Seq(Version) /\ vs = Append(ov, v)
      BY <2>1
    <2> HIDE DEF ov, vs, old
    <2>3. Len(vs) = Len(ov) + 1 /\ vs[Len(vs)] = v /\ \A k \in 1..Len(ov) : vs[k] = ov[k]
      BY <2>2, <1>5
    <2> QED BY <2>1, <2>3, <1>6 DEF ov
  <1>8. e.w \in DOMAIN wf /\ wf \in [Workflows -> Workflow] /\ wf[e.w] = old
    BY <1>2 DEF WfIInv, SaveInv
  <1> HIDE DEF new, old, vs
  <1>9. wf' \in [Workflows -> Workflow] /\ wf'[e.w] = new /\ \A u \in Workflows : u # e.w => wf'[u] = wf[u]
    BY <1>4, <1>6, <1>8
  <1>10. WorkflowOk(new, wenv.workflows[e.w])
    <2>1. \A k \in 1..Len(new.versions) : Len(new.versions[k].steps) <= MaxSteps
      <3> SUFFICES ASSUME NEW k \in 1..Len(new.versions) PROVE Len(new.versions[k].steps) <= MaxSteps
        OBVIOUS
      <3>1. Len(old.versions) \in Nat
        BY <1>7
      <3>2. CASE k = Len(new.versions)
        BY <3>2, <1>2, <1>5, <1>7
      <3>3. CASE k \in 1..Len(old.versions)
        BY <3>3, <1>3, <1>7 DEF WorkflowOk
      <3> QED BY <3>1, <3>2, <3>3, <1>7
    <2>2. new.versions # <<>> /\ Len(wenv.workflows[e.w].versions) \in Nat /\ Len(old.versions) \in Nat
      BY <1>7, <1>2 DEF WfIInv, EnvInv, Workflow
    <2>3. Len(new.versions) > Len(wenv.workflows[e.w].versions)
      <3>1. Len(old.versions) >= Len(wenv.workflows[e.w].versions)
        BY <1>3 DEF WorkflowOk
      <3>2. Len(new.versions) = Len(old.versions) + 1
        BY <1>7
      <3> DEFINE a == Len(old.versions)
                 b == Len(wenv.workflows[e.w].versions)
      <3>3. a \in Nat /\ b \in Nat /\ a >= b /\ Len(new.versions) = a + 1
        BY <3>1, <3>2, <2>2
      <3> HIDE DEF a, b
      <3>4. Len(new.versions) > b
        BY <3>3
      <3> QED BY <3>4 DEF b
    <2>4. ~new.archived
      BY <1>3, <1>6
    <2>5. Len(new.versions) >= Len(wenv.workflows[e.w].versions)
      BY <2>2, <2>3, <1>7
    <2> HIDE DEF new, e
    <2> QED BY <2>1, <2>2, <2>3, <2>4, <2>5 DEF WorkflowOk
  <1>11. \A u \in Workflows : WorkflowOk(wf'[u], wenv'.workflows[u])
    BY <1>1, <1>9, <1>10 DEF WfIInv, SaveInv, SameEnv
  <1>12. IdleEditor \in [pc : {"idle", "steps", "enabled"}, w : Workflows \cup {0}, by : Admins \cup {0},
                         steps : Seq(STRING), on : BOOLEAN] /\ IdleEditor.pc = "idle"
    BY DEF IdleEditor
  <1>13. /\ editor' \in [Editors -> [pc : {"idle", "steps", "enabled"}, w : Workflows \cup {0}, by : Admins \cup {0},
                                     steps : Seq(STRING), on : BOOLEAN]]
         /\ editor'[p].pc = "idle" /\ \A q \in Editors : q # p => editor'[q] = editor[q]
    BY <1>12 DEF saveTx, WfIInv, SaveInv
  <1>14. \A q \in Editors : editor'[q].pc # "idle" => q # p /\ editor'[q] = editor[q]
    BY <1>13
  <1>15. \A q \in Editors : q # p /\ editor[q].pc # "idle" => editor[q].w # e.w
    BY <1>2 DEF WfIInv, SaveInv
  <1>16. \A q \in Editors : EditorOk(editor'[q], wf')
    <2> SUFFICES ASSUME NEW q \in Editors, editor'[q].pc # "idle" PROVE EditorOk(editor'[q], wf')
      BY DEF EditorOk
    <2>1. q # p /\ editor'[q] = editor[q] /\ editor[q].pc # "idle" /\ EditorOk(editor[q], wf)
      BY <1>14 DEF WfIInv, SaveInv
    <2>2. editor[q].w \in Workflows /\ editor[q].w # e.w
      BY <2>1, <1>15 DEF EditorOk
    <2>3. wf'[editor[q].w] = wf[editor[q].w]
      BY <2>2, <1>9
    <2>4. EditorOk(editor[q], wf')
      BY <2>1, <2>3 DEF EditorOk
    <2> QED BY <2>1, <2>4
  <1>17. \A q, s \in Editors : editor'[q].pc # "idle" /\ editor'[s].pc # "idle" /\ editor'[q].w = editor'[s].w => q = s
    BY <1>14 DEF WfIInv, SaveInv
  <1>18. intent' \in [Workflows -> [steps : Seq(STRING), enabled : BOOLEAN]]
         /\ intent'[e.w].steps = e.steps /\ intent'[e.w].enabled = e.on
         /\ \A u \in Workflows : u # e.w => intent'[u] = intent[u]
    <2>1. intent \in [Workflows -> [steps : Seq(STRING), enabled : BOOLEAN]]
      BY DEF WfIInv, SaveInv
    <2>2. intent[e.w].steps = old.versions[Len(old.versions)].steps /\ intent[e.w].enabled = old.enabled
      BY <1>2, <1>3, <1>8 DEF WfIInv, SaveInv, EditsSurvive, Exists, Latest, Last
    <2>3. CASE e.pc = "steps"
      BY <2>1, <2>2, <2>3, <1>2, <1>3 DEF saveTx
    <2>4. CASE e.pc = "enabled"
      BY <2>1, <2>2, <2>4, <1>2, <1>3 DEF saveTx
    <2> QED BY <2>3, <2>4, <1>2
  <1>19. EditsSurvive'
    <2> SUFFICES ASSUME NEW u \in Workflows, Exists(u)' PROVE (Latest(u).steps = intent[u].steps /\ wf[u].enabled = intent[u].enabled)'
      BY DEF EditsSurvive
    <2>1. CASE u = e.w
      BY <2>1, <1>5, <1>6, <1>7, <1>9, <1>18 DEF Latest, Last
    <2>2. CASE u # e.w
      BY <2>2, <1>9, <1>18 DEF Latest, Exists, WfIInv, SaveInv, EditsSurvive
    <2> QED BY <2>1, <2>2
  <1>20. SaveInv'
    BY <1>9, <1>11, <1>13, <1>16, <1>17, <1>18, <1>19 DEF SaveInv
  <1>21. VersionsGrow(wf, wf')
    <2> SUFFICES ASSUME NEW u \in Workflows, NEW k \in 1..Len(wf[u].versions)
                 PROVE  k \in 1..Len(wf'[u].versions) /\ wf'[u].versions[k] = wf[u].versions[k]
      BY DEF VersionsGrow
    <2>1. CASE u = e.w
      BY <2>1, <1>7, <1>8, <1>9
    <2>2. CASE u # e.w
      BY <2>2, <1>9
    <2> QED BY <2>1, <2>2
  <1>22. WantsShrink(wf, wf', wenv.workflows)
    <2> SUFFICES ASSUME NEW u \in Workflows, Wants(u, wf', wenv.workflows) PROVE Wants(u, wf, wenv.workflows)
      BY DEF WantsShrink
    <2>1. CASE u = e.w
      <3>1. new = wenv.workflows[e.w]
        BY <2>1, <1>9 DEF Wants
      <3>2. Len(old.versions) >= Len(wenv.workflows[e.w].versions) /\ Len(old.versions) \in Nat
        BY <1>3, <1>7 DEF WorkflowOk
      <3> QED BY <3>1, <3>2, <1>7
    <2>2. CASE u # e.w
      BY <2>2, <1>9 DEF Wants
    <2> QED BY <2>1, <2>2
  <1> QED BY <1>1, <1>20, <1>21, <1>22, SavingOnly DEF saveTx

LEMMA ArchiveKeeps ==
    ASSUME WfIInv, NEW w \in Workflows, Archive(w)
    PROVE  WfIInv'
  <1> DEFINE old == wf[w]
             new == [old EXCEPT !.archived = TRUE, !.enabled = FALSE]
  <1>1. EnvInv' /\ SameEnv
    BY Spending DEF Archive, WfIInv
  <1>2. old \in Workflow /\ WorkflowOk(old, wenv.workflows[w]) /\ old.archived = FALSE /\ old.versions # <<>>
    BY DEF WfIInv, SaveInv, Archive, Exists, Workflow
  <1>3. wf' = [wf EXCEPT ![w] = new]
    BY DEF Archive, WfIInv, SaveInv
  <1>4. /\ new \in Workflow /\ new.enabled = FALSE /\ new.archived = TRUE /\ new.versions = old.versions
        /\ new.triggered = old.triggered
    BY <1>2 DEF Workflow
  <1>5. wf \in [Workflows -> Workflow] /\ wf[w] = old
    BY DEF WfIInv, SaveInv
  <1> HIDE DEF new, old
  <1>6. wf' \in [Workflows -> Workflow] /\ wf'[w] = new /\ \A u \in Workflows : u # w => wf'[u] = wf[u]
    BY <1>3, <1>4, <1>5
  <1>7. \A u \in Workflows : WorkflowOk(wf'[u], wenv'.workflows[u])
    <2>1. WorkflowOk(new, wenv.workflows[w])
      BY <1>2, <1>4 DEF WorkflowOk
    <2> QED BY <2>1, <1>1, <1>6 DEF WfIInv, SaveInv, SameEnv
  <1>8. \A q \in Editors : editor[q].pc # "idle" => editor[q].w # w
    BY DEF Archive, Locked
  <1>9. \A q \in Editors : EditorOk(editor[q], wf')
    <2> SUFFICES ASSUME NEW q \in Editors, editor[q].pc # "idle" PROVE EditorOk(editor[q], wf')
      BY DEF EditorOk
    <2>1. EditorOk(editor[q], wf) /\ editor[q].w \in Workflows /\ editor[q].w # w
      BY <1>8 DEF EditorOk, WfIInv, SaveInv
    <2>2. wf'[editor[q].w] = wf[editor[q].w]
      BY <2>1, <1>6
    <2> QED BY <2>1, <2>2 DEF EditorOk
  <1>10. /\ intent' \in [Workflows -> [steps : Seq(STRING), enabled : BOOLEAN]]
         /\ intent'[w].enabled = FALSE /\ intent'[w].steps = intent[w].steps
         /\ \A u \in Workflows : u # w => intent'[u] = intent[u]
    <2>1. intent \in [Workflows -> [steps : Seq(STRING), enabled : BOOLEAN]]
      BY DEF WfIInv, SaveInv
    <2>2. intent' = [intent EXCEPT ![w].enabled = FALSE]
      BY DEF Archive
    <2> QED BY <2>1, <2>2
  <1>11. EditsSurvive'
    <2> SUFFICES ASSUME NEW u \in Workflows, Exists(u)' PROVE (Latest(u).steps = intent[u].steps /\ wf[u].enabled = intent[u].enabled)'
      BY DEF EditsSurvive
    <2>1. CASE u = w
      BY <2>1, <1>2, <1>4, <1>5, <1>6, <1>10 DEF Latest, Last, WfIInv, SaveInv, EditsSurvive, Exists
    <2>2. CASE u # w
      BY <2>2, <1>6, <1>10 DEF Latest, Exists, WfIInv, SaveInv, EditsSurvive
    <2> QED BY <2>1, <2>2
  <1>12. SaveInv'
    <2>1. editor' = editor
      BY DEF Archive
    <2> QED BY <2>1, <1>6, <1>7, <1>9, <1>10, <1>11 DEF SaveInv, WfIInv
  <1>13. VersionsGrow(wf, wf') /\ WantsShrink(wf, wf', wenv.workflows)
    BY <1>4, <1>5, <1>6 DEF VersionsGrow, WantsShrink, Wants
  <1> QED BY <1>1, <1>12, <1>13, SavingOnly DEF Archive

LEMMA RightLostKeeps ==
    ASSUME WfIInv, NEW u, NEW kind, RightLost(u, kind)
    PROVE  WfIInv'
  <1>1. EnvInv' /\ SameEnv
    BY Spending DEF RightLost, WfIInv
  <1>2. wf' = wf /\ intent' = intent /\ editor' = editor
    BY DEF RightLost
  <1>3. SaveInv'
    BY <1>1, <1>2 DEF SaveInv, WfIInv, SameEnv, EditsSurvive, Exists, Latest
  <1>4. VersionsGrow(wf, wf') /\ WantsShrink(wf, wf', wenv.workflows)
    BY <1>2, StandingStill
  <1> QED BY <1>1, <1>3, <1>4, SavingOnly DEF RightLost

-----------------------------------------------------------------------------
(* Triggers.                                                               *)

\* An appended event leaves the others where they are.
LEMMA Appended ==
    ASSUME StreamInv, NEW v \in [depth : Nat, gen : Nat], v.depth = v.gen, stream' = Append(stream, v), acked' = acked
    PROVE  StreamInv' /\ StreamGrows(stream, stream')
  <1>1. stream \in Seq([depth : Nat, gen : Nat])
    BY DEF StreamInv
  <1>2. /\ stream' \in Seq([depth : Nat, gen : Nat]) /\ DOMAIN stream' = 1..(Len(stream) + 1) /\ DOMAIN stream = 1..Len(stream)
        /\ \A e \in 1..Len(stream) : stream'[e] = stream[e]
        /\ stream'[Len(stream) + 1] = v
    BY <1>1
  <1>3. Len(stream) \in Nat
    BY <1>1
  <1>4. \A e \in DOMAIN stream' : stream'[e].depth = stream'[e].gen
    <2> SUFFICES ASSUME NEW e \in DOMAIN stream' PROVE stream'[e].depth = stream'[e].gen
      OBVIOUS
    <2>1. CASE e = Len(stream) + 1
      BY <2>1, <1>2
    <2>2. CASE e \in 1..Len(stream)
      BY <2>2, <1>2 DEF StreamInv
    <2> QED BY <2>1, <2>2, <1>2, <1>3
  <1> QED BY <1>2, <1>3, <1>4 DEF StreamInv, StreamGrows

LEMMA PersonPostsKeeps ==
    ASSUME WfIInv, PersonPosts
    PROVE  WfIInv'
  <1>1. EnvInv' /\ SameEnv
    BY Spending DEF PersonPosts, WfIInv
  <1>2. SaveInv' /\ VersionsGrow(wf, wf') /\ WantsShrink(wf, wf', wenv.workflows)
    BY <1>1, NotSaving DEF PersonPosts
  <1> DEFINE v == [depth |-> 0, gen |-> 0]
  <1>3. v \in [depth : Nat, gen : Nat] /\ v.depth = v.gen
    OBVIOUS
  <1>4. stream' = Append(stream, v) /\ acked' = acked
    BY DEF PersonPosts, triggerVars
  <1> HIDE DEF v
  <1>5. StreamInv' /\ StreamGrows(stream, stream')
    BY <1>3, <1>4, Appended DEF WfIInv
  <1>6. Grows
    BY <1>1, <1>2, <1>5, StandingStill DEF Grows, PersonPosts, triggerVars, runVars, TurnedAway
  <1>7. RunInv' /\ ConsumerInv' /\ StepInv' /\ AloneInv'
    BY <1>6, RunsKept, ConsumersKept, StepsKept, AloneKept DEF WfIInv, PersonPosts, triggerVars, runVars, Grows
  <1> QED BY <1>1, <1>2, <1>5, <1>7 DEF WfIInv

\* The rate cap's window moves on over every run.
LEMMA MinutePassesKeeps ==
    ASSUME WfIInv, MinutePasses
    PROVE  WfIInv'
  <1>1. EnvInv' /\ SameEnv
    BY Spending DEF MinutePasses, WfIInv
  <1>2. SaveInv' /\ VersionsGrow(wf, wf') /\ WantsShrink(wf, wf', wenv.workflows)
    BY <1>1, NotSaving DEF MinutePasses
  <1>3. \A r \in RunIds : runs'[r] = [runs[r] EXCEPT !.fresh = FALSE]
    BY DEF MinutePasses
  <1>4. runs \in [RunIds -> [w : Workflows \cup {0}, ver : Nat, ev : Nat, depth : Nat, gen : Nat, status : Statuses,
                             fresh : BOOLEAN, queuedFor : Admins \cup {0}]]
    BY DEF WfIInv, RunInv
  <1>5. \A r \in RunIds : /\ runs'[r].w = runs[r].w /\ runs'[r].ver = runs[r].ver /\ runs'[r].ev = runs[r].ev
                          /\ runs'[r].depth = runs[r].depth /\ runs'[r].gen = runs[r].gen
                          /\ runs'[r].status = runs[r].status
    BY <1>3, <1>4
  <1>6. runs' \in [RunIds -> [w : Workflows \cup {0}, ver : Nat, ev : Nat, depth : Nat, gen : Nat, status : Statuses,
                              fresh : BOOLEAN, queuedFor : Admins \cup {0}]]
    BY <1>4 DEF MinutePasses
  <1>7. Grows
    <2>1. RunsGrow(runs, runs')
      BY <1>5 DEF RunsGrow
    <2> QED BY <2>1, <1>1, <1>2, StandingStill DEF Grows, MinutePasses, triggerVars, runVars, TurnedAway
  <1>8. RunInv'
    <2>1. \A r \in RunIds : RunOk(runs'[r], wf')
      BY <1>5, <1>7, RunFrame DEF WfIInv
    <2> QED BY <2>1, <1>5, <1>6 DEF RunInv, WfIInv
  <1>9. StreamInv' /\ ConsumerInv'
    BY <1>7, StreamKept, ConsumersKept DEF WfIInv, MinutePasses, triggerVars
  <1>10. StepInv' /\ AloneInv'
    <2>1. \A x \in Runners : runner[x].pc # "idle" => runner[x].run \in RunIds
      BY DEF WfIInv, StepInv, RunnerOk
    <2> QED BY <2>1, <1>1, <1>5, <1>7, StepsKept, AloneKept DEF WfIInv, MinutePasses, runVars
  <1> QED BY <1>1, <1>2, <1>8, <1>9, <1>10 DEF WfIInv

\* A consumer's step leaves the runs' steps alone; it is enough to look at the consumers.
LEMMA ConsumingOnly ==
    ASSUME WfIInv, EnvInv', SameEnv, UNCHANGED savedVars, UNCHANGED runVars, stream' = stream,
           acked' \subseteq DOMAIN stream, TurnedAway \subseteq TurnedAway', RunsGrow(runs, runs'), RunInv', ConsumerInv',
           \A r \in RunIds : runs[r].status # "none" => runs'[r] = runs[r],
           \A r \in RunIds : runs[r].status = "none" => runs'[r].status \in {"none", "pending"}
    PROVE  WfIInv'
  <1>1. SaveInv' /\ VersionsGrow(wf, wf') /\ WantsShrink(wf, wf', wenv.workflows)
    BY NotSaving
  <1>2. Grows
    BY <1>1, StandingStill DEF Grows, runVars
  <1>3. StreamInv'
    BY DEF WfIInv, StreamInv
  <1>4. \A r \in RunIds : runs'[r].status = "succeeded" => runs[r].status = "succeeded"
    BY DEF WfIInv, RunInv
  <1>5. StepInv'
    BY <1>2, <1>4, StepsKept DEF WfIInv, runVars
  <1>6. AloneInv'
    <2>1. \A x \in Runners : runner[x].pc # "idle" => runner[x].run \in RunIds
      BY DEF WfIInv, StepInv, RunnerOk
    <2> QED BY <2>1, AloneKept DEF WfIInv, runVars
  <1> QED BY <1>1, <1>3, <1>5, <1>6 DEF WfIInv

\* The invariant on consumers when one of them has moved.
LEMMA ConsumerMoved ==
    ASSUME WfIInv, Grows, NEW c \in Consumers,
           \A e \in acked' : e \in acked
              \/ \A w \in Workflows : Wants(w, wf', wenv'.workflows) => Covered(w, e, runs', TurnedAway'),
           NEW n \in [pc : {"idle", "next", "insert"}, ev : Nat, left : SUBSET Match, m : Match \cup {NoMatch}],
           consumer' = [consumer EXCEPT ![c] = n], ConsumerOk(n, wf', wenv'.workflows, stream', runs', TurnedAway')
    PROVE  ConsumerInv'
  <1>1. consumer \in [Consumers -> [pc : {"idle", "next", "insert"}, ev : Nat, left : SUBSET Match,
                                    m : Match \cup {NoMatch}]]
    BY DEF WfIInv, ConsumerInv
  <1>2. /\ consumer' \in [Consumers -> [pc : {"idle", "next", "insert"}, ev : Nat, left : SUBSET Match,
                                        m : Match \cup {NoMatch}]]
        /\ consumer'[c] = n /\ \A d \in Consumers : d # c => consumer'[d] = consumer[d]
    BY <1>1
  <1>3. \A d \in Consumers : ConsumerOk(consumer[d], wf', wenv'.workflows, stream', runs', TurnedAway')
    BY <1>1, ConsumerFrame DEF WfIInv, ConsumerInv
  <1>4. \A d \in Consumers : ConsumerOk(consumer'[d], wf', wenv'.workflows, stream', runs', TurnedAway')
    BY <1>2, <1>3
  <1>5. \A e \in acked', w \in Workflows : Wants(w, wf', wenv'.workflows) => Covered(w, e, runs', TurnedAway')
    BY AckedStays DEF WfIInv
  <1> QED BY <1>2, <1>4, <1>5 DEF ConsumerInv

ConsumerState == [pc : {"idle", "next", "insert"}, ev : Nat, left : SUBSET Match, m : Match \cup {NoMatch}]

LEMMA IdleConsumerOk ==
    ASSUME NEW f, NEW first, NEW s, NEW R, NEW rej
    PROVE  IdleConsumer \in ConsumerState /\ IdleConsumer.pc = "idle" /\ ConsumerOk(IdleConsumer, f, first, s, R, rej)
  BY DEF IdleConsumer, ConsumerState, ConsumerOk

\* What a consumer that is not idle holds.
LEMMA ConsumerFacts ==
    ASSUME WfIInv, NEW c \in Consumers
    PROVE  /\ consumer[c] \in ConsumerState
           /\ ConsumerOk(consumer[c], wf, wenv.workflows, stream, runs, TurnedAway)
           /\ consumer[c].pc # "idle" => consumer[c].ev \in DOMAIN stream
  BY DEF WfIInv, ConsumerInv, ConsumerOk, ConsumerState

LEMMA MatchingFacts ==
    ASSUME WfIInv
    PROVE  /\ MatchingWorkflows \in SUBSET Match
           /\ \A m \in MatchingWorkflows : m.ver \in 1..Len(wf[m.w].versions)
           /\ \A w \in Workflows : Wants(w, wf, wenv.workflows) => \E m \in MatchingWorkflows : m.w = w
  <1>1. \A w \in Workflows : /\ wf[w] \in Workflow
                             /\ wf[w].triggered => wf[w].versions # <<>>
                             /\ wf[w].archived => ~wf[w].enabled
    BY DEF WfIInv, SaveInv, WorkflowOk
  <1>2. \A w \in Workflows : wf[w].versions \in Seq(Version) /\ Len(wf[w].versions) \in Nat /\ wf[w].owner \in Admins \cup {0}
    <2> SUFFICES ASSUME NEW w \in Workflows
                 PROVE  wf[w].versions \in Seq(Version) /\ Len(wf[w].versions) \in Nat /\ wf[w].owner \in Admins \cup {0}
      OBVIOUS
    <2>1. wf[w] \in Workflow
      BY <1>1
    <2> QED BY <2>1 DEF Workflow
  <1> DEFINE matchOf(w) == [w |-> w, ver |-> Len(wf[w].versions), owner |-> wf[w].owner]
  <1>3. \A w \in Workflows : matchOf(w) \in Match /\ matchOf(w).w = w /\ matchOf(w).ver = Len(wf[w].versions)
    BY <1>2 DEF Match
  <1>4. \A w \in Workflows : wf[w].triggered => Len(wf[w].versions) \in 1..Len(wf[w].versions)
    <2> SUFFICES ASSUME NEW w \in Workflows, wf[w].triggered PROVE Len(wf[w].versions) \in 1..Len(wf[w].versions)
      OBVIOUS
    <2>1. wf[w].versions \in Seq(Version) /\ wf[w].versions # <<>>
      BY <1>2, <1>1
    <2> QED BY <2>1
  <1>5. MatchingWorkflows = {matchOf(w) : w \in {v \in Workflows : wf[v].enabled /\ ~wf[v].archived /\ wf[v].triggered}}
    BY DEF MatchingWorkflows
  <1> HIDE DEF matchOf
  <1>6. MatchingWorkflows \in SUBSET Match
    BY <1>3, <1>5
  <1>7. \A m \in MatchingWorkflows : m.ver \in 1..Len(wf[m.w].versions)
    BY <1>3, <1>4, <1>5
  <1>8. \A w \in Workflows : Wants(w, wf, wenv.workflows) => \E m \in MatchingWorkflows : m.w = w
    BY <1>1, <1>3, <1>5 DEF Wants
  <1> QED BY <1>6, <1>7, <1>8

LEMMA HandleKeeps ==
    ASSUME WfIInv, NEW c \in Consumers, NEW e, Handle(c, e)
    PROVE  WfIInv'
  <1>1. EnvInv' /\ SameEnv
    BY NotSpending DEF Handle, WfIInv
  <1>2. UNCHANGED savedVars /\ UNCHANGED runVars /\ UNCHANGED <<stream, runs, TurnedAway>> /\ e \in DOMAIN stream
    BY DEF Handle, TurnedAway
  <1>3. Grows
    <2>1. VersionsGrow(wf, wf') /\ WantsShrink(wf, wf', wenv.workflows)
      BY <1>1, <1>2, NotSaving
    <2> QED BY <2>1, <1>1, <1>2, StandingStill DEF Grows, runVars
  <1>4. wf' = wf /\ e \in Nat /\ wenv'.workflows = wenv.workflows
    BY <1>1, <1>2 DEF savedVars, WfIInv, StreamInv, SameEnv
  <1>5. ConsumerInv' /\ acked' \subseteq DOMAIN stream
    <2>1. CASE MatchingWorkflows = {}
      <3>1. acked' = acked \cup {e} /\ consumer' = consumer
        BY <2>1 DEF Handle
      <3>2. \A w \in Workflows : ~Wants(w, wf, wenv.workflows)
        BY <2>1, MatchingFacts
      <3>3. \A d \in Consumers : ConsumerOk(consumer'[d], wf', wenv'.workflows, stream', runs', TurnedAway')
        BY <3>1, <1>2, <1>4 DEF WfIInv, ConsumerInv
      <3>4. \A a \in acked', w \in Workflows : Wants(w, wf', wenv'.workflows) => Covered(w, a, runs', TurnedAway')
        BY <3>2, <1>4
      <3>5. acked' \subseteq DOMAIN stream
        BY <3>1, <1>2 DEF WfIInv, StreamInv
      <3> QED BY <3>1, <3>3, <3>4, <3>5 DEF WfIInv, ConsumerInv
    <2>2. CASE MatchingWorkflows # {}
      <3> DEFINE n == [pc |-> "next", ev |-> e, left |-> MatchingWorkflows, m |-> NoMatch]
      <3>1. acked' = acked /\ consumer' = [consumer EXCEPT ![c] = n]
        BY <2>2 DEF Handle
      <3>2. n \in ConsumerState /\ n.pc = "next" /\ n.ev = e /\ n.left = MatchingWorkflows
        BY <1>4, MatchingFacts DEF ConsumerState
      <3> HIDE DEF n
      <3>3. ConsumerOk(n, wf', wenv'.workflows, stream', runs', TurnedAway')
        BY <3>2, <1>2, <1>4, MatchingFacts DEF ConsumerOk
      <3>4. ConsumerInv'
        BY <3>1, <3>2, <3>3, <1>3, ConsumerMoved DEF ConsumerState
      <3> QED BY <3>1, <3>4 DEF WfIInv, StreamInv
    <2> QED BY <2>1, <2>2
  <1>6. RunInv' /\ RunsGrow(runs, runs')
    BY <1>3, RunsKept, <1>2 DEF WfIInv, Grows
  <1> QED BY <1>1, <1>2, <1>5, <1>6, ConsumingOnly

LEMMA HandleAckKeeps ==
    ASSUME WfIInv, NEW c \in Consumers, HandleAck(c)
    PROVE  WfIInv'
  <1>1. EnvInv' /\ SameEnv
    BY NotSpending DEF HandleAck, WfIInv
  <1>2. UNCHANGED savedVars /\ UNCHANGED runVars /\ UNCHANGED <<stream, runs, TurnedAway>>
    BY DEF HandleAck, TurnedAway
  <1>3. Grows
    <2>1. VersionsGrow(wf, wf') /\ WantsShrink(wf, wf', wenv.workflows)
      BY <1>1, <1>2, NotSaving
    <2> QED BY <2>1, <1>1, <1>2, StandingStill DEF Grows, runVars
  <1>4. wf' = wf /\ wenv'.workflows = wenv.workflows
    BY <1>1, <1>2 DEF savedVars, SameEnv
  <1>5. /\ consumer[c].pc = "next" /\ consumer[c].left = {} /\ acked' = acked \cup {consumer[c].ev}
        /\ consumer' = [consumer EXCEPT ![c] = IdleConsumer]
    BY DEF HandleAck, TurnedAway
  <1>6. \A w \in Workflows : Wants(w, wf', wenv'.workflows) => Covered(w, consumer[c].ev, runs', TurnedAway')
    BY <1>2, <1>4, <1>5, ConsumerFacts DEF ConsumerOk
  <1>7. ConsumerInv'
    <2>1. \A e \in acked' : e \in acked
              \/ \A w \in Workflows : Wants(w, wf', wenv'.workflows) => Covered(w, e, runs', TurnedAway')
      BY <1>5, <1>6
    <2> QED BY <2>1, <1>3, <1>5, ConsumerMoved, IdleConsumerOk DEF ConsumerState
  <1>8. acked' \subseteq DOMAIN stream
    BY <1>5, ConsumerFacts DEF WfIInv, StreamInv
  <1>9. RunInv' /\ RunsGrow(runs, runs')
    BY <1>3, RunsKept, <1>2 DEF WfIInv, Grows
  <1> QED BY <1>1, <1>2, <1>7, <1>8, <1>9, ConsumingOnly

LEMMA HandleFailsKeeps ==
    ASSUME WfIInv, NEW c \in Consumers, HandleFails(c)
    PROVE  WfIInv'
  <1>1. EnvInv' /\ SameEnv
    BY Spending DEF HandleFails, WfIInv
  <1>2. UNCHANGED savedVars /\ UNCHANGED runVars /\ UNCHANGED <<stream, runs, TurnedAway, acked>>
    BY DEF HandleFails, TurnedAway
  <1>3. Grows
    <2>1. VersionsGrow(wf, wf') /\ WantsShrink(wf, wf', wenv.workflows)
      BY <1>1, <1>2, NotSaving
    <2> QED BY <2>1, <1>1, <1>2, StandingStill DEF Grows, runVars
  <1>4. ConsumerInv'
    <2>1. consumer' = [consumer EXCEPT ![c] = IdleConsumer]
      BY DEF HandleFails, TurnedAway
    <2> QED BY <2>1, <1>2, <1>3, ConsumerMoved, IdleConsumerOk DEF ConsumerState
  <1>5. RunInv' /\ RunsGrow(runs, runs') /\ acked' \subseteq DOMAIN stream
    BY <1>3, RunsKept, <1>2 DEF WfIInv, Grows, StreamInv
  <1> QED BY <1>1, <1>2, <1>4, <1>5, ConsumingOnly

LEMMA EventFacts ==
    ASSUME StreamInv, NEW e \in DOMAIN stream
    PROVE  e \in Nat /\ stream[e].depth \in Nat /\ stream[e].gen = stream[e].depth
  <1> DEFINE S == [depth : Nat, gen : Nat]
  <1>1. stream \in Seq(S) /\ stream[e].depth = stream[e].gen
    BY DEF StreamInv
  <1> HIDE DEF S
  <1>2. e \in 1..Len(stream) /\ Len(stream) \in Nat /\ stream[e] \in S
    BY <1>1
  <1> QED BY <1>1, <1>2 DEF S

LEMMA EnqueueCheckKeeps ==
    ASSUME WfIInv, NEW c \in Consumers, EnqueueCheck(c)
    PROVE  WfIInv'
  <1> DEFINE k == consumer[c]
  <1>1. EnvInv' /\ SameEnv
    BY NotSpending DEF EnqueueCheck, WfIInv
  <1>2. UNCHANGED savedVars /\ UNCHANGED runVars /\ UNCHANGED <<stream, runs, acked>>
    BY DEF EnqueueCheck
  <1>3. TurnedAway \subseteq TurnedAway'
    BY DEF EnqueueCheck, RecordRejection, TurnedAway
  <1>4. Grows
    <2>1. VersionsGrow(wf, wf') /\ WantsShrink(wf, wf', wenv.workflows)
      BY <1>1, <1>2, NotSaving
    <2> QED BY <2>1, <1>1, <1>2, <1>3, StandingStill DEF Grows, runVars
  <1>5. /\ k \in ConsumerState /\ k.pc = "next" /\ k.ev \in DOMAIN stream
        /\ ConsumerOk(k, wf', wenv'.workflows, stream', runs', TurnedAway')
    <2>1. k \in ConsumerState /\ k.pc = "next" /\ k.ev \in DOMAIN stream
          /\ ConsumerOk(k, wf, wenv.workflows, stream, runs, TurnedAway)
      BY ConsumerFacts DEF EnqueueCheck
    <2>2. k.left \in SUBSET Match
      BY <2>1 DEF ConsumerState
    <2> HIDE DEF k
    <2> QED BY <2>1, <2>2, <1>4, ConsumerFrame DEF WfIInv
  <1>6. PICK m \in k.left :
          IF LoopGuard(c, m.w)
          THEN /\ consumer' = [consumer EXCEPT ![c].left = @ \ {m}]
               /\ RecordRejection(c, m.w)
          ELSE /\ consumer' = [consumer EXCEPT ![c].pc = "insert", ![c].m = m]
               /\ UNCHANGED rejected
    BY DEF EnqueueCheck
  <1>7. m \in Match /\ c \in DOMAIN consumer
    BY <1>5 DEF ConsumerState, WfIInv, ConsumerInv
  <1>8. ASSUME LoopGuard(c, m.w) PROVE ConsumerInv'
    <2> DEFINE n == [k EXCEPT !.left = k.left \ {m}]
    <2>1. consumer' = [consumer EXCEPT ![c] = n]
      BY <1>6, <1>8
    <2>2. <<k.ev, m.w>> \in TurnedAway'
      BY <1>6, <1>8 DEF RecordRejection, TurnedAway
    <2>3. n \in ConsumerState /\ n.pc = "next" /\ n.ev = k.ev /\ n.left = k.left \ {m}
      <3> HIDE DEF k
      <3> QED BY <1>5 DEF ConsumerState
    <2> HIDE DEF n
    <2>4. ConsumerOk(n, wf', wenv'.workflows, stream', runs', TurnedAway')
      <3>1. ASSUME NEW w \in Workflows, Wants(w, wf', wenv'.workflows)
            PROVE  (\E q \in n.left : q.w = w) \/ Covered(w, n.ev, runs', TurnedAway')
        <4>1. CASE w = m.w
          BY <4>1, <2>2, <2>3 DEF Covered
        <4>2. CASE w # m.w
          BY <4>2, <2>3, <1>5, <3>1 DEF ConsumerOk
        <4> QED BY <4>1, <4>2
      <3> QED BY <3>1, <2>3, <1>5 DEF ConsumerOk
    <2> QED BY <2>1, <2>3, <2>4, <1>2, <1>4, ConsumerMoved DEF ConsumerState
  <1>9. ASSUME ~LoopGuard(c, m.w) PROVE ConsumerInv'
    <2> DEFINE n == [k EXCEPT !.pc = "insert", !.m = m]
    <2>1. consumer' = [consumer EXCEPT ![c] = n] /\ TurnedAway' = TurnedAway
      BY <1>6, <1>9 DEF EnqueueCheck, TurnedAway
    <2>2. n \in ConsumerState /\ n.pc = "insert" /\ n.ev = k.ev /\ n.left = k.left /\ n.m = m
      <3> HIDE DEF k
      <3> QED BY <1>5, <1>7 DEF ConsumerState
    <2>3. stream'[k.ev].depth <= MaxDepth
      <3>1. stream[k.ev].depth \in Nat
        BY <1>5, EventFacts DEF WfIInv
      <3> QED BY <3>1, <1>2, <1>9, WfAssumption DEF LoopGuard
    <2> HIDE DEF n
    <2>4. ConsumerOk(n, wf', wenv'.workflows, stream', runs', TurnedAway')
      BY <2>2, <2>3, <1>5, <1>6 DEF ConsumerOk
    <2> QED BY <2>1, <2>2, <2>4, <1>2, <1>4, ConsumerMoved DEF ConsumerState
  <1>10. ConsumerInv'
    BY <1>8, <1>9
  <1>11. RunInv' /\ RunsGrow(runs, runs') /\ acked' \subseteq DOMAIN stream
    BY <1>4, RunsKept, <1>2 DEF WfIInv, Grows, StreamInv
  <1> QED BY <1>1, <1>2, <1>3, <1>10, <1>11, ConsumingOnly

\* A refusal without its row: the workflow was refused all the same.
LEMMA RejectionLostKeeps ==
    ASSUME WfIInv, NEW c \in Consumers, RejectionLost(c)
    PROVE  WfIInv'
  <1> DEFINE k == consumer[c]
  <1>1. EnvInv' /\ SameEnv
    BY Spending DEF RejectionLost, WfIInv
  <1>2. UNCHANGED savedVars /\ UNCHANGED runVars /\ UNCHANGED <<stream, runs, acked>>
    BY DEF RejectionLost
  <1>3. TurnedAway \subseteq TurnedAway'
    BY DEF RejectionLost, TurnedAway
  <1>4. Grows
    <2>1. VersionsGrow(wf, wf') /\ WantsShrink(wf, wf', wenv.workflows)
      BY <1>1, <1>2, NotSaving
    <2> QED BY <2>1, <1>1, <1>2, <1>3, StandingStill DEF Grows, runVars
  <1>5. /\ k \in ConsumerState /\ k.pc = "next" /\ k.ev \in DOMAIN stream
        /\ ConsumerOk(k, wf', wenv'.workflows, stream', runs', TurnedAway')
    <2>1. k \in ConsumerState /\ k.pc = "next" /\ k.ev \in DOMAIN stream
          /\ ConsumerOk(k, wf, wenv.workflows, stream, runs, TurnedAway)
      BY ConsumerFacts DEF RejectionLost
    <2>2. k.left \in SUBSET Match
      BY <2>1 DEF ConsumerState
    <2> HIDE DEF k
    <2> QED BY <2>1, <2>2, <1>4, ConsumerFrame DEF WfIInv
  <1>6. PICK m \in k.left : /\ consumer' = [consumer EXCEPT ![c].left = @ \ {m}]
                           /\ unrecorded' = unrecorded \cup {<<k.ev, m.w>>}
    BY DEF RejectionLost
  <1>7. c \in DOMAIN consumer
    BY DEF WfIInv, ConsumerInv
  <1>8. ConsumerInv'
    <2> DEFINE n == [k EXCEPT !.left = k.left \ {m}]
    <2>1. consumer' = [consumer EXCEPT ![c] = n]
      BY <1>6
    <2>2. <<k.ev, m.w>> \in TurnedAway'
      BY <1>6 DEF TurnedAway
    <2>3. n \in ConsumerState /\ n.pc = "next" /\ n.ev = k.ev /\ n.left = k.left \ {m}
      <3> HIDE DEF k
      <3> QED BY <1>5 DEF ConsumerState
    <2> HIDE DEF n
    <2>4. ConsumerOk(n, wf', wenv'.workflows, stream', runs', TurnedAway')
      <3>1. ASSUME NEW w \in Workflows, Wants(w, wf', wenv'.workflows)
            PROVE  (\E q \in n.left : q.w = w) \/ Covered(w, n.ev, runs', TurnedAway')
        <4>1. CASE w = m.w
          BY <4>1, <2>2, <2>3 DEF Covered
        <4>2. CASE w # m.w
          BY <4>2, <2>3, <1>5, <3>1 DEF ConsumerOk
        <4> QED BY <4>1, <4>2
      <3> QED BY <3>1, <2>3, <1>5 DEF ConsumerOk
    <2> QED BY <2>1, <2>3, <2>4, <1>2, <1>4, ConsumerMoved DEF ConsumerState
  <1>9. RunInv' /\ RunsGrow(runs, runs') /\ acked' \subseteq DOMAIN stream
    BY <1>4, RunsKept, <1>2 DEF WfIInv, Grows, StreamInv
  <1> QED BY <1>1, <1>2, <1>3, <1>8, <1>9, ConsumingOnly

RunRow == [w : Workflows \cup {0}, ver : Nat, ev : Nat, depth : Nat, gen : Nat, status : Statuses,
           fresh : BOOLEAN, queuedFor : Admins \cup {0}]

\* A run is queued for an event once: the insert only happens when there is none.
LEMMA Inserting ==
    ASSUME WfIInv, UNCHANGED savedVars, NEW m \in Match, m.ver \in 1..Len(wf[m.w].versions), NEW e \in DOMAIN stream,
           stream[e].depth <= MaxDepth, InsertRun(m, e)
    PROVE  /\ RunInv' /\ Covered(m.w, e, runs', TurnedAway)
           /\ \A r \in RunIds : runs[r].status # "none" => runs'[r] = runs[r]
           /\ \A r \in RunIds : runs[r].status = "none" => runs'[r].status \in {"none", "pending"}
  <1>1. runs \in [RunIds -> RunRow]
    BY DEF WfIInv, RunInv, RunRow
  <1>2. wf' = wf
    BY DEF savedVars
  <1>3. CASE Queued(m.w, e) # {} /\ UNCHANGED runs
    <2>1. RunInv'
      BY <1>2, <1>3 DEF WfIInv, RunInv
    <2>2. Covered(m.w, e, runs', TurnedAway)
      BY <1>3 DEF Queued, Covered
    <2> QED BY <2>1, <2>2, <1>1, <1>3
  <1>4. CASE Queued(m.w, e) = {} /\ \E r \in FreeRun : Insert(m, e, r)
    <2>1. PICK r \in FreeRun : Insert(m, e, r)
      BY <1>4
    <2>2. r \in RunIds /\ runs[r].status = "none"
      BY DEF FreeRun
    <2> DEFINE n == [w |-> m.w, ver |-> m.ver, ev |-> e, depth |-> stream[e].depth, gen |-> stream[e].gen,
                     status |-> "pending", fresh |-> TRUE, queuedFor |-> m.owner]
    <2>3. runs' = [runs EXCEPT ![r] = n]
      BY <2>1 DEF Insert
    <2>4. /\ stream[e].depth \in Nat /\ stream[e].gen = stream[e].depth /\ e \in Nat
          /\ m.w \in Workflows /\ m.ver \in Nat /\ m.owner \in Admins \cup {0}
      BY EventFacts DEF WfIInv, Match
    <2>5. n \in RunRow /\ n.w = m.w /\ n.ver = m.ver /\ n.ev = e /\ n.status = "pending" /\ n.depth = n.gen /\ n.gen <= MaxDepth
      BY <2>4 DEF RunRow, Statuses
    <2> HIDE DEF n
    <2>6. runs' \in [RunIds -> RunRow] /\ runs'[r] = n /\ \A q \in RunIds : q # r => runs'[q] = runs[q]
      BY <2>2, <2>3, <2>5, <1>1
    <2>7. \A q \in RunIds : RunOk(runs'[q], wf')
      <3>1. RunOk(n, wf)
        BY <2>4, <2>5 DEF RunOk
      <3> QED BY <3>1, <2>6, <1>2 DEF WfIInv, RunInv
    <2>8. \A q \in RunIds : runs[q].status # "none" => ~(runs[q].w = m.w /\ runs[q].ev = e)
      BY <1>4 DEF Queued
    <2>9. \A q, s \in RunIds : runs'[q].status # "none" /\ runs'[s].status # "none" /\ runs'[q].w = runs'[s].w
                                   /\ runs'[q].ev = runs'[s].ev => q = s
      <3>1. \A q, s \in RunIds : runs[q].status # "none" /\ runs[s].status # "none" /\ runs[q].w = runs[s].w
                                   /\ runs[q].ev = runs[s].ev => q = s
        BY DEF WfIInv, RunInv
      <3>2. n.w = m.w /\ n.ev = e
        BY <2>5
      <3> QED BY <3>1, <3>2, <2>6, <2>8
    <2>10. RunInv'
      BY <2>6, <2>7, <2>9 DEF RunInv, RunRow
    <2>11. Covered(m.w, e, runs', TurnedAway)
      BY <2>2, <2>5, <2>6 DEF Covered
    <2> QED BY <2>2, <2>5, <2>6, <2>10, <2>11
  <1> QED BY <1>3, <1>4 DEF InsertRun

LEMMA EnqueueRunAtKeeps ==
    ASSUME WfIInv, NEW c \in Consumers, EnqueueRunAt(c)
    PROVE  WfIInv'
  <1> DEFINE k == consumer[c]
             n == [k EXCEPT !.pc = "next", !.left = k.left \ {k.m}, !.m = NoMatch]
  <1>1. EnvInv' /\ SameEnv
    BY NotSpending DEF EnqueueRunAt, WfIInv
  <1>2. UNCHANGED savedVars /\ UNCHANGED runVars /\ UNCHANGED <<stream, acked, TurnedAway>>
    BY DEF EnqueueRunAt, TurnedAway
  <1>3. /\ k \in ConsumerState /\ k.pc = "insert" /\ k.ev \in DOMAIN stream
        /\ ConsumerOk(k, wf, wenv.workflows, stream, runs, TurnedAway)
    BY ConsumerFacts DEF EnqueueRunAt
  <1>4. k.m \in k.left /\ stream[k.ev].depth <= MaxDepth /\ k.left \in SUBSET Match /\ k.m \in Match
        /\ k.m.ver \in 1..Len(wf[k.m.w].versions)
    BY <1>3 DEF ConsumerOk, ConsumerState
  <1>5. InsertRun(k.m, k.ev) /\ consumer' = [consumer EXCEPT ![c] = n]
    BY DEF EnqueueRunAt, WfIInv, ConsumerInv
  <1>6. n \in ConsumerState /\ n.pc = "next" /\ n.ev = k.ev /\ n.left = k.left \ {k.m}
    <2> HIDE DEF k
    <2> QED BY <1>3, <1>4 DEF ConsumerState
  <1> HIDE DEF n, k
  <1>7. /\ RunInv' /\ Covered(k.m.w, k.ev, runs', TurnedAway)
        /\ \A r \in RunIds : runs[r].status # "none" => runs'[r] = runs[r]
        /\ \A r \in RunIds : runs[r].status = "none" => runs'[r].status \in {"none", "pending"}
    BY <1>2, <1>3, <1>4, <1>5, Inserting
  <1>8. RunsGrow(runs, runs')
    BY <1>7 DEF RunsGrow
  <1>9. Grows
    <2>1. VersionsGrow(wf, wf') /\ WantsShrink(wf, wf', wenv.workflows)
      BY <1>1, <1>2, NotSaving
    <2> QED BY <2>1, <1>1, <1>2, <1>8, StandingStill DEF Grows, runVars
  <1>10. ConsumerOk(k, wf', wenv'.workflows, stream', runs', TurnedAway')
    BY <1>3, <1>4, <1>9, ConsumerFrame DEF WfIInv
  <1>11. ConsumerOk(n, wf', wenv'.workflows, stream', runs', TurnedAway')
    <2>1. ASSUME NEW w \in Workflows, Wants(w, wf', wenv'.workflows)
          PROVE  (\E q \in n.left : q.w = w) \/ Covered(w, n.ev, runs', TurnedAway')
      <3>1. CASE w = k.m.w
        BY <3>1, <1>2, <1>6, <1>7
      <3>2. CASE w # k.m.w
        BY <3>2, <2>1, <1>3, <1>6, <1>10 DEF ConsumerOk
      <3> QED BY <3>1, <3>2
    <2> QED BY <2>1, <1>3, <1>6, <1>10 DEF ConsumerOk
  <1>12. ConsumerInv'
    BY <1>2, <1>5, <1>6, <1>9, <1>11, ConsumerMoved DEF ConsumerState
  <1>13. acked' \subseteq DOMAIN stream
    BY <1>2 DEF WfIInv, StreamInv
  <1> QED BY <1>1, <1>2, <1>7, <1>8, <1>12, <1>13, ConsumingOnly

-----------------------------------------------------------------------------
(* Running.                                                                *)

RunnerState == [pc : {"idle", "step", "perform", "record", "fail", "finish"}, run : 0..MaxRunIds, i : Nat,
                owner : Admins \cup {0}]

LEMMA RunnerFacts ==
    ASSUME WfIInv, NEW x \in Runners, runner[x].pc # "idle"
    PROVE  /\ runner[x] \in RunnerState /\ runner[x].run \in RunIds /\ runs[runner[x].run].status # "none"
           /\ runner[x].i \in 1..(NumSteps(runs[runner[x].run], wf) + 1) /\ NumSteps(runs[runner[x].run], wf) \in 0..MaxSteps
           /\ NumSteps(runs[runner[x].run], wf) = Len(StepsOf(runner[x].run))
           /\ RunnerOk(runner[x], runs, wf, performed)
  <1>1. runner[x] \in RunnerState /\ RunnerOk(runner[x], runs, wf, performed)
    BY DEF WfIInv, StepInv, RunnerState
  <1>2. runner[x].run \in RunIds /\ runs[runner[x].run].status # "none"
        /\ runner[x].i \in 1..(NumSteps(runs[runner[x].run], wf) + 1)
    BY <1>1 DEF RunnerOk
  <1> QED BY <1>1, <1>2, StepCount DEF WfIInv

\* A runner's step leaves workflows, saves and consumers alone.  What it must show is
\* that runs keep their identity, and what it says of the runner, the steps and the runs.
LEMMA RunningOnly ==
    ASSUME WfIInv, EnvInv', SameEnv, Outside, StreamInv', StreamGrows(stream, stream'), RunsGrow(runs, runs'),
           PerformedGrows(performed, performed'), RunInv', AloneInv',
           runner' \in [Runners -> RunnerState],
           \A x \in Runners : runner'[x] = runner[x] \/ RunnerOk(runner'[x], runs', wf', performed'),
           effects' \in [RunIds \X StepIndexes -> {"none", "claimed", "succeeded", "failed"}],
           performed' \in [RunIds \X StepIndexes -> Nat],
           \A s \in RunIds \X StepIndexes : effects'[s] = "succeeded" => performed'[s] > 0,
           \A r \in RunIds, i \in 2..MaxSteps : performed'[<<r, i>>] > 0 => performed'[<<r, i - 1>>] > 0,
           \A r \in RunIds : runs'[r].status = "succeeded" => runs[r].status = "succeeded"
              \/ \A i \in 1..NumSteps(runs'[r], wf') : performed'[<<r, i>>] > 0
    PROVE  WfIInv'
  <1>1. SaveInv' /\ VersionsGrow(wf, wf') /\ WantsShrink(wf, wf', wenv.workflows)
    BY NotSaving DEF Outside
  <1>2. Grows
    BY <1>1 DEF Grows, Outside, triggerVars, TurnedAway
  <1>3. ConsumerInv'
    BY <1>2, ConsumersKept DEF WfIInv, Outside, triggerVars
  <1>4. \A x \in Runners : RunnerOk(runner'[x], runs', wf', performed')
    <2>1. \A x \in Runners : runner[x].pc # "idle" => runner[x].i \in Nat
      BY DEF WfIInv, StepInv
    <2>2. \A x \in Runners : RunnerOk(runner[x], runs', wf', performed')
      BY <2>1, <1>2, RunnerFrame DEF WfIInv, StepInv
    <2> QED BY <2>2
  <1>5. ASSUME NEW r \in RunIds, runs'[r].status = "succeeded", NEW i \in 1..NumSteps(runs'[r], wf')
        PROVE  performed'[<<r, i>>] > 0
    <2>1. CASE runs[r].status = "succeeded"
      <3>1. NumSteps(runs'[r], wf') = NumSteps(runs[r], wf) /\ NumSteps(runs[r], wf) \in 0..MaxSteps
        BY <2>1, <1>2, SameSteps, StepCount DEF WfIInv
      <3>2. performed[<<r, i>>] > 0
        BY <2>1, <3>1 DEF WfIInv, StepInv
      <3>3. i \in StepIndexes
        BY <3>1, WfAssumption DEF StepIndexes
      <3> QED BY <3>2, <3>3 DEF PerformedGrows
    <2>2. CASE runs[r].status # "succeeded"
      BY <2>2, <1>5
    <2> QED BY <2>1, <2>2
  <1>6. StepInv'
    BY <1>4, <1>5 DEF StepInv, RunnerState
  <1> QED BY <1>1, <1>3, <1>6 DEF WfIInv

\* A runner that goes on with its run, or lets it go, stays alone with it.
LEMMA AloneMoved ==
    ASSUME WfIInv, SameEnv, NEW x \in Runners, NEW n \in RunnerState, runner' = [runner EXCEPT ![x] = n],
           runner[x].pc # "idle", n.pc # "idle" => n.run = runner[x].run /\ runs' = runs,
           \A r \in RunIds : r # runner[x].run => runs'[r] = runs[r] /\ \A i \in StepIndexes : effects'[<<r, i>>] = effects[<<r, i>>],
           n.pc = "perform" => effects'[<<n.run, n.i>>] # "succeeded"
    PROVE  AloneInv'
  <1>1. runner \in [Runners -> RunnerState]
    BY DEF WfIInv, StepInv, RunnerState
  <1>2. runner'[x] = n /\ \A y \in Runners : y # x => runner'[y] = runner[y]
    BY <1>1
  <1> SUFFICES ASSUME ~wenv.slow, NEW y \in Runners, runner'[y].pc # "idle"
               PROVE  /\ runs'[runner'[y].run].status = "running"
                      /\ \A z \in Runners : runner'[z].pc # "idle" /\ runner'[z].run = runner'[y].run => z = y
                      /\ runner'[y].pc = "perform" => effects'[<<runner'[y].run, runner'[y].i>>] # "succeeded"
    BY DEF AloneInv, SameEnv
  <1>3. \A z \in Runners : runner[z].pc # "idle" =>
            /\ runner[z].run \in RunIds /\ runs[runner[z].run].status = "running"
            /\ \A u \in Runners : runner[u].pc # "idle" /\ runner[u].run = runner[z].run => u = z
            /\ runner[z].pc = "perform" => effects[<<runner[z].run, runner[z].i>>] # "succeeded"
    BY RunnerFacts DEF WfIInv, AloneInv
  <1>4. \A z \in Runners : z # x /\ runner[z].pc # "idle" => runner[z].run # runner[x].run
    BY <1>3
  <1>5. CASE y = x
    <2>1. n.pc # "idle" /\ n.run = runner[x].run /\ runs' = runs
      BY <1>2, <1>5
    <2>2. runs'[n.run].status = "running"
      BY <2>1, <1>3
    <2>3. \A z \in Runners : runner'[z].pc # "idle" /\ runner'[z].run = n.run => z = x
      BY <2>1, <1>2, <1>4
    <2>4. runner'[y] = n
      BY <1>2, <1>5
    <2> QED BY <2>2, <2>3, <2>4, <1>5
  <1>6. CASE y # x
    <2>1. runner'[y] = runner[y] /\ runner[y].pc # "idle" /\ runner[y].run # runner[x].run /\ runner[y].run \in RunIds
      BY <1>2, <1>3, <1>4, <1>6
    <2>2. runs'[runner[y].run].status = "running"
      BY <2>1, <1>3
    <2>3. runner[y].pc = "perform" => effects'[<<runner[y].run, runner[y].i>>] # "succeeded"
      <3>1. runner[y].pc = "perform" => runner[y].i \in StepIndexes
        <4>1. /\ runner[y].i \in 1..(NumSteps(runs[runner[y].run], wf) + 1)
              /\ NumSteps(runs[runner[y].run], wf) \in 0..MaxSteps /\ RunnerOk(runner[y], runs, wf, performed)
          BY <2>1, RunnerFacts
        <4>2. runner[y].pc = "perform" => runner[y].i <= NumSteps(runs[runner[y].run], wf)
          BY <4>1, <2>1 DEF RunnerOk
        <4> QED BY <4>1, <4>2, WfAssumption DEF StepIndexes
      <3> QED BY <3>1, <2>1, <1>3
    <2>4. \A z \in Runners : runner'[z].pc # "idle" /\ runner'[z].run = runner[y].run => z = y
      <3> SUFFICES ASSUME NEW z \in Runners, runner'[z].pc # "idle", runner'[z].run = runner[y].run PROVE z = y
        OBVIOUS
      <3>1. CASE z = x
        <4>1. n.pc # "idle" /\ n.run = runner[y].run
          BY <3>1, <1>2
        <4> QED BY <4>1, <2>1
      <3>2. CASE z # x
        <4>1. runner'[z] = runner[z]
          BY <3>2, <1>2
        <4>2. runner[z].pc # "idle" /\ runner[z].run = runner[y].run
          BY <4>1
        <4> QED BY <4>2, <2>1, <1>3
      <3> QED BY <3>1, <3>2
    <2> QED BY <2>1, <2>2, <2>3, <2>4
  <1> QED BY <1>5, <1>6

\* The least of a non-empty set of runs is one of them.
LEMMA OldestPending ==
    ASSUME NEW S \in SUBSET RunIds, S # {}
    PROVE  Min(S) \in S
  <1>1. S \subseteq Nat
    BY WfAssumption DEF RunIds
  <1> DEFINE less == OpToRel(<, Nat)
  <1>2. IsWellFoundedOn(less, Nat)
    BY NatLessThanWellFounded
  <1>3. \A x, y \in Nat : <<y, x>> \in less <=> y < x
    BY DEF OpToRel
  <1> HIDE DEF less
  <1>4. PICK x \in S : \A y \in S : <<y, x>> \notin less
    BY <1>1, <1>2, WFMin
  <1>5. ASSUME NEW y \in S PROVE x <= y
    <2>1. x \in Nat /\ y \in Nat
      BY <1>1
    <2>2. ~(y < x)
      BY <1>3, <1>4, <2>1, Zenon
    <2> QED BY <2>1, <2>2
  <1> QED BY <1>5 DEF Min

LEMMA ClaimRunKeeps ==
    ASSUME WfIInv, NEW x \in Runners, ClaimRun(x)
    PROVE  WfIInv'
  <1> DEFINE r == Min(Pending)
             n == [pc |-> "step", run |-> r, i |-> 1, owner |-> wf[runs[r].w].owner]
             changed == [runs[r] EXCEPT !.status = "running"]
  <1>1. EnvInv' /\ SameEnv /\ Outside /\ UNCHANGED <<stream, effects, performed>>
    BY NotSpending DEF ClaimRun, WfIInv
  <1>2. r \in RunIds /\ runs[r].status = "pending"
    <2>1. r \in Pending
      BY OldestPending DEF ClaimRun, Pending
    <2> QED BY <2>1 DEF Pending
  <1>3. runs' = [runs EXCEPT ![r].status = "running"] /\ runner' = [runner EXCEPT ![x] = n] /\ runner[x].pc = "idle"
    BY DEF ClaimRun, IdleRunner
  <1> HIDE DEF r
  <1>4. runs \in [RunIds -> RunRow] /\ runs[r] \in RunRow
    BY <1>2 DEF WfIInv, RunInv, RunRow
  <1>5. /\ changed \in RunRow /\ changed.status = "running" /\ changed.w = runs[r].w /\ changed.ver = runs[r].ver /\ changed.ev = runs[r].ev
        /\ changed.depth = runs[r].depth /\ changed.gen = runs[r].gen
    BY <1>4 DEF RunRow, Statuses
  <1>6. runs' = [runs EXCEPT ![r] = changed]
    BY <1>3, <1>4
  <1>7. runs[r].w \in Workflows /\ wf[runs[r].w] \in Workflow /\ NumSteps(runs[r], wf) \in 0..MaxSteps
    <2>1. runs[r].status # "none"
      BY <1>2
    <2> QED BY <2>1, <1>2, StepCount DEF WfIInv, SaveInv
  <1>8. n \in RunnerState /\ n.pc = "step" /\ n.run = r /\ n.i = 1
    <2>1. wf[runs[r].w].owner \in Admins \cup {0} /\ r \in 0..MaxRunIds
      BY <1>2, <1>7 DEF Workflow, RunIds
    <2> QED BY <2>1 DEF RunnerState
  <1> HIDE DEF n, changed
  <1>9. runs' \in [RunIds -> RunRow] /\ runs'[r] = changed /\ \A q \in RunIds : q # r => runs'[q] = runs[q]
    BY <1>2, <1>4, <1>5, <1>6
  <1>10. /\ runner \in [Runners -> RunnerState] /\ runner' \in [Runners -> RunnerState]
         /\ runner'[x] = n /\ \A y \in Runners : y # x => runner'[y] = runner[y]
    BY <1>3, <1>8 DEF WfIInv, StepInv, RunnerState
  <1>11. RunsGrow(runs, runs') /\ PerformedGrows(performed, performed') /\ StreamGrows(stream, stream') /\ StreamInv'
    <2>1. RunsGrow(runs, runs')
      BY <1>5, <1>9 DEF RunsGrow
    <2> QED BY <2>1, <1>1, StandingStill, StreamKept DEF WfIInv, Outside, triggerVars
  <1>12. wf' = wf
    BY <1>1 DEF Outside, savedVars
  <1>13. RunInv'
    <2>1. \A q \in RunIds : RunOk(runs'[q], wf')
      <3>1. RunOk(changed, wf)
        BY <1>2, <1>5 DEF RunOk, WfIInv, RunInv
      <3> QED BY <3>1, <1>9, <1>12 DEF WfIInv, RunInv
    <2>2. \A q \in RunIds : runs'[q].w = runs[q].w /\ runs'[q].ev = runs[q].ev /\ (runs'[q].status # "none" => runs[q].status # "none")
      BY <1>2, <1>5, <1>9
    <2>3. \A q, s \in RunIds : runs'[q].status # "none" /\ runs'[s].status # "none" /\ runs'[q].w = runs'[s].w
                                   /\ runs'[q].ev = runs'[s].ev => q = s
      BY <2>2 DEF WfIInv, RunInv
    <2> QED BY <2>1, <2>3, <1>9 DEF RunInv, RunRow
  <1>14. RunnerOk(n, runs', wf', performed')
    <2>1. NumSteps(runs'[r], wf') = NumSteps(runs[r], wf)
      BY <1>5, <1>9, <1>12 DEF NumSteps
    <2> QED BY <2>1, <1>2, <1>5, <1>7, <1>8, <1>9 DEF RunnerOk
  <1>15. AloneInv'
    <2> SUFFICES ASSUME ~wenv.slow, NEW y \in Runners, runner'[y].pc # "idle"
                 PROVE  /\ runs'[runner'[y].run].status = "running"
                        /\ \A z \in Runners : runner'[z].pc # "idle" /\ runner'[z].run = runner'[y].run => z = y
                        /\ runner'[y].pc = "perform" => effects'[<<runner'[y].run, runner'[y].i>>] # "succeeded"
      BY <1>1 DEF AloneInv, SameEnv
    <2>1. \A z \in Runners : runner[z].pc # "idle" =>
              /\ runner[z].run \in RunIds /\ runs[runner[z].run].status = "running" /\ runner[z].run # r
              /\ \A u \in Runners : runner[u].pc # "idle" /\ runner[u].run = runner[z].run => u = z
              /\ runner[z].pc = "perform" => effects[<<runner[z].run, runner[z].i>>] # "succeeded"
      BY <1>2, RunnerFacts DEF WfIInv, AloneInv
    <2>2. CASE y = x
      <3>1. runner'[y] = n /\ runs'[n.run].status = "running" /\ n.pc # "perform" /\ n.run = r
        BY <2>2, <1>5, <1>8, <1>9, <1>10
      <3>2. \A z \in Runners : z # x => runner'[z] = runner[z]
        BY <1>10
      <3>3. \A z \in Runners : runner'[z].pc # "idle" /\ runner'[z].run = r => z = x
        BY <3>2, <2>1
      <3> QED BY <3>1, <3>3, <2>2
    <2>3. CASE y # x
      <3>1. runner'[y] = runner[y] /\ runner[y].pc # "idle" /\ runner[y].run # r /\ runner[y].run \in RunIds
        BY <2>1, <2>3, <1>10
      <3>2. \A z \in Runners : runner'[z].pc # "idle" /\ runner'[z].run = runner[y].run => z = y
        <4> SUFFICES ASSUME NEW z \in Runners, runner'[z].pc # "idle", runner'[z].run = runner[y].run PROVE z = y
          OBVIOUS
        <4>1. z # x
          BY <3>1, <1>8, <1>10
        <4>2. runner'[z] = runner[z]
          BY <4>1, <1>10
        <4>3. runner[z].pc # "idle" /\ runner[z].run = runner[y].run
          BY <4>2
        <4> QED BY <4>3, <3>1, <2>1
      <3>3. runs'[runner[y].run].status = "running"
        BY <3>1, <2>1, <1>9
      <3> QED BY <3>1, <3>2, <3>3, <2>1, <1>1
    <2> QED BY <2>2, <2>3
  <1>16. \A q \in RunIds : runs'[q].status = "succeeded" => runs[q].status = "succeeded"
    BY <1>5, <1>9
  <1>17. /\ effects' \in [RunIds \X StepIndexes -> {"none", "claimed", "succeeded", "failed"}]
         /\ performed' \in [RunIds \X StepIndexes -> Nat]
         /\ \A s \in RunIds \X StepIndexes : effects'[s] = "succeeded" => performed'[s] > 0
         /\ \A q \in RunIds, i \in 2..MaxSteps : performed'[<<q, i>>] > 0 => performed'[<<q, i - 1>>] > 0
    BY <1>1 DEF WfIInv, StepInv
  <1>18. \A y \in Runners : runner'[y] = runner[y] \/ RunnerOk(runner'[y], runs', wf', performed')
    BY <1>10, <1>14
  <1> QED BY <1>1, <1>10, <1>11, <1>13, <1>15, <1>16, <1>17, <1>18, RunningOnly

EffectStates == {"none", "claimed", "succeeded", "failed"}
RecordedWasPerformed(eff, perf) == \A s \in RunIds \X StepIndexes : eff[s] = "succeeded" => perf[s] > 0
InOrder(perf) == \A r \in RunIds, i \in 2..MaxSteps : perf[<<r, i>>] > 0 => perf[<<r, i - 1>>] > 0

\* A runner goes on with its run.
LEMMA GoesOn ==
    ASSUME WfIInv, NEW x \in Runners, runner[x].pc # "idle", wenv' = wenv, Outside, runs' = runs,
           NEW n \in RunnerState, n.run = runner[x].run, runner' = [runner EXCEPT ![x] = n],
           StreamInv', StreamGrows(stream, stream'),
           performed' \in [RunIds \X StepIndexes -> Nat], PerformedGrows(performed, performed'), InOrder(performed'),
           effects' \in [RunIds \X StepIndexes -> EffectStates], RecordedWasPerformed(effects', performed'),
           \A r \in RunIds : r # runner[x].run => \A i \in StepIndexes : effects'[<<r, i>>] = effects[<<r, i>>],
           RunnerOk(n, runs, wf, performed'),
           n.pc = "perform" => effects'[<<n.run, n.i>>] # "succeeded"
    PROVE  WfIInv'
  <1>1. EnvInv' /\ SameEnv
    BY NotSpending DEF WfIInv
  <1>2. wf' = wf
    BY DEF Outside, savedVars
  <1>3. RunInv' /\ RunsGrow(runs, runs')
    BY <1>2, StandingStill DEF WfIInv, RunInv
  <1>4. /\ runner' \in [Runners -> RunnerState]
        /\ runner'[x] = n /\ \A y \in Runners : y # x => runner'[y] = runner[y]
    BY DEF WfIInv, StepInv, RunnerState
  <1>5. AloneInv'
    BY <1>1, AloneMoved
  <1>6. \A y \in Runners : runner'[y] = runner[y] \/ RunnerOk(runner'[y], runs', wf', performed')
    BY <1>2, <1>4
  <1> QED BY <1>1, <1>3, <1>4, <1>5, <1>6, RunningOnly DEF EffectStates, RecordedWasPerformed, InOrder

\* The tables of steps as the invariant has them.
LEMMA StepTables ==
    ASSUME WfIInv
    PROVE  /\ performed \in [RunIds \X StepIndexes -> Nat] /\ InOrder(performed)
           /\ effects \in [RunIds \X StepIndexes -> EffectStates] /\ RecordedWasPerformed(effects, performed)
           /\ runner \in [Runners -> RunnerState]
  BY DEF WfIInv, StepInv, InOrder, EffectStates, RecordedWasPerformed, RunnerState

\* Writing one row of workflow_effects.
LEMMA EffectWritten ==
    ASSUME NEW eff \in [RunIds \X StepIndexes -> EffectStates], NEW perf \in [RunIds \X StepIndexes -> Nat],
           RecordedWasPerformed(eff, perf), NEW r \in RunIds, NEW i \in StepIndexes, NEW v \in EffectStates,
           v = "succeeded" => perf[<<r, i>>] > 0
    PROVE  /\ [eff EXCEPT ![<<r, i>>] = v] \in [RunIds \X StepIndexes -> EffectStates]
           /\ RecordedWasPerformed([eff EXCEPT ![<<r, i>>] = v], perf)
           /\ [eff EXCEPT ![<<r, i>>] = v][<<r, i>>] = v
           /\ \A q \in RunIds, j \in StepIndexes : q # r => [eff EXCEPT ![<<r, i>>] = v][<<q, j>>] = eff[<<q, j>>]
  <1> DEFINE new == [eff EXCEPT ![<<r, i>>] = v]
             s == <<r, i>>
  <1>1. s \in RunIds \X StepIndexes
    OBVIOUS
  <1>2. new \in [RunIds \X StepIndexes -> EffectStates] /\ new[s] = v
        /\ \A t \in RunIds \X StepIndexes : t # s => new[t] = eff[t]
    BY <1>1
  <1> QED BY <1>1, <1>2 DEF RecordedWasPerformed

LEMMA ClaimEffectKeeps ==
    ASSUME WfIInv, NEW x \in Runners, ClaimEffect(x)
    PROVE  WfIInv'
  <1> DEFINE me == runner[x]
  <1>1. /\ wenv' = wenv /\ Outside /\ runs' = runs /\ performed' = performed /\ stream' = stream
        /\ me.pc = "step" /\ me.pc # "idle"
    BY DEF ClaimEffect, At
  <1>2. /\ me \in RunnerState /\ me.run \in RunIds /\ runs[me.run].status # "none"
        /\ me.i \in 1..(NumSteps(runs[me.run], wf) + 1) /\ NumSteps(runs[me.run], wf) \in 0..MaxSteps
        /\ me.i <= NumSteps(runs[me.run], wf) /\ RunnerOk(me, runs, wf, performed)
    BY <1>1, RunnerFacts DEF ClaimEffect
  <1>3. me.i \in StepIndexes
    BY <1>2, WfAssumption DEF StepIndexes
  <1>4. /\ performed \in [RunIds \X StepIndexes -> Nat] /\ InOrder(performed)
        /\ effects \in [RunIds \X StepIndexes -> EffectStates] /\ RecordedWasPerformed(effects, performed)
        /\ runner \in [Runners -> RunnerState]
    BY StepTables
  <1>5. StreamInv' /\ StreamGrows(stream, stream') /\ PerformedGrows(performed, performed')
    BY <1>1, StandingStill, StreamKept DEF WfIInv, Outside, triggerVars
  <1>6. CASE Claimable(effects[<<me.run, me.i>>])
    <2> DEFINE n == [me EXCEPT !.pc = "perform"]
    <2>1. effects' = [effects EXCEPT ![<<me.run, me.i>>] = "claimed"] /\ runner' = [runner EXCEPT ![x] = n]
      BY <1>4, <1>6 DEF ClaimEffect, Goes
    <2>2. n \in RunnerState /\ n.pc = "perform" /\ n.run = me.run /\ n.i = me.i
      <3> HIDE DEF me
      <3> QED BY <1>2 DEF RunnerState
    <2>3. /\ effects' \in [RunIds \X StepIndexes -> EffectStates] /\ RecordedWasPerformed(effects', performed)
          /\ effects'[<<me.run, me.i>>] = "claimed"
          /\ \A q \in RunIds, j \in StepIndexes : q # me.run => effects'[<<q, j>>] = effects[<<q, j>>]
      <3> HIDE DEF me
      <3> DEFINE v == "claimed"
      <3>1. v \in EffectStates /\ v # "succeeded" /\ effects' = [effects EXCEPT ![<<me.run, me.i>>] = v]
        BY <2>1 DEF EffectStates
      <3> HIDE DEF v
      <3>2. /\ effects' \in [RunIds \X StepIndexes -> EffectStates] /\ RecordedWasPerformed(effects', performed)
            /\ effects'[<<me.run, me.i>>] = v
            /\ \A q \in RunIds, j \in StepIndexes : q # me.run => effects'[<<q, j>>] = effects[<<q, j>>]
        BY <3>1, <1>2, <1>3, <1>4, EffectWritten
      <3> QED BY <3>2 DEF v
    <2> HIDE DEF n
    <2>4. RunnerOk(n, runs, wf, performed)
      BY <2>2, <1>1, <1>2 DEF RunnerOk
    <2>5. n.pc = "perform" => effects'[<<n.run, n.i>>] # "succeeded"
      BY <2>2, <2>3
    <2> QED BY <2>1, <2>2, <2>3, <2>4, <2>5, <1>1, <1>4, <1>5, GoesOn
  <1>7. CASE ~Claimable(effects[<<me.run, me.i>>])
    <2> DEFINE n == [me EXCEPT !.i = me.i + 1]
    <2>1. effects' = effects /\ runner' = [runner EXCEPT ![x] = n]
      BY <1>4, <1>7 DEF ClaimEffect
    <2>2. n \in RunnerState /\ n.pc = "step" /\ n.run = me.run /\ n.i = me.i + 1
      <3> HIDE DEF me
      <3> QED BY <1>1, <1>2 DEF RunnerState
    <2> HIDE DEF n
    <2>3. performed[<<me.run, me.i>>] > 0
      BY <1>2, <1>3, <1>4, <1>7 DEF Claimable, RecordedWasPerformed
    <2>4. \A j \in 1..(n.i - 1) : performed[<<n.run, j>>] > 0
      <3> SUFFICES ASSUME NEW j \in 1..(n.i - 1) PROVE performed[<<n.run, j>>] > 0
        OBVIOUS
      <3>1. j = me.i \/ j \in 1..(me.i - 1)
        BY <2>2, <1>2
      <3> QED BY <3>1, <2>2, <2>3, <1>1, <1>2 DEF RunnerOk
    <2>5. RunnerOk(n, runs, wf, performed)
      BY <2>2, <2>4, <1>2 DEF RunnerOk
    <2> QED BY <2>1, <2>2, <2>5, <1>1, <1>4, <1>5, GoesOn
  <1> QED BY <1>6, <1>7

\* An action that took effect counts once more.
LEMMA ActsKeeps ==
    ASSUME WfIInv, NEW x \in Runners, At(x, "perform"), Acts(x), UNCHANGED <<wenv, runs, effects>>, Outside,
           StreamInv', StreamGrows(stream, stream')
    PROVE  WfIInv'
  <1> DEFINE me == runner[x]
             n == [me EXCEPT !.pc = "record"]
             s == <<me.run, me.i>>
  <1>1. me.pc = "perform" /\ me.pc # "idle"
    BY DEF At
  <1>2. /\ me \in RunnerState /\ me.run \in RunIds /\ runs[me.run].status # "none"
        /\ me.i \in 1..(NumSteps(runs[me.run], wf) + 1) /\ NumSteps(runs[me.run], wf) \in 0..MaxSteps
        /\ me.i <= NumSteps(runs[me.run], wf) /\ RunnerOk(me, runs, wf, performed)
    BY <1>1, RunnerFacts DEF RunnerOk
  <1>3. me.i \in StepIndexes
    BY <1>2, WfAssumption DEF StepIndexes
  <1>4. /\ performed \in [RunIds \X StepIndexes -> Nat] /\ InOrder(performed)
        /\ effects \in [RunIds \X StepIndexes -> EffectStates] /\ RecordedWasPerformed(effects, performed)
        /\ runner \in [Runners -> RunnerState]
    BY StepTables
  <1>5. performed' = [performed EXCEPT ![s] = performed[s] + 1] /\ runner' = [runner EXCEPT ![x] = n]
    BY <1>4 DEF Acts, Goes
  <1>6. n \in RunnerState /\ n.pc = "record" /\ n.run = me.run /\ n.i = me.i
    <2> HIDE DEF me
    <2> QED BY <1>2 DEF RunnerState
  <1> HIDE DEF n, me
  <1>7. s \in RunIds \X StepIndexes
    BY <1>2, <1>3
  <1>8. /\ performed' \in [RunIds \X StepIndexes -> Nat] /\ performed'[s] > 0
        /\ \A t \in RunIds \X StepIndexes : t # s => performed'[t] = performed[t]
    <2> HIDE DEF s
    <2> QED BY <1>4, <1>5, <1>7
  <1>9. \A t \in RunIds \X StepIndexes : performed[t] > 0 => performed'[t] > 0
    BY <1>8
  <1>10. PerformedGrows(performed, performed') /\ RecordedWasPerformed(effects', performed')
    BY <1>4, <1>9 DEF PerformedGrows, RecordedWasPerformed
  <1>11. \A j \in 1..(me.i - 1) : performed'[<<me.run, j>>] > 0
    <2> SUFFICES ASSUME NEW j \in 1..(me.i - 1) PROVE performed'[<<me.run, j>>] > 0
      OBVIOUS
    <2>1. j \in StepIndexes /\ performed[<<me.run, j>>] > 0
      BY <1>1, <1>2, WfAssumption DEF RunnerOk, StepIndexes
    <2> QED BY <2>1, <1>2, <1>9
  <1>12. InOrder(performed')
    <2> SUFFICES ASSUME NEW r \in RunIds, NEW i \in 2..MaxSteps, performed'[<<r, i>>] > 0
                 PROVE  performed'[<<r, i - 1>>] > 0
      BY DEF InOrder
    <2>1. CASE <<r, i>> = s
      <3>1. r = me.run /\ me.i = i
        BY <2>1
      <3>2. i - 1 \in 1..(me.i - 1)
        BY <3>1, WfAssumption
      <3> QED BY <3>1, <3>2, <1>11
    <2>2. CASE <<r, i>> # s
      <3>1. i \in StepIndexes /\ i - 1 \in StepIndexes
        BY WfAssumption DEF StepIndexes
      <3>2. performed[<<r, i>>] > 0
        BY <2>2, <3>1, <1>8
      <3>3. performed[<<r, i - 1>>] > 0
        BY <3>2, <1>4 DEF InOrder
      <3> QED BY <3>1, <3>3, <1>9
    <2> QED BY <2>1, <2>2
  <1>13. RunnerOk(n, runs, wf, performed')
    BY <1>2, <1>6, <1>8, <1>11 DEF RunnerOk
  <1>14. n.run = runner[x].run /\ runner[x].pc # "idle"
    BY <1>1, <1>6 DEF me
  <1>15. effects' \in [RunIds \X StepIndexes -> EffectStates] /\ n.pc # "perform"
         /\ \A r \in RunIds : r # runner[x].run => \A i \in StepIndexes : effects'[<<r, i>>] = effects[<<r, i>>]
    BY <1>4, <1>6
  <1> QED BY <1>5, <1>6, <1>8, <1>10, <1>12, <1>13, <1>14, <1>15, GoesOn

LEMMA PerformKeeps ==
    ASSUME WfIInv, NEW x \in Runners, Perform(x)
    PROVE  WfIInv'
  <1>1. CASE PostMessage(x)
    <2>1. /\ At(x, "perform") /\ Acts(x) /\ UNCHANGED <<wenv, runs, effects>> /\ Outside
          /\ (stream' = stream \/ stream' = Append(stream, CreateRun(x)))
      BY <1>1 DEF PostMessage
    <2>2. acked' = acked
      BY <2>1 DEF Outside, triggerVars
    <2>3. CASE stream' = stream
      BY <2>1, <2>2, <2>3, StandingStill, StreamKept, ActsKeeps DEF WfIInv
    <2>4. CASE stream' = Append(stream, CreateRun(x))
      <3> DEFINE v == CreateRun(x)
      <3>1. runner[x].run \in RunIds
        <4>1. runner[x].pc # "idle"
          BY <2>1 DEF At
        <4> QED BY <4>1, RunnerFacts
      <3>2. runs[runner[x].run] \in RunRow /\ runs[runner[x].run].depth = runs[runner[x].run].gen
        BY <3>1 DEF WfIInv, RunInv, RunRow, RunOk
      <3>3. v \in [depth : Nat, gen : Nat] /\ v.depth = v.gen
        BY <3>2 DEF CreateRun, RunRow
      <3>4. stream' = Append(stream, v)
        BY <2>4
      <3> HIDE DEF v
      <3>5. StreamInv' /\ StreamGrows(stream, stream')
        BY <3>3, <3>4, <2>2, Appended DEF WfIInv
      <3> QED BY <3>5, <2>1, ActsKeeps
    <2> QED BY <2>1, <2>3, <2>4
  <1>2. CASE Notify(x) \/ AddComment(x)
    <2>1. At(x, "perform") /\ Acts(x) /\ UNCHANGED <<wenv, runs, effects>> /\ Outside /\ stream' = stream
      BY <1>2 DEF Notify, AddComment
    <2>2. acked' = acked
      BY <2>1 DEF Outside, triggerVars
    <2> QED BY <2>1, <2>2, StandingStill, StreamKept, ActsKeeps DEF WfIInv
  <1>3. CASE Refused(x)
    <2> DEFINE me == runner[x]
               n == [me EXCEPT !.pc = "fail"]
    <2>1. wenv' = wenv /\ Outside /\ runs' = runs /\ performed' = performed /\ stream' = stream /\ effects' = effects
          /\ me.pc = "perform" /\ me.pc # "idle"
      BY <1>3 DEF Refused, At
    <2>2. /\ me \in RunnerState /\ me.run \in RunIds /\ RunnerOk(me, runs, wf, performed)
      BY <2>1, RunnerFacts
    <2>3. /\ performed \in [RunIds \X StepIndexes -> Nat] /\ InOrder(performed)
          /\ effects \in [RunIds \X StepIndexes -> EffectStates] /\ RecordedWasPerformed(effects, performed)
          /\ runner \in [Runners -> RunnerState]
      BY StepTables
    <2>4. StreamInv' /\ StreamGrows(stream, stream') /\ PerformedGrows(performed, performed')
      BY <2>1, StandingStill, StreamKept DEF WfIInv, Outside, triggerVars
    <2>5. runner' = [runner EXCEPT ![x] = n]
      BY <1>3, <2>3 DEF Refused, Goes
    <2>6. n \in RunnerState /\ n.pc = "fail" /\ n.run = me.run /\ n.i = me.i
      <3> HIDE DEF me
      <3> QED BY <2>2 DEF RunnerState
    <2> HIDE DEF n
    <2>7. RunnerOk(n, runs, wf, performed)
      BY <2>1, <2>2, <2>6 DEF RunnerOk
    <2> QED BY <2>1, <2>3, <2>4, <2>5, <2>6, <2>7, GoesOn
  <1> QED BY <1>1, <1>2, <1>3 DEF Perform

LEMMA RecordEffectResultKeeps ==
    ASSUME WfIInv, NEW x \in Runners, RecordEffectResult(x)
    PROVE  WfIInv'
  <1> DEFINE me == runner[x]
             n == [me EXCEPT !.pc = "step", !.i = me.i + 1]
             v == "succeeded"
  <1>1. /\ wenv' = wenv /\ Outside /\ runs' = runs /\ performed' = performed /\ stream' = stream
        /\ me.pc = "record" /\ me.pc # "idle"
    BY DEF RecordEffectResult, At
  <1>2. /\ me \in RunnerState /\ me.run \in RunIds /\ runs[me.run].status # "none"
        /\ me.i \in 1..(NumSteps(runs[me.run], wf) + 1) /\ NumSteps(runs[me.run], wf) \in 0..MaxSteps
        /\ me.i <= NumSteps(runs[me.run], wf) /\ RunnerOk(me, runs, wf, performed)
    BY <1>1, RunnerFacts DEF RunnerOk
  <1>3. me.i \in StepIndexes /\ performed[<<me.run, me.i>>] > 0
    BY <1>1, <1>2, WfAssumption DEF StepIndexes, RunnerOk
  <1>4. /\ performed \in [RunIds \X StepIndexes -> Nat] /\ InOrder(performed)
        /\ effects \in [RunIds \X StepIndexes -> EffectStates] /\ RecordedWasPerformed(effects, performed)
        /\ runner \in [Runners -> RunnerState]
    BY StepTables
  <1>5. StreamInv' /\ StreamGrows(stream, stream') /\ PerformedGrows(performed, performed')
    BY <1>1, StandingStill, StreamKept DEF WfIInv, Outside, triggerVars
  <1>6. effects' = [effects EXCEPT ![<<me.run, me.i>>] = v] /\ runner' = [runner EXCEPT ![x] = n] /\ v \in EffectStates
    BY <1>4 DEF RecordEffectResult, EffectStates
  <1>7. n \in RunnerState /\ n.pc = "step" /\ n.run = me.run /\ n.i = me.i + 1
    <2> HIDE DEF me
    <2>1. me.i \in Nat /\ me.i + 1 \in Nat
      BY <1>2 DEF RunnerState
    <2> DEFINE j == me.i + 1
    <2> HIDE DEF j
    <2>2. [me EXCEPT !.pc = "step", !.i = j] \in RunnerState
      BY <2>1, <1>2 DEF RunnerState, j
    <2>3. n = [me EXCEPT !.pc = "step", !.i = j]
      BY DEF j
    <2>4. n.pc = "step" /\ n.run = me.run /\ n.i = j
      BY <2>3, <1>2 DEF RunnerState
    <2> QED BY <2>2, <2>3, <2>4 DEF j
  <1> HIDE DEF n, v, me
  <1>8. /\ effects' \in [RunIds \X StepIndexes -> EffectStates] /\ RecordedWasPerformed(effects', performed)
        /\ \A q \in RunIds, j \in StepIndexes : q # me.run => effects'[<<q, j>>] = effects[<<q, j>>]
    BY <1>2, <1>3, <1>4, <1>6, EffectWritten
  <1>9. \A j \in 1..(n.i - 1) : performed[<<n.run, j>>] > 0
    <2> SUFFICES ASSUME NEW j \in 1..(n.i - 1) PROVE performed[<<n.run, j>>] > 0
      OBVIOUS
    <2>1. j = me.i \/ j \in 1..(me.i - 1)
      BY <1>2, <1>7
    <2> QED BY <2>1, <1>1, <1>2, <1>3, <1>7 DEF RunnerOk
  <1>10. RunnerOk(n, runs, wf, performed)
    BY <1>2, <1>7, <1>9 DEF RunnerOk
  <1> QED BY <1>1, <1>4, <1>5, <1>6, <1>7, <1>8, <1>10, GoesOn DEF me

LEMMA FailEffectKeeps ==
    ASSUME WfIInv, NEW x \in Runners, FailEffect(x)
    PROVE  WfIInv'
  <1> DEFINE me == runner[x]
             n == [me EXCEPT !.pc = "finish"]
             v == IF effects[<<me.run, me.i>>] = "succeeded" THEN effects[<<me.run, me.i>>] ELSE "failed"
  <1>1. /\ wenv' = wenv /\ Outside /\ runs' = runs /\ performed' = performed /\ stream' = stream
        /\ me.pc = "fail" /\ me.pc # "idle"
    BY DEF FailEffect, At
  <1>2. /\ me \in RunnerState /\ me.run \in RunIds /\ runs[me.run].status # "none"
        /\ me.i \in 1..(NumSteps(runs[me.run], wf) + 1) /\ NumSteps(runs[me.run], wf) \in 0..MaxSteps
        /\ me.i <= NumSteps(runs[me.run], wf) /\ RunnerOk(me, runs, wf, performed)
    BY <1>1, RunnerFacts DEF RunnerOk
  <1>3. me.i \in StepIndexes /\ <<me.run, me.i>> \in RunIds \X StepIndexes
    BY <1>2, WfAssumption DEF StepIndexes
  <1>4. /\ performed \in [RunIds \X StepIndexes -> Nat] /\ InOrder(performed)
        /\ effects \in [RunIds \X StepIndexes -> EffectStates] /\ RecordedWasPerformed(effects, performed)
        /\ runner \in [Runners -> RunnerState]
    BY StepTables
  <1>5. StreamInv' /\ StreamGrows(stream, stream') /\ PerformedGrows(performed, performed')
    BY <1>1, StandingStill, StreamKept DEF WfIInv, Outside, triggerVars
  <1>6. effects' = [effects EXCEPT ![<<me.run, me.i>>] = v] /\ runner' = [runner EXCEPT ![x] = n]
    BY <1>4 DEF FailEffect, Goes
  <1>7. n \in RunnerState /\ n.pc = "finish" /\ n.run = me.run /\ n.i = me.i
    <2> HIDE DEF me
    <2> QED BY <1>2 DEF RunnerState
  <1>8. v \in EffectStates /\ (v = "succeeded" => performed[<<me.run, me.i>>] > 0)
    <2> HIDE DEF me
    <2> QED BY <1>3, <1>4 DEF EffectStates, RecordedWasPerformed
  <1> HIDE DEF n, v, me
  <1>9. /\ effects' \in [RunIds \X StepIndexes -> EffectStates] /\ RecordedWasPerformed(effects', performed)
        /\ \A q \in RunIds, j \in StepIndexes : q # me.run => effects'[<<q, j>>] = effects[<<q, j>>]
    BY <1>2, <1>3, <1>4, <1>6, <1>8, EffectWritten
  <1>10. RunnerOk(n, runs, wf, performed)
    BY <1>1, <1>2, <1>7 DEF RunnerOk
  <1> QED BY <1>1, <1>4, <1>5, <1>6, <1>7, <1>9, <1>10, GoesOn DEF me

\* Changing the status of one run.
LEMMA StatusWritten ==
    ASSUME WfIInv, Outside, NEW r \in RunIds, NEW v \in Statuses, v # "none", runs[r].status # "none",
           runs' = [runs EXCEPT ![r].status = v]
    PROVE  /\ RunInv' /\ RunsGrow(runs, runs') /\ runs'[r].status = v
           /\ \A q \in RunIds : q # r => runs'[q] = runs[q]
           /\ NumSteps(runs'[r], wf') = NumSteps(runs[r], wf)
  <1> DEFINE changed == [runs[r] EXCEPT !.status = v]
  <1>1. runs \in [RunIds -> RunRow] /\ runs[r] \in RunRow
    BY DEF WfIInv, RunInv, RunRow
  <1>2. /\ changed \in RunRow /\ changed.status = v /\ changed.w = runs[r].w /\ changed.ver = runs[r].ver /\ changed.ev = runs[r].ev
        /\ changed.depth = runs[r].depth /\ changed.gen = runs[r].gen
    BY <1>1 DEF RunRow
  <1>3. runs' = [runs EXCEPT ![r] = changed] /\ wf' = wf
    BY <1>1 DEF Outside, savedVars
  <1> HIDE DEF changed
  <1>4. runs' \in [RunIds -> RunRow] /\ runs'[r] = changed /\ \A q \in RunIds : q # r => runs'[q] = runs[q]
    BY <1>1, <1>2, <1>3
  <1>5. \A q \in RunIds : RunOk(runs'[q], wf')
    <2>1. RunOk(changed, wf)
      BY <1>2 DEF RunOk, WfIInv, RunInv
    <2> QED BY <2>1, <1>3, <1>4 DEF WfIInv, RunInv
  <1>6. \A q \in RunIds : runs'[q].w = runs[q].w /\ runs'[q].ev = runs[q].ev /\ (runs'[q].status # "none" => runs[q].status # "none")
    BY <1>2, <1>4
  <1>7. \A q, s \in RunIds : runs'[q].status # "none" /\ runs'[s].status # "none" /\ runs'[q].w = runs'[s].w
                                 /\ runs'[q].ev = runs'[s].ev => q = s
    BY <1>6 DEF WfIInv, RunInv
  <1>8. RunInv'
    BY <1>4, <1>5, <1>7 DEF RunInv, RunRow
  <1>9. RunsGrow(runs, runs') /\ NumSteps(runs'[r], wf') = NumSteps(runs[r], wf)
    BY <1>2, <1>3, <1>4 DEF RunsGrow, NumSteps
  <1> QED BY <1>2, <1>4, <1>8, <1>9

LEMMA IdleRunnerOk ==
    ASSUME NEW R, NEW f, NEW perf
    PROVE  IdleRunner \in RunnerState /\ IdleRunner.pc = "idle" /\ RunnerOk(IdleRunner, R, f, perf)
  <1>1. 0 \in 0..MaxRunIds
    BY WfAssumption
  <1> QED BY <1>1 DEF IdleRunner, RunnerState, RunnerOk

LEMMA FinishRunKeeps ==
    ASSUME WfIInv, NEW x \in Runners, FinishRun(x)
    PROVE  WfIInv'
  <1> DEFINE r == runner[x].run
  <1>1. /\ wenv' = wenv /\ Outside /\ performed' = performed /\ effects' = effects /\ stream' = stream
        /\ runner' = [runner EXCEPT ![x] = IdleRunner] /\ runner[x].pc # "idle"
    BY DEF FinishRun, At
  <1>2. EnvInv' /\ SameEnv
    BY <1>1, NotSpending DEF WfIInv
  <1>3. /\ r \in RunIds /\ runs[r].status # "none" /\ runner[x].i \in 1..(NumSteps(runs[r], wf) + 1)
        /\ NumSteps(runs[r], wf) = Len(StepsOf(r)) /\ NumSteps(runs[r], wf) \in 0..MaxSteps
        /\ RunnerOk(runner[x], runs, wf, performed)
    BY <1>1, RunnerFacts
  <1>4. PICK v \in {"succeeded", "failed"} :
            /\ runs' = [runs EXCEPT ![r].status = v]
            /\ v = "succeeded" => runner[x].i > Len(StepsOf(r))
    BY DEF FinishRun
  <1>5. v \in Statuses /\ v # "none"
    BY DEF Statuses
  <1>6. /\ RunInv' /\ RunsGrow(runs, runs') /\ runs'[r].status = v
        /\ \A q \in RunIds : q # r => runs'[q] = runs[q]
        /\ NumSteps(runs'[r], wf') = NumSteps(runs[r], wf)
    <2> HIDE DEF r
    <2> QED BY <1>1, <1>3, <1>4, <1>5, StatusWritten
  <1>7. v = "succeeded" => \A i \in 1..NumSteps(runs'[r], wf') : performed'[<<r, i>>] > 0
    <2> SUFFICES ASSUME v = "succeeded" PROVE \A i \in 1..NumSteps(runs'[r], wf') : performed'[<<r, i>>] > 0
      OBVIOUS
    <2>1. runner[x].i = NumSteps(runs[r], wf) + 1
      BY <1>3, <1>4
    <2>2. runner[x].i - 1 = NumSteps(runs'[r], wf')
      BY <2>1, <1>3, <1>6
    <2>3. \A i \in 1..(runner[x].i - 1) : performed[<<r, i>>] > 0
      BY <1>1, <1>3 DEF RunnerOk
    <2> QED BY <2>2, <2>3, <1>1
  <1>8. /\ performed' \in [RunIds \X StepIndexes -> Nat]
        /\ effects' \in [RunIds \X StepIndexes -> {"none", "claimed", "succeeded", "failed"}]
        /\ \A s \in RunIds \X StepIndexes : effects'[s] = "succeeded" => performed'[s] > 0
        /\ \A q \in RunIds, i \in 2..MaxSteps : performed'[<<q, i>>] > 0 => performed'[<<q, i - 1>>] > 0
    BY <1>1 DEF WfIInv, StepInv
  <1>9. /\ runner' \in [Runners -> RunnerState] /\ runner'[x] = IdleRunner
        /\ \A y \in Runners : y # x => runner'[y] = runner[y]
    BY <1>1, IdleRunnerOk, StepTables
  <1>10. \A y \in Runners : runner'[y] = runner[y] \/ RunnerOk(runner'[y], runs', wf', performed')
    BY <1>9, IdleRunnerOk
  <1>11. AloneInv'
    <2>1. \A q \in RunIds : q # runner[x].run => runs'[q] = runs[q] /\ \A i \in StepIndexes : effects'[<<q, i>>] = effects[<<q, i>>]
      BY <1>1, <1>6
    <2> QED BY <2>1, <1>1, <1>2, IdleRunnerOk, AloneMoved
  <1>12. StreamInv' /\ StreamGrows(stream, stream') /\ PerformedGrows(performed, performed')
    BY <1>1, StandingStill, StreamKept DEF WfIInv, Outside, triggerVars
  <1>13. \A q \in RunIds : runs'[q].status = "succeeded" => runs[q].status = "succeeded"
              \/ \A i \in 1..NumSteps(runs'[q], wf') : performed'[<<q, i>>] > 0
    BY <1>6, <1>7
  <1> QED BY <1>1, <1>2, <1>6, <1>8, <1>9, <1>10, <1>11, <1>12, <1>13, RunningOnly

LEMMA RunnerStopsKeeps ==
    ASSUME WfIInv, NEW x \in Runners, RunnerStops(x)
    PROVE  WfIInv'
  <1>1. /\ Outside /\ runs' = runs /\ performed' = performed /\ effects' = effects /\ stream' = stream
        /\ runner' = [runner EXCEPT ![x] = IdleRunner]
    BY DEF RunnerStops
  <1>2. EnvInv' /\ SameEnv
    BY Spending DEF WfIInv, RunnerStops
  <1>3. /\ runner' \in [Runners -> RunnerState] /\ runner'[x] = IdleRunner
        /\ \A y \in Runners : y # x => runner'[y] = runner[y]
    BY <1>1, IdleRunnerOk, StepTables
  <1>4. /\ performed' \in [RunIds \X StepIndexes -> Nat]
        /\ effects' \in [RunIds \X StepIndexes -> {"none", "claimed", "succeeded", "failed"}]
        /\ \A s \in RunIds \X StepIndexes : effects'[s] = "succeeded" => performed'[s] > 0
        /\ \A q \in RunIds, i \in 2..MaxSteps : performed'[<<q, i>>] > 0 => performed'[<<q, i - 1>>] > 0
    BY <1>1 DEF WfIInv, StepInv
  <1>5. \A y \in Runners : runner'[y] = runner[y] \/ RunnerOk(runner'[y], runs', wf', performed')
    BY <1>3, IdleRunnerOk
  <1>6. \A y \in Runners : runner'[y].pc # "idle" => runner'[y] = runner[y]
    BY <1>3, IdleRunnerOk
  <1>7. AloneInv'
    BY <1>1, <1>2, <1>6 DEF WfIInv, AloneInv, SameEnv
  <1>8. StreamInv' /\ StreamGrows(stream, stream') /\ PerformedGrows(performed, performed') /\ RunsGrow(runs, runs')
    BY <1>1, StandingStill, StreamKept DEF WfIInv, Outside, triggerVars
  <1>9. RunInv'
    BY <1>1 DEF WfIInv, RunInv, Outside, savedVars
  <1> QED BY <1>1, <1>2, <1>3, <1>4, <1>5, <1>7, <1>8, <1>9, RunningOnly

\* Runs go back to the queue; unless the environment is slow, no runner holds them.
LEMMA ReleaseKeeps ==
    ASSUME WfIInv, ReleaseStaleRuns
    PROVE  WfIInv'
  <1>1. Outside /\ performed' = performed /\ effects' = effects /\ stream' = stream /\ runner' = runner
    BY DEF ReleaseStaleRuns
  <1>2. EnvInv' /\ SameEnv
    <2>1. SpendWf("release") \/ wenv' = wenv
      BY DEF ReleaseStaleRuns
    <2> QED BY <2>1, Spending, NotSpending DEF WfIInv
  <1>3. runs \in [RunIds -> RunRow]
    BY DEF WfIInv, RunInv, RunRow
  <1>4. \A r \in RunIds : runs'[r] = IF r \in Stale THEN [runs[r] EXCEPT !.status = "pending"] ELSE runs[r]
    BY DEF ReleaseStaleRuns
  <1>5. \A r \in Stale : r \in RunIds /\ runs[r].status = "running" /\ (wenv.slow \/ ~Held(r))
    BY DEF Stale
  <1>6. \A r \in RunIds :
            /\ runs'[r] \in RunRow /\ runs'[r].w = runs[r].w /\ runs'[r].ver = runs[r].ver /\ runs'[r].ev = runs[r].ev
            /\ runs'[r].depth = runs[r].depth /\ runs'[r].gen = runs[r].gen
            /\ runs'[r].status = IF r \in Stale THEN "pending" ELSE runs[r].status
    <2> SUFFICES ASSUME NEW r \in RunIds
                 PROVE  /\ runs'[r] \in RunRow /\ runs'[r].w = runs[r].w /\ runs'[r].ver = runs[r].ver /\ runs'[r].ev = runs[r].ev
                        /\ runs'[r].depth = runs[r].depth /\ runs'[r].gen = runs[r].gen
                        /\ runs'[r].status = IF r \in Stale THEN "pending" ELSE runs[r].status
      OBVIOUS
    <2> DEFINE before == runs[r]
    <2>1. before \in RunRow
      BY <1>3
    <2> HIDE DEF before
    <2>2. CASE r \in Stale
      <3>1. runs'[r] = [before EXCEPT !.status = "pending"]
        BY <2>2, <1>4 DEF before
      <3>2. [before EXCEPT !.status = "pending"] \in RunRow
        BY <2>1 DEF RunRow, Statuses
      <3> QED BY <3>1, <3>2, <2>1, <2>2 DEF RunRow, before
    <2>3. CASE r \notin Stale
      BY <2>1, <2>3, <1>4 DEF before
    <2> QED BY <2>2, <2>3
  <1>7. runs' \in [RunIds -> RunRow]
    <2>1. runs' = [r \in RunIds |-> runs'[r]]
      BY DEF ReleaseStaleRuns
    <2> QED BY <2>1, <1>6
  <1>8. \A r \in RunIds : runs'[r].status # "none" => runs[r].status # "none"
    BY <1>5, <1>6
  <1>9. RunsGrow(runs, runs')
    BY <1>6 DEF RunsGrow
  <1>10. wf' = wf
    BY <1>1 DEF Outside, savedVars
  <1>11. RunInv'
    <2>1. \A q \in RunIds : RunOk(runs'[q], wf')
      BY <1>6, <1>8, <1>10 DEF WfIInv, RunInv, RunOk
    <2>2. \A q, s \in RunIds : runs'[q].status # "none" /\ runs'[s].status # "none" /\ runs'[q].w = runs'[s].w
                                   /\ runs'[q].ev = runs'[s].ev => q = s
      BY <1>6, <1>8 DEF WfIInv, RunInv
    <2> QED BY <2>1, <2>2, <1>7 DEF RunInv, RunRow
  <1>12. /\ performed' \in [RunIds \X StepIndexes -> Nat]
         /\ effects' \in [RunIds \X StepIndexes -> {"none", "claimed", "succeeded", "failed"}]
         /\ \A s \in RunIds \X StepIndexes : effects'[s] = "succeeded" => performed'[s] > 0
         /\ \A q \in RunIds, i \in 2..MaxSteps : performed'[<<q, i>>] > 0 => performed'[<<q, i - 1>>] > 0
    BY <1>1 DEF WfIInv, StepInv
  <1>13. AloneInv'
    <2>1. \A x \in Runners : runner[x].pc # "idle" => runner[x].run \in RunIds /\ Held(runner[x].run)
      BY RunnerFacts DEF Held
    <2>2. \A x \in Runners : ~wenv.slow /\ runner[x].pc # "idle" => runner[x].run \notin Stale
      BY <2>1, <1>5
    <2> QED BY <2>1, <2>2, <1>1, <1>2, <1>6, AloneKept DEF WfIInv
  <1>14. StreamInv' /\ StreamGrows(stream, stream') /\ PerformedGrows(performed, performed')
    BY <1>1, StandingStill, StreamKept DEF WfIInv, Outside, triggerVars
  <1>15. runner' \in [Runners -> RunnerState] /\ \A x \in Runners : runner'[x] = runner[x]
    BY <1>1, StepTables
  <1>16. \A q \in RunIds : runs'[q].status = "succeeded" => runs[q].status = "succeeded"
    BY <1>6
  <1> QED BY <1>1, <1>2, <1>9, <1>11, <1>12, <1>13, <1>14, <1>15, <1>16, RunningOnly

-----------------------------------------------------------------------------
(* The engine starts and stays sound.                                      *)

LEMMA EngineStarts ==
    ASSUME WfInit
    PROVE  WfIInv
  <1>1. EnvInv
    BY WfAssumption DEF WfInit, EnvInv
  <1>2. \A w \in Workflows :
            /\ wf[w] = wenv.workflows[w] /\ wf[w] \in Workflow
            /\ \A k \in DOMAIN wf[w].versions : Len(wf[w].versions[k].steps) <= MaxSteps
            /\ wf[w].triggered => wf[w].versions # <<>>
            /\ wf[w].archived => ~wf[w].enabled
    BY <1>1, WfAssumption DEF WfInit, EnvInv
  <1>3. \A w \in Workflows : wf[w].versions \in Seq(Version) /\ wf[w].enabled \in BOOLEAN
    <2> SUFFICES ASSUME NEW w \in Workflows PROVE wf[w].versions \in Seq(Version) /\ wf[w].enabled \in BOOLEAN
      OBVIOUS
    <2>1. wf[w] \in Workflow
      BY <1>2
    <2> QED BY <2>1 DEF Workflow
  <1>4. SaveInv
    <2>1. wf \in [Workflows -> Workflow]
      BY <1>1 DEF WfInit, EnvInv
    <2>2. ASSUME NEW w \in Workflows PROVE (IF Exists(w) THEN Latest(w).steps ELSE <<>>) \in Seq(STRING)
      <3>1. CASE Exists(w)
        <4>1. wf[w].versions \in Seq(Version) /\ wf[w].versions # <<>>
          BY <3>1, <1>3 DEF Exists
        <4>2. wf[w].versions[Len(wf[w].versions)] \in Version
          <5> DEFINE vs == wf[w].versions
          <5>1. vs \in Seq(Version) /\ vs # <<>>
            BY <4>1
          <5> HIDE DEF vs
          <5>2. vs[Len(vs)] \in Version
            BY <5>1
          <5> QED BY <5>2 DEF vs
        <4>3. Latest(w).steps \in Seq(STRING)
          BY <4>2 DEF Latest, Last, Version
        <4> QED BY <3>1, <4>3
      <3>2. CASE ~Exists(w)
        BY <3>2
      <3> QED BY <3>1, <3>2
    <2>3. \A w \in Workflows : intent[w] = [steps |-> IF Exists(w) THEN Latest(w).steps ELSE <<>>, enabled |-> wf[w].enabled]
      BY DEF WfInit
    <2>4. intent \in [Workflows -> [steps : Seq(STRING), enabled : BOOLEAN]]
      <3>1. \A w \in Workflows : intent[w] \in [steps : Seq(STRING), enabled : BOOLEAN]
        <4> SUFFICES ASSUME NEW w \in Workflows PROVE intent[w] \in [steps : Seq(STRING), enabled : BOOLEAN]
          OBVIOUS
        <4> DEFINE st == IF Exists(w) THEN Latest(w).steps ELSE <<>>
                   en == wf[w].enabled
        <4>1. st \in Seq(STRING) /\ en \in BOOLEAN /\ intent[w] = [steps |-> st, enabled |-> en]
          BY <2>2, <2>3, <1>3
        <4> HIDE DEF st, en
        <4> QED BY <4>1
      <3>2. intent = [w \in Workflows |-> intent[w]]
        BY DEF WfInit
      <3> QED BY <3>1, <3>2
    <2>5. EditsSurvive
      <3> SUFFICES ASSUME NEW w \in Workflows, Exists(w)
                   PROVE  Latest(w).steps = intent[w].steps /\ wf[w].enabled = intent[w].enabled
        BY DEF EditsSurvive
      <3>1. intent[w] = [steps |-> Latest(w).steps, enabled |-> wf[w].enabled]
        BY <2>3
      <3> QED BY <3>1
    <2>6. \A w \in Workflows : WorkflowOk(wf[w], wenv.workflows[w])
      <3> SUFFICES ASSUME NEW w \in Workflows PROVE WorkflowOk(wf[w], wenv.workflows[w])
        OBVIOUS
      <3>1. DOMAIN wf[w].versions = 1..Len(wf[w].versions) /\ Len(wf[w].versions) \in Nat
        BY <1>3
      <3> QED BY <3>1, <1>2 DEF WorkflowOk
    <2>7. IdleEditor \in [pc : {"idle", "steps", "enabled"}, w : Workflows \cup {0}, by : Admins \cup {0},
                          steps : Seq(STRING), on : BOOLEAN] /\ IdleEditor.pc = "idle"
      BY DEF IdleEditor
    <2>8. \A p \in Editors : editor[p] = IdleEditor
      BY DEF WfInit
    <2>9. editor \in [Editors -> [pc : {"idle", "steps", "enabled"}, w : Workflows \cup {0}, by : Admins \cup {0},
                                  steps : Seq(STRING), on : BOOLEAN]]
      BY <2>7 DEF WfInit
    <2>10. \A p \in Editors : editor[p].pc = "idle"
      BY <2>7, <2>8
    <2> QED BY <2>1, <2>4, <2>5, <2>6, <2>9, <2>10 DEF SaveInv, EditorOk
  <1>5. StreamInv
    BY DEF WfInit, StreamInv
  <1>6. RunInv
    <2>1. NoRun \in RunRow /\ NoRun.status = "none" /\ NoRun.depth = 0 /\ NoRun.gen = 0
      BY DEF NoRun, RunRow, Statuses
    <2>2. \A r \in RunIds : runs[r] = NoRun
      BY DEF WfInit
    <2>3. runs \in [RunIds -> RunRow]
      BY <2>1 DEF WfInit
    <2>4. \A r \in RunIds : RunOk(runs[r], wf)
      BY <2>1, <2>2, WfAssumption DEF RunOk
    <2>5. \A r \in RunIds : runs[r].status = "none"
      BY <2>1, <2>2
    <2> QED BY <2>3, <2>4, <2>5 DEF RunInv, RunRow
  <1>7. ConsumerInv
    <2>1. \A c \in Consumers : consumer[c] = IdleConsumer
      BY DEF WfInit
    <2>2. consumer \in [Consumers -> ConsumerState] /\ acked = {}
      BY IdleConsumerOk DEF WfInit
    <2>3. \A c \in Consumers : ConsumerOk(consumer[c], wf, wenv.workflows, stream, runs, TurnedAway)
      BY <2>1, IdleConsumerOk
    <2> QED BY <2>2, <2>3 DEF ConsumerInv, ConsumerState
  <1>8. \A x \in Runners : runner[x] = IdleRunner /\ runner[x].pc = "idle"
    BY IdleRunnerOk DEF WfInit
  <1>9. StepInv
    <2>1. runner \in [Runners -> RunnerState]
      BY IdleRunnerOk DEF WfInit
    <2>2. \A x \in Runners : RunnerOk(runner[x], runs, wf, performed)
      BY <1>8, IdleRunnerOk
    <2>3. \A s \in RunIds \X StepIndexes : effects[s] = "none" /\ performed[s] = 0
      BY DEF WfInit
    <2>4. (\A r \in RunIds : runs[r].status # "succeeded")
          /\ \A r \in RunIds, i \in 2..MaxSteps : ~(performed[<<r, i>>] > 0)
      <3>1. \A i \in 2..MaxSteps : i \in StepIndexes
        BY WfAssumption DEF StepIndexes
      <3> QED BY <2>3, <3>1 DEF WfInit, NoRun
    <2>5. effects \in [RunIds \X StepIndexes -> {"none", "claimed", "succeeded", "failed"}]
          /\ performed \in [RunIds \X StepIndexes -> Nat]
      BY DEF WfInit
    <2> QED BY <2>1, <2>2, <2>3, <2>4, <2>5 DEF StepInv, RunnerState
  <1>10. AloneInv
    BY <1>8 DEF AloneInv
  <1> QED BY <1>1, <1>4, <1>5, <1>6, <1>7, <1>9, <1>10 DEF WfIInv

LEMMA EngineStays ==
    ASSUME WfIInv, [WfNext]_wfvars
    PROVE  WfIInv'
  <1>1. CASE \E w \in Workflows, by \in Admins, steps \in wenv.steps : CreateWorkflow(w, by, steps)
    BY <1>1, CreateKeeps
  <1>2. CASE \E p \in Editors, w \in Workflows, by \in Admins, steps \in wenv.steps : Update(p, w, by, "steps", steps, TRUE)
    <2>1. PICK p \in Editors, w \in Workflows, by \in Admins, steps \in wenv.steps : Update(p, w, by, "steps", steps, TRUE)
      BY <1>2
    <2>2. steps \in Seq(STRING)
      BY DEF WfIInv, EnvInv
    <2> DEFINE field == "steps"
               on == TRUE
    <2>3. field \in {"steps", "enabled"} /\ on \in BOOLEAN /\ Update(p, w, by, field, steps, on)
      BY <2>1
    <2> HIDE DEF field, on
    <2> QED BY <2>2, <2>3, UpdateKeeps
  <1>3. CASE \E p \in Editors, w \in Workflows, by \in Admins, on \in BOOLEAN : Update(p, w, by, "enabled", <<>>, on)
    <2>1. PICK p \in Editors, w \in Workflows, by \in Admins, on \in BOOLEAN : Update(p, w, by, "enabled", <<>>, on)
      BY <1>3
    <2> DEFINE field == "enabled"
               steps == <<>>
    <2>2. field \in {"steps", "enabled"} /\ steps \in Seq(STRING) /\ Update(p, w, by, field, steps, on)
      BY <2>1
    <2> HIDE DEF field, steps
    <2> QED BY <2>2, UpdateKeeps
  <1>4. CASE \E p \in Editors : saveTx(p)
    BY <1>4, saveTxKeeps
  <1>5. CASE \E w \in Workflows : Archive(w)
    BY <1>5, ArchiveKeeps
  <1>6. CASE \E u \in Admins : RightLost(u, "post")
    BY <1>6, RightLostKeeps
  <1>7. CASE PersonPosts \/ MinutePasses
    BY <1>7, PersonPostsKeeps, MinutePassesKeeps
  <1>8. CASE \E c \in Consumers : ConsumerStep(c) \/ HandleFails(c) \/ RejectionLost(c)
    BY <1>8, HandleKeeps, EnqueueCheckKeeps, EnqueueRunAtKeeps, HandleAckKeeps, HandleFailsKeeps, RejectionLostKeeps
       DEF ConsumerStep
  <1>9. CASE \E x \in Runners : RunnerStep(x) \/ RunnerStops(x)
    BY <1>9, ClaimRunKeeps, ClaimEffectKeeps, PerformKeeps, RecordEffectResultKeeps, FailEffectKeeps, FinishRunKeeps,
       RunnerStopsKeeps DEF RunnerStep
  <1>10. CASE ReleaseStaleRuns
    BY <1>10, ReleaseKeeps
  <1>11. CASE UNCHANGED wfvars
    <2>1. EnvInv' /\ SameEnv
      BY <1>11, NotSpending DEF WfIInv, wfvars
    <2>2. SaveInv' /\ VersionsGrow(wf, wf') /\ WantsShrink(wf, wf', wenv.workflows)
      BY <1>11, <2>1, NotSaving DEF wfvars, savedVars
    <2> QED BY <1>11, <2>1, <2>2, SavingOnly DEF wfvars, triggerVars, runVars
  <1> QED BY <1>1, <1>2, <1>3, <1>4, <1>5, <1>6, <1>7, <1>8, <1>9, <1>10, <1>11 DEF WfNext

\* A run of an event is unique.
LEMMA OneRunEach ==
    ASSUME WfIInv, NEW w, NEW e
    PROVE  Cardinality(Queued(w, e)) <= 1
  <1>1. \A r, q \in Queued(w, e) : r = q
    BY DEF WfIInv, RunInv, Queued
  <1>2. CASE Queued(w, e) = {}
    BY <1>2, FS_EmptySet
  <1>3. CASE Queued(w, e) # {}
    <2>1. PICK r : r \in Queued(w, e)
      BY <1>3
    <2>2. Queued(w, e) = {r}
      BY <2>1, <1>1
    <2> QED BY <2>2, FS_Singleton
  <1> QED BY <1>2, <1>3

LEMMA EngineIsSound ==
    ASSUME WfIInv
    PROVE  RunsSound
  <1>1. EditsSurvive
    BY DEF WfIInv, SaveInv
  <1>2. QueuedExactlyOnce
    <2>1. ASSUME NEW w \in Workflows, NEW e \in DOMAIN stream, e \in acked, wf[w].enabled, wf[w].triggered,
                 wf[w] = wenv.workflows[w]
          PROVE  Queued(w, e) # {} \/ <<e, w>> \in TurnedAway
      <3>1. Covered(w, e, runs, TurnedAway)
        BY <2>1 DEF WfIInv, ConsumerInv, Wants
      <3> QED BY <3>1 DEF Covered, Queued
    <2> QED BY <2>1, OneRunEach DEF QueuedExactlyOnce
  <1>3. SucceededMeansPerformed
    <2> SUFFICES ASSUME NEW r \in RunIds, runs[r].status # "none"
                 PROVE  /\ runs[r].status = "succeeded" => \A i \in 1..Len(StepsOf(r)) : performed[<<r, i>>] > 0
                        /\ \A i \in 2..Len(StepsOf(r)) : performed[<<r, i>>] > 0 => performed[<<r, i - 1>>] > 0
      BY DEF SucceededMeansPerformed
    <2>1. NumSteps(runs[r], wf) \in 0..MaxSteps /\ NumSteps(runs[r], wf) = Len(StepsOf(r))
      BY StepCount DEF WfIInv
    <2>2. runs[r].status = "succeeded" => \A i \in 1..Len(StepsOf(r)) : performed[<<r, i>>] > 0
      BY <2>1 DEF WfIInv, StepInv
    <2>3. ASSUME NEW i \in 2..Len(StepsOf(r)), performed[<<r, i>>] > 0 PROVE performed[<<r, i - 1>>] > 0
      <3>1. i \in 2..MaxSteps
        BY <2>1, WfAssumption
      <3> QED BY <3>1, <2>3 DEF WfIInv, StepInv
    <2> QED BY <2>2, <2>3
  <1>4. CascadesEnd
    BY DEF WfIInv, RunInv, RunOk, CascadesEnd
  <1> QED BY <1>1, <1>2, <1>3, <1>4 DEF RunsSound

\* Of what is recorded as done, no step takes anything back.
LEMMA RecordedStays ==
    ASSUME WfIInv, [WfNext]_wfvars, NEW s \in RunIds \X StepIndexes, effects[s] = "succeeded"
    PROVE  effects'[s] = "succeeded" /\ (wenv.slow \/ performed'[s] = performed[s])
  <1>1. /\ effects \in [RunIds \X StepIndexes -> EffectStates] /\ performed \in [RunIds \X StepIndexes -> Nat]
        /\ runner \in [Runners -> RunnerState]
    BY StepTables
  <1>2. CASE UNCHANGED <<effects, performed>>
    BY <1>2
  <1>3. ASSUME NEW x \in Runners, ClaimEffect(x) PROVE effects'[s] = "succeeded" /\ performed'[s] = performed[s]
    BY <1>1, <1>3 DEF ClaimEffect, Claimable
  <1>4. ASSUME NEW x \in Runners, RecordEffectResult(x) PROVE effects'[s] = "succeeded" /\ performed'[s] = performed[s]
    BY <1>1, <1>4 DEF RecordEffectResult
  <1>5. ASSUME NEW x \in Runners, FailEffect(x) PROVE effects'[s] = "succeeded" /\ performed'[s] = performed[s]
    BY <1>1, <1>5 DEF FailEffect
  <1>6. ASSUME NEW x \in Runners, Perform(x)
        PROVE  effects'[s] = "succeeded" /\ (wenv.slow \/ performed'[s] = performed[s])
    <2>1. CASE Refused(x)
      BY <2>1 DEF Refused
    <2>2. CASE ~Refused(x)
      <3>1. At(x, "perform") /\ Acts(x) /\ effects' = effects
        BY <1>6, <2>2 DEF Perform, PostMessage, Notify, AddComment
      <3>2. ~wenv.slow => effects[<<runner[x].run, runner[x].i>>] # "succeeded"
        BY <3>1 DEF WfIInv, AloneInv, At
      <3>3. ~wenv.slow => s # <<runner[x].run, runner[x].i>>
        BY <3>2
      <3>4. performed' = [performed EXCEPT ![<<runner[x].run, runner[x].i>>] = @ + 1]
        BY <3>1 DEF Acts
      <3> DEFINE t == <<runner[x].run, runner[x].i>>
      <3>5. s # t => performed'[s] = performed[s]
        BY <3>4, <1>1
      <3> QED BY <3>1, <3>3, <3>5
    <2> QED BY <2>1, <2>2
  <1>7. CASE \E w \in Workflows, by \in Admins, steps \in wenv.steps : CreateWorkflow(w, by, steps)
    BY <1>7, <1>2 DEF CreateWorkflow, runVars
  <1>8. CASE (\E p \in Editors, w \in Workflows, by \in Admins, steps \in wenv.steps : Update(p, w, by, "steps", steps, TRUE))
               \/ (\E p \in Editors, w \in Workflows, by \in Admins, on \in BOOLEAN : Update(p, w, by, "enabled", <<>>, on))
    BY <1>8, <1>2 DEF Update, PatchLock, runVars
  <1>9. CASE (\E p \in Editors : saveTx(p)) \/ (\E w \in Workflows : Archive(w)) \/ (\E u \in Admins : RightLost(u, "post"))
    BY <1>9, <1>2 DEF saveTx, Archive, RightLost, runVars
  <1>10. CASE PersonPosts \/ MinutePasses \/ ReleaseStaleRuns \/ UNCHANGED wfvars
    BY <1>10, <1>2 DEF PersonPosts, MinutePasses, ReleaseStaleRuns, runVars, wfvars
  <1>11. CASE \E c \in Consumers : ConsumerStep(c) \/ HandleFails(c) \/ RejectionLost(c)
    BY <1>11, <1>2 DEF ConsumerStep, Handle, EnqueueCheck, EnqueueRunAt, HandleAck, HandleFails, RejectionLost, runVars
  <1>12. CASE \E x \in Runners : RunnerStep(x) \/ RunnerStops(x)
    <2>1. PICK x \in Runners : RunnerStep(x) \/ RunnerStops(x)
      BY <1>12
    <2>2. CASE ClaimRun(x) \/ FinishRun(x) \/ RunnerStops(x)
      BY <2>2, <1>2 DEF ClaimRun, FinishRun, RunnerStops
    <2> QED BY <2>1, <2>2, <1>3, <1>4, <1>5, <1>6 DEF RunnerStep
  <1> QED BY <1>7, <1>8, <1>9, <1>10, <1>11, <1>12 DEF WfNext

\* Saves keep each other's edits, an event starts one run of a workflow and none is lost,
\* a run that succeeded performed its steps in order, and chains end (Patch, saveTx,
\* EnqueueRunAt, the effect table and the depth guard), in every state of the engine.
THEOREM EngineAlwaysSound == WfSpec => []RunsSound
  <1>1. WfInit => WfIInv
    BY EngineStarts
  <1>2. WfIInv /\ [WfNext]_wfvars => WfIInv'
    BY EngineStays
  <1>3. WfIInv => RunsSound
    BY EngineIsSound
  <1> QED BY <1>1, <1>2, <1>3, PTL DEF WfSpec

\* A step recorded as done stays recorded, and is not performed again by a runner that
\* takes the run over after another stopped (ClaimEffect, RecordEffectResult, FailEffect).
THEOREM RecordedStaysFinal == WfSpec => RecordedIsFinal
  <1>1. WfInit => WfIInv
    BY EngineStarts
  <1>2. WfIInv /\ [WfNext]_wfvars => WfIInv'
    BY EngineStays
  <1>3. WfIInv /\ [WfNext]_wfvars =>
            [\A s \in RunIds \X StepIndexes : effects[s] = "succeeded" =>
                effects'[s] = "succeeded" /\ (wenv.slow \/ performed'[s] = performed[s])]_wfvars
    BY RecordedStays
  <1> QED BY <1>1, <1>2, <1>3, PTL DEF WfSpec, RecordedIsFinal

-----------------------------------------------------------------------------
(* Calls.                                                                  *)

(* The inductive invariant, in parts.                                      *)

Reasons == {"failed", "ended_by_user", "empty", "reconciled"}

\* A request under way and the reconciler's pass are about a call.
CallersInv ==
    /\ req \in [Requests -> [at : {"idle", "create", "undo", "token", "end", "delete"}, h : 0..MaxHuddles]]
    /\ \A r \in Requests : req[r].at # "idle" => req[r].h \in Huddles
    /\ job \in [at : {"idle", "ask", "reconciled", "empty", "apply"}, h : 0..MaxHuddles, report : SUBSET Sids]
    /\ job.at # "idle" => job.h \in Huddles

\* Who is connected is in a call, and a participant's webhook names a session.
SessionsInv ==
    /\ \A s \in Sids : sess[s].in => sess[s].h \in Huddles
    /\ \A e \in hooks : e.type \in {"joined", "left"} => e.s \in Sids

\* The inductive invariant of the calls.
CallsInv == HuddleTypeOK /\ CallersInv /\ SessionsInv

\* What no step does to a call that is over.
ReasonsKept == \A h \in Huddles : huddle[h].state = "ended" => huddle'[h] = huddle[h]

-----------------------------------------------------------------------------
(* Facts that several steps share.                                         *)

\* The rows and their constraint.
CallRow == [state : {"none", "live", "ended"}, reason : {"none"} \cup Reasons]
RowsOk(f) == f \in [Huddles -> CallRow] /\ \A h \in Huddles : (f[h].state = "ended") <=> (f[h].reason # "none")

\* A live call ends, with a reason.
LEMMA Ended ==
    ASSUME RowsOk(huddle), NEW h \in Huddles, huddle[h].state = "live", NEW reason \in Reasons,
           huddle' = [huddle EXCEPT ![h] = [state |-> "ended", reason |-> reason]]
    PROVE  RowsOk(huddle') /\ ReasonsKept
<1> DEFINE r == [state |-> "ended", reason |-> reason]
<1>1. r \in CallRow /\ r.state = "ended" /\ r.reason # "none"
  BY DEF CallRow, Reasons
<1> HIDE DEF r
<1>2. /\ huddle' \in [Huddles -> CallRow] /\ huddle'[h] = r
      /\ \A g \in Huddles : g # h => huddle'[g] = huddle[g]
  BY <1>1 DEF RowsOk, r
<1> QED
  BY <1>1, <1>2 DEF RowsOk, ReasonsKept

\* Sessions of a roster are closed.
LEMMA RosterClosed ==
    ASSUME row \in [Sids -> {"none", "live", "left"}], NEW h,
           row' = [s \in Sids |-> IF s \in Roster(h) THEN "left" ELSE row[s]]
    PROVE  row' \in [Sids -> {"none", "live", "left"}]
  OBVIOUS

LEMMA EndCallKeeps ==
    ASSUME RowsOk(huddle), row \in [Sids -> {"none", "live", "left"}], NEW h \in Huddles, NEW reason \in Reasons,
           EndCall(h, reason)
    PROVE  RowsOk(huddle') /\ ReasonsKept /\ row' \in [Sids -> {"none", "live", "left"}]
<1>1. CASE huddle[h].state = "live"
  <2>1. /\ huddle' = [huddle EXCEPT ![h] = [state |-> "ended", reason |-> reason]]
        /\ row' = [s \in Sids |-> IF s \in Roster(h) THEN "left" ELSE row[s]]
    BY <1>1 DEF EndCall
  <2> QED
    BY <1>1, <2>1, Ended, RosterClosed
<1>2. CASE huddle[h].state # "live"
  <2>1. huddle' = huddle /\ row' = row
    BY <1>2 DEF EndCall, dbVars
  <2> QED
    BY <2>1 DEF ReasonsKept
<1> QED
  BY <1>1, <1>2

\* The parts of the type invariant.
HookType == [type : {"joined", "left", "finished"}, h : Huddles, s : Sids \cup {"nobody"}, seen : BOOLEAN]
SfuOk(rm, ss, hk) ==
    /\ rm \in [Huddles -> {"none", "open", "gone"}]
    /\ ss \in [Sids -> [h : 0..MaxHuddles, in : BOOLEAN]]
    /\ \A s \in Sids : ss[s].in => ss[s].h \in Huddles
    /\ hk \subseteq HookType
    /\ \A e \in hk : e.type \in {"joined", "left"} => e.s \in Sids
TalkersOk(rq) ==
    /\ rq \in [Requests -> [at : {"idle", "create", "undo", "token", "end", "delete"}, h : 0..MaxHuddles]]
    /\ \A r \in Requests : rq[r].at # "idle" => rq[r].h \in Huddles
JobOk(j) ==
    /\ j \in [at : {"idle", "ask", "reconciled", "empty", "apply"}, h : 0..MaxHuddles, report : SUBSET Sids]
    /\ j.at # "idle" => j.h \in Huddles
DbOk(f, rw) == RowsOk(f) /\ rw \in [Sids -> {"none", "live", "left"}]

LEMMA CallsInvParts ==
    /\ CallsInv <=> /\ DbOk(huddle, row) /\ SfuOk(room, sess, hooks) /\ TalkersOk(req) /\ JobOk(job)
                    /\ aged \subseteq Huddles /\ tokens \subseteq Huddles /\ outages \in 0..MaxOutages
    /\ CallsInv' <=> /\ DbOk(huddle', row') /\ SfuOk(room', sess', hooks') /\ TalkersOk(req') /\ JobOk(job')
                     /\ aged' \subseteq Huddles /\ tokens' \subseteq Huddles /\ outages' \in 0..MaxOutages
<1>1. {"none"} \cup Reasons = {"none", "failed", "ended_by_user", "empty", "reconciled"}
  BY DEF Reasons
<1> QED
  BY <1>1 DEF CallsInv, HuddleTypeOK, CallersInv, SessionsInv, DbOk, RowsOk, CallRow, SfuOk, HookType,
              TalkersOk, JobOk

\* A request goes to another place, with its call or to rest.
LEMMA TalkerMoves ==
    ASSUME TalkersOk(req), NEW r \in Requests, NEW q,
           q \in [at : {"idle", "create", "undo", "token", "end", "delete"}, h : 0..MaxHuddles],
           q.at # "idle" => q.h \in Huddles,
           req' = [req EXCEPT ![r] = q]
    PROVE  TalkersOk(req')
  BY DEF TalkersOk

\* A room is closed, with everyone in it.
LEMMA CloseKeeps ==
    ASSUME SfuOk(room, sess, hooks), NEW h \in Huddles, Close(h)
    PROVE  SfuOk(room', sess', hooks')
<1>1. room' \in [Huddles -> {"none", "open", "gone"}]
  BY DEF Close, SfuOk
<1>2. ASSUME NEW s \in Sids
      PROVE  /\ sess'[s] \in [h : 0..MaxHuddles, in : BOOLEAN]
             /\ sess'[s].in => sess'[s].h \in Huddles
  <2>1. sess[s] \in [h : 0..MaxHuddles, in : BOOLEAN] /\ (sess[s].in => sess[s].h \in Huddles)
    BY DEF SfuOk
  <2>2. sess'[s] = [sess[s] EXCEPT !.in = FALSE] \/ sess'[s] = sess[s]
    BY DEF Close
  <2>3. CASE sess'[s] = [sess[s] EXCEPT !.in = FALSE]
    BY <2>1, <2>3
  <2> QED
    BY <2>1, <2>2, <2>3
<1>3. sess' \in [Sids -> [h : 0..MaxHuddles, in : BOOLEAN]]
  BY <1>2 DEF Close
<1>4. ASSUME NEW e \in hooks' PROVE e \in HookType /\ (e.type \in {"joined", "left"} => e.s \in Sids)
  <2>1. CASE e \in hooks
    BY <2>1 DEF SfuOk
  <2>2. CASE e = RoomFinished(h)
    BY <2>2 DEF RoomFinished, Hook, HookType
  <2>3. ASSUME NEW s \in Sids, e = Hook("left", h, s) PROVE e \in HookType /\ e.s \in Sids
    BY <2>3 DEF Hook, HookType
  <2> QED
    BY <2>1, <2>2, <2>3 DEF Close, InRoom
<1> QED
  BY <1>1, <1>2, <1>3, <1>4 DEF SfuOk

-----------------------------------------------------------------------------
(* Every step keeps the invariant, and the reasons.                        *)

LEMMA CallsInit == HuddleInit => CallsInv
<1> SUFFICES ASSUME HuddleInit PROVE CallsInv
  OBVIOUS
<1>1. DbOk(huddle, row)
  BY DEF HuddleInit, DbOk, RowsOk, CallRow
<1>2. SfuOk(room, sess, hooks)
  BY HuddleAssumption DEF HuddleInit, SfuOk
<1>3. TalkersOk(req)
  BY HuddleAssumption DEF HuddleInit, TalkersOk, Quiet
<1>4. JobOk(job)
  BY HuddleAssumption DEF HuddleInit, JobOk, NoJob
<1> QED
  BY <1>1, <1>2, <1>3, <1>4, CallsInvParts, HuddleAssumption DEF HuddleInit

\* The requests.
LEMMA RequestStep ==
    ASSUME CallsInv, NEW r \in Requests,
           \/ Start(r) \/ CreateRoom(r) \/ CreateRoomFails(r) \/ Undo(r) \/ Token(r)
           \/ EndRead(r) \/ EndCommit(r) \/ DeleteRoom(r) \/ RequestDies(r)
    PROVE  CallsInv' /\ ReasonsKept
<1> DEFINE Talker == [at : {"idle", "create", "undo", "token", "end", "delete"}, h : 0..MaxHuddles]
<1>1. /\ DbOk(huddle, row) /\ SfuOk(room, sess, hooks) /\ TalkersOk(req) /\ JobOk(job)
      /\ aged \subseteq Huddles /\ tokens \subseteq Huddles /\ outages \in 0..MaxOutages
  BY CallsInvParts
<1>2. Quiet \in Talker /\ Quiet.at = "idle"
  BY HuddleAssumption DEF Quiet
<1>3. /\ req[r] \in Talker /\ (req[r].at # "idle" => req[r].h \in Huddles)
      /\ \A h \in Huddles : h \in 0..MaxHuddles
  BY <1>1, HuddleAssumption DEF TalkersOk, Huddles
<1>4. ASSUME UNCHANGED huddle PROVE ReasonsKept
  BY <1>4 DEF ReasonsKept
<1>5. CASE Start(r)
  <2>1. UNCHANGED <<row, room, sess, hooks, job, aged, tokens, outages>>
    BY <1>5 DEF Start, sfuVars
  <2>2. CASE Live # {}
    <3> DEFINE h == CHOOSE h \in Live : TRUE
               q == [at |-> "token", h |-> h]
    <3>1. h \in Huddles
      BY <2>2 DEF Live
    <3> HIDE DEF h
    <3>2. q \in Talker /\ q.h \in Huddles
      BY <1>3, <3>1
    <3>3. req' = [req EXCEPT ![r] = q] /\ UNCHANGED huddle
      BY <1>5, <2>2 DEF Start, h
    <3> HIDE DEF q
    <3>4. TalkersOk(req')
      BY <1>1, <3>2, <3>3, TalkerMoves
    <3> QED
      BY <1>1, <1>4, <2>1, <3>3, <3>4, CallsInvParts
  <2>3. CASE Live = {}
    <3>1. PICK h \in Huddles :
             /\ huddle[h].state = "none"
             /\ huddle' = [huddle EXCEPT ![h] = [state |-> "live", reason |-> "none"]]
             /\ req' = [req EXCEPT ![r] = [at |-> "create", h |-> h]]
      BY <1>5, <2>3 DEF Start
    <3> DEFINE q == [at |-> "create", h |-> h]
               n == [state |-> "live", reason |-> "none"]
    <3>2. q \in Talker /\ q.h \in Huddles /\ n \in CallRow /\ n.state = "live" /\ n.reason = "none"
      BY <1>3 DEF CallRow
    <3>3. req' = [req EXCEPT ![r] = q] /\ huddle' = [huddle EXCEPT ![h] = n]
      BY <3>1
    <3> HIDE DEF q, n
    <3>4. TalkersOk(req')
      BY <1>1, <3>2, <3>3, TalkerMoves
    <3>5. /\ huddle' \in [Huddles -> CallRow] /\ huddle'[h] = n
          /\ \A g \in Huddles : g # h => huddle'[g] = huddle[g]
      BY <1>1, <3>2, <3>3 DEF DbOk, RowsOk
    <3>6. RowsOk(huddle') /\ ReasonsKept
      BY <1>1, <3>1, <3>2, <3>5 DEF DbOk, RowsOk, ReasonsKept
    <3> QED
      BY <1>1, <2>1, <3>4, <3>6, CallsInvParts DEF DbOk
  <2> QED
    BY <2>2, <2>3
<1>6. CASE CreateRoom(r) \/ CreateRoomFails(r)
  <2>1. UNCHANGED <<huddle, row, aged, tokens, sess, hooks, job, outages>>
    BY <1>6 DEF CreateRoom, CreateRoomFails, dbVars
  <2>2. req[r].at = "create" /\ (req' = [req EXCEPT ![r].at = "token"] \/ req' = [req EXCEPT ![r].at = "undo"])
    BY <1>6 DEF CreateRoom, CreateRoomFails
  <2>3. room' = room \/ room' = [room EXCEPT ![req[r].h] = "open"]
    BY <1>6 DEF CreateRoom, CreateRoomFails
  <2>4. PICK a \in {"token", "undo"} : req' = [req EXCEPT ![r].at = a]
    BY <2>2
  <2> DEFINE q == [req[r] EXCEPT !.at = a]
  <2>5. q \in Talker /\ q.h \in Huddles
    BY <1>3, <2>2
  <2>6. req' = [req EXCEPT ![r] = q]
    BY <2>4
  <2> HIDE DEF q
  <2>7. TalkersOk(req')
    BY <1>1, <2>5, <2>6, TalkerMoves
  <2>8. SfuOk(room', sess', hooks')
    BY <1>1, <2>1, <2>3 DEF SfuOk
  <2> QED
    BY <1>1, <1>4, <2>1, <2>7, <2>8, CallsInvParts
<1>7. CASE Undo(r)
  <2>1. UNCHANGED <<aged, tokens, room, sess, hooks, job, outages>> /\ req' = [req EXCEPT ![r] = Quiet]
    BY <1>7 DEF Undo, sfuVars
  <2>2. req[r].h \in Huddles /\ EndCall(req[r].h, "failed") /\ "failed" \in Reasons
    BY <1>3, <1>7 DEF Undo, Reasons
  <2>3. DbOk(huddle', row') /\ ReasonsKept
    BY <1>1, <2>2, EndCallKeeps DEF DbOk
  <2>4. TalkersOk(req')
    BY <1>1, <1>2, <2>1, TalkerMoves
  <2> QED
    BY <1>1, <2>1, <2>3, <2>4, CallsInvParts
<1>8. CASE Token(r)
  <2>1. UNCHANGED <<huddle, row, aged, room, sess, hooks, job, outages>> /\ req' = [req EXCEPT ![r] = Quiet]
    BY <1>8 DEF Token, sfuVars, dbVars
  <2>2. tokens' \subseteq Huddles
    BY <1>1, <1>3, <1>8 DEF Token
  <2>3. TalkersOk(req')
    BY <1>1, <1>2, <2>1, TalkerMoves
  <2> QED
    BY <1>1, <1>4, <2>1, <2>2, <2>3, CallsInvParts
<1>9. CASE EndRead(r)
  <2>1. UNCHANGED <<huddle, row, aged, tokens, room, sess, hooks, job, outages>>
    BY <1>9 DEF EndRead, sfuVars, dbVars
  <2>2. PICK h \in Huddles : req' = [req EXCEPT ![r] = [at |-> "end", h |-> h]]
    BY <1>9 DEF EndRead, Live
  <2> DEFINE q == [at |-> "end", h |-> h]
  <2>3. q \in Talker /\ q.h \in Huddles /\ req' = [req EXCEPT ![r] = q]
    BY <1>3, <2>2
  <2> HIDE DEF q
  <2>4. TalkersOk(req')
    BY <1>1, <2>3, TalkerMoves
  <2> QED
    BY <1>1, <1>4, <2>1, <2>4, CallsInvParts
<1>10. CASE EndCommit(r)
  <2> DEFINE q == [req[r] EXCEPT !.at = "delete"]
  <2>1. UNCHANGED <<aged, tokens, room, sess, hooks, job, outages>> /\ req' = [req EXCEPT ![r] = q]
    BY <1>10 DEF EndCommit, sfuVars
  <2>2. req[r].h \in Huddles /\ EndCall(req[r].h, "ended_by_user") /\ "ended_by_user" \in Reasons
    BY <1>3, <1>10 DEF EndCommit, Reasons
  <2>3. DbOk(huddle', row') /\ ReasonsKept
    BY <1>1, <2>2, EndCallKeeps DEF DbOk
  <2>4. q \in Talker /\ q.h \in Huddles
    BY <1>3, <2>2
  <2> HIDE DEF q
  <2>5. TalkersOk(req')
    BY <1>1, <2>1, <2>4, TalkerMoves
  <2> QED
    BY <1>1, <2>1, <2>3, <2>5, CallsInvParts
<1>11. CASE DeleteRoom(r)
  <2>1. UNCHANGED <<huddle, row, aged, tokens, job, outages>> /\ req' = [req EXCEPT ![r] = Quiet]
    BY <1>11 DEF DeleteRoom, dbVars
  <2>2. req[r].h \in Huddles /\ (Close(req[r].h) \/ UNCHANGED <<room, sess, hooks>>)
    BY <1>3, <1>11 DEF DeleteRoom
  <2>3. SfuOk(room', sess', hooks')
    <3>1. CASE Close(req[r].h)
      BY <1>1, <2>2, <3>1, CloseKeeps
    <3>2. CASE UNCHANGED <<room, sess, hooks>>
      BY <1>1, <3>2
    <3> QED
      BY <2>2, <3>1, <3>2
  <2>4. TalkersOk(req')
    BY <1>1, <1>2, <2>1, TalkerMoves
  <2> QED
    BY <1>1, <1>4, <2>1, <2>3, <2>4, CallsInvParts
<1>12. CASE RequestDies(r)
  <2>1. /\ UNCHANGED <<huddle, row, aged, tokens, room, sess, hooks, job, outages>>
        /\ req' = [req EXCEPT ![r] = Quiet]
    BY <1>12 DEF RequestDies, sfuVars, dbVars
  <2>2. TalkersOk(req')
    BY <1>1, <1>2, <2>1, TalkerMoves
  <2> QED
    BY <1>1, <1>4, <2>1, <2>2, CallsInvParts
<1> QED
  BY <1>5, <1>6, <1>7, <1>8, <1>9, <1>10, <1>11, <1>12

\* The media server.
LEMMA SfuStep ==
    ASSUME CallsInv,
           \/ \E s \in Sids : LeaveCall(s) \/ \E h \in Huddles : Join(s, h)
           \/ \E h \in Huddles : RoomTimesOut(h)
           \/ SfuRestarts
    PROVE  CallsInv' /\ ReasonsKept
<1>1. /\ DbOk(huddle, row) /\ SfuOk(room, sess, hooks) /\ TalkersOk(req) /\ JobOk(job)
      /\ aged \subseteq Huddles /\ tokens \subseteq Huddles /\ outages \in 0..MaxOutages
  BY CallsInvParts
<1>2. UNCHANGED <<huddle, row, aged, tokens, req, job, outages>>
  BY DEF LeaveCall, Join, RoomTimesOut, SfuRestarts, dbVars
<1>3. SfuOk(room', sess', hooks')
  <2>1. ASSUME NEW s \in Sids, LeaveCall(s) PROVE SfuOk(room', sess', hooks')
    <3> DEFINE n == [sess[s] EXCEPT !.in = FALSE]
               e == Hook("left", sess[s].h, s)
    <3>1. sess[s] \in [h : 0..MaxHuddles, in : BOOLEAN] /\ sess[s].h \in Huddles
      BY <1>1, <2>1 DEF SfuOk, LeaveCall
    <3>2. n \in [h : 0..MaxHuddles, in : BOOLEAN] /\ ~n.in
      BY <3>1
    <3>3. e \in HookType /\ e.s \in Sids
      BY <3>1 DEF Hook, HookType
    <3>4. sess' = [sess EXCEPT ![s] = n] /\ hooks' = hooks \cup {e} /\ room' = room
      BY <2>1 DEF LeaveCall
    <3> HIDE DEF n, e
    <3> QED
      BY <1>1, <3>2, <3>3, <3>4 DEF SfuOk
  <2>2. ASSUME NEW s \in Sids, NEW h \in Huddles, Join(s, h) PROVE SfuOk(room', sess', hooks')
    <3> DEFINE n == [h |-> h, in |-> TRUE]
               e == Hook("joined", h, s)
    <3>1. n \in [h : 0..MaxHuddles, in : BOOLEAN] /\ n.h \in Huddles
      BY HuddleAssumption DEF Huddles
    <3>2. e \in HookType /\ e.s \in Sids
      BY DEF Hook, HookType
    <3>3. sess' = [sess EXCEPT ![s] = n] /\ hooks' = hooks \cup {e} /\ room' = room
      BY <2>2 DEF Join
    <3> HIDE DEF n, e
    <3> QED
      BY <1>1, <3>1, <3>2, <3>3 DEF SfuOk
  <2>3. ASSUME NEW h \in Huddles, RoomTimesOut(h) PROVE SfuOk(room', sess', hooks')
    BY <1>1, <2>3, CloseKeeps DEF RoomTimesOut
  <2>4. CASE SfuRestarts
    <3>1. room' \in [Huddles -> {"none", "open", "gone"}]
      BY <1>1, <2>4 DEF SfuRestarts, SfuOk
    <3>2. ASSUME NEW s \in Sids PROVE sess'[s] \in [h : 0..MaxHuddles, in : BOOLEAN] /\ ~sess'[s].in
      <4>1. sess[s] \in [h : 0..MaxHuddles, in : BOOLEAN] /\ sess'[s] = [sess[s] EXCEPT !.in = FALSE]
        BY <1>1, <2>4 DEF SfuRestarts, SfuOk
      <4> QED
        BY <4>1
    <3>3. sess' \in [Sids -> [h : 0..MaxHuddles, in : BOOLEAN]]
      BY <2>4, <3>2 DEF SfuRestarts
    <3> QED
      BY <1>1, <2>4, <3>1, <3>2, <3>3 DEF SfuRestarts, SfuOk
  <2> QED
    BY <2>1, <2>2, <2>3, <2>4
<1> QED
  BY <1>1, <1>2, <1>3, CallsInvParts DEF ReasonsKept

\* The webhooks.
LEMMA HookStep ==
    ASSUME CallsInv, NEW e \in hooks, DeliverHook(e) \/ LoseHook(e)
    PROVE  CallsInv' /\ ReasonsKept
<1>1. /\ DbOk(huddle, row) /\ SfuOk(room, sess, hooks) /\ TalkersOk(req) /\ JobOk(job)
      /\ aged \subseteq Huddles /\ tokens \subseteq Huddles /\ outages \in 0..MaxOutages
  BY CallsInvParts
<1>2. UNCHANGED <<aged, room, tokens, sess, req, job, outages>>
  BY DEF DeliverHook, LoseHook
<1>3. e \in HookType /\ (e.type \in {"joined", "left"} => e.s \in Sids)
  BY <1>1 DEF SfuOk
<1>4. SfuOk(room', sess', hooks')
  <2> DEFINE n == [e EXCEPT !.seen = TRUE]
  <2>1. n \in HookType /\ n.type = e.type /\ n.s = e.s
    BY <1>3 DEF HookType
  <2>2. hooks' = hooks \ {e} \/ hooks' = (hooks \ {e}) \cup {n}
    BY DEF DeliverHook, LoseHook
  <2> HIDE DEF n
  <2> QED
    BY <1>1, <1>2, <1>3, <2>1, <2>2 DEF SfuOk
<1>5. DbOk(huddle', row') /\ ReasonsKept
  <2>1. CASE UNCHANGED <<huddle, row>>
    BY <1>1, <2>1 DEF ReasonsKept
  <2>2. CASE Effect(e) /\ e.type = "joined"
    <3>1. e.s \in Sids /\ row' = [row EXCEPT ![e.s] = IF @ = "none" THEN "live" ELSE @] /\ huddle' = huddle
      BY <1>3, <2>2 DEF Effect
    <3> QED
      BY <1>1, <3>1 DEF DbOk, ReasonsKept
  <2>3. CASE Effect(e) /\ e.type = "left"
    <3>1. e.s \in Sids /\ row' = [row EXCEPT ![e.s] = IF @ = "live" THEN "left" ELSE @] /\ huddle' = huddle
      BY <1>3, <2>3 DEF Effect
    <3> QED
      BY <1>1, <3>1 DEF DbOk, ReasonsKept
  <2>4. CASE Effect(e) /\ e.type \notin {"joined", "left"}
    <3>1. /\ huddle' = IF huddle[e.h].state = "live"
                       THEN [huddle EXCEPT ![e.h] = [state |-> "ended", reason |-> "empty"]] ELSE huddle
          /\ row' = [s \in Sids |-> IF s \in Roster(e.h) THEN "left" ELSE row[s]]
      BY <2>4 DEF Effect
    <3>2. row' \in [Sids -> {"none", "live", "left"}]
      BY <1>1, <3>1, RosterClosed DEF DbOk
    <3>3. e.h \in Huddles /\ "empty" \in Reasons
      BY <1>3 DEF HookType, Reasons
    <3>4. CASE huddle[e.h].state = "live"
      BY <1>1, <3>1, <3>2, <3>3, <3>4, Ended DEF DbOk
    <3>5. CASE huddle[e.h].state # "live"
      BY <1>1, <3>1, <3>2, <3>5 DEF DbOk, ReasonsKept
    <3> QED
      BY <3>4, <3>5
  <2> QED
    BY <2>1, <2>2, <2>3, <2>4 DEF DeliverHook, LoseHook, dbVars
<1> QED
  BY <1>1, <1>2, <1>4, <1>5, CallsInvParts

\* Time and the reconciler.
LEMMA ReconcilerStep ==
    ASSUME CallsInv,
           \/ \E h \in Huddles : Ages(h) \/ StaleLive(h)
           \/ ReconcileAsk \/ ReconcileEnd \/ ReconcileRoster \/ ReconcileFails
    PROVE  CallsInv' /\ ReasonsKept
<1> DEFINE Pass == [at : {"idle", "ask", "reconciled", "empty", "apply"}, h : 0..MaxHuddles, report : SUBSET Sids]
<1>1. /\ DbOk(huddle, row) /\ SfuOk(room, sess, hooks) /\ TalkersOk(req) /\ JobOk(job)
      /\ aged \subseteq Huddles /\ tokens \subseteq Huddles /\ outages \in 0..MaxOutages
  BY CallsInvParts
<1>2. UNCHANGED <<tokens, room, sess, hooks, req>>
  BY DEF Ages, StaleLive, ReconcileAsk, ReconcileEnd, ReconcileRoster, ReconcileFails, sfuVars
<1>3. JobOk(NoJob)
  BY HuddleAssumption DEF JobOk, NoJob
<1>4. ASSUME UNCHANGED huddle PROVE ReasonsKept
  BY <1>4 DEF ReasonsKept
<1>5. ASSUME NEW h \in Huddles, Ages(h) PROVE CallsInv' /\ ReasonsKept
  <2>1. UNCHANGED <<huddle, row, job, outages>> /\ aged' \subseteq Huddles
    BY <1>1, <1>5 DEF Ages, dbVars
  <2> QED
    BY <1>1, <1>2, <1>4, <2>1, CallsInvParts
<1>6. ASSUME NEW h \in Huddles, StaleLive(h) PROVE CallsInv' /\ ReasonsKept
  <2>1. UNCHANGED <<huddle, row, aged, outages>> /\ job' = [NoJob EXCEPT !.at = "ask", !.h = h]
    BY <1>6 DEF StaleLive, dbVars
  <2> DEFINE none == {}
  <2>3. job' = [at |-> "ask", h |-> h, report |-> none]
    BY <2>1 DEF NoJob
  <2>4. none \in SUBSET Sids /\ h \in 0..MaxHuddles
    BY HuddleAssumption DEF Huddles
  <2> HIDE DEF none
  <2>2. JobOk(job')
    BY <2>3, <2>4 DEF JobOk
  <2> QED
    BY <1>1, <1>2, <1>4, <2>1, <2>2, CallsInvParts
<1>7. CASE ReconcileAsk
  <2>1. UNCHANGED <<huddle, row, aged, outages>> /\ job.at = "ask"
    BY <1>7 DEF ReconcileAsk, dbVars
  <2> DEFINE answer == CASE room[job.h] # "open" -> "reconciled"
                         [] InRoom(job.h) = {}   -> "empty"
                         [] OTHER                -> "apply"
  <2>5. job' = [job EXCEPT !.at = answer, !.report = InRoom(job.h)]
    BY <1>7 DEF ReconcileAsk
  <2>6. answer \in {"reconciled", "empty", "apply"}
    OBVIOUS
  <2> HIDE DEF answer
  <2>2. PICK a \in {"reconciled", "empty", "apply"} : job' = [job EXCEPT !.at = a, !.report = InRoom(job.h)]
    BY <2>5, <2>6
  <2>3. InRoom(job.h) \in SUBSET Sids /\ job \in Pass /\ job.h \in Huddles
    BY <1>1, <2>1 DEF InRoom, JobOk
  <2>4. JobOk(job')
    BY <2>2, <2>3 DEF JobOk
  <2> QED
    BY <1>1, <1>2, <1>4, <2>1, <2>4, CallsInvParts
<1>8. CASE ReconcileEnd
  <2>1. UNCHANGED <<aged, outages>> /\ job' = NoJob
    BY <1>8 DEF ReconcileEnd
  <2>2. job.h \in Huddles /\ job.at \in Reasons /\ EndCall(job.h, job.at)
    BY <1>1, <1>8 DEF ReconcileEnd, JobOk, Reasons
  <2>3. DbOk(huddle', row') /\ ReasonsKept
    BY <1>1, <2>2, EndCallKeeps DEF DbOk
  <2> QED
    BY <1>1, <1>2, <1>3, <2>1, <2>3, CallsInvParts
<1>9. CASE ReconcileRoster
  <2>1. UNCHANGED <<huddle, aged, outages>> /\ job' = NoJob
    BY <1>9 DEF ReconcileRoster
  <2>2. row' \in [Sids -> {"none", "live", "left"}]
    BY <1>1, <1>9 DEF ReconcileRoster, DbOk
  <2> QED
    BY <1>1, <1>2, <1>3, <1>4, <2>1, <2>2, CallsInvParts DEF DbOk
<1>10. CASE ReconcileFails
  <2>1. UNCHANGED <<huddle, row, aged>> /\ job' = NoJob /\ outages' \in 0..MaxOutages
    BY <1>1, <1>10, HuddleAssumption DEF ReconcileFails, dbVars
  <2> QED
    BY <1>1, <1>2, <1>3, <1>4, <2>1, CallsInvParts
<1> QED
  BY <1>5, <1>6, <1>7, <1>8, <1>9, <1>10

LEMMA CallsStep == CallsInv /\ [HuddleNext]_huddlevars => CallsInv' /\ ReasonsKept
<1> SUFFICES ASSUME CallsInv, [HuddleNext]_huddlevars PROVE CallsInv' /\ ReasonsKept
  OBVIOUS
<1>1. CASE UNCHANGED huddlevars
  BY <1>1, CallsInvParts DEF huddlevars, ReasonsKept
<1> QED
  BY <1>1, RequestStep, SfuStep, HookStep, ReconcilerStep DEF HuddleNext

\* Whoever races to end a call, the End handler, the undo of a Start, room_finished or the
\* reconciler, the first reason written stays, and rows keep their constraint.
THEOREM FirstReasonStays == HuddleSpec => FirstReasonWins
<1>1. HuddleInit => CallsInv
  BY CallsInit
<1>2. CallsInv /\ [HuddleNext]_huddlevars => CallsInv'
  BY CallsStep
<1>3. CallsInv /\ [HuddleNext]_huddlevars
      => [HuddleTypeOK' /\ \A h \in Huddles : huddle[h].state = "ended" => huddle'[h] = huddle[h]]_huddlevars
  BY CallsStep DEF CallsInv, ReasonsKept
<1> QED
  BY <1>1, <1>2, <1>3, PTL DEF HuddleSpec, FirstReasonWins

-----------------------------------------------------------------------------
(* Messages.                                                               *)

(* The inductive invariant of a channel, in parts.  rows stands for msg.   *)

EventTypes == {"new", "updated", "deleted", "reaction.added", "reaction.removed"}
Ev == [type : EventTypes, m : MessageIds, text : Nat, ver : Nat, parent : MessageIds \cup {NoMessage},
       by : People \cup {NoMessage}]
Job == [kind : EventTypes \cup {"post"}, m : MessageIds, by : People \cup {NoMessage}]
Reading == [pc : {"read"}, jobs : Seq(Job)]
Telling == [pc : {"record", "publish", "mark"}, jobs : Seq(Job), ev : Ev]
Keys == (EventTypes \X MessageIds) \cup (EventTypes \X MessageIds \X Nat)
OutboxRow == [key : Keys, ev : Ev, done : BOOLEAN]

Sent(rows, m) == rows[m].st \in {"live", "deleted", "purged"}
Gone(rows, m) == rows[m].st \in {"deleted", "purged"}
LiveReplies(rows, p) == {r \in MessageIds : rows[r].parent = p /\ rows[r].st = "live"}

\* A parent was sent before its replies and is no reply; it is there as long as they are
\* and counts the live ones, or fewer once retention has taken from it what it did not count.
\* An id nobody took has an empty row.
ReplyOk(rows, m) ==
    rows[m].parent # NoMessage =>
        /\ Sent(rows, rows[m].parent) /\ rows[rows[m].parent].parent = NoMessage
        /\ rows[rows[m].parent].at < rows[m].at
        /\ rows[m].st \in {"scheduled", "live", "deleted"} => rows[rows[m].parent].st \in {"live", "deleted"}
CountOk(rows, m) ==
    /\ rows[m].count <= Cardinality(LiveReplies(rows, m))
    /\ rows[m].exact => rows[m].count = Cardinality(LiveReplies(rows, m))
TimelineOk(rows, n) ==
    /\ rows \in [MessageIds -> MessageRow] /\ n \in Nat
    /\ \A m \in MessageIds :
          /\ rows[m].at <= n /\ ReplyOk(rows, m)
          /\ rows[m].st = "none" => rows[m] = Blank
          /\ rows[m].st \in {"scheduled", "live", "deleted"} => CountOk(rows, m)

\* An event is about a message that was sent and says what its row says for good.
EventOk(rows, e) ==
    /\ e \in Ev /\ Sent(rows, e.m) /\ e.parent = rows[e.m].parent /\ e.by = rows[e.m].by
    /\ e.type = "deleted" => Gone(rows, e.m)
KeyOk(rows, k) ==
    /\ \A m \in MessageIds : k = <<"new", m>> => Sent(rows, m)
    /\ \A m \in MessageIds : k = <<"deleted", m>> => Gone(rows, m)
TaskOk(rows, j) ==
    j \in Job /\ (j.kind \in {"new", "post"} => Sent(rows, j.m)) /\ (j.kind = "deleted" => Gone(rows, j.m))
CallOk(rows, k) ==
    \/ k = Free
    \/ k \in Reading /\ k.jobs # <<>> /\ \A i \in DOMAIN k.jobs : TaskOk(rows, k.jobs[i])
    \/ k \in Telling /\ k.jobs # <<>> /\ (\A i \in DOMAIN k.jobs : TaskOk(rows, k.jobs[i])) /\ EventOk(rows, k.ev)
RequestsInv == \A c \in Clients : CallOk(msg, call[c])
OutboxInv ==
    /\ outbox \in Seq(OutboxRow) /\ sweep \in Seq(DOMAIN outbox)
    /\ \A i \in DOMAIN outbox : EventOk(msg, outbox[i].ev)
EventsInv ==
    /\ \A k \in recent : KeyOk(msg, k)
    /\ \A a \in announced : a \in EventTypes \X MessageIds /\ Sent(msg, a[2])
    /\ toIndex \in Seq(Ev) /\ \A i \in DOMAIN toIndex : EventOk(msg, toIndex[i])
    /\ toBadge \in Seq(Ev) /\ \A i \in DOMAIN toBadge : EventOk(msg, toBadge[i])
FollowersInv ==
    /\ \A d \in parked : EventOk(msg, d.ev) /\ d \in [ev : Ev, delivery : Nat]
    /\ promo \in Seq(MessageIds)
    /\ reacted \subseteq MessageIds /\ \A m \in reacted : Sent(msg, m)
    /\ DOMAIN index = MessageIds /\ \A m \in MessageIds : index[m] # NoBody => Sent(msg, m)

\* An event that is on its way will move the badge of u; rec stands for the duplicate
\* window, q for the events of the fan-out, calls and pr for the requests and promotions.
Moves(e, u) == e.parent = NoMessage /\ (e.type = "deleted" \/ (e.type = "new" /\ e.by # u))
Counts(rows, m, u) == rows[m].parent = NoMessage /\ rows[m].by # u
Fresh(rows, rec, m) == rows[m].st = "live" /\ <<"new", m>> \notin rec
CallTells(k, u, rows, rec) ==
    \/ k.pc = "read" /\ Head(k.jobs).kind = "post" /\ Counts(rows, Head(k.jobs).m, u)
    \/ /\ k.pc = "read" /\ Head(k.jobs).kind = "new" /\ Counts(rows, Head(k.jobs).m, u)
       /\ Fresh(rows, rec, Head(k.jobs).m)
    \/ k.pc \in {"record", "publish"} /\ Moves(k.ev, u) /\ eventKey(k.ev) \notin rec
OnTheWay(q, u) == \E i \in DOMAIN q : Moves(q[i], u)
Promoted(rows, rec, pr, u) == \E i \in DOMAIN pr : Counts(rows, pr[i], u) /\ Fresh(rows, rec, pr[i])
Awaiting(u, rows, rec, q, calls, pr) ==
    \/ OnTheWay(q, u)
    \/ \E c \in Clients : CallTells(calls[c], u, rows, rec)
    \/ Promoted(rows, rec, pr, u)
Awaits(u) == Awaiting(u, msg, recent, toBadge, call, promo)
Shown(u) == IF u \in DOMAIN fan THEN fan[u] ELSE badge[u]

\* Where nothing loses an event, the badge of each member is right or about to be.
ChannelInv ==
    /\ menv \in ChannelEnvironment
    /\ menv.badges => "badge" \in menv.consumers /\ \A op \in {"read", "crash", "fault", "purge"} : menv.ops[op] = 0
BadgeInv ==
    /\ DOMAIN badge = People /\ DOMAIN readAt = People /\ DOMAIN call = Clients
    /\ menv.badges => /\ DOMAIN marking = {}
                      /\ \A u \in People : Shown(u) = UnreadCount(u) \/ Awaits(u)

MessageInv == ChannelInv /\ TimelineOk(msg, now) /\ RequestsInv /\ OutboxInv /\ EventsInv /\ FollowersInv /\ BadgeInv

-----------------------------------------------------------------------------
(* Rows.                                                                   *)

LEMMA MessageFacts ==
    /\ MessageIds \subseteq Nat /\ NoMessage \notin MessageIds /\ NoMessage \notin People
    /\ IsFiniteSet(MessageIds) /\ Blank \in MessageRow
BY MessageAssumption DEF NoMessage, Blank, MessageRow

LEMMA MaxOfTwo ==
    ASSUME NEW x \in Int
    PROVE  Max({0, x}) = IF x > 0 THEN x ELSE 0
BY DEF Max

LEMMA RepliesFinite ==
    ASSUME NEW rows, NEW p
    PROVE  IsFiniteSet(LiveReplies(rows, p)) /\ Cardinality(LiveReplies(rows, p)) \in Nat
BY MessageFacts, FS_Subset, FS_CardinalityType DEF LiveReplies

LEMMA CountWithout ==
    ASSUME NEW S, NEW T, IsFiniteSet(S)
    PROVE  Cardinality(S \ T) = Cardinality(S) - Cardinality(S \cap T)
BY FS_Difference

\* What was sent stays sent and keeps its place and its author.
RowStep(rows, next) ==
    \A m \in MessageIds :
        /\ Sent(rows, m) => Sent(next, m) /\ next[m].parent = rows[m].parent /\ next[m].by = rows[m].by
        /\ Gone(rows, m) => Gone(next, m)

\* Columns no thread depends on.
LEMMA RowsTouched ==
    ASSUME NEW rows, NEW n, TimelineOk(rows, n), NEW next \in [MessageIds -> MessageRow], NEW m \in MessageIds,
           \A o \in MessageIds \ {m} : next[o] = rows[o],
           next[m].st = rows[m].st /\ next[m].parent = rows[m].parent /\ next[m].by = rows[m].by,
           next[m].at = rows[m].at /\ next[m].count = rows[m].count /\ next[m].exact = rows[m].exact, rows[m].st # "none"
    PROVE  TimelineOk(next, n) /\ RowStep(rows, next)
<1>1. \A o \in MessageIds : /\ next[o].st = rows[o].st /\ next[o].parent = rows[o].parent /\ next[o].by = rows[o].by
                            /\ next[o].at = rows[o].at /\ next[o].count = rows[o].count /\ next[o].exact = rows[o].exact
  OBVIOUS
<1>2. \A o : LiveReplies(next, o) = LiveReplies(rows, o)
  BY <1>1 DEF LiveReplies
<1>3. \A o \in MessageIds : rows[o].parent \in MessageIds \cup {NoMessage} /\ (next[o].st = "none" => next[o] = rows[o])
  BY <1>1 DEF TimelineOk, MessageRow
<1>4. ASSUME NEW o \in MessageIds PROVE ReplyOk(next, o)
  <2>1. ReplyOk(rows, o)
    BY DEF TimelineOk
  <2> QED
    BY <1>1, <1>3, <2>1 DEF ReplyOk, Sent
<1>5. ASSUME NEW o \in MessageIds
      PROVE  /\ next[o].at <= n /\ (next[o].st = "none" => next[o] = Blank)
             /\ next[o].st \in {"scheduled", "live", "deleted"} => CountOk(next, o)
  BY <1>1, <1>2, <1>3 DEF TimelineOk, CountOk
<1>6. RowStep(rows, next)
  BY <1>1 DEF RowStep, Sent, Gone
<1> QED
  BY <1>4, <1>5, <1>6 DEF TimelineOk

\* A new message, live or scheduled.
LEMMA RowsInserted ==
    ASSUME NEW rows, NEW n, TimelineOk(rows, n), NEW m \in MessageIds, rows[m].st = "none",
           NEW entry \in MessageRow, entry.st \in {"live", "scheduled"}, entry.at = n + 1, entry.count = 0,
           entry.parent # NoMessage => rows[entry.parent].st = "live" /\ rows[entry.parent].parent = NoMessage,
           NEW next \in [MessageIds -> MessageRow],
           \A o \in MessageIds : /\ next[o].st = IF o = m THEN entry.st ELSE rows[o].st
                                 /\ next[o].parent = IF o = m THEN entry.parent ELSE rows[o].parent
                                 /\ next[o].by = IF o = m THEN entry.by ELSE rows[o].by
                                 /\ next[o].at = IF o = m THEN entry.at ELSE rows[o].at
                                 /\ next[o].count = IF entry.st = "live" /\ o = entry.parent THEN rows[o].count + 1
                                                    ELSE IF o = m THEN 0 ELSE rows[o].count
                                 /\ o # m => next[o].exact = rows[o].exact
                                 /\ next[o].st = "none" => next[o] = rows[o]
    PROVE  TimelineOk(next, n + 1) /\ RowStep(rows, next)
<1>1. /\ n \in Nat /\ rows \in [MessageIds -> MessageRow] /\ rows[m] = Blank /\ entry.parent \in MessageIds \cup {NoMessage}
      /\ entry.parent # m
  BY MessageFacts DEF TimelineOk, MessageRow
<1>2. \A o \in MessageIds : rows[o].parent # m /\ ReplyOk(rows, o)
  BY MessageFacts, <1>1 DEF TimelineOk, ReplyOk, Sent
<1>3. \A o \in MessageIds : rows[o].at \in Nat /\ rows[o].at <= n /\ rows[o].parent \in MessageIds \cup {NoMessage}
  BY DEF TimelineOk, MessageRow
<1>4. ASSUME NEW o \in MessageIds PROVE ReplyOk(next, o)
  <2>1. CASE o = m
    BY <1>1, <1>3, <2>1 DEF ReplyOk, Sent
  <2>2. CASE o # m
    BY <1>1, <1>2, <1>3, <2>2 DEF ReplyOk, Sent
  <2> QED
    BY <2>1, <2>2
<1>5. ASSUME NEW o \in MessageIds, next[o].st \in {"scheduled", "live", "deleted"}
      PROVE  CountOk(next, o)
  <2>1. CASE o = m
    <3>1. LiveReplies(next, o) = {}
      BY <1>1, <1>2, <2>1 DEF LiveReplies
    <3> QED
      BY <1>1, <2>1, <3>1, FS_EmptySet DEF CountOk
  <2>2. CASE o # m /\ entry.st = "live" /\ o = entry.parent
    <3>1. LiveReplies(next, o) = LiveReplies(rows, o) \cup {m} /\ m \notin LiveReplies(rows, o)
      BY <2>2 DEF LiveReplies
    <3>2. CountOk(rows, o) /\ rows[o].count \in Nat
      BY <1>1, <1>5, <2>2 DEF TimelineOk, MessageRow
    <3>3. IsFiniteSet(LiveReplies(rows, o)) /\ Cardinality(LiveReplies(rows, o)) \in Nat
      BY RepliesFinite
    <3>4. Cardinality(LiveReplies(rows, o) \cup {m}) = Cardinality(LiveReplies(rows, o)) + 1
      BY <3>1, <3>3, FS_AddElement
    <3> QED
      BY <2>2, <3>1, <3>2, <3>3, <3>4 DEF CountOk
  <2>3. CASE o # m /\ ~(entry.st = "live" /\ o = entry.parent)
    <3>1. LiveReplies(next, o) = LiveReplies(rows, o)
      BY <2>3 DEF LiveReplies
    <3>2. CountOk(rows, o)
      BY <1>5, <2>3 DEF TimelineOk
    <3> QED
      BY <2>3, <3>1, <3>2 DEF CountOk
  <2> QED
    BY <2>1, <2>2, <2>3
<1>6. ASSUME NEW o \in MessageIds PROVE next[o].at <= n + 1 /\ (next[o].st = "none" => next[o] = Blank)
  BY <1>1, <1>3 DEF TimelineOk
<1>7. RowStep(rows, next)
  BY DEF RowStep, Sent, Gone
<1> QED
  BY <1>1, <1>4, <1>5, <1>6, <1>7 DEF TimelineOk

\* A live message is blanked and its thread told.
LEMMA RowsDeleted ==
    ASSUME NEW rows, NEW n, TimelineOk(rows, n), NEW m \in MessageIds, rows[m].st = "live",
           NEW next \in [MessageIds -> MessageRow],
           \A o \in MessageIds : /\ next[o].st = IF o = m THEN "deleted" ELSE rows[o].st
                                 /\ next[o].parent = rows[o].parent /\ next[o].by = rows[o].by
                                 /\ next[o].at = rows[o].at
                                 /\ next[o].count = IF o # rows[m].parent \/ rows[o].count = 0 THEN rows[o].count
                                                    ELSE rows[o].count - 1
                                 /\ next[o].exact = rows[o].exact
                                 /\ next[o].st = "none" => next[o] = rows[o]
    PROVE  TimelineOk(next, n) /\ RowStep(rows, next)
<1>1. /\ n \in Nat /\ rows \in [MessageIds -> MessageRow] /\ rows[m].parent \in MessageIds \cup {NoMessage}
      /\ rows[m].parent # m
  <2>1. /\ n \in Nat /\ rows \in [MessageIds -> MessageRow] /\ rows[m].parent \in MessageIds \cup {NoMessage}
        /\ ReplyOk(rows, m)
    BY DEF TimelineOk, MessageRow
  <2> QED
    BY <2>1, MessageFacts DEF ReplyOk
<1>3. \A o \in MessageIds : /\ rows[o].at \in Nat /\ rows[o].count \in Nat /\ rows[o].at <= n
                            /\ rows[o].parent \in MessageIds \cup {NoMessage} /\ ReplyOk(rows, o)
  BY DEF TimelineOk, MessageRow
<1>4. ASSUME NEW o \in MessageIds PROVE ReplyOk(next, o)
  BY <1>1, <1>3 DEF ReplyOk, Sent
<1>5. ASSUME NEW o \in MessageIds, next[o].st \in {"scheduled", "live", "deleted"}
      PROVE  CountOk(next, o)
  <2>0. CountOk(rows, o) /\ rows[o].count \in Nat
    BY <1>3, <1>5 DEF TimelineOk
  <2>2. CASE o = rows[m].parent
    <3>1. LiveReplies(next, o) = LiveReplies(rows, o) \ {m} /\ m \in LiveReplies(rows, o)
      BY <2>2 DEF LiveReplies
    <3>3. IsFiniteSet(LiveReplies(rows, o)) /\ Cardinality(LiveReplies(rows, o)) \in Nat
      BY RepliesFinite
    <3>4. Cardinality(LiveReplies(rows, o) \ {m}) = Cardinality(LiveReplies(rows, o)) - 1
      BY <3>1, <3>3, FS_RemoveElement
    <3>5. Cardinality(LiveReplies(rows, o)) # 0
      BY <3>1, <3>3, FS_EmptySet
    <3> QED
      BY <2>0, <2>2, <3>1, <3>3, <3>4, <3>5 DEF CountOk
  <2>3. CASE o # rows[m].parent
    <3>1. LiveReplies(next, o) = LiveReplies(rows, o)
      BY <2>3 DEF LiveReplies
    <3> QED
      BY <2>0, <2>3, <3>1 DEF CountOk
  <2> QED
    BY <2>2, <2>3
<1>6. ASSUME NEW o \in MessageIds PROVE next[o].at <= n /\ (next[o].st = "none" => next[o] = Blank)
  BY <1>1, <1>3 DEF TimelineOk
<1>7. RowStep(rows, next)
  BY DEF RowStep, Sent, Gone
<1> QED
  BY <1>1, <1>4, <1>5, <1>6, <1>7 DEF TimelineOk

LEMMA RowsCancelled ==
    ASSUME NEW rows, NEW n, TimelineOk(rows, n), NEW m \in MessageIds, rows[m].st = "scheduled",
           NEW next, next = [rows EXCEPT ![m].st = "dropped"]
    PROVE  TimelineOk(next, n) /\ RowStep(rows, next)
<1>1. rows \in [MessageIds -> MessageRow] /\ next \in [MessageIds -> MessageRow]
  BY DEF TimelineOk, MessageRow
<1>2. \A o \in MessageIds : /\ next[o].st = IF o = m THEN "dropped" ELSE rows[o].st
                            /\ next[o].parent = rows[o].parent /\ next[o].by = rows[o].by
                            /\ next[o].at = rows[o].at /\ next[o].count = rows[o].count /\ next[o].exact = rows[o].exact
                            /\ next[o].st = "none" => next[o] = rows[o]
  BY <1>1 DEF MessageRow
<1>3. \A o \in MessageIds : ReplyOk(rows, o) /\ rows[o].parent \in MessageIds \cup {NoMessage}
  BY DEF TimelineOk, MessageRow
<1>4. \A o \in MessageIds : ReplyOk(next, o)
  BY <1>2, <1>3 DEF ReplyOk, Sent
<1>5. \A o : LiveReplies(next, o) = LiveReplies(rows, o)
  BY <1>2 DEF LiveReplies
<1>6. RowStep(rows, next)
  BY <1>2 DEF RowStep, Sent, Gone
<1>7. ASSUME NEW o \in MessageIds
      PROVE  /\ next[o].at <= n /\ (next[o].st = "none" => next[o] = Blank)
             /\ next[o].st \in {"scheduled", "live", "deleted"} => CountOk(next, o)
  <2>1. next[o].st = "none" \/ next[o].st \in {"scheduled", "live", "deleted"} => next[o].st = rows[o].st
    BY <1>2
  <2>2. /\ rows[o].at <= n /\ (rows[o].st = "none" => rows[o] = Blank)
        /\ rows[o].st \in {"scheduled", "live", "deleted"} => CountOk(rows, o)
    BY DEF TimelineOk
  <2> QED
    BY <1>2, <1>5, <2>1, <2>2 DEF CountOk
<1> QED
  BY <1>1, <1>4, <1>6, <1>7 DEF TimelineOk

\* The rows after a promotion, and after a purge.
PromotionOf(rows, due, n, later, next) ==
    \A o \in MessageIds : /\ next[o].st = IF o \in due THEN "live" ELSE rows[o].st
                          /\ next[o].parent = rows[o].parent /\ next[o].by = rows[o].by
                          /\ IF o \in due THEN n < next[o].at /\ next[o].at <= later ELSE next[o].at = rows[o].at
                          /\ next[o].count = rows[o].count + Cardinality({m \in due : rows[m].parent = o})
                          /\ next[o].exact = rows[o].exact
                          /\ next[o].st = "none" => next[o] = rows[o]
LostOf(rows, T, o) == {r \in T : rows[r].parent = o}
PurgeOf(rows, T, next) ==
    \A o \in MessageIds :
       /\ next[o].parent = rows[o].parent /\ next[o].by = rows[o].by /\ next[o].at = rows[o].at
       /\ o \in T => next[o].st = IF rows[o].st = "scheduled" THEN "dropped" ELSE "purged"
       /\ o \notin T => next[o].st = rows[o].st
       /\ o \notin T /\ LostOf(rows, T, o) = {} => next[o] = rows[o]
       /\ o \notin T /\ LostOf(rows, T, o) # {} =>
             /\ next[o].count = Max({0, rows[o].count - Cardinality(LostOf(rows, T, o))})
             /\ next[o].exact => rows[o].exact /\ \A r \in LostOf(rows, T, o) : rows[r].st = "live"
WholeThreads(rows, T) ==
    /\ \A m \in T : rows[m].st \in {"scheduled", "live", "deleted"}
    /\ \A m \in MessageIds : rows[m].st \in {"scheduled", "live", "deleted"} /\ rows[m].parent \in T => m \in T

\* Due messages go live and their threads count them.
LEMMA RowsPromoted ==
    ASSUME NEW rows, NEW n, TimelineOk(rows, n), NEW due \in SUBSET MessageIds, \A m \in due : rows[m].st = "scheduled",
           NEW later \in Nat, n <= later, NEW next \in [MessageIds -> MessageRow],
           PromotionOf(rows, due, n, later, next)
    PROVE  TimelineOk(next, later) /\ RowStep(rows, next)
<1> USE DEF PromotionOf
<1>1. n \in Nat /\ rows \in [MessageIds -> MessageRow]
  BY DEF TimelineOk
<1>2. \A o \in MessageIds : /\ rows[o].at \in Nat /\ next[o].at \in Nat /\ rows[o].count \in Nat /\ rows[o].at <= n
                            /\ rows[o].parent \in MessageIds \cup {NoMessage} /\ ReplyOk(rows, o)
  BY DEF TimelineOk, MessageRow
<1>a. ASSUME NEW o \in MessageIds PROVE rows[o].at <= next[o].at
  <2>1. CASE o \in due
    <3>1. n < next[o].at
      BY <2>1
    <3> QED
      BY <1>1, <1>2, <3>1
  <2>2. CASE o \notin due
    <3>1. next[o].at = rows[o].at
      BY <2>2
    <3> QED
      BY <1>2, <3>1
  <2> QED
    BY <2>1, <2>2
<1>b. ASSUME NEW o \in MessageIds PROVE next[o].at <= later
  <2>1. CASE o \in due
    BY <2>1
  <2>2. CASE o \notin due
    <3>1. next[o].at = rows[o].at
      BY <2>2
    <3> QED
      BY <1>1, <1>2, <3>1
  <2> QED
    BY <2>1, <2>2
<1>3. ASSUME NEW o \in MessageIds PROVE ReplyOk(next, o)
  <2>1. CASE rows[o].parent = NoMessage
    BY <2>1 DEF ReplyOk
  <2>2. CASE rows[o].parent # NoMessage
    <3>1. PICK p \in MessageIds : p = rows[o].parent
      BY <1>2, <2>2
    <3>2. /\ Sent(rows, p) /\ rows[p].parent = NoMessage /\ rows[p].at < rows[o].at
          /\ rows[o].st \in {"scheduled", "live", "deleted"} => rows[p].st \in {"live", "deleted"}
      BY <1>2, <2>2, <3>1 DEF ReplyOk
    <3>3. p \notin due
      BY <3>2 DEF Sent
    <3>4. next[p].st = rows[p].st /\ next[p].parent = NoMessage /\ next[p].at = rows[p].at /\ next[o].parent = p
      BY <3>1, <3>2, <3>3
    <3>5. rows[p].at < next[o].at
      BY <1>a, <1>2, <3>2
    <3>6. next[o].st \in {"scheduled", "live", "deleted"} => rows[p].st \in {"live", "deleted"}
      BY <3>2
    <3> QED
      BY <3>2, <3>4, <3>5, <3>6 DEF ReplyOk, Sent
  <2> QED
    BY <2>1, <2>2
<1>4. ASSUME NEW o \in MessageIds, next[o].st \in {"scheduled", "live", "deleted"}
      PROVE  CountOk(next, o)
  <2> DEFINE more == {m \in due : rows[m].parent = o}
  <2>1. CountOk(rows, o) /\ rows[o].count \in Nat /\ next[o].exact = rows[o].exact
    BY <1>2, <1>4 DEF TimelineOk
  <2>2. LiveReplies(next, o) = LiveReplies(rows, o) \cup more /\ LiveReplies(rows, o) \cap more = {}
    BY DEF LiveReplies
  <2>3. IsFiniteSet(LiveReplies(rows, o)) /\ Cardinality(LiveReplies(rows, o)) \in Nat
    BY RepliesFinite
  <2>4. IsFiniteSet(more) /\ Cardinality(more) \in Nat
    BY MessageFacts, FS_Subset, FS_CardinalityType
  <2>5. next[o].count = rows[o].count + Cardinality(more)
    OBVIOUS
  <2> HIDE DEF more
  <2>6. Cardinality(LiveReplies(rows, o) \cup more) =
            Cardinality(LiveReplies(rows, o)) + Cardinality(more) - Cardinality(LiveReplies(rows, o) \cap more)
    BY <2>3, <2>4, FS_Union
  <2>7. Cardinality(LiveReplies(rows, o) \cap more) = 0
    BY <2>2, FS_EmptySet
  <2> QED
    BY <2>1, <2>2, <2>3, <2>4, <2>5, <2>6, <2>7 DEF CountOk
<1>5. ASSUME NEW o \in MessageIds PROVE next[o].at <= later /\ (next[o].st = "none" => next[o] = Blank)
  <2>1. next[o].at <= later
    BY <1>b
  <2>2. next[o].st = "none" => rows[o].st = "none" /\ next[o] = rows[o]
    OBVIOUS
  <2> QED
    BY <2>1, <2>2 DEF TimelineOk
<1>6. RowStep(rows, next)
  BY DEF RowStep, Sent, Gone
<1> QED
  BY <1>3, <1>4, <1>5, <1>6 DEF TimelineOk

\* A thread goes with its root; a root that stays loses what it counted, or more.
LEMMA RowsPurged ==
    ASSUME NEW rows, NEW n, TimelineOk(rows, n), NEW T \in SUBSET MessageIds,
           WholeThreads(rows, T), NEW next \in [MessageIds -> MessageRow], PurgeOf(rows, T, next)
    PROVE  TimelineOk(next, n) /\ RowStep(rows, next)
<1> USE DEF PurgeOf, WholeThreads
<1>1. n \in Nat /\ rows \in [MessageIds -> MessageRow]
  BY DEF TimelineOk
<1>2. \A o \in MessageIds : /\ rows[o].at \in Nat /\ rows[o].at <= n
                            /\ rows[o].parent \in MessageIds \cup {NoMessage} /\ ReplyOk(rows, o)
                            /\ next[o].parent = rows[o].parent /\ next[o].by = rows[o].by /\ next[o].at = rows[o].at
  BY DEF TimelineOk, MessageRow
<1>3. RowStep(rows, next)
  <2>1. \A o \in MessageIds : Sent(rows, o) => Sent(next, o)
    BY DEF Sent
  <2>2. \A o \in MessageIds : Gone(rows, o) => Gone(next, o)
    BY DEF Gone
  <2> QED
    BY <1>2, <2>1, <2>2 DEF RowStep
<1>4. ASSUME NEW o \in MessageIds PROVE ReplyOk(next, o)
  <2>1. CASE rows[o].parent = NoMessage
    BY <1>2, <2>1 DEF ReplyOk
  <2>2. CASE rows[o].parent # NoMessage
    <3>1. PICK p \in MessageIds : p = rows[o].parent
      BY <1>2, <2>2
    <3>2. /\ Sent(rows, p) /\ rows[p].parent = NoMessage /\ rows[p].at < rows[o].at
          /\ rows[o].st \in {"scheduled", "live", "deleted"} => rows[p].st \in {"live", "deleted"}
      BY <1>2, <2>2, <3>1 DEF ReplyOk
    <3>3. Sent(next, p) /\ next[p].parent = NoMessage /\ next[p].at = rows[p].at /\ next[o].parent = p
      BY <1>2, <1>3, <3>1, <3>2 DEF RowStep
    <3>4. ASSUME next[o].st \in {"scheduled", "live", "deleted"} PROVE next[p].st \in {"live", "deleted"}
      <4>1. o \notin T
        BY <3>4
      <4>2. next[o].st = rows[o].st /\ p \notin T
        BY <2>2, <3>1, <3>4, <4>1
      <4> QED
        BY <3>2, <3>4, <4>2
    <3> QED
      BY <1>2, <3>2, <3>3, <3>4 DEF ReplyOk
  <2> QED
    BY <2>1, <2>2
<1>5. ASSUME NEW o \in MessageIds, next[o].st \in {"scheduled", "live", "deleted"}
      PROVE  CountOk(next, o)
  <2>1. o \notin T /\ next[o].st = rows[o].st
    BY <1>5
  <2>2. CountOk(rows, o) /\ rows[o].count \in Nat
    BY <1>1, <1>5, <2>1 DEF TimelineOk, MessageRow
  <2>3. CASE LostOf(rows, T, o) = {}
    <3>1. \A r \in MessageIds : rows[r].parent = o => r \notin T
      BY <2>3 DEF LostOf
    <3>2. \A r \in MessageIds : rows[r].parent = o => next[r].st = rows[r].st
      BY <3>1
    <3>3. LiveReplies(next, o) = LiveReplies(rows, o)
      BY <1>2, <3>2 DEF LiveReplies
    <3> QED
      BY <2>1, <2>2, <2>3, <3>3 DEF CountOk
  <2>4. CASE LostOf(rows, T, o) # {}
    <3>1. PICK lost : lost = LostOf(rows, T, o)
      OBVIOUS
    <3>2. PICK live : live = LiveReplies(rows, o)
      OBVIOUS
    <3>3. IsFiniteSet(lost) /\ Cardinality(lost) \in Nat
      BY <3>1, MessageFacts, FS_Subset, FS_CardinalityType DEF LostOf
    <3>4. IsFiniteSet(live) /\ Cardinality(live) \in Nat
      BY <3>2, RepliesFinite
    <3>5. LiveReplies(next, o) = live \ lost
      <4>1. \A r \in MessageIds : r \in lost <=> r \in T /\ rows[r].parent = o
        BY <3>1 DEF LostOf
      <4>2. \A r \in MessageIds : r \in T => next[r].st # "live"
        OBVIOUS
      <4>3. \A r \in MessageIds : r \notin T => next[r].st = rows[r].st
        OBVIOUS
      <4> QED
        BY <1>2, <3>2, <4>1, <4>2, <4>3 DEF LiveReplies
    <3>6. Cardinality(live \ lost) = Cardinality(live) - Cardinality(live \cap lost)
      BY ONLY <3>4, CountWithout, Zenon
    <3>7. Cardinality(live \cap lost) \in Nat /\ Cardinality(live \cap lost) <= Cardinality(lost)
      BY <3>3, FS_Subset, FS_CardinalityType
    <3>8. Cardinality(live \ lost) \in Nat
      BY <3>4, FS_Subset, FS_CardinalityType
    <3>9. next[o].count = IF rows[o].count - Cardinality(lost) > 0 THEN rows[o].count - Cardinality(lost) ELSE 0
      <4>1. rows[o].count - Cardinality(lost) \in Int
        BY <2>2, <3>3
      <4>2. next[o].count = Max({0, rows[o].count - Cardinality(lost)})
        BY <2>1, <2>4, <3>1, Zenon DEF PurgeOf
      <4>3. PICK x \in Int : x = rows[o].count - Cardinality(lost)
        BY <4>1
      <4> QED
        BY <4>2, <4>3, MaxOfTwo
    <3>10. ASSUME next[o].exact PROVE rows[o].exact /\ live \cap lost = lost
      <4>1. rows[o].exact /\ \A r \in lost : rows[r].st = "live" /\ rows[r].parent = o /\ r \in MessageIds
        BY <2>1, <2>4, <3>1, <3>10 DEF LostOf
      <4> QED
        BY <3>2, <4>1 DEF LiveReplies
    <3>11. rows[o].count <= Cardinality(live) /\ (rows[o].exact => rows[o].count = Cardinality(live))
      BY <2>2, <3>2 DEF CountOk
    <3>12. next[o].count <= Cardinality(live \ lost)
      BY <2>2, <3>3, <3>4, <3>6, <3>7, <3>8, <3>9, <3>11
    <3>13. ASSUME next[o].exact PROVE next[o].count = Cardinality(live \ lost)
      <4>1. rows[o].count = Cardinality(live) /\ Cardinality(live \cap lost) = Cardinality(lost)
        BY <3>10, <3>11, <3>13
      <4> QED
        BY <2>2, <3>3, <3>4, <3>6, <3>8, <3>9, <4>1
    <3> QED
      BY <3>5, <3>12, <3>13 DEF CountOk
  <2> QED
    BY <2>3, <2>4
<1>6. ASSUME NEW o \in MessageIds PROVE next[o].at <= n /\ (next[o].st = "none" => next[o] = Blank)
  <2>1. ASSUME next[o].st = "none" PROVE next[o] = rows[o]
    <3>1. o \notin T /\ rows[o].st = "none"
      BY <2>1
    <3>2. LostOf(rows, T, o) = {}
      <4>1. ASSUME NEW r \in T, rows[r].parent = o PROVE FALSE
        <5>1. o # NoMessage /\ ReplyOk(rows, r)
          BY <1>2, MessageFacts
        <5> QED
          BY <3>1, <4>1, <5>1 DEF ReplyOk, Sent
      <4> QED
        BY <4>1 DEF LostOf
    <3> QED
      BY <3>1, <3>2
  <2> QED
    BY <1>2, <2>1 DEF TimelineOk
<1> QED
  BY <1>1, <1>3, <1>4, <1>5, <1>6 DEF TimelineOk

-----------------------------------------------------------------------------
(* Events.                                                                 *)

LEMMA EventKept ==
    ASSUME NEW rows, NEW next, RowStep(rows, next), NEW e, EventOk(rows, e)
    PROVE  EventOk(next, e)
<1>1. e.m \in MessageIds
  BY DEF EventOk, Ev
<1> QED
  BY <1>1 DEF EventOk, RowStep

LEMMA KeyKept ==
    ASSUME NEW rows, NEW next, RowStep(rows, next), NEW k, KeyOk(rows, k)
    PROVE  KeyOk(next, k)
BY DEF KeyOk, RowStep

LEMMA CallKept ==
    ASSUME NEW rows, NEW next, RowStep(rows, next), NEW k, CallOk(rows, k)
    PROVE  CallOk(next, k)
<1>1. ASSUME NEW j, TaskOk(rows, j) PROVE TaskOk(next, j)
  BY <1>1 DEF TaskOk, Job, RowStep
<1> QED
  BY <1>1, EventKept DEF CallOk

LEMMA SameRows ==
    ASSUME UNCHANGED msg
    PROVE  RowStep(msg, msg')
BY DEF RowStep, Sent, Gone

LEMMA RequestsStep ==
    ASSUME RequestsInv, RowStep(msg, msg'), DOMAIN call = Clients, NEW c \in Clients, NEW k, CallOk(msg', k),
           call' = [call EXCEPT ![c] = k]
    PROVE  RequestsInv' /\ DOMAIN call' = Clients
<1>1. ASSUME NEW d \in Clients PROVE CallOk(msg', call'[d])
  <2>1. CASE d = c
    <3>1. call'[d] = k
      BY <2>1
    <3> QED
      BY <3>1
  <2>2. CASE d # c
    <3>1. call'[d] = call[d]
      BY <2>2
    <3>2. CallOk(msg, call[d])
      BY DEF RequestsInv
    <3> QED
      BY <3>1, <3>2, CallKept
  <2> QED
    BY <2>1, <2>2
<1> QED
  BY <1>1 DEF RequestsInv

LEMMA RequestsStill ==
    ASSUME RequestsInv, RowStep(msg, msg'), UNCHANGED call
    PROVE  RequestsInv'
<1>1. ASSUME NEW d \in Clients PROVE CallOk(msg', call'[d])
  <2>1. CallOk(msg, call[d]) /\ call'[d] = call[d]
    BY DEF RequestsInv
  <2> QED
    BY <2>1, CallKept
<1> QED
  BY <1>1 DEF RequestsInv

LEMMA OutboxStill ==
    ASSUME OutboxInv, RowStep(msg, msg'), UNCHANGED <<outbox, sweep>>
    PROVE  OutboxInv'
<1>1. ASSUME NEW i \in DOMAIN outbox PROVE EventOk(msg', outbox[i].ev)
  BY EventKept DEF OutboxInv
<1> QED
  BY <1>1 DEF OutboxInv

LEMMA EventsStill ==
    ASSUME EventsInv, RowStep(msg, msg'), UNCHANGED streamVars
    PROVE  EventsInv'
<1>1. ASSUME NEW k \in recent PROVE KeyOk(msg', k)
  BY KeyKept DEF EventsInv
<1>2. ASSUME NEW a \in announced PROVE a \in EventTypes \X MessageIds /\ Sent(msg', a[2])
  BY DEF EventsInv, RowStep
<1>3. ASSUME NEW i \in DOMAIN toIndex PROVE EventOk(msg', toIndex[i])
  BY EventKept DEF EventsInv
<1>4. ASSUME NEW i \in DOMAIN toBadge PROVE EventOk(msg', toBadge[i])
  BY EventKept DEF EventsInv
<1> QED
  BY <1>1, <1>2, <1>3, <1>4 DEF EventsInv, streamVars

LEMMA FollowersStill ==
    ASSUME FollowersInv, RowStep(msg, msg'), UNCHANGED <<parked, promo, reacted, index>>
    PROVE  FollowersInv'
<1>1. ASSUME NEW d \in parked PROVE EventOk(msg', d.ev)
  BY EventKept DEF FollowersInv
<1>2. \A m \in MessageIds : Sent(msg, m) => Sent(msg', m)
  BY DEF RowStep
<1>3. reacted \subseteq MessageIds /\ \A m \in reacted : Sent(msg', m)
  BY <1>2 DEF FollowersInv
<1> QED
  BY <1>1, <1>2, <1>3 DEF FollowersInv

LEMMA KeyOfEvent ==
    ASSUME NEW rows, NEW e, EventOk(rows, e)
    PROVE  KeyOk(rows, eventKey(e)) /\ eventKey(e) \in Keys
<1>1. e.type \in EventTypes /\ e.m \in MessageIds /\ e.ver \in Nat
  BY DEF EventOk, Ev
<1>2. CASE e.type = "updated"
  BY <1>1, <1>2 DEF eventKey, KeyOk, Keys
<1>3. CASE e.type # "updated"
  BY <1>1, <1>3 DEF eventKey, KeyOk, Keys, EventOk
<1> QED
  BY <1>2, <1>3

\* What the stream takes is sent, and its key is of something sent.
LEMMA DeliverKeeps ==
    ASSUME EventsInv, UNCHANGED msg, NEW e, EventOk(msg, e), NEW keyed \in BOOLEAN, Deliver(e, keyed)
    PROVE  EventsInv'
<1>1. CASE UNCHANGED streamVars
  BY <1>1, SameRows, EventsStill
<1>2. CASE /\ recent' = IF keyed THEN recent \cup {eventKey(e)} ELSE recent
           /\ announced' = announced \cup {<<e.type, e.m>>}
           /\ toIndex' = toIndex \/ toIndex' = Append(toIndex, e)
           /\ toBadge' = toBadge \/ toBadge' = Append(toBadge, e)
  <2>1. e \in Ev /\ e.type \in EventTypes /\ e.m \in MessageIds /\ Sent(msg, e.m)
    BY DEF EventOk, Ev
  <2>2. \A k \in recent' : KeyOk(msg, k)
    BY <1>2, KeyOfEvent DEF EventsInv
  <2>3. \A a \in announced' : a \in EventTypes \X MessageIds /\ Sent(msg, a[2])
    BY <1>2, <2>1 DEF EventsInv
  <2>4. ASSUME NEW q \in Seq(Ev), \A i \in DOMAIN q : EventOk(msg, q[i]),
               NEW q2, q2 = q \/ q2 = Append(q, e)
        PROVE  q2 \in Seq(Ev) /\ \A i \in DOMAIN q2 : EventOk(msg, q2[i])
    <3>1. CASE q2 = q
      BY <2>4, <3>1
    <3>2. CASE q2 = Append(q, e)
      <4>1. q2 \in Seq(Ev) /\ \A i \in DOMAIN q2 : q2[i] = e \/ (i \in DOMAIN q /\ q2[i] = q[i])
        BY <2>1, <3>2
      <4> QED
        BY <2>4, <4>1
    <3> QED
      BY <2>4, <3>1, <3>2
  <2>5. toIndex' \in Seq(Ev) /\ \A i \in DOMAIN toIndex' : EventOk(msg, toIndex'[i])
    BY <1>2, <2>4 DEF EventsInv
  <2>6. toBadge' \in Seq(Ev) /\ \A i \in DOMAIN toBadge' : EventOk(msg, toBadge'[i])
    BY <1>2, <2>4 DEF EventsInv
  <2> QED
    BY <2>2, <2>3, <2>5, <2>6 DEF EventsInv
<1> QED
  BY <1>1, <1>2 DEF Deliver

-----------------------------------------------------------------------------
(* Badges.                                                                 *)

\* Live messages of the timeline stay.
TopsStay(rows, next) == \A m \in MessageIds : rows[m].st = "live" /\ rows[m].parent = NoMessage => next[m].st = "live"

LEMMA FirstJob ==
    ASSUME NEW rows, NEW k, CallOk(rows, k), k.pc # "free"
    PROVE  /\ k.jobs \in Seq(Job) /\ k.jobs # <<>> /\ Head(k.jobs) = k.jobs[1] /\ TaskOk(rows, Head(k.jobs))
           /\ Tail(k.jobs) \in Seq(Job) /\ \A i \in DOMAIN Tail(k.jobs) : TaskOk(rows, Tail(k.jobs)[i])
<1>1. k.jobs \in Seq(Job) /\ k.jobs # <<>> /\ \A i \in DOMAIN k.jobs : TaskOk(rows, k.jobs[i])
  BY DEF CallOk, Reading, Telling, Free
<1>2. PICK jobs \in Seq(Job) : jobs = k.jobs /\ jobs # <<>>
  BY <1>1
<1>3. /\ Head(jobs) = jobs[1] /\ 1 \in DOMAIN jobs /\ Tail(jobs) \in Seq(Job)
      /\ \A i \in DOMAIN Tail(jobs) : i + 1 \in DOMAIN jobs /\ Tail(jobs)[i] = jobs[i + 1]
  BY <1>2
<1> QED
  BY <1>1, <1>2, <1>3

LEMMA TellsKept ==
    ASSUME NEW u, NEW rows, NEW next, RowStep(rows, next), TopsStay(rows, next), NEW rec, NEW rec2, rec2 \subseteq rec,
           NEW k, CallOk(rows, k), CallTells(k, u, rows, rec)
    PROVE  CallTells(k, u, next, rec2)
<1>1. CASE k.pc = "read"
  <2>1. PICK j : j = Head(k.jobs)
    OBVIOUS
  <2>2. j \in Job /\ j.m \in MessageIds /\ (j.kind \in {"new", "post"} => Sent(rows, j.m))
    BY <1>1, <2>1, FirstJob DEF TaskOk, Job
  <2>3. CASE j.kind = "post" /\ Counts(rows, j.m, u)
    <3>1. Counts(next, j.m, u)
      BY <2>2, <2>3 DEF Counts, RowStep
    <3> QED
      BY <1>1, <2>1, <2>3, <3>1 DEF CallTells
  <2>4. CASE j.kind = "new" /\ Counts(rows, j.m, u) /\ Fresh(rows, rec, j.m)
    <3>1. Counts(next, j.m, u) /\ Fresh(next, rec2, j.m)
      BY <2>2, <2>4 DEF Counts, RowStep, TopsStay, Fresh
    <3> QED
      BY <1>1, <2>1, <2>4, <3>1 DEF CallTells
  <2> QED
    BY <1>1, <2>1, <2>3, <2>4 DEF CallTells
<1>2. CASE k.pc # "read"
  BY <1>2 DEF CallTells
<1> QED
  BY <1>1, <1>2

\* Of the promotions to announce only those leave that nobody needs to hear of.
Carried(rows, rec, pr, pr2) ==
    \A i \in DOMAIN pr : (\E j \in DOMAIN pr2 : pr2[j] = pr[i]) \/ ~Fresh(rows, rec, pr[i])

LEMMA AwaitKept ==
    ASSUME NEW u, NEW rows, NEW next, RowStep(rows, next), TopsStay(rows, next), NEW rec, NEW rec2, rec2 \subseteq rec,
           NEW q, NEW q2, OnTheWay(q, u) => OnTheWay(q2, u), NEW calls, NEW calls2,
           \A c \in Clients : CallOk(rows, calls[c]) /\ \/ calls2[c] = calls[c]
                                                        \/ ~CallTells(calls[c], u, rows, rec)
                                                        \/ CallTells(calls2[c], u, next, rec2),
           NEW pr \in Seq(MessageIds), NEW pr2,
           Carried(rows, rec, pr, pr2),
           Awaiting(u, rows, rec, q, calls, pr)
    PROVE  Awaiting(u, next, rec2, q2, calls2, pr2)
<1>1. CASE OnTheWay(q, u)
  BY <1>1 DEF Awaiting
<1>2. ASSUME NEW c \in Clients, CallTells(calls[c], u, rows, rec)
      PROVE  Awaiting(u, next, rec2, q2, calls2, pr2)
  <2>1. CallTells(calls[c], u, next, rec2)
    BY <1>2, TellsKept
  <2> QED
    BY <1>2, <2>1 DEF Awaiting
<1>3. ASSUME NEW i \in DOMAIN pr, Counts(rows, pr[i], u), Fresh(rows, rec, pr[i])
      PROVE  Awaiting(u, next, rec2, q2, calls2, pr2)
  <2>1. PICK m \in MessageIds : m = pr[i]
    OBVIOUS
  <2>2. Counts(next, m, u) /\ Fresh(next, rec2, m)
    BY <1>3, <2>1 DEF Counts, Fresh, RowStep, TopsStay, Sent
  <2>3. PICK j \in DOMAIN pr2 : pr2[j] = m
    BY <1>3, <2>1 DEF Carried
  <2> QED
    BY <2>2, <2>3 DEF Awaiting, Promoted
<1> QED
  BY <1>1, <1>2, <1>3 DEF Awaiting, Promoted

\* An event that the stream takes is queued for the fan-out.
LEMMA DeliverAwaited ==
    ASSUME NEW u, NEW rows, NEW e, EventOk(rows, e), NEW rec, NEW q \in Seq(Ev), NEW calls, NEW pr \in Seq(MessageIds),
           \A c \in Clients : CallOk(rows, calls[c]), Awaiting(u, rows, rec, q, calls, pr),
           NEW q2, q2 = IF e.type \in {"new", "deleted"} THEN Append(q, e) ELSE q
    PROVE  Awaiting(u, rows, rec \cup {eventKey(e)}, q2, calls, pr)
<1>1. e \in Ev /\ e.type \in EventTypes /\ e.m \in MessageIds
  BY DEF EventOk, Ev
<1>2. OnTheWay(q, u) => OnTheWay(q2, u)
  <2>1. CASE e.type \in {"new", "deleted"}
    <3>1. q2 = Append(q, e) /\ \A i \in DOMAIN q : i \in DOMAIN q2 /\ q2[i] = q[i]
      BY <1>1, <2>1
    <3> QED
      BY <3>1 DEF OnTheWay
  <2>2. CASE e.type \notin {"new", "deleted"}
    BY <2>2
  <2> QED
    BY <2>1, <2>2
<1>3. ASSUME e.type \in {"new", "deleted"}, Moves(e, u) PROVE OnTheWay(q2, u)
  <2>1. q2 = Append(q, e) /\ Len(q) + 1 \in DOMAIN q2 /\ q2[Len(q) + 1] = e
    BY <1>1, <1>3
  <2> QED
    BY <1>3, <2>1 DEF OnTheWay
<1>4. ASSUME NEW m \in MessageIds, Counts(rows, m, u), eventKey(e) = <<"new", m>> PROVE OnTheWay(q2, u)
  <2>1. e.type = "new" /\ e.m = m
    BY <1>1, <1>4 DEF eventKey
  <2> QED
    BY <1>3, <1>4, <2>1 DEF EventOk, Moves, Counts
<1>5. ASSUME NEW c \in Clients, CallTells(calls[c], u, rows, rec)
      PROVE  OnTheWay(q2, u) \/ CallTells(calls[c], u, rows, rec \cup {eventKey(e)})
  <2>1. PICK k : k = calls[c] /\ CallOk(rows, k)
    OBVIOUS
  <2>2. CASE k.pc = "read"
    <3>1. PICK j : j = Head(k.jobs) /\ j.m \in MessageIds
      BY <2>1, <2>2, FirstJob DEF TaskOk, Job
    <3>2. CASE eventKey(e) = <<"new", j.m>> /\ Counts(rows, j.m, u)
      BY <1>4, <3>1, <3>2
    <3>3. CASE ~(eventKey(e) = <<"new", j.m>> /\ Counts(rows, j.m, u))
      BY <1>5, <2>1, <2>2, <3>1, <3>3 DEF CallTells, Fresh
    <3> QED
      BY <3>2, <3>3
  <2>3. CASE k.pc \in {"record", "publish"} /\ eventKey(k.ev) = eventKey(e)
    <3>1. EventOk(rows, k.ev) /\ Moves(k.ev, u)
      BY <1>5, <2>1, <2>3 DEF CallOk, CallTells, Free, Reading
    <3>2. k.ev.type \in EventTypes /\ k.ev.m \in MessageIds
      BY <3>1 DEF EventOk, Ev
    <3>3. k.ev.type = e.type /\ k.ev.m = e.m
      BY <1>1, <2>3, <3>2 DEF eventKey
    <3> QED
      BY <1>3, <3>1, <3>3 DEF EventOk, Moves
  <2>4. CASE k.pc \in {"record", "publish"} /\ eventKey(k.ev) # eventKey(e)
    BY <1>5, <2>1, <2>4 DEF CallTells
  <2> QED
    BY <1>5, <2>1, <2>2, <2>3, <2>4 DEF CallTells
<1>6. ASSUME NEW i \in DOMAIN pr, Counts(rows, pr[i], u), Fresh(rows, rec, pr[i])
      PROVE  OnTheWay(q2, u) \/ Fresh(rows, rec \cup {eventKey(e)}, pr[i])
  BY <1>4, <1>6 DEF Fresh
<1>7. CASE OnTheWay(q, u)
  BY <1>2, <1>7 DEF Awaiting
<1>8. CASE \E c \in Clients : CallTells(calls[c], u, rows, rec)
  BY <1>5, <1>8 DEF Awaiting
<1>9. CASE Promoted(rows, rec, pr, u)
  BY <1>6, <1>9 DEF Awaiting, Promoted
<1> QED
  BY <1>7, <1>8, <1>9 DEF Awaiting

LEMMA UnreadSame ==
    ASSUME NEW rows, NEW next, NEW reads, NEW u,
           \A m \in MessageIds : rows[m].st = "live" /\ rows[m].parent = NoMessage /\ rows[m].by # u
                                 <=> next[m].st = "live" /\ next[m].parent = NoMessage /\ next[m].by # u,
           \A m \in MessageIds : rows[m].st = "live" /\ rows[m].parent = NoMessage => next[m].at = rows[m].at
    PROVE  UnreadIn(next, reads, u) = UnreadIn(rows, reads, u)
<1>1. {m \in MessageIds : /\ next[m].st = "live" /\ next[m].parent = NoMessage
                          /\ next[m].by # u /\ next[m].at > reads[u]}
      = {m \in MessageIds : /\ rows[m].st = "live" /\ rows[m].parent = NoMessage
                            /\ rows[m].by # u /\ rows[m].at > reads[u]}
  OBVIOUS
<1> QED
  BY <1>1 DEF UnreadIn

LEMMA SpendKeeps ==
    ASSUME ChannelInv, NEW op \in Operations, Can(op), Spend(op)
    PROVE  /\ ChannelInv' /\ menv'.badges = menv.badges
           /\ menv.badges => op \notin {"read", "crash", "fault", "purge"}
<1>1. menv.ops[op] \in Nat \ {0} /\ menv \in ChannelEnvironment /\ menv.ops \in [Operations -> Nat]
  BY DEF ChannelInv, ChannelEnvironment, Can
<1>2. PICK ops \in [Operations -> Nat] : ops = [menv.ops EXCEPT ![op] = @ - 1]
  <2>1. PICK old \in [Operations -> Nat] : old = menv.ops /\ old[op] - 1 \in Nat
    BY <1>1
  <2>2. [old EXCEPT ![op] = @ - 1] \in [Operations -> Nat]
    BY <2>1
  <2> QED
    BY <2>1, <2>2
<1>3. menv' = [menv EXCEPT !.ops = ops]
  BY <1>1, <1>2 DEF Spend, ChannelEnvironment
<1>4. menv' \in ChannelEnvironment /\ menv'.ops = ops /\ menv'.badges = menv.badges /\ menv'.consumers = menv.consumers
  BY <1>1, <1>3 DEF ChannelEnvironment
<1>5. menv.badges => op \notin {"read", "crash", "fault", "purge"}
  BY <1>1 DEF ChannelInv
<1>6. \A o \in Operations \ {op} : ops[o] = menv.ops[o]
  BY <1>1, <1>2
<1>7. {"read", "crash", "fault", "purge"} \subseteq Operations
  BY DEF Operations
<1> QED
  BY <1>4, <1>5, <1>6, <1>7 DEF ChannelInv

LEMMA BadgeStill ==
    ASSUME BadgeInv, RequestsInv, FollowersInv, menv'.badges = menv.badges, RowStep(msg, msg'),
           UNCHANGED <<readAt, badge, fan, marking>>, recent' \subseteq recent, DOMAIN call' = Clients,
           ASSUME NEW u \in People, menv.badges
           PROVE  \/ Awaits(u)'
                  \/ /\ TopsStay(msg, msg') /\ UnreadIn(msg', readAt, u) = UnreadIn(msg, readAt, u)
                     /\ OnTheWay(toBadge, u) => OnTheWay(toBadge', u)
                     /\ Carried(msg, recent, promo, promo')
                     /\ \A c \in Clients : \/ call'[c] = call[c]
                                           \/ ~CallTells(call[c], u, msg, recent)
                                           \/ CallTells(call'[c], u, msg', recent')
    PROVE  BadgeInv'
<1>1. ASSUME NEW u \in People, menv.badges PROVE Shown(u)' = UnreadCount(u)' \/ Awaits(u)'
  <2>1. Shown(u) = UnreadCount(u) \/ Awaits(u)
    BY <1>1 DEF BadgeInv
  <2>2. Shown(u)' = Shown(u)
    BY DEF Shown
  <2>3. UnreadIn(msg', readAt, u) = UnreadIn(msg, readAt, u) => UnreadCount(u)' = UnreadCount(u)
    BY DEF UnreadCount
  <2>4. promo \in Seq(MessageIds) /\ \A c \in Clients : CallOk(msg, call[c])
    BY DEF FollowersInv, RequestsInv
  <2>5. CASE Awaits(u)'
    BY <2>5
  <2>6. CASE /\ TopsStay(msg, msg') /\ UnreadIn(msg', readAt, u) = UnreadIn(msg, readAt, u)
             /\ OnTheWay(toBadge, u) => OnTheWay(toBadge', u)
             /\ Carried(msg, recent, promo, promo')
             /\ \A c \in Clients : \/ call'[c] = call[c]
                                   \/ ~CallTells(call[c], u, msg, recent)
                                   \/ CallTells(call'[c], u, msg', recent')
    <3>1. CASE Awaits(u)
      <4>1. Awaiting(u, msg, recent, toBadge, call, promo)
        BY <3>1 DEF Awaits
      <4>2. Awaiting(u, msg', recent', toBadge', call', promo')
        BY <2>4, <2>6, <4>1, AwaitKept
      <4> QED
        BY <4>2 DEF Awaits
    <3>2. CASE Shown(u) = UnreadCount(u)
      BY <2>2, <2>3, <2>6, <3>2
    <3> QED
      BY <2>1, <3>1, <3>2
  <2> QED
    BY <1>1, <2>5, <2>6
<1> QED
  BY <1>1 DEF BadgeInv

\* A request commits its row and takes up its events.
LEMMA RequestKeeps ==
    ASSUME MessageInv, ChannelInv', menv'.badges = menv.badges, TimelineOk(msg', now'), RowStep(msg, msg'),
           NEW c \in Clients, call[c].pc = "free", NEW k, CallOk(msg', k), call' = [call EXCEPT ![c] = k],
           Quietly, reacted' \subseteq MessageIds, \A m \in reacted' : Sent(msg', m),
           ASSUME NEW u \in People, menv.badges
           PROVE  \/ Awaits(u)'
                  \/ TopsStay(msg, msg') /\ UnreadIn(msg', readAt, u) = UnreadIn(msg, readAt, u)
    PROVE  MessageInv'
<1>1. /\ RequestsInv /\ OutboxInv /\ EventsInv /\ FollowersInv /\ BadgeInv /\ DOMAIN call = Clients
      /\ UNCHANGED <<outbox, sweep, recent, announced, toIndex, toBadge, parked, promo, index>>
      /\ UNCHANGED <<readAt, badge, fan, marking>>
  BY DEF MessageInv, Quietly, streamVars, readers, worker, BadgeInv
<1>2. RequestsInv' /\ DOMAIN call' = Clients
  BY <1>1, RequestsStep
<1>3. OutboxInv'
  BY <1>1, OutboxStill
<1>4. EventsInv'
  BY <1>1, EventsStill DEF streamVars
<1>5. FollowersInv'
  <2>1. ASSUME NEW d \in parked PROVE EventOk(msg', d.ev)
    BY <1>1, EventKept DEF FollowersInv
  <2>2. \A m \in MessageIds : index[m] # NoBody => Sent(msg', m)
    BY <1>1 DEF FollowersInv, RowStep
  <2>3. promo \in Seq(MessageIds) /\ DOMAIN index = MessageIds
    BY <1>1 DEF FollowersInv
  <2> QED
    BY <1>1, <2>1, <2>2, <2>3 DEF FollowersInv
<1>6. ASSUME NEW u \in People, NEW d \in Clients PROVE call'[d] = call[d] \/ ~CallTells(call[d], u, msg, recent)
  BY <1>1 DEF CallTells
<1>7. BadgeInv'
  <2>1. ASSUME NEW u \in People, menv.badges
        PROVE  \/ Awaits(u)'
               \/ /\ TopsStay(msg, msg') /\ UnreadIn(msg', readAt, u) = UnreadIn(msg, readAt, u)
                  /\ OnTheWay(toBadge, u) => OnTheWay(toBadge', u)
                  /\ Carried(msg, recent, promo, promo')
                  /\ \A d \in Clients : \/ call'[d] = call[d]
                                        \/ ~CallTells(call[d], u, msg, recent)
                                        \/ CallTells(call'[d], u, msg', recent')
    BY <1>1, <1>6, <2>1 DEF Carried
  <2> QED
    BY <1>1, <1>2, <2>1, BadgeStill
<1> QED
  BY <1>2, <1>3, <1>4, <1>5, <1>7 DEF MessageInv

-----------------------------------------------------------------------------
(* Requests.                                                               *)

LEMMA CountedRows ==
    ASSUME NEW rows \in [MessageIds -> MessageRow], NEW p \in MessageIds, NEW n \in Int,
           NEW next, next = Counted(rows, p, n)
    PROVE  /\ next \in [MessageIds -> MessageRow] /\ \A o \in MessageIds \ {p} : next[o] = rows[o]
           /\ next[p].st = rows[p].st /\ next[p].parent = rows[p].parent /\ next[p].by = rows[p].by
           /\ next[p].at = rows[p].at /\ next[p].count = IF rows[p].count + n > 0 THEN rows[p].count + n ELSE 0
           /\ next[p].exact = rows[p].exact
<1>1. rows[p] \in MessageRow /\ rows[p].count \in Nat /\ rows[p].ver \in Nat
  BY DEF MessageRow
<1>2. PICK count \in Nat : /\ count = Max({0, rows[p].count + n})
                           /\ count = IF rows[p].count + n > 0 THEN rows[p].count + n ELSE 0
  BY <1>1, MaxOfTwo
<1>3. PICK entry : entry = [rows[p] EXCEPT !.count = count, !.ver = @ + 1]
  OBVIOUS
<1>4. /\ entry \in MessageRow /\ entry.st = rows[p].st /\ entry.parent = rows[p].parent /\ entry.by = rows[p].by
      /\ entry.at = rows[p].at /\ entry.count = count /\ entry.exact = rows[p].exact
  <2>1. PICK old \in MessageRow : old = rows[p]
    BY <1>1
  <2>2. PICK ver \in Nat : ver = old.ver + 1
    BY <1>1, <2>1
  <2>3. entry = [old EXCEPT !.count = count, !.ver = ver]
    BY <1>3, <2>1, <2>2
  <2>4. entry \in MessageRow
    BY <2>3 DEF MessageRow
  <2>5. /\ entry.st = old.st /\ entry.parent = old.parent /\ entry.by = old.by /\ entry.at = old.at /\ entry.count = count
        /\ entry.exact = old.exact
    BY <2>3 DEF MessageRow
  <2> QED
    BY <2>1, <2>4, <2>5
<1>5. next = [rows EXCEPT ![p] = entry]
  BY <1>1, <1>2, <1>3, MessageFacts DEF Counted, MessageRow
<1> QED
  BY <1>2, <1>4, <1>5

Wrote(rows, m, parent, u) == rows[m].st = "live" /\ rows[m].parent = parent /\ rows[m].by = u

LEMMA NewRow ==
    ASSUME now \in Nat, NEW u \in People, NEW parent \in MessageIds \cup {NoMessage}, NEW text \in Nat,
           NEW st, st = "live" \/ st = "scheduled", NEW entry, entry = NewMessage(u, parent, text, st)
    PROVE  /\ entry \in MessageRow /\ entry.st = st /\ entry.at = now + 1 /\ entry.count = 0
           /\ entry.parent = parent /\ entry.by = u
<1>1. PICK at \in Nat : at = now + 1
  OBVIOUS
<1>2. entry = [st |-> st, parent |-> parent, by |-> u, text |-> text, count |-> 0, exact |-> TRUE,
              pinned |-> FALSE, at |-> at, ver |-> 0]
  BY <1>1 DEF NewMessage, Blank
<1>3. PICK b \in BOOLEAN, x \in BOOLEAN : b = FALSE /\ x = TRUE
  OBVIOUS
<1>4. [st |-> st, parent |-> parent, by |-> u, text |-> text, count |-> 0, exact |-> x, pinned |-> b, at |-> at,
       ver |-> 0] \in MessageRow
  BY DEF MessageRow
<1>5. entry \in MessageRow
  BY <1>2, <1>3, <1>4
<1> QED
  BY <1>1, <1>2, <1>5

LEMMA WriteKeeps ==
    ASSUME TimelineOk(msg, now), NEW c, NEW u \in People, NEW m \in MessageIds, msg[m].st = "none",
           NEW parent \in MessageIds \cup {NoMessage}, NEW text \in Nat, Create(c, u, m, parent, text)
    PROVE  /\ TimelineOk(msg', now') /\ RowStep(msg, msg') /\ TopsStay(msg, msg')
           /\ Wrote(msg', m, parent, u)
           /\ \A v : v = u \/ parent # NoMessage => UnreadIn(msg', readAt, v) = UnreadIn(msg, readAt, v)
<1>1. /\ msg \in [MessageIds -> MessageRow] /\ now \in Nat
      /\ parent # NoMessage => msg[parent].st = "live" /\ msg[parent].parent = NoMessage
  BY DEF TimelineOk, Create, ValidParent, liveOnly, TopLevel
<1>2. PICK entry : entry = NewMessage(u, parent, text, "live")
  OBVIOUS
<1>3. /\ entry \in MessageRow /\ entry.st = "live" /\ entry.at = now + 1 /\ entry.count = 0
      /\ entry.parent = parent /\ entry.by = u
  <2>1. now \in Nat
    BY <1>1
  <2>2. entry \in MessageRow
    BY <1>2, <2>1, NewRow
  <2>3. entry.st = "live"
    BY <1>2, <2>1, NewRow
  <2>5. entry.at = now + 1
    BY <1>2, <2>1, NewRow
  <2>4. entry.count = 0 /\ entry.parent = parent /\ entry.by = u
    BY <1>2, <2>1, NewRow
  <2> QED
    BY <2>2, <2>3, <2>4, <2>5
<1>4. PICK mid \in [MessageIds -> MessageRow] : mid = [msg EXCEPT ![m] = entry]
  BY <1>1, <1>3
<1>5. msg' = Counted(mid, parent, 1) /\ now' = now + 1
  BY <1>2, <1>4 DEF Create
<1>6. parent # m
  BY <1>1, MessageFacts
<1>7. \A o \in MessageIds \ {m} : mid[o] = msg[o]
  BY <1>1, <1>4
<1>8. mid[m] = entry
  BY <1>1, <1>4
<1>9. /\ msg' \in [MessageIds -> MessageRow]
      /\ \A o \in MessageIds : /\ msg'[o].st = IF o = m THEN entry.st ELSE msg[o].st
                               /\ msg'[o].parent = IF o = m THEN entry.parent ELSE msg[o].parent
                               /\ msg'[o].by = IF o = m THEN entry.by ELSE msg[o].by
                               /\ msg'[o].at = IF o = m THEN entry.at ELSE msg[o].at
                               /\ msg'[o].count = IF entry.st = "live" /\ o = entry.parent THEN msg[o].count + 1
                                                  ELSE IF o = m THEN 0 ELSE msg[o].count
                               /\ o # m => msg'[o].exact = msg[o].exact
                               /\ msg'[o].st = "none" => msg'[o] = msg[o]
  <2>1. CASE parent = NoMessage
    <3>1. msg' = mid
      BY <1>5, <2>1 DEF Counted
    <3>2. \A o \in MessageIds : o # parent
      BY <2>1, MessageFacts
    <3> QED
      BY <1>3, <1>7, <1>8, <3>1, <3>2
  <2>2. CASE parent # NoMessage
    <3>1. /\ msg' \in [MessageIds -> MessageRow] /\ \A o \in MessageIds \ {parent} : msg'[o] = mid[o]
          /\ msg'[parent].st = mid[parent].st /\ msg'[parent].parent = mid[parent].parent
          /\ msg'[parent].by = mid[parent].by /\ msg'[parent].at = mid[parent].at
          /\ msg'[parent].count = IF mid[parent].count + 1 > 0 THEN mid[parent].count + 1 ELSE 0
          /\ msg'[parent].exact = mid[parent].exact
      BY <1>5, <2>2, CountedRows
    <3>2. mid[parent] = msg[parent] /\ msg[parent].count \in Nat /\ parent \in MessageIds
      BY <1>1, <1>6, <1>7, <2>2 DEF MessageRow
    <3>3. msg'[parent].count = msg[parent].count + 1 /\ msg'[parent].st = "live"
      BY <1>1, <2>2, <3>1, <3>2
    <3>4. msg'[m] = entry
      BY <1>6, <1>8, <3>1
    <3> QED
      BY <1>3, <1>6, <1>7, <3>1, <3>2, <3>3, <3>4
  <2> QED
    BY <2>1, <2>2
<1>10. TimelineOk(msg', now') /\ RowStep(msg, msg')
  BY <1>1, <1>3, <1>5, <1>9, RowsInserted
<1>11. TopsStay(msg, msg')
  BY <1>9 DEF TopsStay
<1>12. ASSUME NEW v, v = u \/ parent # NoMessage PROVE UnreadIn(msg', readAt, v) = UnreadIn(msg, readAt, v)
  BY <1>3, <1>9, <1>12, UnreadSame
<1>13. Wrote(msg', m, parent, u)
  BY <1>3, <1>9 DEF Wrote
<1> QED
  BY <1>10, <1>11, <1>12, <1>13

\* A request that writes a message and announces it.
LEMMA CreationKeeps ==
    ASSUME MessageInv, NEW op \in Operations, Can(op), Spend(op), NEW c \in Clients, Idle(c), NEW v \in People,
           NEW m \in MessageIds, Unused(m), NEW parent \in MessageIds \cup {NoMessage}, NEW text \in Nat,
           Create(c, v, m, parent, text), NEW jobs \in Seq(Job), jobs # <<>>,
           \A i \in DOMAIN jobs : jobs[i].kind = "updated" \/ (jobs[i].m = m /\ jobs[i].kind # "deleted"),
           parent = NoMessage => Head(jobs).m = m /\ Head(jobs).kind \in {"new", "post"},
           Begin(c, jobs), UNCHANGED reacted, Quietly
    PROVE  MessageInv'
<1>1. ChannelInv' /\ menv'.badges = menv.badges
  BY SpendKeeps DEF MessageInv
<1>2. /\ TimelineOk(msg', now') /\ RowStep(msg, msg') /\ TopsStay(msg, msg')
      /\ msg'[m].st = "live" /\ msg'[m].parent = parent /\ msg'[m].by = v
      /\ \A w : w = v \/ parent # NoMessage => UnreadIn(msg', readAt, w) = UnreadIn(msg, readAt, w)
  <2>1. TimelineOk(msg, now) /\ msg[m].st = "none"
    BY DEF MessageInv, Unused
  <2>2. TimelineOk(msg', now') /\ RowStep(msg, msg') /\ TopsStay(msg, msg')
    BY <2>1, WriteKeeps
  <2>3. Wrote(msg', m, parent, v)
    BY <2>1, WriteKeeps
  <2>4. \A w : w = v \/ parent # NoMessage => UnreadIn(msg', readAt, w) = UnreadIn(msg, readAt, w)
    BY <2>1, WriteKeeps
  <2> QED
    BY <2>2, <2>3, <2>4 DEF Wrote
<1>3. PICK k : k = [pc |-> "read", jobs |-> jobs]
  OBVIOUS
<1>4. CallOk(msg', k)
  <2>1. k \in Reading /\ k.jobs = jobs
    BY <1>3 DEF Reading
  <2>2. ASSUME NEW i \in DOMAIN jobs PROVE TaskOk(msg', jobs[i])
    <3>1. jobs[i] \in Job /\ (jobs[i].kind = "updated" \/ (jobs[i].m = m /\ jobs[i].kind # "deleted"))
      OBVIOUS
    <3>2. Sent(msg', m)
      BY <1>2 DEF Sent
    <3> QED
      BY <3>1, <3>2 DEF TaskOk
  <2> QED
    BY <2>1, <2>2 DEF CallOk
<1>5. reacted' \subseteq MessageIds /\ \A o \in reacted' : Sent(msg', o)
  BY <1>2 DEF MessageInv, FollowersInv, RowStep
<1>6. call' = [call EXCEPT ![c] = k] /\ call[c].pc = "free" /\ DOMAIN call = Clients
  BY <1>3 DEF Begin, Idle, MessageInv, BadgeInv
<1>7. ASSUME NEW u \in People, menv.badges
      PROVE  Awaits(u)' \/ (TopsStay(msg, msg') /\ UnreadIn(msg', readAt, u) = UnreadIn(msg, readAt, u))
  <2>1. CASE u = v \/ parent # NoMessage
    BY <1>2, <2>1
  <2>2. CASE u # v /\ parent = NoMessage
    <3>1. <<"new", m>> \notin recent'
      BY DEF MessageInv, EventsInv, KeyOk, Unused, Sent, Quietly, streamVars
    <3>2. Counts(msg', m, u) /\ Fresh(msg', recent', m)
      BY <1>2, <2>2, <3>1 DEF Counts, Fresh
    <3>3. k.pc = "read" /\ Head(k.jobs).m = m /\ Head(k.jobs).kind \in {"new", "post"}
      BY <1>3, <2>2
    <3>4. CallTells(k, u, msg', recent')
      BY <3>2, <3>3 DEF CallTells
    <3>5. CallTells(call'[c], u, msg', recent')
      BY <1>6, <3>4
    <3>6. Awaiting(u, msg', recent', toBadge', call', promo')
      BY <3>5 DEF Awaiting
    <3> QED
      BY <3>6 DEF Awaits
  <2> QED
    BY <2>1, <2>2
<1> QED
  BY <1>1, <1>2, <1>4, <1>5, <1>6, <1>7, RequestKeeps

LEMMA OneJob ==
    ASSUME NEW kind \in EventTypes \cup {"post"}, NEW m \in MessageIds, NEW by \in People \cup {NoMessage},
           NEW jobs, jobs = <<[kind |-> kind, m |-> m, by |-> by]>>
    PROVE  jobs \in Seq(Job) /\ jobs # <<>> /\ Head(jobs) = jobs[1] /\ Head(jobs) = [kind |-> kind, m |-> m, by |-> by]
           /\ \A i \in DOMAIN jobs : jobs[i].kind = kind /\ jobs[i].m = m
<1>1. PICK j \in Job : j = [kind |-> kind, m |-> m, by |-> by]
  BY DEF Job
<1>2. jobs = <<j>> /\ jobs \in Seq(Job) /\ jobs # <<>> /\ Head(jobs) = j /\ jobs[1] = j /\ DOMAIN jobs = {1}
  BY <1>1
<1> QED
  BY <1>1, <1>2

LEMMA SendKeeps ==
    ASSUME MessageInv, NEW c \in Clients, NEW u \in People, NEW m \in MessageIds,
           NEW parent \in MessageIds \cup {NoMessage}, Send(c, u, m, parent)
    PROVE  MessageInv'
<1>1. PICK kind \in EventTypes \cup {"post"} : kind = "new"
  BY DEF EventTypes
<1>2. PICK jobs : jobs = <<[kind |-> kind, m |-> m, by |-> u]>>
  OBVIOUS
<1>3. /\ jobs \in Seq(Job) /\ jobs # <<>> /\ Head(jobs).m = m /\ Head(jobs).kind = "new"
      /\ \A i \in DOMAIN jobs : jobs[i].m = m /\ jobs[i].kind # "deleted"
  BY <1>1, <1>2, OneJob
<1>4. PICK op \in Operations : op = "send"
  BY DEF Operations
<1>5. Begin(c, jobs) /\ Can(op) /\ Spend(op)
  BY <1>1, <1>2, <1>4 DEF Send
<1> QED
  BY <1>3, <1>5, CreationKeeps DEF Send

LEMMA ForwardKeeps ==
    ASSUME MessageInv, NEW c \in Clients, NEW u \in People, NEW m \in MessageIds, NEW src \in MessageIds,
           Forward(c, u, m, src)
    PROVE  MessageInv'
<1>1. PICK kind \in EventTypes \cup {"post"} : kind = "new"
  BY DEF EventTypes
<1>2. PICK jobs : jobs = <<[kind |-> kind, m |-> m, by |-> u]>>
  OBVIOUS
<1>3. /\ jobs \in Seq(Job) /\ jobs # <<>> /\ Head(jobs).m = m /\ Head(jobs).kind = "new"
      /\ \A i \in DOMAIN jobs : jobs[i].m = m /\ jobs[i].kind # "deleted"
  BY <1>1, <1>2, OneJob
<1>4. PICK op \in Operations : op = "forward"
  BY DEF Operations
<1>5. Begin(c, jobs) /\ Can(op) /\ Spend(op)
  BY <1>1, <1>2, <1>4 DEF Forward
<1>6. PICK text \in Nat : text = msg[src].text
  BY DEF MessageInv, TimelineOk, MessageRow
<1>7. PICK parent \in MessageIds \cup {NoMessage} : parent = NoMessage
  OBVIOUS
<1>8. Create(c, u, m, parent, text)
  BY <1>6, <1>7 DEF Forward
<1> QED
  BY <1>3, <1>5, <1>7, <1>8, CreationKeeps DEF Forward

LEMMA CreateForKeeps ==
    ASSUME MessageInv, NEW c \in Clients, NEW u \in People, NEW m \in MessageIds, CreateFor(c, u, m)
    PROVE  MessageInv'
<1>1. PICK kind \in EventTypes \cup {"post"} : kind = "post"
  BY DEF EventTypes
<1>2. PICK jobs : jobs = <<[kind |-> kind, m |-> m, by |-> u]>>
  OBVIOUS
<1>3. /\ jobs \in Seq(Job) /\ jobs # <<>> /\ Head(jobs).m = m /\ Head(jobs).kind = "post"
      /\ \A i \in DOMAIN jobs : jobs[i].m = m /\ jobs[i].kind # "deleted"
  BY <1>1, <1>2, OneJob
<1>4. PICK op \in Operations : op = "post"
  BY DEF Operations
<1>5. Begin(c, jobs) /\ Can(op) /\ Spend(op)
  BY <1>1, <1>2, <1>4 DEF CreateFor
<1>6. PICK text \in Nat : text = 0
  OBVIOUS
<1>7. PICK parent \in MessageIds \cup {NoMessage} : parent = NoMessage
  OBVIOUS
<1>8. Create(c, u, m, parent, text)
  BY <1>6, <1>7 DEF CreateFor
<1> QED
  BY <1>3, <1>5, <1>7, <1>8, CreationKeeps DEF CreateFor

LEMMA ReplyThreadKeeps ==
    ASSUME MessageInv, NEW c \in Clients, NEW u \in People, NEW m \in MessageIds,
           NEW parent \in MessageIds \cup {NoMessage}, ReplyThread(c, u, m, parent)
    PROVE  MessageInv'
<1>1. parent \in MessageIds /\ parent # NoMessage
  BY DEF ReplyThread
<1>2. PICK j1 \in Job : j1 = [kind |-> "updated", m |-> parent, by |-> u]
  BY <1>1 DEF Job, EventTypes
<1>3. PICK j2 \in Job : j2 = [kind |-> "new", m |-> m, by |-> u]
  BY <1>1 DEF Job, EventTypes
<1>4. PICK jobs : jobs = <<j1, j2>> /\ jobs \in Seq(Job)
  <2>1. <<j1, j2>> \in Seq(Job)
    OBVIOUS
  <2> QED
    BY <2>1
<1>5. jobs # <<>> /\ DOMAIN jobs = {1, 2} /\ jobs[1] = j1 /\ jobs[2] = j2
  BY <1>4
<1>6. \A i \in DOMAIN jobs : jobs[i].kind = "updated" \/ (jobs[i].m = m /\ jobs[i].kind # "deleted")
  BY <1>2, <1>3, <1>5
<1>7. PICK op \in Operations : op = "reply"
  BY DEF Operations
<1>8. Begin(c, jobs) /\ Can(op) /\ Spend(op)
  BY <1>2, <1>3, <1>4, <1>7 DEF ReplyThread
<1>9. PICK text \in Nat : text = 0
  OBVIOUS
<1>10. Create(c, u, m, parent, text)
  BY <1>9 DEF ReplyThread
<1>12. parent = NoMessage => Head(jobs).m = m /\ Head(jobs).kind \in {"new", "post"}
  BY <1>1
<1>13. jobs \in Seq(Job)
  BY <1>4
<1>11. Idle(c) /\ Unused(m) /\ UNCHANGED reacted /\ Quietly
  BY DEF ReplyThread
<1> QED
  BY <1>1, <1>5, <1>6, <1>8, <1>10, <1>11, <1>12, <1>13, CreationKeeps

\* A write that announces nothing.
LEMMA QuietKeeps ==
    ASSUME MessageInv, ChannelInv', menv'.badges = menv.badges, TimelineOk(msg', now'), RowStep(msg, msg'),
           UNCHANGED <<reacted, call>>, Quietly, TopsStay(msg, msg'),
           \A u \in People : UnreadIn(msg', readAt, u) = UnreadIn(msg, readAt, u)
    PROVE  MessageInv'
<1>1. /\ RequestsInv /\ OutboxInv /\ EventsInv /\ FollowersInv /\ BadgeInv /\ DOMAIN call = Clients
      /\ UNCHANGED <<outbox, sweep, recent, announced, toIndex, toBadge, parked, promo, index, call>>
      /\ UNCHANGED <<readAt, badge, fan, marking>>
  BY DEF MessageInv, Quietly, streamVars, readers, worker, BadgeInv
<1>2. RequestsInv'
  BY <1>1, RequestsStill
<1>3. OutboxInv'
  BY <1>1, OutboxStill
<1>4. EventsInv'
  BY <1>1, EventsStill DEF streamVars
<1>5. FollowersInv'
  BY <1>1, FollowersStill
<1>6. BadgeInv'
  <2>1. Carried(msg, recent, promo, promo')
    BY <1>1 DEF Carried
  <2> QED
    BY <1>1, <2>1, BadgeStill
<1> QED
  BY <1>2, <1>3, <1>4, <1>5, <1>6 DEF MessageInv

LEMMA SendScheduledKeeps ==
    ASSUME MessageInv, NEW c \in Clients, NEW u \in People, NEW m \in MessageIds,
           NEW parent \in MessageIds \cup {NoMessage}, SendScheduled(c, u, m, parent)
    PROVE  MessageInv'
<1>1. PICK op \in Operations : op = "schedule" /\ Can(op) /\ Spend(op)
  BY DEF Operations, SendScheduled
<1>2. ChannelInv' /\ menv'.badges = menv.badges
  BY <1>1, SpendKeeps DEF MessageInv
<1>3. /\ TimelineOk(msg, now) /\ msg \in [MessageIds -> MessageRow] /\ now \in Nat /\ msg[m].st = "none"
      /\ parent # NoMessage => msg[parent].st = "live" /\ msg[parent].parent = NoMessage
  BY DEF MessageInv, TimelineOk, SendScheduled, CreateScheduled, ValidParent, liveOnly, TopLevel, Unused
<1>4. PICK entry : entry = NewMessage(u, parent, 0, "scheduled")
  OBVIOUS
<1>5. entry \in MessageRow /\ entry.st = "scheduled" /\ entry.at = now + 1 /\ entry.count = 0 /\ entry.parent = parent
  <2>1. now \in Nat /\ 0 \in Nat
    BY <1>3
  <2>2. entry \in MessageRow
    BY <1>4, <2>1, NewRow
  <2>3. entry.st = "scheduled"
    BY <1>4, <2>1, NewRow
  <2>4. entry.at = now + 1
    BY <1>4, <2>1, NewRow
  <2>5. entry.count = 0 /\ entry.parent = parent
    BY <1>4, <2>1, NewRow
  <2> QED
    BY <2>2, <2>3, <2>4, <2>5
<1>6. msg' = [msg EXCEPT ![m] = entry] /\ now' = now + 1
  BY <1>4 DEF SendScheduled, CreateScheduled
<1>7. msg' \in [MessageIds -> MessageRow] /\ msg'[m] = entry /\ \A o \in MessageIds \ {m} : msg'[o] = msg[o]
  BY <1>3, <1>5, <1>6
<1>8. \A o \in MessageIds : /\ msg'[o].st = IF o = m THEN entry.st ELSE msg[o].st
                            /\ msg'[o].parent = IF o = m THEN entry.parent ELSE msg[o].parent
                            /\ msg'[o].by = IF o = m THEN entry.by ELSE msg[o].by
                            /\ msg'[o].at = IF o = m THEN entry.at ELSE msg[o].at
                            /\ msg'[o].count = IF entry.st = "live" /\ o = entry.parent THEN msg[o].count + 1
                                               ELSE IF o = m THEN 0 ELSE msg[o].count
                            /\ o # m => msg'[o].exact = msg[o].exact
                            /\ msg'[o].st = "none" => msg'[o] = msg[o]
  BY <1>5, <1>7
<1>9. TimelineOk(msg', now') /\ RowStep(msg, msg')
  <2>1. entry.st \in {"live", "scheduled"} /\ entry.at = now + 1 /\ entry.count = 0
    BY <1>5
  <2>2. entry.parent # NoMessage => msg[entry.parent].st = "live" /\ msg[entry.parent].parent = NoMessage
    BY <1>3, <1>5
  <2>3. TimelineOk(msg, now) /\ msg[m].st = "none" /\ entry \in MessageRow /\ msg' \in [MessageIds -> MessageRow]
    BY <1>3, <1>5, <1>7
  <2>4. TimelineOk(msg', now + 1)
    BY <1>8, <2>1, <2>2, <2>3, RowsInserted
  <2>5. RowStep(msg, msg')
    BY <1>8, <2>1, <2>2, <2>3, RowsInserted
  <2> QED
    BY <1>6, <2>4, <2>5
<1>10. TopsStay(msg, msg')
  BY <1>3, <1>7 DEF TopsStay
<1>11. ASSUME NEW w PROVE UnreadIn(msg', readAt, w) = UnreadIn(msg, readAt, w)
  <2>1. \A o \in MessageIds : msg[o].st = "live" /\ msg[o].parent = NoMessage /\ msg[o].by # w
                              <=> msg'[o].st = "live" /\ msg'[o].parent = NoMessage /\ msg'[o].by # w
    BY <1>3, <1>5, <1>7
  <2>2. \A o \in MessageIds : msg[o].st = "live" /\ msg[o].parent = NoMessage => msg'[o].at = msg[o].at
    BY <1>3, <1>5, <1>7
  <2> QED
    BY <2>1, <2>2, UnreadSame
<1> QED
  BY <1>2, <1>9, <1>10, <1>11, QuietKeeps DEF SendScheduled

LEMMA CancelScheduledKeeps ==
    ASSUME MessageInv, NEW m \in MessageIds, CancelScheduled(m)
    PROVE  MessageInv'
<1>1. PICK op \in Operations : op = "cancel" /\ Can(op) /\ Spend(op)
  BY DEF Operations, CancelScheduled
<1>2. ChannelInv' /\ menv'.badges = menv.badges
  BY <1>1, SpendKeeps DEF MessageInv
<1>3. /\ TimelineOk(msg, now) /\ msg \in [MessageIds -> MessageRow] /\ msg[m].st = "scheduled" /\ UNCHANGED now
      /\ msg' = [msg EXCEPT ![m].st = "dropped"]
  BY DEF MessageInv, TimelineOk, CancelScheduled
<1>4. TimelineOk(msg', now') /\ RowStep(msg, msg')
  <2>1. PICK next : next = msg' /\ next = [msg EXCEPT ![m].st = "dropped"]
    BY <1>3
  <2>2. TimelineOk(next, now) /\ RowStep(msg, next)
    BY <1>3, <2>1, RowsCancelled
  <2> QED
    BY <1>3, <2>1, <2>2
<1>5. \A o \in MessageIds : /\ o # m => msg'[o] = msg[o]
                            /\ msg'[o].st = IF o = m THEN "dropped" ELSE msg[o].st
  BY <1>3 DEF MessageRow
<1>6. TopsStay(msg, msg')
  BY <1>3, <1>5 DEF TopsStay
<1>7. ASSUME NEW w PROVE UnreadIn(msg', readAt, w) = UnreadIn(msg, readAt, w)
  <2>1. \A o \in MessageIds : msg[o].st = "live" /\ msg[o].parent = NoMessage /\ msg[o].by # w
                              <=> msg'[o].st = "live" /\ msg'[o].parent = NoMessage /\ msg'[o].by # w
    BY <1>3, <1>5
  <2>2. \A o \in MessageIds : msg[o].st = "live" /\ msg[o].parent = NoMessage => msg'[o].at = msg[o].at
    BY <1>3, <1>5
  <2> QED
    BY <2>1, <2>2, UnreadSame
<1> QED
  BY <1>2, <1>4, <1>6, <1>7, QuietKeeps DEF CancelScheduled

LEMMA TouchKeeps ==
    ASSUME MessageInv, NEW op \in Operations, Can(op), Spend(op), NEW c \in Clients, Idle(c), NEW m \in MessageIds,
           msg[m].st # "none", NEW entry \in MessageRow,
           entry.st = msg[m].st /\ entry.parent = msg[m].parent /\ entry.by = msg[m].by,
           entry.at = msg[m].at /\ entry.count = msg[m].count /\ entry.exact = msg[m].exact,
           msg' \in [MessageIds -> MessageRow], msg'[m] = entry, \A o \in MessageIds \ {m} : msg'[o] = msg[o],
           NEW by \in People \cup {NoMessage}, Begin(c, <<[kind |-> "updated", m |-> m, by |-> by]>>),
           UNCHANGED <<now, reacted>>, Quietly
    PROVE  MessageInv'
<1>1. ChannelInv' /\ menv'.badges = menv.badges
  BY SpendKeeps DEF MessageInv
<1>2. TimelineOk(msg, now) /\ msg \in [MessageIds -> MessageRow]
  BY DEF MessageInv, TimelineOk
<1>4. TimelineOk(msg', now') /\ RowStep(msg, msg')
  BY <1>2, RowsTouched
<1>5. \A o \in MessageIds : /\ msg'[o].st = msg[o].st /\ msg'[o].parent = msg[o].parent /\ msg'[o].by = msg[o].by
                            /\ msg'[o].at = msg[o].at
  OBVIOUS
<1>6. TopsStay(msg, msg')
  BY <1>5 DEF TopsStay
<1>7. ASSUME NEW w PROVE UnreadIn(msg', readAt, w) = UnreadIn(msg, readAt, w)
  <2>1. \A o \in MessageIds : msg[o].st = "live" /\ msg[o].parent = NoMessage /\ msg[o].by # w
                              <=> msg'[o].st = "live" /\ msg'[o].parent = NoMessage /\ msg'[o].by # w
    BY <1>5
  <2>2. \A o \in MessageIds : msg[o].st = "live" /\ msg[o].parent = NoMessage => msg'[o].at = msg[o].at
    BY <1>5
  <2> QED
    BY <2>1, <2>2, UnreadSame
<1>8. PICK kind \in EventTypes \cup {"post"} : kind = "updated"
  BY DEF EventTypes
<1>9. PICK jobs : jobs = <<[kind |-> kind, m |-> m, by |-> by]>>
  OBVIOUS
<1>10. jobs \in Seq(Job) /\ jobs # <<>> /\ \A i \in DOMAIN jobs : jobs[i].kind = "updated"
  BY <1>8, <1>9, OneJob
<1>11. PICK k : k = [pc |-> "read", jobs |-> jobs]
  OBVIOUS
<1>12. CallOk(msg', k)
  <2>1. k \in Reading /\ k.jobs = jobs
    BY <1>10, <1>11 DEF Reading
  <2>2. ASSUME NEW i \in DOMAIN jobs PROVE TaskOk(msg', jobs[i])
    BY <1>10 DEF TaskOk
  <2> QED
    BY <1>10, <2>1, <2>2 DEF CallOk
<1>13. reacted' \subseteq MessageIds /\ \A o \in reacted' : Sent(msg', o)
  BY <1>4 DEF MessageInv, FollowersInv, RowStep
<1>14. call' = [call EXCEPT ![c] = k] /\ call[c].pc = "free"
  BY <1>8, <1>9, <1>11 DEF Begin, Idle
<1> QED
  BY <1>1, <1>4, <1>6, <1>7, <1>12, <1>13, <1>14, RequestKeeps

LEMMA EditKeeps ==
    ASSUME MessageInv, NEW c \in Clients, NEW u \in People, NEW m \in MessageIds, Edit(c, u, m)
    PROVE  MessageInv'
<1>1. PICK op \in Operations : op = "edit" /\ Can(op) /\ Spend(op)
  BY DEF Operations, Edit
<1>2. PICK old \in MessageRow : old = msg[m] /\ msg \in [MessageIds -> MessageRow] /\ old.text \in Nat /\ old.ver \in Nat
  BY DEF MessageInv, TimelineOk, MessageRow
<1>3. PICK text \in Nat, ver \in Nat : text = old.text + 1 /\ ver = old.ver + 1
  BY <1>2
<1>4. PICK entry : entry = [old EXCEPT !.text = text, !.ver = ver]
  OBVIOUS
<1>5. entry \in MessageRow
  BY <1>4 DEF MessageRow
<1>6. /\ entry.st = old.st /\ entry.parent = old.parent /\ entry.by = old.by /\ entry.at = old.at /\ entry.count = old.count
      /\ entry.exact = old.exact
  BY <1>4 DEF MessageRow
<1>7. msg' = [msg EXCEPT ![m] = entry]
  BY <1>2, <1>3, <1>4 DEF Edit
<1>10. msg' \in [MessageIds -> MessageRow] /\ msg'[m] = entry /\ \A o \in MessageIds \ {m} : msg'[o] = msg[o]
  BY <1>2, <1>5, <1>7
<1>8. msg[m].st # "none" /\ Idle(c) /\ UNCHANGED <<now, reacted>> /\ Quietly
  BY DEF Edit, GetForUser, liveOnly
<1>9. Begin(c, <<[kind |-> "updated", m |-> m, by |-> u]>>)
  BY DEF Edit
<1> QED
  BY <1>1, <1>2, <1>5, <1>6, <1>8, <1>9, <1>10, TouchKeeps

LEMMA SetPinnedKeeps ==
    ASSUME MessageInv, NEW c \in Clients, NEW m \in MessageIds, NEW v \in BOOLEAN, setPinned(c, NoMessage, m, v)
    PROVE  MessageInv'
<1>1. PICK op \in Operations : op = "pin" /\ Can(op) /\ Spend(op)
  BY DEF Operations, setPinned
<1>2. PICK old \in MessageRow : old = msg[m] /\ msg \in [MessageIds -> MessageRow] /\ old.ver \in Nat
  BY DEF MessageInv, TimelineOk, MessageRow
<1>3. PICK ver \in Nat : ver = old.ver + 1
  BY <1>2
<1>4. PICK entry : entry = [old EXCEPT !.pinned = v, !.ver = ver]
  OBVIOUS
<1>5. entry \in MessageRow
  BY <1>4 DEF MessageRow
<1>6. /\ entry.st = old.st /\ entry.parent = old.parent /\ entry.by = old.by /\ entry.at = old.at /\ entry.count = old.count
      /\ entry.exact = old.exact
  BY <1>4 DEF MessageRow
<1>7. msg' = [msg EXCEPT ![m] = entry]
  BY <1>2, <1>3, <1>4 DEF setPinned
<1>10. msg' \in [MessageIds -> MessageRow] /\ msg'[m] = entry /\ \A o \in MessageIds \ {m} : msg'[o] = msg[o]
  BY <1>2, <1>5, <1>7
<1>8. msg[m].st # "none" /\ Idle(c) /\ UNCHANGED <<now, reacted>> /\ Quietly
  BY DEF setPinned, liveOnly
<1>9. PICK by \in People \cup {NoMessage} : by = NoMessage /\ Begin(c, <<[kind |-> "updated", m |-> m, by |-> by]>>)
  BY DEF setPinned
<1> QED
  BY <1>1, <1>2, <1>5, <1>6, <1>8, <1>9, <1>10, TouchKeeps

LEMMA EventIs ==
    ASSUME TimelineOk(msg, now), NEW m \in MessageIds, NEW type \in EventTypes, NEW e, e = Event(type, m)
    PROVE  /\ e \in Ev /\ e.type = type /\ e.m = m /\ e.parent = msg[m].parent /\ e.by = msg[m].by
           /\ Sent(msg, m) /\ type # "deleted" => EventOk(msg, e)
<1>1. PICK entry \in MessageRow : entry = msg[m]
  BY DEF TimelineOk
<1>2. e = [type |-> type, m |-> m, text |-> entry.text, ver |-> entry.ver, parent |-> entry.parent, by |-> entry.by]
  BY <1>1 DEF Event
<1>3. /\ entry.text \in Nat /\ entry.ver \in Nat /\ entry.parent \in MessageIds \cup {NoMessage}
      /\ entry.by \in People \cup {NoMessage}
  BY DEF MessageRow
<1>4. e \in Ev
  BY <1>2, <1>3 DEF Ev
<1>5. e.type = type /\ e.m = m /\ e.parent = msg[m].parent /\ e.by = msg[m].by
  BY <1>1, <1>2
<1> QED
  BY <1>4, <1>5 DEF EventOk

LEMMA TellingCall ==
    ASSUME NEW rows, NEW e, EventOk(rows, e), NEW kind \in EventTypes, kind # "new", NEW m \in MessageIds,
           kind = "deleted" => Gone(rows, m), NEW by \in People \cup {NoMessage}, NEW k,
           k = [pc |-> "record", jobs |-> <<[kind |-> kind, m |-> m, by |-> by]>>, ev |-> e]
    PROVE  CallOk(rows, k) /\ k.pc = "record" /\ k.ev = e
<1>1. PICK jobs : jobs = <<[kind |-> kind, m |-> m, by |-> by]>>
  OBVIOUS
<1>2. jobs \in Seq(Job) /\ jobs # <<>> /\ \A i \in DOMAIN jobs : jobs[i].kind = kind /\ jobs[i].m = m
  BY <1>1, OneJob
<1>3. k = [pc |-> "record", jobs |-> jobs, ev |-> e] /\ e \in Ev
  BY <1>1 DEF EventOk
<1>4. k \in Telling /\ k.jobs = jobs /\ k.ev = e /\ k.pc = "record"
  BY <1>2, <1>3 DEF Telling
<1>5. ASSUME NEW i \in DOMAIN jobs PROVE TaskOk(rows, jobs[i])
  BY <1>2 DEF TaskOk, EventTypes
<1> QED
  BY <1>2, <1>4, <1>5 DEF CallOk

LEMMA SoftDeleteRows ==
    ASSUME TimelineOk(msg, now), NEW m \in MessageIds, msg[m].st = "live", SoftDelete(m)
    PROVE  /\ TimelineOk(msg', now) /\ RowStep(msg, msg') /\ msg'[m].st = "deleted"
           /\ \A o \in MessageIds : /\ o # m => msg'[o].st = msg[o].st
                                    /\ msg'[o].parent = msg[o].parent /\ msg'[o].by = msg[o].by
                                    /\ msg'[o].at = msg[o].at
<1>1. PICK old \in MessageRow : old = msg[m] /\ msg \in [MessageIds -> MessageRow] /\ old.ver \in Nat
  BY DEF TimelineOk, MessageRow
<1>2. PICK ver \in Nat : ver = old.ver + 1
  BY <1>1
<1>3. PICK entry : entry = [old EXCEPT !.st = "deleted", !.text = 0, !.ver = ver]
  OBVIOUS
<1>4. entry \in MessageRow
  BY <1>3 DEF MessageRow
<1>5. /\ entry.st = "deleted" /\ entry.parent = old.parent /\ entry.by = old.by /\ entry.at = old.at /\ entry.count = old.count
      /\ entry.exact = old.exact
  BY <1>3 DEF MessageRow
<1>6. PICK mid : mid = [msg EXCEPT ![m] = entry]
  OBVIOUS
<1>7. mid \in [MessageIds -> MessageRow] /\ mid[m] = entry /\ \A o \in MessageIds \ {m} : mid[o] = msg[o]
  BY <1>1, <1>4, <1>6
<1>8. PICK parent \in MessageIds \cup {NoMessage} : parent = msg[m].parent
  BY DEF TimelineOk, MessageRow
<1>9. PICK next : next = msg' /\ next = Counted(mid, parent, -1)
  BY <1>1, <1>2, <1>3, <1>6, <1>8 DEF SoftDelete
<1>10. parent # m
  <2>1. ReplyOk(msg, m) /\ msg[m].at \in Nat
    BY DEF TimelineOk, MessageRow
  <2> QED
    BY <1>8, <2>1, MessageFacts DEF ReplyOk
<1>11. /\ next \in [MessageIds -> MessageRow]
       /\ \A o \in MessageIds : /\ next[o].st = IF o = m THEN "deleted" ELSE msg[o].st
                                /\ next[o].parent = msg[o].parent /\ next[o].by = msg[o].by
                                /\ next[o].at = msg[o].at
                                /\ next[o].count = IF o # msg[m].parent \/ msg[o].count = 0 THEN msg[o].count
                                                   ELSE msg[o].count - 1
                                /\ next[o].exact = msg[o].exact
                                /\ next[o].st = "none" => next[o] = msg[o]
  <2>1. CASE parent = NoMessage
    <3>1. next = mid
      BY <1>9, <2>1 DEF Counted
    <3>2. \A o \in MessageIds : o # parent
      BY <2>1, MessageFacts
    <3> QED
      BY <1>1, <1>5, <1>7, <1>8, <3>1, <3>2
  <2>2. CASE parent # NoMessage
    <3>1. parent \in MessageIds
      BY <2>2
    <3>2. PICK p \in MessageIds : p = parent
      BY <3>1
    <3>3. /\ next \in [MessageIds -> MessageRow] /\ \A o \in MessageIds \ {p} : next[o] = mid[o]
          /\ next[p].st = mid[p].st /\ next[p].parent = mid[p].parent /\ next[p].by = mid[p].by
          /\ next[p].at = mid[p].at /\ next[p].count = IF mid[p].count + (-1) > 0 THEN mid[p].count + (-1) ELSE 0
          /\ next[p].exact = mid[p].exact
      BY <1>7, <1>9, <3>2, CountedRows
    <3>4. mid[p] = msg[p] /\ msg[p].count \in Nat
      BY <1>1, <1>7, <1>10, <3>2 DEF MessageRow
    <3>5. next[p].count = IF msg[p].count = 0 THEN msg[p].count ELSE msg[p].count - 1
      BY <3>3, <3>4
    <3>6. next[m] = entry
      BY <1>7, <1>10, <3>2, <3>3
    <3>7. msg[p].st # "none"
      <4>1. ReplyOk(msg, m) /\ msg[m].parent = p /\ p # NoMessage
        BY <1>8, <2>2, <3>2 DEF TimelineOk
      <4> QED
        BY <4>1 DEF ReplyOk, Sent
    <3>8. \A o \in MessageIds \ {m, p} : next[o] = msg[o]
      BY <1>7, <3>3
    <3>9. p = msg[m].parent /\ p # m
      BY <1>8, <1>10, <3>2
    <3> QED
      BY <1>1, <1>5, <3>3, <3>4, <3>5, <3>6, <3>7, <3>8, <3>9
  <2> QED
    BY <2>1, <2>2
<1>12. TimelineOk(next, now) /\ RowStep(msg, next)
  BY <1>11, RowsDeleted
<1> QED
  BY <1>9, <1>11, <1>12

LEMMA DeleteKeeps ==
    ASSUME MessageInv, NEW c \in Clients, NEW v \in People, NEW m \in MessageIds, Delete(c, v, m)
    PROVE  MessageInv'
<1>1. PICK op \in Operations : op = "delete" /\ Can(op) /\ Spend(op)
  BY DEF Operations, Delete
<1>2. ChannelInv' /\ menv'.badges = menv.badges
  BY <1>1, SpendKeeps DEF MessageInv
<1>3. TimelineOk(msg, now) /\ msg[m].st = "live" /\ SoftDelete(m) /\ UNCHANGED <<now, reacted>> /\ Quietly
  BY DEF MessageInv, Delete, GetByID, liveOnly
<1>4. /\ TimelineOk(msg', now') /\ RowStep(msg, msg') /\ msg'[m].st = "deleted"
      /\ \A o \in MessageIds : /\ o # m => msg'[o].st = msg[o].st
                               /\ msg'[o].parent = msg[o].parent /\ msg'[o].by = msg[o].by
                               /\ msg'[o].at = msg[o].at
  BY <1>3, SoftDeleteRows
<1>5. PICK type \in EventTypes : type = "deleted"
  BY DEF EventTypes
<1>6. PICK e : e = Event(type, m)
  OBVIOUS
<1>7. e \in Ev /\ e.type = type /\ e.m = m /\ e.parent = msg[m].parent /\ e.by = msg[m].by
  BY <1>3, <1>6, EventIs
<1>8. EventOk(msg', e)
  BY <1>4, <1>7 DEF EventOk, Sent, Gone
<1>9. PICK k : k = [pc |-> "record", jobs |-> <<[kind |-> type, m |-> m, by |-> v]>>, ev |-> e]
  OBVIOUS
<1>10. CallOk(msg', k) /\ k.pc = "record" /\ k.ev = e
  <2>1. Gone(msg', m)
    BY <1>4 DEF Gone
  <2> QED
    BY <1>5, <1>8, <1>9, <2>1, TellingCall
<1>11. call' = [call EXCEPT ![c] = k] /\ call[c].pc = "free" /\ DOMAIN call = Clients
  BY <1>5, <1>6, <1>9 DEF Delete, Idle, MessageInv, BadgeInv
<1>12. reacted' \subseteq MessageIds /\ \A o \in reacted' : Sent(msg', o)
  BY <1>3, <1>4 DEF MessageInv, FollowersInv, RowStep
<1>13. ASSUME NEW u \in People, menv.badges
       PROVE  Awaits(u)' \/ (TopsStay(msg, msg') /\ UnreadIn(msg', readAt, u) = UnreadIn(msg, readAt, u))
  <2>1. CASE msg[m].parent = NoMessage
    <3>1. eventKey(e) = <<"deleted", m>>
      BY <1>5, <1>7 DEF eventKey
    <3>2. <<"deleted", m>> \notin recent'
      BY <1>3 DEF MessageInv, EventsInv, KeyOk, Gone, Quietly, streamVars
    <3>3. Moves(e, u)
      BY <1>5, <1>7, <2>1 DEF Moves
    <3>4. CallTells(k, u, msg', recent')
      BY <1>10, <3>1, <3>2, <3>3 DEF CallTells
    <3>5. CallTells(call'[c], u, msg', recent')
      BY <1>11, <3>4
    <3>6. Awaiting(u, msg', recent', toBadge', call', promo')
      BY <3>5 DEF Awaiting
    <3> QED
      BY <3>6 DEF Awaits
  <2>2. CASE msg[m].parent # NoMessage
    <3>1. TopsStay(msg, msg')
      BY <1>4, <2>2 DEF TopsStay
    <3>2. \A o \in MessageIds : msg[o].st = "live" /\ msg[o].parent = NoMessage /\ msg[o].by # u
                                <=> msg'[o].st = "live" /\ msg'[o].parent = NoMessage /\ msg'[o].by # u
      BY <1>4, <2>2
    <3>3. \A o \in MessageIds : msg[o].st = "live" /\ msg[o].parent = NoMessage => msg'[o].at = msg[o].at
      BY <1>4
    <3>4. UnreadIn(msg', readAt, u) = UnreadIn(msg, readAt, u)
      BY <3>2, <3>3, UnreadSame
    <3> QED
      BY <3>1, <3>4
  <2> QED
    BY <2>1, <2>2
<1> QED
  BY <1>2, <1>3, <1>4, <1>10, <1>11, <1>12, <1>13, RequestKeeps

LEMMA ReactKeeps ==
    ASSUME MessageInv, NEW c \in Clients, NEW m \in MessageIds, NEW on \in BOOLEAN, NEW op \in Operations,
           NEW type \in EventTypes, type \notin {"new", "deleted"}, React(c, m, on, op, type)
    PROVE  MessageInv'
<1>1. Can(op) /\ Spend(op)
  BY DEF React
<1>2. ChannelInv' /\ menv'.badges = menv.badges
  BY <1>1, SpendKeeps DEF MessageInv
<1>3. TimelineOk(msg, now) /\ UNCHANGED <<now, msg>> /\ Quietly
  BY DEF MessageInv, React
<1>4. Sent(msg, m)
  <2>1. CASE on
    BY <2>1 DEF React, liveOnly, Sent
  <2>2. CASE ~on
    BY <2>2 DEF React, MessageInv, FollowersInv
  <2> QED
    BY <2>1, <2>2
<1>5. PICK e : e = Event(type, m)
  OBVIOUS
<1>6. EventOk(msg, e)
  BY <1>3, <1>4, <1>5, EventIs
<1>7. PICK by \in People \cup {NoMessage} : by = NoMessage
  OBVIOUS
<1>8. PICK k : k = [pc |-> "record", jobs |-> <<[kind |-> type, m |-> m, by |-> by]>>, ev |-> e]
  OBVIOUS
<1>9. CallOk(msg, k)
  BY <1>6, <1>8, TellingCall
<1>10. call' = [call EXCEPT ![c] = k] /\ call[c].pc = "free"
  BY <1>5, <1>7, <1>8 DEF React, Idle
<1>11. reacted' \subseteq MessageIds /\ \A o \in reacted' : Sent(msg', o)
  BY <1>3, <1>4 DEF MessageInv, FollowersInv, React
<1>12. RowStep(msg, msg') /\ TopsStay(msg, msg') /\ TimelineOk(msg', now') /\ CallOk(msg', k)
  BY <1>3, <1>9, SameRows DEF TopsStay
<1>13. \A u : UnreadIn(msg', readAt, u) = UnreadIn(msg, readAt, u)
  BY <1>3
<1> QED
  BY <1>2, <1>3, <1>10, <1>11, <1>12, <1>13, RequestKeeps

-----------------------------------------------------------------------------
(* Publishing.                                                             *)

LEMMA FreeOk ==
    ASSUME NEW rows
    PROVE  CallOk(rows, Free)
BY DEF CallOk

LEMMA NextOk ==
    ASSUME NEW rows, NEW rest \in Seq(Job), \A i \in DOMAIN rest : TaskOk(rows, rest[i]),
           NEW k, k = IF rest = <<>> THEN Free ELSE [pc |-> "read", jobs |-> rest]
    PROVE  CallOk(rows, k)
<1>1. CASE rest = <<>>
  BY <1>1, FreeOk
<1>2. CASE rest # <<>>
  <2>1. k \in Reading /\ k.jobs = rest
    BY <1>2 DEF Reading
  <2> QED
    BY <1>2, <2>1 DEF CallOk
<1> QED
  BY <1>1, <1>2

\* A request moves on, its rows and the stream as they were.
LEMMA CallMoves ==
    ASSUME MessageInv, ChannelInv', menv'.badges = menv.badges, UNCHANGED rowVars, Quietly, NEW c \in Clients, NEW k,
           CallOk(msg, k), call' = [call EXCEPT ![c] = k],
           \A u \in People : menv.badges => ~CallTells(call[c], u, msg, recent) \/ CallTells(k, u, msg, recent)
    PROVE  MessageInv'
<1>1. /\ RequestsInv /\ OutboxInv /\ EventsInv /\ FollowersInv /\ BadgeInv /\ DOMAIN call = Clients
      /\ UNCHANGED <<outbox, sweep, recent, announced, toIndex, toBadge, parked, promo, index>>
      /\ UNCHANGED <<readAt, badge, fan, marking>> /\ UNCHANGED <<msg, now, reacted>> /\ TimelineOk(msg, now)
  BY DEF MessageInv, Quietly, streamVars, readers, worker, BadgeInv, rowVars
<1>2. RowStep(msg, msg') /\ TopsStay(msg, msg') /\ TimelineOk(msg', now') /\ CallOk(msg', k)
  BY <1>1, SameRows DEF TopsStay
<1>3. RequestsInv' /\ DOMAIN call' = Clients
  BY <1>1, <1>2, RequestsStep
<1>4. OutboxInv'
  BY <1>1, <1>2, OutboxStill
<1>5. EventsInv'
  BY <1>1, <1>2, EventsStill DEF streamVars
<1>6. FollowersInv'
  BY <1>1, <1>2, FollowersStill
<1>7. BadgeInv'
  <2>1. Carried(msg, recent, promo, promo')
    BY <1>1 DEF Carried
  <2>2. ASSUME NEW u \in People, menv.badges, NEW d \in Clients
        PROVE  \/ call'[d] = call[d] \/ ~CallTells(call[d], u, msg, recent)
               \/ CallTells(call'[d], u, msg', recent')
    <3>1. CASE d # c
      BY <1>1, <3>1
    <3>2. CASE d = c
      <4>1. call'[d] = k /\ recent' = recent /\ msg' = msg
        BY <1>1, <3>2
      <4> QED
        BY <2>2, <3>2, <4>1
    <3> QED
      BY <3>1, <3>2
  <2>3. \A u : UnreadIn(msg', readAt, u) = UnreadIn(msg, readAt, u)
    BY <1>1
  <2> QED
    BY <1>1, <1>2, <1>3, <2>1, <2>2, <2>3, BadgeStill
<1> QED
  BY <1>2, <1>3, <1>4, <1>5, <1>6, <1>7 DEF MessageInv

LEMMA RespondKeeps ==
    ASSUME MessageInv, NEW c \in Clients, respondWithMessage(c)
    PROVE  MessageInv'
<1>1. PICK k0 : k0 = call[c] /\ CallOk(msg, k0) /\ k0.pc = "read"
  BY DEF MessageInv, RequestsInv, respondWithMessage
<1>2. /\ k0.jobs \in Seq(Job) /\ k0.jobs # <<>> /\ TaskOk(msg, Head(k0.jobs))
      /\ Tail(k0.jobs) \in Seq(Job) /\ \A i \in DOMAIN Tail(k0.jobs) : TaskOk(msg, Tail(k0.jobs)[i])
      /\ \A i \in DOMAIN k0.jobs : TaskOk(msg, k0.jobs[i])
  <2>1. k0.pc # "free"
    BY <1>1
  <2>2. \A i \in DOMAIN k0.jobs : TaskOk(msg, k0.jobs[i])
    BY <1>1, <2>1 DEF CallOk, Free
  <2> QED
    BY <1>1, <2>1, <2>2, FirstJob
<1>3. PICK j \in Job : j = Head(k0.jobs) /\ TaskOk(msg, j)
  BY <1>2 DEF TaskOk
<1>4. j.kind # "post" /\ ChannelInv' /\ menv'.badges = menv.badges /\ UNCHANGED rowVars /\ Quietly /\ TimelineOk(msg, now)
  BY <1>1, <1>3 DEF respondWithMessage, MessageInv, ChannelInv
<1>5. CASE Publishable(j.m)
  <2>1. msg[j.m].st = "live" /\ j.m \in MessageIds /\ j.kind \in EventTypes
    BY <1>4, <1>5 DEF Publishable, GetByID, liveOnly, Job
  <2>2. j.kind # "deleted" /\ Sent(msg, j.m)
    BY <1>3, <2>1 DEF TaskOk, Gone, Sent
  <2>3. PICK e : e = Event(j.kind, j.m)
    OBVIOUS
  <2>4. e \in Ev /\ e.type = j.kind /\ e.m = j.m /\ e.parent = msg[j.m].parent /\ e.by = msg[j.m].by
    BY <1>4, <2>1, <2>3, EventIs
  <2>5. EventOk(msg, e)
    BY <1>4, <2>1, <2>2, <2>3, EventIs
  <2>6. PICK k : k = [pc |-> "record", jobs |-> k0.jobs, ev |-> e]
    OBVIOUS
  <2>7. k \in Telling /\ k.jobs = k0.jobs /\ k.ev = e /\ k.pc = "record"
    BY <1>2, <2>4, <2>6 DEF Telling
  <2>8. CallOk(msg, k)
    BY <1>2, <2>5, <2>7 DEF CallOk
  <2>9. call' = [call EXCEPT ![c] = k]
    <3>1. DOMAIN call = Clients
      BY DEF MessageInv, BadgeInv
    <3> QED
      BY <1>1, <1>3, <1>5, <2>3, <2>6, <3>1 DEF respondWithMessage
  <2>10. ASSUME NEW u \in People, CallTells(call[c], u, msg, recent) PROVE CallTells(k, u, msg, recent)
    <3>1. j.kind = "new" /\ Counts(msg, j.m, u) /\ Fresh(msg, recent, j.m)
      BY <1>1, <1>3, <1>4, <2>10 DEF CallTells
    <3>2. Moves(e, u) /\ eventKey(e) \notin recent
      BY <2>4, <3>1 DEF Moves, Counts, Fresh, eventKey
    <3> QED
      BY <2>7, <3>2 DEF CallTells
  <2> QED
    BY <1>4, <2>8, <2>9, <2>10, CallMoves
<1>6. CASE ~Publishable(j.m)
  <2>1. PICK rest \in Seq(Job) : rest = (IF j.kind = "updated" THEN Tail(k0.jobs) ELSE <<>>)
    <3>1. CASE j.kind = "updated"
      BY <1>2, <3>1
    <3>2. CASE j.kind # "updated"
      <4>1. <<>> \in Seq(Job)
        OBVIOUS
      <4> QED
        BY <3>2, <4>1
    <3> QED
      BY <3>1, <3>2
  <2>2. \A i \in DOMAIN rest : TaskOk(msg, rest[i])
    BY <1>2, <2>1
  <2>3. PICK k : k = IF rest = <<>> THEN Free ELSE [pc |-> "read", jobs |-> rest]
    OBVIOUS
  <2>4. CallOk(msg, k)
    BY <2>2, <2>3, NextOk
  <2>5. call' = [call EXCEPT ![c] = k]
    BY <1>1, <1>3, <1>6, <2>1, <2>3 DEF respondWithMessage, NextJob
  <2>6. ASSUME NEW u \in People PROVE ~CallTells(call[c], u, msg, recent)
    BY <1>1, <1>3, <1>4, <1>6 DEF CallTells, Publishable, GetByID, liveOnly, Fresh
  <2> QED
    BY <1>4, <2>4, <2>5, <2>6, CallMoves
<1> QED
  BY <1>5, <1>6

LEMMA FailureKeeps ==
    ASSUME MessageInv, NEW c \in Clients, RecordOutboxFailure(c)
    PROVE  MessageInv'
<1>1. PICK op \in Operations : op = "fault" /\ Can(op) /\ Spend(op)
  BY DEF Operations, RecordOutboxFailure
<1>2. ChannelInv' /\ menv'.badges = menv.badges /\ (menv.badges => op \notin {"read", "crash", "fault", "purge"})
  BY <1>1, SpendKeeps DEF MessageInv
<1>3. PICK rest : rest = Tail(call[c].jobs)
  OBVIOUS
<1>4. CallOk(msg, call[c]) /\ call[c].pc # "free" /\ UNCHANGED rowVars /\ Quietly
  BY DEF MessageInv, RequestsInv, RecordOutboxFailure
<1>5. rest \in Seq(Job) /\ \A i \in DOMAIN rest : TaskOk(msg, rest[i])
  BY <1>3, <1>4, FirstJob
<1>6. PICK k : k = IF rest = <<>> THEN Free ELSE [pc |-> "read", jobs |-> rest]
  OBVIOUS
<1>7. CallOk(msg, k)
  BY <1>5, <1>6, NextOk
<1>8. call' = [call EXCEPT ![c] = k]
  BY <1>3, <1>6 DEF RecordOutboxFailure, NextJob
<1> QED
  BY <1>1, <1>2, <1>4, <1>7, <1>8, CallMoves

LEMMA CrashKeeps ==
    ASSUME MessageInv, NEW c \in Clients, ClientCrash(c)
    PROVE  MessageInv'
<1>1. PICK op \in Operations : op = "crash" /\ Can(op) /\ Spend(op)
  BY DEF Operations, ClientCrash
<1>2. ChannelInv' /\ menv'.badges = menv.badges /\ (menv.badges => op \notin {"read", "crash", "fault", "purge"})
  BY <1>1, SpendKeeps DEF MessageInv
<1>3. UNCHANGED rowVars /\ Quietly /\ call' = [call EXCEPT ![c] = Free]
  BY DEF ClientCrash
<1> QED
  BY <1>1, <1>2, <1>3, FreeOk, CallMoves

\* Whoever waited for the event that the stream takes now finds it in the queue.
LEMMA BadgeDelivered ==
    ASSUME BadgeInv, RequestsInv, FollowersInv, EventsInv, ChannelInv, menv'.badges = menv.badges,
           UNCHANGED <<msg, readAt, badge, fan, marking>>, NEW e, EventOk(msg, e), Deliver(e, TRUE),
           DOMAIN call' = Clients, NEW rec, rec = recent \cup {eventKey(e)},
           \A u \in People, d \in Clients : call'[d] = call[d] \/ ~CallTells(call[d], u, msg, rec),
           Carried(msg, rec, promo, promo')
    PROVE  BadgeInv'
<1>1. ASSUME NEW u \in People, menv.badges PROVE Shown(u)' = UnreadCount(u)' \/ Awaits(u)'
  <2>1. Shown(u) = UnreadCount(u) \/ Awaits(u)
    BY <1>1 DEF BadgeInv
  <2>2. Shown(u)' = Shown(u) /\ UnreadCount(u)' = UnreadCount(u)
    BY DEF Shown, UnreadCount
  <2>3. /\ promo \in Seq(MessageIds) /\ toBadge \in Seq(Ev) /\ "badge" \in menv.consumers
        /\ \A c \in Clients : CallOk(msg, call[c])
    BY <1>1 DEF FollowersInv, RequestsInv, EventsInv, ChannelInv
  <2>4. ASSUME Awaits(u) PROVE Awaits(u)'
    <3>1. Awaiting(u, msg, recent, toBadge, call, promo)
      BY <2>4 DEF Awaits
    <3>2. recent' = rec /\ Awaiting(u, msg, rec, toBadge', call, promo)
      <4>1. CASE eventKey(e) \in recent
        <5>1. recent' = recent /\ toBadge' = toBadge /\ rec = recent
          BY <4>1 DEF Deliver, streamVars
        <5> QED
          BY <3>1, <5>1
      <4>2. CASE eventKey(e) \notin recent
        <5>1. recent' = rec /\ toBadge' = IF e.type \in {"new", "deleted"} THEN Append(toBadge, e) ELSE toBadge
          BY <2>3, <4>2 DEF Deliver
        <5>2. PICK q2 : q2 = toBadge' /\ q2 = IF e.type \in {"new", "deleted"} THEN Append(toBadge, e) ELSE toBadge
          BY <5>1
        <5>3. Awaiting(u, msg, recent \cup {eventKey(e)}, q2, call, promo)
          BY <2>3, <3>1, <5>2, DeliverAwaited
        <5> QED
          BY <5>1, <5>2, <5>3
      <4> QED
        BY <4>1, <4>2
    <3>3. RowStep(msg, msg') /\ TopsStay(msg, msg')
      BY SameRows DEF TopsStay
    <3>4. \A d \in Clients : \/ call'[d] = call[d] \/ ~CallTells(call[d], u, msg, rec) \/ CallTells(call'[d], u, msg', rec)
      BY <1>1
    <3>5. Awaiting(u, msg', rec, toBadge', call', promo')
      BY <2>3, <3>2, <3>3, <3>4, AwaitKept
    <3> QED
      BY <3>2, <3>5 DEF Awaits
  <2> QED
    BY <2>1, <2>2, <2>4
<1> QED
  BY <1>1 DEF BadgeInv

LEMMA RecordKeeps ==
    ASSUME MessageInv, NEW c \in Clients, RecordOutboxEvent(c)
    PROVE  MessageInv'
<1>1. /\ RequestsInv /\ OutboxInv /\ EventsInv /\ FollowersInv /\ BadgeInv /\ DOMAIN call = Clients /\ TimelineOk(msg, now)
      /\ UNCHANGED <<menv, sweep, recent, announced, toIndex, toBadge, parked, promo, index>>
      /\ UNCHANGED <<readAt, badge, fan, marking>> /\ UNCHANGED <<msg, now, reacted>> /\ ChannelInv
  BY DEF MessageInv, RecordOutboxEvent, streamVars, readers, worker, BadgeInv, rowVars
<1>2. PICK k0 : k0 = call[c] /\ CallOk(msg, k0) /\ k0.pc = "record"
  BY <1>1 DEF RequestsInv, RecordOutboxEvent
<1>3. k0 \in Telling /\ EventOk(msg, k0.ev) /\ k0.jobs # <<>> /\ \A i \in DOMAIN k0.jobs : TaskOk(msg, k0.jobs[i])
  BY <1>2 DEF CallOk, Free, Reading
<1>4. PICK k : k = [k0 EXCEPT !.pc = "publish"]
  OBVIOUS
<1>5. k \in Telling /\ k.jobs = k0.jobs /\ k.ev = k0.ev /\ k.pc = "publish"
  BY <1>3, <1>4 DEF Telling
<1>6. RowStep(msg, msg') /\ TopsStay(msg, msg') /\ TimelineOk(msg', now') /\ CallOk(msg', k) /\ ChannelInv'
  <2>1. CallOk(msg, k)
    BY <1>3, <1>5 DEF CallOk
  <2> QED
    BY <1>1, <2>1, SameRows DEF TopsStay, ChannelInv
<1>7. call' = [call EXCEPT ![c] = k]
  BY <1>1, <1>2, <1>4 DEF RecordOutboxEvent
<1>8. RequestsInv' /\ DOMAIN call' = Clients
  BY <1>1, <1>6, <1>7, RequestsStep
<1>9. OutboxInv'
  <2>1. PICK key \in Keys, e \in Ev : key = eventKey(k0.ev) /\ e = k0.ev /\ EventOk(msg, e)
    BY <1>3, KeyOfEvent DEF EventOk
  <2>2. PICK d \in BOOLEAN : d = FALSE
    OBVIOUS
  <2>3. PICK entry \in OutboxRow : entry = [key |-> key, ev |-> e, done |-> d] /\ entry.ev = e
    <3>1. [key |-> key, ev |-> e, done |-> d] \in OutboxRow
      BY DEF OutboxRow
    <3>2. [key |-> key, ev |-> e, done |-> d].ev = e
      OBVIOUS
    <3> QED
      BY <3>1, <3>2
  <2>4. outbox' = outbox \/ outbox' = Append(outbox, entry)
    BY <1>2, <2>1, <2>2, <2>3 DEF RecordOutboxEvent
  <2>5. CASE outbox' = outbox
    BY <1>1, <1>6, <2>5, OutboxStill
  <2>6. CASE outbox' = Append(outbox, entry)
    <3>1. outbox \in Seq(OutboxRow) /\ sweep \in Seq(DOMAIN outbox)
      BY <1>1 DEF OutboxInv
    <3>2. /\ outbox' \in Seq(OutboxRow) /\ DOMAIN outbox \subseteq DOMAIN outbox'
          /\ \A i \in DOMAIN outbox' : outbox'[i] = entry \/ (i \in DOMAIN outbox /\ outbox'[i] = outbox[i])
      BY <2>6, <3>1
    <3>3. sweep \in Seq(DOMAIN outbox')
      BY <3>1, <3>2
    <3>4. \A i \in DOMAIN outbox' : EventOk(msg, outbox'[i].ev)
      BY <1>1, <2>1, <2>3, <3>2 DEF OutboxInv
    <3> QED
      BY <1>1, <3>2, <3>3, <3>4 DEF OutboxInv
  <2> QED
    BY <2>4, <2>5, <2>6
<1>10. EventsInv'
  BY <1>1, <1>6, EventsStill DEF streamVars
<1>11. FollowersInv'
  BY <1>1, <1>6, FollowersStill
<1>12. BadgeInv'
  <2>1. Carried(msg, recent, promo, promo')
    BY <1>1 DEF Carried
  <2>2. ASSUME NEW u \in People, NEW d \in Clients
        PROVE  \/ call'[d] = call[d] \/ ~CallTells(call[d], u, msg, recent)
               \/ CallTells(call'[d], u, msg', recent')
    <3>1. CASE d # c
      BY <1>1, <1>7, <3>1
    <3>2. CASE d = c
      <4>1. call'[d] = k /\ recent' = recent /\ msg' = msg
        BY <1>1, <1>7, <3>2
      <4> QED
        BY <1>2, <1>5, <3>2, <4>1 DEF CallTells
    <3> QED
      BY <3>1, <3>2
  <2>3. \A u : UnreadIn(msg', readAt, u) = UnreadIn(msg, readAt, u)
    BY <1>1
  <2> QED
    BY <1>1, <1>6, <1>8, <2>1, <2>2, <2>3, BadgeStill
<1> QED
  BY <1>6, <1>8, <1>9, <1>10, <1>11, <1>12 DEF MessageInv

LEMMA PublishKeeps ==
    ASSUME MessageInv, NEW c \in Clients, publish(c)
    PROVE  MessageInv'
<1>1. /\ RequestsInv /\ OutboxInv /\ EventsInv /\ FollowersInv /\ BadgeInv /\ DOMAIN call = Clients /\ TimelineOk(msg, now)
      /\ UNCHANGED <<menv, outbox, sweep, parked, promo, index>>
      /\ UNCHANGED <<readAt, badge, fan, marking>> /\ UNCHANGED <<msg, now, reacted>> /\ ChannelInv
  BY DEF MessageInv, publish, readers, worker, BadgeInv, rowVars
<1>2. PICK k0 : k0 = call[c] /\ CallOk(msg, k0) /\ k0.pc = "publish"
  BY <1>1 DEF RequestsInv, publish
<1>3. k0 \in Telling /\ EventOk(msg, k0.ev) /\ k0.jobs # <<>> /\ \A i \in DOMAIN k0.jobs : TaskOk(msg, k0.jobs[i])
  BY <1>2 DEF CallOk, Free, Reading
<1>4. PICK k : k = [k0 EXCEPT !.pc = "mark"]
  OBVIOUS
<1>5. k \in Telling /\ k.jobs = k0.jobs /\ k.ev = k0.ev
  BY <1>3, <1>4 DEF Telling
<1>6. RowStep(msg, msg') /\ TimelineOk(msg', now') /\ CallOk(msg', k) /\ ChannelInv'
  <2>1. CallOk(msg, k)
    BY <1>3, <1>5 DEF CallOk
  <2> QED
    BY <1>1, <2>1, SameRows DEF ChannelInv
<1>7. call' = [call EXCEPT ![c] = k]
  BY <1>1, <1>2, <1>4 DEF publish
<1>8. RequestsInv' /\ DOMAIN call' = Clients
  BY <1>1, <1>6, <1>7, RequestsStep
<1>9. OutboxInv'
  BY <1>1, <1>6, OutboxStill
<1>10. PICK e : e = k0.ev /\ EventOk(msg, e) /\ Deliver(e, TRUE)
  BY <1>2, <1>3 DEF publish
<1>11. EventsInv'
  BY <1>1, <1>10, DeliverKeeps
<1>12. FollowersInv'
  BY <1>1, <1>6, FollowersStill
<1>13. BadgeInv'
  <2>1. PICK rec : rec = recent \cup {eventKey(e)}
    OBVIOUS
  <2>2. Carried(msg, rec, promo, promo')
    BY <1>1 DEF Carried
  <2>3. ASSUME NEW u \in People, NEW d \in Clients
        PROVE  call'[d] = call[d] \/ ~CallTells(call[d], u, msg, rec)
    <3>1. CASE d # c
      BY <1>1, <1>7, <3>1
    <3>2. CASE d = c
      BY <1>2, <1>10, <2>1, <3>2 DEF CallTells
    <3> QED
      BY <3>1, <3>2
  <2> QED
    BY <1>1, <1>8, <1>10, <2>1, <2>2, <2>3, BadgeDelivered
<1> QED
  BY <1>6, <1>8, <1>9, <1>11, <1>12, <1>13 DEF MessageInv

LEMMA MarkKeeps ==
    ASSUME MessageInv, NEW c \in Clients, MarkOutboxPublished(c)
    PROVE  MessageInv'
<1>1. /\ RequestsInv /\ OutboxInv /\ EventsInv /\ FollowersInv /\ BadgeInv /\ DOMAIN call = Clients /\ TimelineOk(msg, now)
      /\ UNCHANGED <<menv, sweep, recent, announced, toIndex, toBadge, parked, promo, index>>
      /\ UNCHANGED <<readAt, badge, fan, marking>> /\ UNCHANGED <<msg, now, reacted>> /\ ChannelInv
  BY DEF MessageInv, MarkOutboxPublished, streamVars, readers, worker, BadgeInv, rowVars
<1>2. CallOk(msg, call[c]) /\ call[c].pc = "mark"
  BY <1>1 DEF RequestsInv, MarkOutboxPublished
<1>3. PICK rest : rest = Tail(call[c].jobs)
  OBVIOUS
<1>4. rest \in Seq(Job) /\ \A i \in DOMAIN rest : TaskOk(msg, rest[i])
  BY <1>2, <1>3, FirstJob
<1>5. PICK k : k = IF rest = <<>> THEN Free ELSE [pc |-> "read", jobs |-> rest]
  OBVIOUS
<1>6. CallOk(msg, k)
  BY <1>4, <1>5, NextOk
<1>7. call' = [call EXCEPT ![c] = k]
  BY <1>3, <1>5 DEF MarkOutboxPublished, NextJob
<1>8. RowStep(msg, msg') /\ TopsStay(msg, msg') /\ TimelineOk(msg', now') /\ CallOk(msg', k) /\ ChannelInv'
  BY <1>1, <1>6, SameRows DEF TopsStay, ChannelInv
<1>9. RequestsInv' /\ DOMAIN call' = Clients
  BY <1>1, <1>7, <1>8, RequestsStep
<1>10. OutboxInv'
  <2>1. outbox \in Seq(OutboxRow) /\ sweep \in Seq(DOMAIN outbox) /\ \A i \in DOMAIN outbox : EventOk(msg, outbox[i].ev)
    BY <1>1 DEF OutboxInv
  <2>2. ASSUME NEW entry \in OutboxRow
        PROVE  [entry EXCEPT !.done = TRUE] \in OutboxRow /\ [entry EXCEPT !.done = TRUE].ev = entry.ev
    BY DEF OutboxRow
  <2>3. ASSUME NEW i \in DOMAIN outbox PROVE outbox'[i] \in OutboxRow /\ outbox'[i].ev = outbox[i].ev
    <3>1. outbox'[i] = outbox[i] \/ outbox'[i] = [outbox[i] EXCEPT !.done = TRUE]
      BY DEF MarkOutboxPublished
    <3>2. outbox[i] \in OutboxRow
      BY <2>1
    <3> QED
      BY <2>2, <3>1, <3>2
  <2>4. DOMAIN outbox' = DOMAIN outbox /\ outbox' = [i \in DOMAIN outbox |-> outbox'[i]]
    BY DEF MarkOutboxPublished
  <2>5. outbox' \in Seq(OutboxRow)
    <3>1. DOMAIN outbox = 1..Len(outbox) /\ Len(outbox) \in Nat
      BY <2>1
    <3>2. outbox' \in [1..Len(outbox) -> OutboxRow]
      BY <2>3, <2>4, <3>1
    <3> QED
      BY <3>1, <3>2, SeqDef
  <2> QED
    BY <1>1, <2>1, <2>3, <2>4, <2>5 DEF OutboxInv
<1>11. EventsInv'
  BY <1>1, <1>8, EventsStill DEF streamVars
<1>12. FollowersInv'
  BY <1>1, <1>8, FollowersStill
<1>13. BadgeInv'
  <2>1. Carried(msg, recent, promo, promo')
    BY <1>1 DEF Carried
  <2>2. ASSUME NEW u \in People, NEW d \in Clients
        PROVE  call'[d] = call[d] \/ ~CallTells(call[d], u, msg, recent)
    BY <1>1, <1>2, <1>7 DEF CallTells
  <2>3. \A u : UnreadIn(msg', readAt, u) = UnreadIn(msg, readAt, u)
    BY <1>1
  <2> QED
    BY <1>1, <1>8, <1>9, <2>1, <2>2, <2>3, BadgeStill
<1> QED
  BY <1>8, <1>9, <1>10, <1>11, <1>12, <1>13 DEF MessageInv

LEMMA PostKeeps ==
    ASSUME MessageInv, NEW c \in Clients, NEW ok \in BOOLEAN, PublishPost(c, ok)
    PROVE  MessageInv'
<1>1. /\ RequestsInv /\ OutboxInv /\ EventsInv /\ FollowersInv /\ BadgeInv /\ DOMAIN call = Clients /\ TimelineOk(msg, now)
      /\ UNCHANGED <<outbox, sweep, parked, promo, index>>
      /\ UNCHANGED <<readAt, badge, fan, marking>> /\ UNCHANGED <<msg, now, reacted>> /\ ChannelInv
  BY DEF MessageInv, PublishPost, readers, worker, BadgeInv, rowVars
<1>2. /\ CallOk(msg, call[c]) /\ call[c].pc = "read" /\ Head(call[c].jobs).kind = "post"
      /\ call' = [call EXCEPT ![c] = Free]
  BY <1>1 DEF RequestsInv, PublishPost
<1>3. PICK m \in MessageIds : m = Head(call[c].jobs).m /\ Sent(msg, m)
  <2>1. TaskOk(msg, Head(call[c].jobs))
    BY <1>2, FirstJob
  <2> QED
    BY <1>2, <2>1 DEF TaskOk, Job
<1>4. RowStep(msg, msg') /\ TopsStay(msg, msg') /\ TimelineOk(msg', now') /\ CallOk(msg', Free)
  BY <1>1, FreeOk, SameRows DEF TopsStay
<1>5. RequestsInv' /\ DOMAIN call' = Clients
  BY <1>1, <1>2, <1>4, RequestsStep
<1>6. OutboxInv'
  BY <1>1, <1>4, OutboxStill
<1>7. FollowersInv'
  BY <1>1, <1>4, FollowersStill
<1>8. CASE ok
  <2>1. PICK e : e = [Event("new", m) EXCEPT !.text = 0] /\ Deliver(e, FALSE) /\ UNCHANGED menv
    BY <1>3, <1>8 DEF PublishPost
  <2>2. PICK e0 : e0 = Event("new", m)
    OBVIOUS
  <2>3. EventOk(msg, e0) /\ e0.type = "new" /\ e0.parent = msg[m].parent /\ e0.by = msg[m].by
    <3>1. PICK type \in EventTypes : type = "new"
      BY DEF EventTypes
    <3> QED
      BY <1>1, <1>3, <2>2, <3>1, EventIs
  <2>4. e \in Ev /\ e.m = e0.m /\ e.parent = e0.parent /\ e.by = e0.by /\ e.type = e0.type
    <3>1. e0 \in Ev /\ e = [e0 EXCEPT !.text = 0]
      BY <2>1, <2>2, <2>3 DEF EventOk
    <3> QED
      BY <3>1 DEF Ev
  <2>5. EventOk(msg, e)
    BY <2>3, <2>4 DEF EventOk
  <2>6. ChannelInv' /\ menv'.badges = menv.badges
    BY <1>1, <2>1 DEF ChannelInv
  <2>7. EventsInv'
    BY <1>1, <2>1, <2>5, DeliverKeeps
  <2>8. BadgeInv'
    <3>1. ASSUME NEW u \in People, menv.badges
          PROVE  \/ Awaits(u)'
                 \/ /\ TopsStay(msg, msg') /\ UnreadIn(msg', readAt, u) = UnreadIn(msg, readAt, u)
                    /\ OnTheWay(toBadge, u) => OnTheWay(toBadge', u)
                    /\ Carried(msg, recent, promo, promo')
                    /\ \A d \in Clients : \/ call'[d] = call[d]
                                          \/ ~CallTells(call[d], u, msg, recent)
                                          \/ CallTells(call'[d], u, msg', recent')
      <4>1. toBadge' = Append(toBadge, e) /\ toBadge \in Seq(Ev)
        BY <1>1, <2>1, <2>3, <2>4, <3>1 DEF Deliver, ChannelInv, EventsInv
      <4>2. /\ \A i \in DOMAIN toBadge : i \in DOMAIN toBadge' /\ toBadge'[i] = toBadge[i]
            /\ Len(toBadge) + 1 \in DOMAIN toBadge' /\ toBadge'[Len(toBadge) + 1] = e
        BY <2>4, <4>1
      <4>3. OnTheWay(toBadge, u) => OnTheWay(toBadge', u)
        BY <4>2 DEF OnTheWay
      <4>4. CASE Counts(msg, m, u)
        <5>1. Moves(e, u)
          BY <2>3, <2>4, <4>4 DEF Moves, Counts
        <5>2. OnTheWay(toBadge', u)
          BY <4>2, <5>1 DEF OnTheWay
        <5> QED
          BY <5>2 DEF Awaits, Awaiting
      <4>5. CASE ~Counts(msg, m, u)
        <5>1. ~CallTells(call[c], u, msg, recent)
          BY <1>2, <1>3, <4>5 DEF CallTells
        <5>2. \A d \in Clients : call'[d] = call[d] \/ ~CallTells(call[d], u, msg, recent)
          BY <1>1, <1>2, <5>1
        <5>3. UnreadIn(msg', readAt, u) = UnreadIn(msg, readAt, u) /\ Carried(msg, recent, promo, promo')
          BY <1>1 DEF Carried
        <5> QED
          BY <1>4, <4>3, <5>2, <5>3
      <4> QED
        BY <4>4, <4>5
    <3>2. recent' = recent
      BY <2>1 DEF Deliver
    <3> QED
      BY <1>1, <1>4, <1>5, <2>6, <3>1, <3>2, BadgeStill
  <2> QED
    BY <1>4, <1>5, <1>6, <1>7, <2>6, <2>7, <2>8 DEF MessageInv
<1>9. CASE ~ok
  <2>1. PICK op \in Operations : op = "fault" /\ Can(op) /\ Spend(op) /\ UNCHANGED streamVars
    BY <1>9 DEF Operations, PublishPost
  <2>2. ChannelInv' /\ menv'.badges = menv.badges /\ ~menv.badges
    BY <1>1, <2>1, SpendKeeps
  <2>3. EventsInv'
    BY <1>1, <1>4, <2>1, EventsStill
  <2>4. BadgeInv'
    BY <1>1, <1>5, <2>2 DEF BadgeInv
  <2> QED
    BY <1>4, <1>5, <1>6, <1>7, <2>2, <2>3, <2>4 DEF MessageInv
<1> QED
  BY <1>8, <1>9

LEMMA WindowKeeps ==
    ASSUME MessageInv, WindowPasses
    PROVE  MessageInv'
<1>1. /\ RequestsInv /\ OutboxInv /\ EventsInv /\ FollowersInv /\ BadgeInv /\ DOMAIN call = Clients /\ TimelineOk(msg, now)
      /\ UNCHANGED <<outbox, sweep, announced, toIndex, toBadge, parked, promo, index, call>> /\ recent' = {}
      /\ UNCHANGED <<readAt, badge, fan, marking>> /\ UNCHANGED <<msg, now, reacted>>
  BY DEF MessageInv, WindowPasses, readers, worker, BadgeInv, rowVars
<1>2. PICK op \in Operations : op = "window" /\ Can(op) /\ Spend(op)
  BY DEF Operations, WindowPasses
<1>3. ChannelInv' /\ menv'.badges = menv.badges
  BY <1>2, SpendKeeps DEF MessageInv
<1>4. RowStep(msg, msg') /\ TopsStay(msg, msg') /\ TimelineOk(msg', now')
  BY <1>1, SameRows DEF TopsStay
<1>5. RequestsInv'
  BY <1>1, <1>4, RequestsStill
<1>6. OutboxInv'
  BY <1>1, <1>4, OutboxStill
<1>7. EventsInv'
  BY <1>1 DEF EventsInv
<1>8. FollowersInv'
  BY <1>1, <1>4, FollowersStill
<1>9. BadgeInv'
  <2>1. Carried(msg, recent, promo, promo') /\ recent' \subseteq recent
    BY <1>1 DEF Carried
  <2>2. \A u : UnreadIn(msg', readAt, u) = UnreadIn(msg, readAt, u)
    BY <1>1
  <2> QED
    BY <1>1, <1>3, <1>4, <2>1, <2>2, BadgeStill
<1> QED
  BY <1>3, <1>4, <1>5, <1>6, <1>7, <1>8, <1>9 DEF MessageInv

-----------------------------------------------------------------------------
(* The worker.                                                             *)

LEMMA InIdOrderTyped ==
    ASSUME NEW S, IsFiniteSet(S), NEW s \in InIdOrder(S)
    PROVE  s \in Seq(S) /\ \A x \in S : \E i \in DOMAIN s : s[i] = x
<1>1. Cardinality(S) \in Nat /\ s \in [1..Cardinality(S) -> S] /\ Range(s) = S
  BY FS_CardinalityType DEF InIdOrder
<1>2. s \in Seq(S)
  BY <1>1, SeqDef
<1> QED
  BY <1>1, <1>2 DEF Range

LEMMA SweepOutboxKeeps ==
    ASSUME MessageInv, SweepOutbox
    PROVE  MessageInv'
<1>1. /\ RequestsInv /\ OutboxInv /\ EventsInv /\ FollowersInv /\ BadgeInv /\ DOMAIN call = Clients /\ TimelineOk(msg, now)
      /\ UNCHANGED <<menv, outbox, recent, announced, toIndex, toBadge, parked, promo, index, call>> /\ ChannelInv
      /\ UNCHANGED <<readAt, badge, fan, marking>> /\ UNCHANGED <<msg, now, reacted>>
  BY DEF MessageInv, SweepOutbox, readers, streamVars, BadgeInv, rowVars
<1>2. RowStep(msg, msg') /\ TopsStay(msg, msg') /\ TimelineOk(msg', now') /\ ChannelInv' /\ menv'.badges = menv.badges
  BY <1>1, SameRows DEF TopsStay, ChannelInv
<1>3. RequestsInv'
  BY <1>1, <1>2, RequestsStill
<1>4. OutboxInv'
  <2>1. outbox \in Seq(OutboxRow) /\ DOMAIN outbox = 1..Len(outbox) /\ Len(outbox) \in Nat
    BY <1>1 DEF OutboxInv
  <2>2. IsFiniteSet(PendingRows) /\ PendingRows \subseteq DOMAIN outbox
    <3>1. IsFiniteSet(1..Len(outbox))
      BY <2>1, FS_Interval
    <3> QED
      BY <2>1, <3>1, FS_Subset DEF PendingRows
  <2>3. PICK s \in InIdOrder(PendingRows) : s = sweep'
    BY DEF SweepOutbox
  <2>4. s \in Seq(PendingRows)
    BY <2>2, <2>3, InIdOrderTyped
  <2>5. s \in Seq(DOMAIN outbox)
    BY <2>2, <2>4
  <2> QED
    BY <1>1, <2>3, <2>5 DEF OutboxInv
<1>5. EventsInv'
  BY <1>1, <1>2, EventsStill DEF streamVars
<1>6. FollowersInv'
  BY <1>1, <1>2, FollowersStill
<1>7. BadgeInv'
  <2>1. Carried(msg, recent, promo, promo') /\ recent' \subseteq recent
    BY <1>1 DEF Carried
  <2>2. \A u : UnreadIn(msg', readAt, u) = UnreadIn(msg, readAt, u)
    BY <1>1
  <2> QED
    BY <1>1, <1>2, <2>1, <2>2, BadgeStill
<1> QED
  BY <1>2, <1>3, <1>4, <1>5, <1>6, <1>7 DEF MessageInv

LEMMA SweptOutbox ==
    ASSUME OutboxInv, UNCHANGED msg, sweep # <<>>, sweep' = Tail(sweep), UNCHANGED outbox \/ Swept(Head(sweep))
    PROVE  OutboxInv' /\ EventOk(msg, outbox[Head(sweep)].ev)
<1>1. outbox \in Seq(OutboxRow) /\ sweep \in Seq(DOMAIN outbox) /\ \A i \in DOMAIN outbox : EventOk(msg, outbox[i].ev)
  BY DEF OutboxInv
<1>2. PICK h \in DOMAIN outbox : h = Head(sweep)
  BY <1>1
<1>3. sweep' \in Seq(DOMAIN outbox)
  BY <1>1
<1>4. CASE UNCHANGED outbox
  BY <1>1, <1>2, <1>3, <1>4 DEF OutboxInv
<1>5. CASE outbox' = [outbox EXCEPT ![h].done = TRUE]
  <2>1. PICK entry \in OutboxRow : entry = outbox[h]
    BY <1>1
  <2>2. PICK next : next = [entry EXCEPT !.done = TRUE]
    OBVIOUS
  <2>3. next \in OutboxRow /\ next.ev = entry.ev
    BY <2>2 DEF OutboxRow
  <2>4. outbox' = [outbox EXCEPT ![h] = next]
    BY <1>5, <2>1, <2>2
  <2>5. outbox' \in Seq(OutboxRow) /\ DOMAIN outbox' = DOMAIN outbox
        /\ \A i \in DOMAIN outbox : outbox'[i] = IF i = h THEN next ELSE outbox[i]
    BY <1>1, <2>3, <2>4
  <2>6. \A i \in DOMAIN outbox : EventOk(msg, outbox'[i].ev)
    BY <1>1, <2>1, <2>3, <2>5
  <2> QED
    BY <1>1, <1>2, <1>3, <2>5, <2>6 DEF OutboxInv
<1> QED
  BY <1>2, <1>4, <1>5 DEF Swept

LEMMA SweepPublishKeeps ==
    ASSUME MessageInv, SweepPublish
    PROVE  MessageInv'
<1>1. /\ RequestsInv /\ OutboxInv /\ EventsInv /\ FollowersInv /\ BadgeInv /\ DOMAIN call = Clients /\ TimelineOk(msg, now)
      /\ UNCHANGED <<menv, parked, promo, index, call>> /\ ChannelInv
      /\ UNCHANGED <<readAt, badge, fan, marking>> /\ UNCHANGED <<msg, now, reacted>>
  BY DEF MessageInv, SweepPublish, readers, BadgeInv, rowVars
<1>2. RowStep(msg, msg') /\ TimelineOk(msg', now') /\ ChannelInv' /\ menv'.badges = menv.badges
  BY <1>1, SameRows DEF ChannelInv
<1>3. RequestsInv'
  BY <1>1, <1>2, RequestsStill
<1>4. OutboxInv' /\ EventOk(msg, outbox[Head(sweep)].ev)
  BY <1>1, SweptOutbox DEF SweepPublish
<1>5. PICK e : e = outbox[Head(sweep)].ev /\ EventOk(msg, e) /\ Deliver(e, TRUE)
  BY <1>4 DEF SweepPublish
<1>6. EventsInv'
  BY <1>1, <1>5, DeliverKeeps
<1>7. FollowersInv'
  BY <1>1, <1>2, FollowersStill
<1>8. BadgeInv'
  <2>1. PICK rec : rec = recent \cup {eventKey(e)}
    OBVIOUS
  <2>2. Carried(msg, rec, promo, promo')
    BY <1>1 DEF Carried
  <2> QED
    BY <1>1, <1>2, <1>5, <2>1, <2>2, BadgeDelivered
<1> QED
  BY <1>2, <1>3, <1>4, <1>6, <1>7, <1>8 DEF MessageInv

LEMMA SweepFailsKeeps ==
    ASSUME MessageInv, NEW b \in BOOLEAN, SweepFails(b)
    PROVE  MessageInv'
<1>1. /\ RequestsInv /\ OutboxInv /\ EventsInv /\ FollowersInv /\ BadgeInv /\ DOMAIN call = Clients /\ TimelineOk(msg, now)
      /\ UNCHANGED <<outbox, parked, promo, index, call>> /\ ChannelInv
      /\ UNCHANGED <<readAt, badge, fan, marking>> /\ UNCHANGED <<msg, now, reacted>>
  BY DEF MessageInv, SweepFails, readers, BadgeInv, rowVars
<1>2. PICK op \in Operations : op = "fault" /\ Can(op) /\ Spend(op)
  BY DEF Operations, SweepFails
<1>3. ChannelInv' /\ menv'.badges = menv.badges /\ ~menv.badges
  BY <1>1, <1>2, SpendKeeps
<1>4. RowStep(msg, msg') /\ TimelineOk(msg', now')
  BY <1>1, SameRows
<1>5. RequestsInv'
  BY <1>1, <1>4, RequestsStill
<1>6. OutboxInv' /\ EventOk(msg, outbox[Head(sweep)].ev)
  BY <1>1, SweptOutbox DEF SweepFails
<1>7. EventsInv'
  <2>1. CASE b
    BY <1>1, <1>6, <2>1, DeliverKeeps DEF SweepFails
  <2>2. CASE ~b
    BY <1>1, <1>4, <2>2, EventsStill DEF SweepFails
  <2> QED
    BY <2>1, <2>2
<1>8. FollowersInv'
  BY <1>1, <1>4, FollowersStill
<1>9. BadgeInv'
  BY <1>1, <1>3 DEF BadgeInv
<1> QED
  BY <1>3, <1>4, <1>5, <1>6, <1>7, <1>8, <1>9 DEF MessageInv

LEMMA BadgeSame ==
    ASSUME BadgeInv, RequestsInv, FollowersInv, menv'.badges = menv.badges,
           UNCHANGED <<msg, readAt, badge, fan, marking, recent, toBadge, call, promo>>
    PROVE  BadgeInv'
<1>1. Carried(msg, recent, promo, promo') /\ recent' \subseteq recent /\ TopsStay(msg, msg')
  BY DEF Carried, TopsStay
<1>2. \A u : UnreadIn(msg', readAt, u) = UnreadIn(msg, readAt, u)
  OBVIOUS
<1>3. DOMAIN call' = Clients
  BY DEF BadgeInv
<1> QED
  BY <1>1, <1>2, <1>3, SameRows, BadgeStill

\* Neither a row nor an event moves.
LEMMA StillKeeps ==
    ASSUME MessageInv, ChannelInv', menv'.badges = menv.badges, UNCHANGED <<rowVars, streamVars, readers, worker>>,
           UNCHANGED <<outbox, call>>
    PROVE  MessageInv'
<1>1. /\ RequestsInv /\ OutboxInv /\ EventsInv /\ FollowersInv /\ BadgeInv /\ TimelineOk(msg, now)
      /\ UNCHANGED <<recent, announced, toIndex, toBadge, parked, promo, index, sweep>>
      /\ UNCHANGED <<readAt, badge, fan, marking>> /\ UNCHANGED <<msg, now, reacted>>
  BY DEF MessageInv, readers, rowVars, streamVars, worker
<1>2. RowStep(msg, msg') /\ TimelineOk(msg', now')
  BY <1>1, SameRows
<1>3. RequestsInv'
  BY <1>1, <1>2, RequestsStill
<1>4. OutboxInv'
  BY <1>1, <1>2, OutboxStill
<1>5. EventsInv'
  BY <1>1, <1>2, EventsStill
<1>6. FollowersInv'
  BY <1>1, <1>2, FollowersStill
<1>7. BadgeInv'
  BY <1>1, BadgeSame
<1> QED
  BY <1>2, <1>3, <1>4, <1>5, <1>6, <1>7 DEF MessageInv

LEMMA SetArchivedKeeps ==
    ASSUME MessageInv, NEW v \in BOOLEAN, setArchived(v)
    PROVE  MessageInv'
<1>1. PICK op \in Operations : op = "archive" /\ Can(op) /\ Spend(op)
  BY DEF Operations, setArchived
<1>2. ChannelInv' /\ menv'.badges = menv.badges
  BY <1>1, SpendKeeps DEF MessageInv
<1> QED
  BY <1>2, StillKeeps DEF setArchived

LEMMA RetentionKeeps ==
    ASSUME MessageInv, RetentionPasses
    PROVE  MessageInv'
<1>1. PICK op \in Operations : op = "age" /\ Can(op) /\ Spend(op)
  BY DEF Operations, RetentionPasses
<1>2. ChannelInv' /\ menv'.badges = menv.badges
  BY <1>1, SpendKeeps DEF MessageInv
<1> QED
  BY <1>2, StillKeeps DEF RetentionPasses

LEMMA TailCarried ==
    ASSUME NEW rows, NEW rec, NEW pr \in Seq(MessageIds), pr # <<>>, ~Fresh(rows, rec, Head(pr))
    PROVE  Carried(rows, rec, pr, Tail(pr))
<1>1. ASSUME NEW i \in DOMAIN pr
      PROVE  (\E j \in DOMAIN Tail(pr) : Tail(pr)[j] = pr[i]) \/ ~Fresh(rows, rec, pr[i])
  <2>1. CASE i = 1
    <3>1. pr[i] = Head(pr)
      BY <2>1
    <3> QED
      BY <3>1
  <2>2. CASE i # 1
    <3>1. i - 1 \in DOMAIN Tail(pr) /\ Tail(pr)[i - 1] = pr[i]
      BY <2>2
    <3> QED
      BY <3>1
  <2> QED
    BY <2>1, <2>2
<1> QED
  BY <1>1 DEF Carried

LEMMA PublishPromotedKeeps ==
    ASSUME MessageInv, NEW ok \in BOOLEAN, publishPromoted(ok)
    PROVE  MessageInv'
<1>1. /\ RequestsInv /\ OutboxInv /\ EventsInv /\ FollowersInv /\ BadgeInv /\ DOMAIN call = Clients /\ TimelineOk(msg, now)
      /\ UNCHANGED <<outbox, sweep, parked, index, call>> /\ ChannelInv /\ promo # <<>> /\ promo' = Tail(promo)
      /\ UNCHANGED <<readAt, badge, fan, marking>> /\ UNCHANGED <<msg, now, reacted>>
  BY DEF MessageInv, publishPromoted, readers, BadgeInv, rowVars
<1>2. promo \in Seq(MessageIds) /\ promo' \in Seq(MessageIds)
  BY <1>1 DEF FollowersInv
<1>3. PICK m \in MessageIds : m = Head(promo)
  BY <1>1, <1>2
<1>4. RowStep(msg, msg') /\ TopsStay(msg, msg') /\ TimelineOk(msg', now')
  BY <1>1, SameRows DEF TopsStay
<1>5. RequestsInv'
  BY <1>1, <1>4, RequestsStill
<1>6. OutboxInv'
  BY <1>1, <1>4, OutboxStill
<1>7. FollowersInv'
  BY <1>1, <1>2 DEF FollowersInv
<1>8. CASE ~GetByID(m)
  <2>1. UNCHANGED menv /\ UNCHANGED streamVars /\ ~Fresh(msg, recent, Head(promo))
    BY <1>3, <1>8 DEF publishPromoted, GetByID, liveOnly, Fresh
  <2>2. Carried(msg, recent, promo, promo')
    BY <1>1, <1>2, <2>1, TailCarried
  <2>3. EventsInv' /\ ChannelInv' /\ menv'.badges = menv.badges
    BY <1>1, <1>4, <2>1, EventsStill DEF ChannelInv
  <2>4. recent' \subseteq recent /\ toBadge' = toBadge
    BY <2>1 DEF streamVars
  <2>5. \A u : UnreadIn(msg', readAt, u) = UnreadIn(msg, readAt, u)
    BY <1>1
  <2>6. BadgeInv'
    BY <1>1, <1>4, <2>2, <2>3, <2>4, <2>5, BadgeStill
  <2> QED
    BY <1>4, <1>5, <1>6, <1>7, <2>3, <2>6 DEF MessageInv
<1>9. CASE GetByID(m) /\ ok
  <2>1. PICK e : e = Event("new", m) /\ Deliver(e, TRUE) /\ UNCHANGED menv
    BY <1>3, <1>9 DEF publishPromoted
  <2>2. EventOk(msg, e) /\ e.type = "new" /\ e.m = m
    <3>1. PICK type \in EventTypes : type = "new"
      BY DEF EventTypes
    <3>2. Sent(msg, m)
      BY <1>9 DEF GetByID, liveOnly, Sent
    <3> QED
      BY <1>1, <2>1, <3>1, <3>2, EventIs
  <2>3. EventsInv' /\ ChannelInv' /\ menv'.badges = menv.badges
    BY <1>1, <2>1, <2>2, DeliverKeeps DEF ChannelInv
  <2>4. PICK rec : rec = recent \cup {eventKey(e)}
    OBVIOUS
  <2>5. ~Fresh(msg, rec, Head(promo))
    BY <1>3, <2>2, <2>4 DEF Fresh, eventKey
  <2>6. Carried(msg, rec, promo, promo')
    BY <1>1, <1>2, <2>5, TailCarried
  <2>7. BadgeInv'
    BY <1>1, <2>1, <2>2, <2>3, <2>4, <2>6, BadgeDelivered
  <2> QED
    BY <1>4, <1>5, <1>6, <1>7, <2>3, <2>7 DEF MessageInv
<1>10. CASE GetByID(m) /\ ~ok
  <2>1. PICK op \in Operations : op = "fault" /\ Can(op) /\ Spend(op) /\ UNCHANGED streamVars
    BY <1>3, <1>10 DEF Operations, publishPromoted
  <2>2. ChannelInv' /\ menv'.badges = menv.badges /\ ~menv.badges
    BY <1>1, <2>1, SpendKeeps
  <2>3. EventsInv'
    BY <1>1, <1>4, <2>1, EventsStill
  <2>4. BadgeInv'
    BY <1>1, <2>2 DEF BadgeInv
  <2> QED
    BY <1>4, <1>5, <1>6, <1>7, <2>2, <2>3, <2>4 DEF MessageInv
<1> QED
  BY <1>8, <1>9, <1>10

LEMMA PromotedRowsAre ==
    ASSUME TimelineOk(msg, now), NEW due \in SUBSET MessageIds, \A m \in due : msg[m].st = "scheduled",
           NEW next, next = PromotedRows(due)
    PROVE  /\ next \in [MessageIds -> MessageRow] /\ Cardinality(due) \in Nat
           /\ PromotionOf(msg, due, now, now + Cardinality(due), next)
<1>1. msg \in [MessageIds -> MessageRow] /\ now \in Nat /\ IsFiniteSet(due) /\ Cardinality(due) \in Nat
  BY MessageFacts, FS_Subset, FS_CardinalityType DEF TimelineOk
<1> DEFINE at(m) == now + Cardinality({o \in due : o <= m})
           n(p) == Cardinality({m \in due : msg[m].parent = p})
           sent == [m \in MessageIds |-> IF m \in due THEN [msg[m] EXCEPT !.st = "live", !.at = at(m), !.ver = @ + 1]
                                         ELSE msg[m]]
<1>2. next = [m \in MessageIds |-> IF n(m) = 0 THEN sent[m] ELSE [sent[m] EXCEPT !.count = @ + n(m), !.ver = @ + 1]]
  BY DEF PromotedRows
<1>3. ASSUME NEW p PROVE n(p) \in Nat /\ (n(p) # 0 => \E m \in due : msg[m].parent = p)
  <2>1. PICK S : S = {m \in due : msg[m].parent = p}
    OBVIOUS
  <2>2. IsFiniteSet(S) /\ Cardinality(S) \in Nat /\ (Cardinality(S) # 0 => S # {})
    BY <1>1, <2>1, FS_Subset, FS_CardinalityType, FS_EmptySet
  <2> QED
    BY <2>1, <2>2
<1>4. ASSUME NEW m \in due PROVE at(m) \in Nat /\ now < at(m) /\ at(m) <= now + Cardinality(due)
  <2>1. PICK S : S = {o \in due : o <= m}
    OBVIOUS
  <2>2. m \in S /\ S \subseteq due
    BY <2>1, MessageFacts
  <2>3. IsFiniteSet(S) /\ Cardinality(S) \in Nat /\ Cardinality(S) <= Cardinality(due) /\ Cardinality(S) # 0
    BY <1>1, <2>2, FS_Subset, FS_CardinalityType, FS_EmptySet
  <2> QED
    BY <1>1, <2>1, <2>3
<1>5. ASSUME NEW o \in MessageIds
      PROVE  /\ sent[o] \in MessageRow /\ sent[o].st = IF o \in due THEN "live" ELSE msg[o].st
             /\ sent[o].parent = msg[o].parent /\ sent[o].by = msg[o].by
             /\ sent[o].at = IF o \in due THEN at(o) ELSE msg[o].at
             /\ sent[o].count = msg[o].count /\ sent[o].exact = msg[o].exact /\ (o \notin due => sent[o] = msg[o])
  <2>1. PICK old \in MessageRow : old = msg[o] /\ old.ver \in Nat
    BY <1>1 DEF MessageRow
  <2>2. CASE o \in due
    <3>1. PICK a \in Nat : a = at(o)
      BY <1>4, <2>2
    <3>2. PICK ver \in Nat : ver = old.ver + 1
      BY <2>1
    <3>3. PICK entry : entry = [old EXCEPT !.st = "live", !.at = a, !.ver = ver]
      OBVIOUS
    <3>4. sent[o] = entry
      BY <2>1, <2>2, <3>1, <3>2, <3>3
    <3>5. entry \in MessageRow
      BY <3>3 DEF MessageRow
    <3>6. /\ entry.st = "live" /\ entry.parent = old.parent /\ entry.by = old.by /\ entry.at = a /\ entry.count = old.count
          /\ entry.exact = old.exact
      BY <3>3 DEF MessageRow
    <3> QED
      BY <2>1, <2>2, <3>1, <3>4, <3>5, <3>6
  <2>3. CASE o \notin due
    BY <2>1, <2>3
  <2> QED
    BY <2>2, <2>3
<1> HIDE DEF at, n, sent
<1>6. ASSUME NEW o \in MessageIds
      PROVE  /\ next[o] \in MessageRow /\ next[o].st = sent[o].st /\ next[o].parent = sent[o].parent
             /\ next[o].by = sent[o].by /\ next[o].at = sent[o].at /\ next[o].count = sent[o].count + n(o)
             /\ next[o].exact = sent[o].exact /\ (n(o) = 0 => next[o] = sent[o])
  <2>1. PICK old \in MessageRow : old = sent[o] /\ old.ver \in Nat /\ old.count \in Nat
    BY <1>5 DEF MessageRow
  <2>2. CASE n(o) = 0
    <3>1. next[o] = old
      BY <1>2, <2>1, <2>2
    <3> QED
      BY <2>1, <2>2, <3>1
  <2>3. CASE n(o) # 0
    <3>1. PICK count \in Nat : count = old.count + n(o)
      BY <1>3, <2>1
    <3>2. PICK ver \in Nat : ver = old.ver + 1
      BY <2>1
    <3>3. PICK entry : entry = [old EXCEPT !.count = count, !.ver = ver]
      OBVIOUS
    <3>4. next[o] = entry
      BY <1>2, <2>1, <2>3, <3>1, <3>2, <3>3
    <3>5. entry \in MessageRow
      BY <3>3 DEF MessageRow
    <3>6. /\ entry.st = old.st /\ entry.parent = old.parent /\ entry.by = old.by /\ entry.at = old.at /\ entry.count = count
          /\ entry.exact = old.exact
      BY <3>3 DEF MessageRow
    <3> QED
      BY <2>1, <2>3, <3>1, <3>4, <3>5, <3>6
  <2> QED
    BY <2>2, <2>3
<1>7. ASSUME NEW o \in MessageIds, msg[o].st = "none" PROVE n(o) = 0
  <2>1. ASSUME NEW m \in due, msg[m].parent = o PROVE FALSE
    <3>1. ReplyOk(msg, m) /\ msg[m].parent # NoMessage
      BY <2>1, MessageFacts DEF TimelineOk
    <3> QED
      BY <1>7, <2>1, <3>1 DEF ReplyOk, Sent
  <2> QED
    BY <1>3, <2>1
<1>8. next \in [MessageIds -> MessageRow]
  BY <1>2, <1>6
<1>9. \A o \in MessageIds : n(o) = Cardinality({m \in due : msg[m].parent = o})
  BY DEF n
<1>10. ASSUME NEW o \in MessageIds
       PROVE  IF o \in due THEN now < next[o].at /\ next[o].at <= now + Cardinality(due) ELSE next[o].at = msg[o].at
  BY <1>4, <1>5, <1>6
<1>11. ASSUME NEW o \in MessageIds, next[o].st = "none" PROVE next[o] = msg[o]
  <2>1. o \notin due /\ msg[o].st = "none"
    BY <1>5, <1>6, <1>11
  <2> QED
    BY <1>5, <1>6, <1>7, <2>1
<1>12. ASSUME NEW o \in MessageIds
       PROVE  /\ next[o].st = IF o \in due THEN "live" ELSE msg[o].st
              /\ next[o].parent = msg[o].parent /\ next[o].by = msg[o].by
              /\ next[o].count = msg[o].count + Cardinality({m \in due : msg[m].parent = o})
              /\ next[o].exact = msg[o].exact
  BY <1>5, <1>6, <1>9
<1> QED
  BY <1>1, <1>8, <1>10, <1>11, <1>12 DEF PromotionOf

LEMMA PromoteKeeps ==
    ASSUME MessageInv, NEW due \in SUBSET MessageIds, promoteScheduled(due)
    PROVE  MessageInv'
<1>1. /\ RequestsInv /\ OutboxInv /\ EventsInv /\ FollowersInv /\ BadgeInv /\ DOMAIN call = Clients /\ TimelineOk(msg, now)
      /\ UNCHANGED <<outbox, sweep, parked, index, call, recent, announced, toIndex, toBadge>> /\ ChannelInv
      /\ UNCHANGED <<readAt, badge, fan, marking>> /\ UNCHANGED reacted
  BY DEF MessageInv, promoteScheduled, readers, BadgeInv, streamVars
<1>2. PICK op \in Operations : op = "promote" /\ Can(op) /\ Spend(op)
  BY DEF Operations, promoteScheduled
<1>3. ChannelInv' /\ menv'.badges = menv.badges
  BY <1>1, <1>2, SpendKeeps
<1>4. (\A m \in due : msg[m].st = "scheduled") /\ now' = now + Cardinality(due) /\ now \in Nat
  BY <1>1 DEF promoteScheduled, TimelineOk
<1>5. PICK next : next = msg' /\ next = PromotedRows(due)
  BY DEF promoteScheduled
<1>6. /\ next \in [MessageIds -> MessageRow] /\ Cardinality(due) \in Nat
      /\ PromotionOf(msg, due, now, now + Cardinality(due), next)
  BY <1>1, <1>4, <1>5, PromotedRowsAre
<1>7. PICK later \in Nat : later = now + Cardinality(due) /\ now <= later
  BY <1>4, <1>6
<1>8. TimelineOk(next, later) /\ RowStep(msg, next)
  BY <1>1, <1>4, <1>6, <1>7, RowsPromoted
<1>9. TimelineOk(msg', now') /\ RowStep(msg, msg')
  BY <1>4, <1>5, <1>7, <1>8
<1>10. \A o \in MessageIds : /\ msg'[o].st = IF o \in due THEN "live" ELSE msg[o].st
                             /\ msg'[o].parent = msg[o].parent /\ msg'[o].by = msg[o].by
                             /\ o \notin due => msg'[o].at = msg[o].at
  BY <1>5, <1>6 DEF PromotionOf
<1>11. RequestsInv'
  BY <1>1, <1>9, RequestsStill
<1>12. OutboxInv'
  BY <1>1, <1>9, OutboxStill
<1>13. EventsInv'
  BY <1>1, <1>9, EventsStill DEF streamVars
<1>14. PICK order \in InIdOrder(due) : promo' = promo \o order
  BY DEF promoteScheduled
<1>15. order \in Seq(due) /\ \A x \in due : \E i \in DOMAIN order : order[i] = x
  BY MessageFacts, FS_Subset, InIdOrderTyped
<1>16. promo \in Seq(MessageIds) /\ order \in Seq(MessageIds)
  BY <1>1, <1>15 DEF FollowersInv
<1>17. /\ promo' \in Seq(MessageIds) /\ \A i \in DOMAIN promo : i \in DOMAIN promo' /\ promo'[i] = promo[i]
       /\ \A i \in DOMAIN order : Len(promo) + i \in DOMAIN promo' /\ promo'[Len(promo) + i] = order[i]
  BY <1>14, <1>16
<1>18. FollowersInv'
  <2>1. ASSUME NEW d \in parked PROVE EventOk(msg', d.ev)
    BY <1>1, <1>9, EventKept DEF FollowersInv
  <2>2. \A m \in MessageIds : Sent(msg, m) => Sent(msg', m)
    BY <1>9 DEF RowStep
  <2>3. reacted \subseteq MessageIds /\ \A m \in reacted : Sent(msg', m)
    BY <1>1, <2>2 DEF FollowersInv
  <2> QED
    BY <1>1, <1>17, <2>1, <2>2, <2>3 DEF FollowersInv
<1>19. TopsStay(msg, msg') /\ Carried(msg, recent, promo, promo')
  BY <1>10, <1>17 DEF TopsStay, Carried
<1>20. ASSUME NEW u \in People, menv.badges
       PROVE  Awaits(u)' \/ UnreadIn(msg', readAt, u) = UnreadIn(msg, readAt, u)
  <2>1. ASSUME NEW m \in due, Counts(msg, m, u) PROVE Awaits(u)'
    <3>1. <<"new", m>> \notin recent
      BY <1>1, <1>4 DEF EventsInv, KeyOk, Sent
    <3>2. Counts(msg', m, u) /\ Fresh(msg', recent', m)
      BY <1>1, <1>10, <2>1, <3>1 DEF Counts, Fresh
    <3>3. PICK i \in DOMAIN order : order[i] = m
      BY <1>15
    <3>4. PICK j \in DOMAIN promo' : promo'[j] = m
      BY <1>17, <3>3
    <3> QED
      BY <3>2, <3>4 DEF Awaits, Awaiting, Promoted
  <2>2. ASSUME \A m \in due : ~Counts(msg, m, u)
        PROVE  UnreadIn(msg', readAt, u) = UnreadIn(msg, readAt, u)
    <3>1. \A o \in MessageIds : msg[o].st = "live" /\ msg[o].parent = NoMessage /\ msg[o].by # u
                                <=> msg'[o].st = "live" /\ msg'[o].parent = NoMessage /\ msg'[o].by # u
      BY <1>4, <1>10, <2>2 DEF Counts
    <3>2. \A o \in MessageIds : msg[o].st = "live" /\ msg[o].parent = NoMessage => msg'[o].at = msg[o].at
      BY <1>4, <1>10
    <3> QED
      BY <3>1, <3>2, UnreadSame
  <2> QED
    BY <2>1, <2>2
<1>21. BadgeInv'
  BY <1>1, <1>3, <1>9, <1>19, <1>20, BadgeStill
<1> QED
  BY <1>3, <1>9, <1>11, <1>12, <1>13, <1>18, <1>21 DEF MessageInv

\* A batch of the oldest rows holds the root of every reply in it.
LEMMA TargetsAreThreads ==
    ASSUME NEW skipped, TimelineOk(msg, now), NEW T, T = Targets(Batch(skipped))
    PROVE  T \subseteq MessageIds /\ WholeThreads(msg, T)
<1>1. PICK B : B = Batch(skipped)
  OBVIOUS
<1>2. B \subseteq Stored /\ Stored \subseteq MessageIds /\ T = B \cup {r \in Stored : msg[r].parent \in B}
  BY <1>1 DEF Batch, Expired, Stored, Targets
<1>3. ASSUME NEW m \in Stored, msg[m].parent \in T PROVE m \in T
  <2>1. PICK p \in MessageIds : p = msg[m].parent
    BY <1>2, <1>3
  <2>2. msg[p].parent = NoMessage
    <3>1. ReplyOk(msg, m) /\ p # NoMessage
      BY <1>2, MessageFacts DEF TimelineOk
    <3> QED
      BY <2>1, <3>1 DEF ReplyOk
  <2>3. p \in B
    BY <1>2, <1>3, <2>1, <2>2, MessageFacts
  <2> QED
    BY <1>2, <2>1, <2>3
<1>4. \A m \in MessageIds : msg[m].st \in {"scheduled", "live", "deleted"} <=> m \in Stored
  BY DEF Stored
<1> QED
  BY <1>2, <1>3, <1>4 DEF WholeThreads

LEMMA PurgedRowsAre ==
    ASSUME TimelineOk(msg, now), NEW T \in SUBSET MessageIds, NEW next, next = PurgedRows(T)
    PROVE  next \in [MessageIds -> MessageRow] /\ PurgeOf(msg, T, next)
<1>1. next = [m \in MessageIds |->
        IF m \in T THEN [msg[m] EXCEPT !.st = IF @ = "scheduled" THEN "dropped" ELSE "purged"]
        ELSE IF LostOf(msg, T, m) = {} THEN msg[m]
        ELSE [msg[m] EXCEPT !.count = Max({0, @ - Cardinality(LostOf(msg, T, m))}), !.ver = @ + 1,
                            !.exact = @ /\ \A r \in LostOf(msg, T, m) : liveOnly(r)]]
  BY DEF PurgedRows, LostOf
<1>2. ASSUME NEW o \in MessageIds
      PROVE  /\ next[o] \in MessageRow
             /\ next[o].parent = msg[o].parent /\ next[o].by = msg[o].by /\ next[o].at = msg[o].at
             /\ o \in T => next[o].st = IF msg[o].st = "scheduled" THEN "dropped" ELSE "purged"
             /\ o \notin T => next[o].st = msg[o].st
             /\ o \notin T /\ LostOf(msg, T, o) = {} => next[o] = msg[o]
             /\ o \notin T /\ LostOf(msg, T, o) # {} =>
                   /\ next[o].count = Max({0, msg[o].count - Cardinality(LostOf(msg, T, o))})
                   /\ next[o].exact => msg[o].exact /\ \A r \in LostOf(msg, T, o) : msg[r].st = "live"
  <2>1. PICK old \in MessageRow : old = msg[o]
    BY DEF TimelineOk
  <2>2. CASE o \in T
    <3>1. PICK st \in {"dropped", "purged"} : st = IF old.st = "scheduled" THEN "dropped" ELSE "purged"
      OBVIOUS
    <3>2. PICK entry : entry = [old EXCEPT !.st = st]
      OBVIOUS
    <3>3. next[o] = entry
      BY <1>1, <2>1, <2>2, <3>1, <3>2 DEF MessageRow
    <3>4. entry \in MessageRow
      BY <3>1, <3>2 DEF MessageRow
    <3>5. entry.st = st /\ entry.parent = old.parent /\ entry.by = old.by /\ entry.at = old.at
      BY <3>2 DEF MessageRow
    <3> QED
      BY <2>1, <2>2, <3>1, <3>3, <3>4, <3>5
  <2>3. CASE o \notin T /\ LostOf(msg, T, o) = {}
    <3>1. next[o] = msg[o]
      BY <1>1, <2>3
    <3> QED
      BY <2>1, <2>3, <3>1
  <2>4. CASE o \notin T /\ LostOf(msg, T, o) # {}
    <3>1. PICK n \in Nat : n = Cardinality(LostOf(msg, T, o))
      BY MessageFacts, FS_Subset, FS_CardinalityType DEF LostOf
    <3>2. old.count \in Nat /\ old.ver \in Nat /\ old.exact \in BOOLEAN
      BY DEF MessageRow
    <3>3. PICK count \in Nat : count = Max({0, old.count - n})
      BY <3>2, MaxOfTwo
    <3>4. PICK exact \in BOOLEAN : exact = (old.exact /\ \A r \in LostOf(msg, T, o) : liveOnly(r))
      OBVIOUS
    <3>12. PICK ver \in Nat : ver = old.ver + 1
      BY <3>2
    <3>5. PICK entry : entry = [old EXCEPT !.count = count, !.ver = ver, !.exact = exact]
      OBVIOUS
    <3>6. next[o] = [msg[o] EXCEPT !.count = Max({0, @ - Cardinality(LostOf(msg, T, o))}), !.ver = @ + 1,
                                   !.exact = @ /\ \A r \in LostOf(msg, T, o) : liveOnly(r)]
      BY <1>1, <2>4
    <3>7. next[o] = entry
      BY <2>1, <3>1, <3>3, <3>4, <3>5, <3>6, <3>12, Zenon
    <3>8. entry \in MessageRow
      BY <3>5 DEF MessageRow
    <3>9. /\ entry.count = count /\ entry.parent = old.parent /\ entry.by = old.by /\ entry.at = old.at
          /\ entry.st = old.st
      BY <3>5 DEF MessageRow
    <3>10. entry.exact = exact
      BY <3>5 DEF MessageRow
    <3>11. next[o].exact => msg[o].exact /\ \A r \in LostOf(msg, T, o) : msg[r].st = "live"
      BY <2>1, <3>4, <3>7, <3>10 DEF liveOnly
    <3> QED
      BY <2>1, <2>4, <3>1, <3>3, <3>7, <3>8, <3>9, <3>11
  <2> QED
    BY <2>2, <2>3, <2>4
<1>3. next \in [MessageIds -> MessageRow]
  <2>1. next = [m \in MessageIds |-> next[m]]
    BY <1>1
  <2> QED
    BY <1>2, <2>1
<1> QED
  BY <1>2, <1>3 DEF PurgeOf

LEMMA PurgeKeeps ==
    ASSUME MessageInv, NEW skipped, purgeRetentionBatch(skipped)
    PROVE  MessageInv'
<1>1. /\ RequestsInv /\ OutboxInv /\ EventsInv /\ FollowersInv /\ BadgeInv /\ TimelineOk(msg, now)
      /\ UNCHANGED <<outbox, sweep, parked, promo, call, now>> /\ ChannelInv
      /\ UNCHANGED <<readAt, badge, fan, marking>> /\ UNCHANGED streamVars
  BY DEF MessageInv, purgeRetentionBatch, worker
<1>2. PICK op \in Operations : op = "purge" /\ Can(op) /\ Spend(op)
  BY DEF Operations, purgeRetentionBatch
<1>3. ChannelInv' /\ menv'.badges = menv.badges /\ ~menv.badges
  BY <1>1, <1>2, SpendKeeps
<1>4. PICK T \in SUBSET MessageIds : T = Targets(Batch(skipped)) /\ WholeThreads(msg, T)
  BY <1>1, TargetsAreThreads
<1>5. PICK next : next = msg' /\ next = PurgedRows(T)
  BY <1>4 DEF purgeRetentionBatch
<1>6. next \in [MessageIds -> MessageRow] /\ PurgeOf(msg, T, next)
  BY <1>1, <1>4, <1>5, PurgedRowsAre
<1>7. TimelineOk(next, now) /\ RowStep(msg, next)
  BY <1>1, <1>4, <1>6, RowsPurged
<1>8. TimelineOk(msg', now') /\ RowStep(msg, msg')
  BY <1>1, <1>5, <1>7
<1>9. RequestsInv'
  BY <1>1, <1>8, RequestsStill
<1>10. OutboxInv'
  BY <1>1, <1>8, OutboxStill
<1>11. EventsInv'
  BY <1>1, <1>8, EventsStill
<1>12. FollowersInv'
  <2>1. ASSUME NEW d \in parked PROVE EventOk(msg', d.ev)
    BY <1>1, <1>8, EventKept DEF FollowersInv
  <2>2. \A m \in MessageIds : Sent(msg, m) => Sent(msg', m)
    BY <1>8 DEF RowStep
  <2>3. reacted' \subseteq MessageIds /\ \A m \in reacted' : Sent(msg', m)
    BY <1>1, <2>2 DEF FollowersInv, purgeRetentionBatch
  <2>4. DOMAIN index' = MessageIds /\ \A m \in MessageIds : index'[m] # NoBody => Sent(msg', m)
    BY <1>1, <2>2 DEF FollowersInv, purgeRetentionBatch, Unindex
  <2> QED
    BY <1>1, <2>1, <2>3, <2>4 DEF FollowersInv
<1>13. BadgeInv'
  BY <1>1, <1>3 DEF BadgeInv
<1> QED
  BY <1>3, <1>8, <1>9, <1>10, <1>11, <1>12, <1>13 DEF MessageInv

LEMMA RollbackKeeps ==
    ASSUME MessageInv, NEW skipped, PurgeRollsBack(skipped)
    PROVE  MessageInv'
<1>1. /\ RequestsInv /\ OutboxInv /\ EventsInv /\ FollowersInv /\ BadgeInv /\ TimelineOk(msg, now)
      /\ UNCHANGED <<outbox, sweep, parked, promo, call, recent, toBadge>> /\ ChannelInv
      /\ UNCHANGED <<readAt, badge, fan, marking>> /\ UNCHANGED streamVars /\ UNCHANGED <<msg, now, reacted>>
  BY DEF MessageInv, PurgeRollsBack, worker, rowVars, streamVars
<1>2. PICK op \in Operations : op = "abort" /\ Can(op) /\ Spend(op)
  BY DEF Operations, PurgeRollsBack
<1>3. ChannelInv' /\ menv'.badges = menv.badges
  BY <1>1, <1>2, SpendKeeps
<1>4. TimelineOk(msg', now') /\ RowStep(msg, msg')
  BY <1>1, SameRows
<1>5. RequestsInv'
  BY <1>1, <1>4, RequestsStill
<1>6. OutboxInv'
  BY <1>1, <1>4, OutboxStill
<1>7. EventsInv'
  BY <1>1, <1>4, EventsStill
<1>8. FollowersInv'
  BY <1>1 DEF FollowersInv, PurgeRollsBack, Unindex
<1>9. BadgeInv'
  BY <1>1, <1>3, BadgeSame
<1> QED
  BY <1>3, <1>4, <1>5, <1>6, <1>7, <1>8, <1>9 DEF MessageInv

-----------------------------------------------------------------------------
(* The consumers.                                                          *)

LEMMA IndexedOk ==
    ASSUME FollowersInv, NEW e, EventOk(msg, e), NEW next, next = Indexed(e)
    PROVE  DOMAIN next = MessageIds /\ \A m \in MessageIds : next[m] # NoBody => Sent(msg, m)
<1>1. e.m \in MessageIds /\ Sent(msg, e.m)
  BY DEF EventOk, Ev
<1> QED
  BY <1>1 DEF FollowersInv, Indexed

LEMMA EventsTail ==
    ASSUME NEW rows, NEW q \in Seq(Ev), \A i \in DOMAIN q : EventOk(rows, q[i]), q # <<>>
    PROVE  /\ EventOk(rows, Head(q)) /\ Tail(q) \in Seq(Ev)
           /\ \A i \in DOMAIN Tail(q) : EventOk(rows, Tail(q)[i])
<1>1. Head(q) = q[1] /\ 1 \in DOMAIN q /\ Tail(q) \in Seq(Ev)
  OBVIOUS
<1>2. \A i \in DOMAIN Tail(q) : i + 1 \in DOMAIN q /\ Tail(q)[i] = q[i + 1]
  OBVIOUS
<1> QED
  BY <1>1, <1>2

LEMMA HandleMessageKeeps ==
    ASSUME MessageInv, HandleMessage
    PROVE  MessageInv'
<1>1. /\ RequestsInv /\ OutboxInv /\ EventsInv /\ FollowersInv /\ BadgeInv /\ TimelineOk(msg, now) /\ ChannelInv
      /\ UNCHANGED <<menv, outbox, sweep, parked, promo, call, recent, announced, toBadge>>
      /\ UNCHANGED <<readAt, badge, fan, marking>> /\ UNCHANGED <<msg, now, reacted>>
  BY DEF MessageInv, HandleMessage, worker, rowVars
<1>2. /\ EventOk(msg, Head(toIndex)) /\ toIndex' \in Seq(Ev) /\ \A i \in DOMAIN toIndex' : EventOk(msg, toIndex'[i])
      /\ index' = Indexed(Head(toIndex))
  BY <1>1, EventsTail DEF EventsInv, HandleMessage
<1>3. TimelineOk(msg', now') /\ RowStep(msg, msg') /\ ChannelInv' /\ menv'.badges = menv.badges
  BY <1>1, SameRows DEF ChannelInv
<1>4. RequestsInv'
  BY <1>1, <1>3, RequestsStill
<1>5. OutboxInv'
  BY <1>1, <1>3, OutboxStill
<1>6. EventsInv'
  BY <1>1, <1>2 DEF EventsInv
<1>7. DOMAIN index' = MessageIds /\ \A m \in MessageIds : index'[m] # NoBody => Sent(msg, m)
  BY <1>1, <1>2, IndexedOk
<1>8. FollowersInv'
  BY <1>1, <1>7 DEF FollowersInv
<1>9. BadgeInv'
  BY <1>1, <1>3, BadgeSame
<1> QED
  BY <1>3, <1>4, <1>5, <1>6, <1>8, <1>9 DEF MessageInv

LEMMA NakKeeps ==
    ASSUME MessageInv, IndexNak
    PROVE  MessageInv'
<1>1. /\ RequestsInv /\ OutboxInv /\ EventsInv /\ FollowersInv /\ BadgeInv /\ TimelineOk(msg, now) /\ ChannelInv
      /\ UNCHANGED <<outbox, sweep, promo, call, recent, announced, toBadge, index>>
      /\ UNCHANGED <<readAt, badge, fan, marking>> /\ UNCHANGED <<msg, now, reacted>>
  BY DEF MessageInv, IndexNak, worker, rowVars
<1>2. /\ EventOk(msg, Head(toIndex)) /\ toIndex' \in Seq(Ev) /\ \A i \in DOMAIN toIndex' : EventOk(msg, toIndex'[i])
      /\ parked' = parked \cup {[ev |-> Head(toIndex), delivery |-> 2]} /\ Head(toIndex) \in Ev
  BY <1>1, EventsTail DEF EventsInv, EventOk, IndexNak
<1>3. PICK op \in Operations : op = "nak" /\ Can(op) /\ Spend(op)
  BY DEF Operations, IndexNak
<1>4. TimelineOk(msg', now') /\ RowStep(msg, msg') /\ ChannelInv' /\ menv'.badges = menv.badges
  BY <1>1, <1>3, SpendKeeps, SameRows
<1>5. RequestsInv'
  BY <1>1, <1>4, RequestsStill
<1>6. OutboxInv'
  BY <1>1, <1>4, OutboxStill
<1>7. EventsInv'
  BY <1>1, <1>2 DEF EventsInv
<1>8. FollowersInv'
  BY <1>1, <1>2 DEF FollowersInv
<1>9. BadgeInv'
  BY <1>1, <1>4, BadgeSame
<1> QED
  BY <1>4, <1>5, <1>6, <1>7, <1>8, <1>9 DEF MessageInv

LEMMA RedeliveryKeeps ==
    ASSUME MessageInv, NEW d \in parked, IndexRedelivered(d)
    PROVE  MessageInv'
<1>1. /\ RequestsInv /\ OutboxInv /\ EventsInv /\ FollowersInv /\ BadgeInv /\ TimelineOk(msg, now) /\ ChannelInv
      /\ UNCHANGED <<menv, outbox, sweep, promo, call, recent, toBadge>> /\ UNCHANGED streamVars
      /\ UNCHANGED <<readAt, badge, fan, marking>> /\ UNCHANGED <<msg, now, reacted>>
  BY DEF MessageInv, IndexRedelivered, worker, rowVars, streamVars
<1>2. TimelineOk(msg', now') /\ RowStep(msg, msg') /\ ChannelInv' /\ menv'.badges = menv.badges
  BY <1>1, SameRows DEF ChannelInv
<1>3. RequestsInv'
  BY <1>1, <1>2, RequestsStill
<1>4. OutboxInv'
  BY <1>1, <1>2, OutboxStill
<1>5. EventsInv'
  BY <1>1, <1>2, EventsStill
<1>6. EventOk(msg, d.ev) /\ index' = Indexed(d.ev) /\ parked' \subseteq parked
  BY <1>1 DEF FollowersInv, IndexRedelivered
<1>7. DOMAIN index' = MessageIds /\ \A m \in MessageIds : index'[m] # NoBody => Sent(msg, m)
  BY <1>1, <1>6, IndexedOk
<1>8. FollowersInv'
  BY <1>1, <1>6, <1>7 DEF FollowersInv
<1>9. BadgeInv'
  BY <1>1, <1>2, BadgeSame
<1> QED
  BY <1>2, <1>3, <1>4, <1>5, <1>8, <1>9 DEF MessageInv

\* A failed redelivery is counted and comes back, or is the last.
LEMMA FailureAgainKeeps ==
    ASSUME MessageInv, NEW d \in parked, IndexFailsAgain(d)
    PROVE  MessageInv'
<1>1. /\ RequestsInv /\ OutboxInv /\ EventsInv /\ FollowersInv /\ BadgeInv /\ TimelineOk(msg, now) /\ ChannelInv
      /\ UNCHANGED <<outbox, sweep, promo, call, recent, toBadge, index>> /\ UNCHANGED streamVars
      /\ UNCHANGED <<readAt, badge, fan, marking>> /\ UNCHANGED <<msg, now, reacted>>
  BY DEF MessageInv, IndexFailsAgain, worker, rowVars, streamVars
<1>2. PICK op \in Operations : op = "nak" /\ Can(op) /\ Spend(op)
  BY DEF Operations, IndexFailsAgain
<1>3. TimelineOk(msg', now') /\ RowStep(msg, msg') /\ ChannelInv' /\ menv'.badges = menv.badges
  BY <1>1, <1>2, SpendKeeps, SameRows
<1>4. RequestsInv'
  BY <1>1, <1>3, RequestsStill
<1>5. OutboxInv'
  BY <1>1, <1>3, OutboxStill
<1>6. EventsInv'
  BY <1>1, <1>3, EventsStill
<1>7. PICK again : again = [d EXCEPT !.delivery = @ + 1]
  OBVIOUS
<1>8. again \in [ev : Ev, delivery : Nat] /\ again.ev = d.ev /\ EventOk(msg, d.ev)
  BY <1>1, <1>7 DEF FollowersInv
<1>9. parked' \subseteq parked \cup {again}
  BY <1>7 DEF IndexFailsAgain
<1>10. FollowersInv'
  BY <1>1, <1>8, <1>9 DEF FollowersInv
<1>11. BadgeInv'
  BY <1>1, <1>3, BadgeSame
<1> QED
  BY <1>3, <1>4, <1>5, <1>6, <1>10, <1>11 DEF MessageInv

LEMMA TermKeeps ==
    ASSUME MessageInv, IndexTerm
    PROVE  MessageInv'
<1>1. /\ RequestsInv /\ OutboxInv /\ EventsInv /\ FollowersInv /\ BadgeInv /\ TimelineOk(msg, now) /\ ChannelInv
      /\ UNCHANGED <<outbox, sweep, promo, call, recent, announced, toBadge, index, parked>>
      /\ UNCHANGED <<readAt, badge, fan, marking>> /\ UNCHANGED <<msg, now, reacted>>
  BY DEF MessageInv, IndexTerm, worker, rowVars
<1>2. toIndex' \in Seq(Ev) /\ \A i \in DOMAIN toIndex' : EventOk(msg, toIndex'[i])
  BY <1>1, EventsTail DEF EventsInv, IndexTerm
<1>3. PICK op \in Operations : op = "term" /\ Can(op) /\ Spend(op)
  BY DEF Operations, IndexTerm
<1>4. TimelineOk(msg', now') /\ RowStep(msg, msg') /\ ChannelInv' /\ menv'.badges = menv.badges
  BY <1>1, <1>3, SpendKeeps, SameRows
<1>5. RequestsInv'
  BY <1>1, <1>4, RequestsStill
<1>6. OutboxInv'
  BY <1>1, <1>4, OutboxStill
<1>7. EventsInv'
  BY <1>1, <1>2 DEF EventsInv
<1>8. FollowersInv'
  BY <1>1 DEF FollowersInv
<1>9. BadgeInv'
  BY <1>1, <1>4, BadgeSame
<1> QED
  BY <1>4, <1>5, <1>6, <1>7, <1>8, <1>9 DEF MessageInv

\* A fan-out leaves everyone it counts with the count of the moment, and the event moved
\* nobody else.
LEMMA AudienceRight ==
    ASSUME NEW e, NEW counts, counts = UnreadAudience(e), NEW u \in People
    PROVE  IF u \in DOMAIN counts THEN counts[u] = UnreadCount(u) ELSE ~Moves(e, u)
<1>1. CASE e.parent # NoMessage
  BY <1>1 DEF UnreadAudience, NoCounts, Moves
<1>2. CASE e.parent = NoMessage /\ e.type = "new"
  <2>1. counts = [v \in People \ {e.by} |-> UnreadCount(v)]
    BY <1>2 DEF UnreadAudience, UnreadCounts
  <2>2. CASE u = e.by
    BY <1>2, <2>1, <2>2 DEF Moves
  <2>3. CASE u # e.by
    BY <2>1, <2>3
  <2> QED
    BY <2>2, <2>3
<1>3. CASE e.parent = NoMessage /\ e.type # "new"
  <2>1. counts = [v \in People \ {NoMessage} |-> UnreadCount(v)] /\ u # NoMessage
    BY <1>3, MessageFacts DEF UnreadAudience, UnreadCounts
  <2> QED
    BY <2>1
<1> QED
  BY <1>1, <1>2, <1>3

LEMMA FanoutReadsKeeps ==
    ASSUME MessageInv, FanoutReads
    PROVE  MessageInv'
<1>1. /\ RequestsInv /\ OutboxInv /\ EventsInv /\ FollowersInv /\ BadgeInv /\ TimelineOk(msg, now) /\ ChannelInv
      /\ UNCHANGED <<menv, outbox, sweep, promo, call, recent, announced, toIndex, parked, index>>
      /\ UNCHANGED <<readAt, badge, marking>> /\ UNCHANGED <<msg, now, reacted>>
  BY DEF MessageInv, FanoutReads, worker, rowVars
<1>2. /\ toBadge \in Seq(Ev) /\ toBadge # <<>> /\ toBadge' = Tail(toBadge)
      /\ toBadge' \in Seq(Ev) /\ \A i \in DOMAIN toBadge' : EventOk(msg, toBadge'[i])
  BY <1>1, EventsTail DEF EventsInv, FanoutReads
<1>3. TimelineOk(msg', now') /\ RowStep(msg, msg') /\ TopsStay(msg, msg') /\ ChannelInv' /\ menv'.badges = menv.badges
  BY <1>1, SameRows DEF ChannelInv, TopsStay
<1>4. RequestsInv'
  BY <1>1, <1>3, RequestsStill
<1>5. OutboxInv'
  BY <1>1, <1>3, OutboxStill
<1>6. EventsInv'
  BY <1>1, <1>2 DEF EventsInv
<1>7. FollowersInv'
  BY <1>1, <1>3, FollowersStill
<1>8. ASSUME NEW u \in People, menv.badges PROVE Shown(u)' = UnreadCount(u)' \/ Awaits(u)'
  <2>1. UnreadCount(u)' = UnreadCount(u)
    BY <1>1 DEF UnreadCount
  <2>2. PICK e : e = Head(toBadge) /\ fan' = UnreadAudience(e)
    BY DEF FanoutReads
  <2>3. PICK counts : counts = fan' /\ counts = UnreadAudience(e)
    BY <2>2
  <2>4. IF u \in DOMAIN counts THEN counts[u] = UnreadCount(u) ELSE ~Moves(e, u)
    BY <2>3, AudienceRight
  <2>5. CASE u \in DOMAIN counts
    BY <2>1, <2>3, <2>4, <2>5 DEF Shown
  <2>6. CASE u \notin DOMAIN counts
    <3>1. Shown(u)' = badge[u] /\ Shown(u) = badge[u] /\ ~Moves(e, u)
      BY <1>1, <2>3, <2>4, <2>6 DEF Shown, FanoutReads, NoCounts
    <3>2. OnTheWay(toBadge, u) => OnTheWay(toBadge', u)
      <4>1. ASSUME NEW i \in DOMAIN toBadge, Moves(toBadge[i], u) PROVE OnTheWay(toBadge', u)
        <5>1. i # 1
          BY <1>2, <2>2, <3>1, <4>1
        <5>2. i - 1 \in DOMAIN Tail(toBadge) /\ Tail(toBadge)[i - 1] = toBadge[i]
          BY <1>2, <5>1
        <5> QED
          BY <1>2, <4>1, <5>2 DEF OnTheWay
      <4> QED
        BY <4>1 DEF OnTheWay
    <3>3. ASSUME Awaits(u) PROVE Awaits(u)'
      <4>1. Awaiting(u, msg, recent, toBadge, call, promo)
        BY <3>3 DEF Awaits
      <4>2. Carried(msg, recent, promo, promo') /\ recent' \subseteq recent
        BY <1>1 DEF Carried
      <4>3. promo \in Seq(MessageIds) /\ \A c \in Clients : CallOk(msg, call[c]) /\ call'[c] = call[c]
        BY <1>1 DEF FollowersInv, RequestsInv
      <4>4. Awaiting(u, msg', recent', toBadge', call', promo')
        BY <1>3, <3>2, <4>1, <4>2, <4>3, AwaitKept
      <4> QED
        BY <4>4 DEF Awaits
    <3> QED
      BY <1>1, <1>8, <2>1, <3>1, <3>3 DEF BadgeInv
  <2> QED
    BY <2>5, <2>6
<1>9. BadgeInv'
  BY <1>1, <1>8 DEF BadgeInv
<1> QED
  BY <1>3, <1>4, <1>5, <1>6, <1>7, <1>9 DEF MessageInv

LEMMA FanoutPublishesKeeps ==
    ASSUME MessageInv, FanoutPublishes
    PROVE  MessageInv'
<1>1. /\ RequestsInv /\ OutboxInv /\ EventsInv /\ FollowersInv /\ BadgeInv /\ TimelineOk(msg, now) /\ ChannelInv
      /\ UNCHANGED <<menv, outbox, sweep, promo, call, recent, announced, toIndex, toBadge, parked, index>>
      /\ UNCHANGED <<readAt, marking>> /\ UNCHANGED <<msg, now, reacted>>
  BY DEF MessageInv, FanoutPublishes, worker, rowVars, streamVars
<1>2. TimelineOk(msg', now') /\ RowStep(msg, msg') /\ ChannelInv'
  BY <1>1, SameRows DEF ChannelInv
<1>3. RequestsInv'
  BY <1>1, <1>2, RequestsStill
<1>4. OutboxInv'
  BY <1>1, <1>2, OutboxStill
<1>5. EventsInv'
  BY <1>1, <1>2, EventsStill DEF streamVars
<1>6. FollowersInv'
  BY <1>1, <1>2, FollowersStill
<1>7. ASSUME NEW u \in People PROVE Shown(u)' = Shown(u) /\ UnreadCount(u)' = UnreadCount(u) /\ (Awaits(u) => Awaits(u)')
  <2>1. fan' = NoCounts /\ badge'[u] = Shown(u)
    BY DEF FanoutPublishes, Shown
  <2>2. Shown(u)' = Shown(u)
    BY <2>1 DEF Shown, NoCounts
  <2>3. UnreadCount(u)' = UnreadCount(u)
    BY <1>1 DEF UnreadCount
  <2>4. Awaits(u) => Awaits(u)'
    BY <1>1 DEF Awaits
  <2> QED
    BY <2>2, <2>3, <2>4
<1>8. BadgeInv'
  <2>1. DOMAIN badge' = People
    BY DEF FanoutPublishes
  <2> QED
    BY <1>1, <1>7, <2>1 DEF BadgeInv
<1> QED
  BY <1>2, <1>3, <1>4, <1>5, <1>6, <1>8 DEF MessageInv

\* A read marker, and the push of its count: not where badges are compared.
LEMMA MarkReadKeeps ==
    ASSUME MessageInv, NEW u \in People, NEW at, MarkRead(u, at)
    PROVE  MessageInv'
<1>1. /\ RequestsInv /\ OutboxInv /\ EventsInv /\ FollowersInv /\ BadgeInv /\ TimelineOk(msg, now) /\ ChannelInv
      /\ UNCHANGED <<outbox, sweep, promo, call, parked, index>> /\ UNCHANGED streamVars
      /\ UNCHANGED <<fan, badge>> /\ UNCHANGED <<msg, now, reacted>>
  BY DEF MessageInv, MarkRead, worker, rowVars
<1>2. PICK op \in Operations : op = "read" /\ Can(op) /\ Spend(op)
  BY DEF Operations, MarkRead
<1>3. ChannelInv' /\ menv'.badges = menv.badges /\ ~menv.badges
  BY <1>1, <1>2, SpendKeeps
<1>4. TimelineOk(msg', now') /\ RowStep(msg, msg')
  BY <1>1, SameRows
<1>5. RequestsInv'
  BY <1>1, <1>4, RequestsStill
<1>6. OutboxInv'
  BY <1>1, <1>4, OutboxStill
<1>7. EventsInv'
  BY <1>1, <1>4, EventsStill
<1>8. FollowersInv'
  BY <1>1, <1>4, FollowersStill
<1>9. BadgeInv'
  <2>1. DOMAIN readAt' = DOMAIN readAt
    BY DEF MarkRead, UpdateReadAt
  <2> QED
    BY <1>1, <1>3, <2>1 DEF BadgeInv
<1> QED
  BY <1>3, <1>4, <1>5, <1>6, <1>7, <1>8, <1>9 DEF MessageInv

LEMMA EmitKeeps ==
    ASSUME MessageInv, NEW u \in People, emitUnreadUpdate(u)
    PROVE  MessageInv'
<1>1. /\ RequestsInv /\ OutboxInv /\ EventsInv /\ FollowersInv /\ BadgeInv /\ TimelineOk(msg, now) /\ ChannelInv
      /\ UNCHANGED <<menv, outbox, sweep, promo, call, parked, index>> /\ UNCHANGED streamVars
      /\ UNCHANGED <<fan, readAt>> /\ UNCHANGED <<msg, now, reacted>>
  BY DEF MessageInv, emitUnreadUpdate, worker, rowVars
<1>2. ~menv.badges
  BY <1>1 DEF BadgeInv, emitUnreadUpdate
<1>3. TimelineOk(msg', now') /\ RowStep(msg, msg') /\ ChannelInv'
  BY <1>1, SameRows DEF ChannelInv
<1>4. RequestsInv'
  BY <1>1, <1>3, RequestsStill
<1>5. OutboxInv'
  BY <1>1, <1>3, OutboxStill
<1>6. EventsInv'
  BY <1>1, <1>3, EventsStill
<1>7. FollowersInv'
  BY <1>1, <1>3, FollowersStill
<1>8. BadgeInv'
  <2>1. DOMAIN badge' = DOMAIN badge
    BY DEF emitUnreadUpdate
  <2> QED
    BY <1>1, <1>2, <2>1 DEF BadgeInv
<1> QED
  BY <1>3, <1>4, <1>5, <1>6, <1>7, <1>8 DEF MessageInv

-----------------------------------------------------------------------------
(* The specification.                                                      *)

\* Finitely many rows have a latest one.
LEMMA NewestRow ==
    ASSUME NEW rows \in [MessageIds -> MessageRow]
    PROVE  \E x \in Nat : /\ x = 0 \/ \E m \in MessageIds : x = rows[m].at
                          /\ \A m \in MessageIds : rows[m].at <= x
<1> DEFINE Newest(S, x) == (x = 0 \/ \E m \in S : x = rows[m].at) /\ \A m \in S : rows[m].at <= x
           HasNewest(S) == \E x \in Nat : Newest(S, x)
           R == StrictSubsetOrdering(MessageIds)
<1>1. IsWellFoundedOn(R, FiniteSubsetsOf(MessageIds)) /\ FiniteSubsetsOf(MessageIds) = SUBSET MessageIds
  BY MessageFacts, FS_StrictSubsetOrderingWellFounded, FS_FiniteSubsetsOfFinite
<1>2. \A T, S \in SUBSET MessageIds : T \subseteq S /\ T # S => <<T, S>> \in R
  BY DEF StrictSubsetOrdering
<1>3. \A m \in MessageIds : rows[m].at \in Nat
  BY DEF MessageRow
<1>4. SUFFICES ASSUME ~HasNewest(MessageIds) PROVE FALSE
  BY <1>3
<1> HIDE DEF R, HasNewest
<1>5. PICK X : X = {S \in SUBSET MessageIds : ~HasNewest(S)}
  OBVIOUS
<1>6. X \subseteq SUBSET MessageIds /\ X # {}
  BY <1>4, <1>5
<1>7. PICK S \in X : \A T \in X : <<T, S>> \notin R
  BY <1>1, <1>6, WFMin
<1>8. S \in SUBSET MessageIds /\ ~HasNewest(S)
  BY <1>5, <1>7
<1>9. CASE S = {}
  <2>1. Newest(S, 0) /\ 0 \in Nat
    BY <1>9
  <2> QED
    BY <1>8, <2>1 DEF HasNewest
<1>10. ASSUME NEW m \in S PROVE FALSE
  <2>1. PICK T : T = S \ {m}
    OBVIOUS
  <2>2. T \in SUBSET MessageIds /\ T \subseteq S /\ T # S
    BY <1>8, <1>10, <2>1
  <2>3. HasNewest(T)
    BY <1>2, <1>5, <1>7, <1>8, <2>2
  <2>4. PICK x \in Nat : Newest(T, x)
    BY <2>3 DEF HasNewest
  <2>5. m \in MessageIds /\ rows[m].at \in Nat
    BY <1>3, <1>8, <1>10
  <2>6. CASE rows[m].at <= x
    <3>1. Newest(S, x)
      BY <2>1, <2>2, <2>4, <2>6
    <3> QED
      BY <1>8, <3>1 DEF HasNewest
  <2>7. CASE ~(rows[m].at <= x)
    <3>1. PICK y \in Nat : y = rows[m].at /\ x <= y
      BY <2>4, <2>5, <2>7
    <3>2. \A o \in T : rows[o].at <= y
      BY <1>3, <2>2, <2>4, <3>1
    <3>3. \A o \in S : rows[o].at <= y
      BY <2>1, <3>1, <3>2
    <3>4. Newest(S, y)
      BY <1>10, <3>1, <3>3
    <3> QED
      BY <1>8, <3>4 DEF HasNewest
  <2> QED
    BY <2>6, <2>7
<1> QED
  BY <1>9, <1>10

LEMMA MessageStarts ==
    ASSUME MessageInit
    PROVE  MessageInv /\ horizon \in Nat
<1>1. /\ menv \in MessageEnvironments /\ menv \in ChannelEnvironment /\ msg = menv.rows
      /\ msg \in [MessageIds -> MessageRow]
  BY MessageAssumption DEF MessageInit, ChannelEnvironment
<1>2. /\ \A m \in MessageIds :
            /\ msg[m].st = "none" => msg[m] = Blank
            /\ msg[m].st \in {"scheduled", "live", "deleted"} =>
                  msg[m].count = Cardinality({r \in MessageIds : msg[r].parent = m /\ msg[r].st = "live"})
            /\ msg[m].parent # NoMessage =>
                  /\ msg[msg[m].parent].st \in {"live", "deleted"}
                  /\ msg[msg[m].parent].parent = NoMessage
                  /\ msg[msg[m].parent].at < msg[m].at
      /\ menv.badges => "badge" \in menv.consumers /\ \A op \in {"read", "crash", "fault", "purge"} : menv.ops[op] = 0
  <2>1. \A e \in MessageEnvironments :
          /\ \A m \in MessageIds :
                /\ e.rows[m].st = "none" => e.rows[m] = Blank
                /\ e.rows[m].st \in {"scheduled", "live", "deleted"} =>
                      e.rows[m].count = Cardinality({r \in MessageIds : e.rows[r].parent = m /\ e.rows[r].st = "live"})
                /\ e.rows[m].parent # NoMessage =>
                      /\ e.rows[e.rows[m].parent].st \in {"live", "deleted"}
                      /\ e.rows[e.rows[m].parent].parent = NoMessage
                      /\ e.rows[e.rows[m].parent].at < e.rows[m].at
          /\ e.badges => "badge" \in e.consumers /\ \A op \in {"read", "crash", "fault", "purge"} : e.ops[op] = 0
    BY MessageAssumption, Zenon
  <2> QED
    BY <1>1, <2>1
<1>3. ChannelInv
  BY <1>1, <1>2 DEF ChannelInv
<1>4. now \in Nat /\ \A m \in MessageIds : msg[m].at <= now
  <2>1. PICK x \in Nat : /\ x = 0 \/ \E m \in MessageIds : x = msg[m].at
                         /\ \A m \in MessageIds : msg[m].at <= x
    BY <1>1, NewestRow
  <2>2. PICK S : S = {0} \cup {msg[m].at : m \in MessageIds}
    OBVIOUS
  <2>3. \A m \in MessageIds : msg[m].at \in Nat
    BY <1>1 DEF MessageRow
  <2>4. x \in S /\ (\A y \in S : x >= y) /\ S \subseteq Nat
    BY <2>1, <2>2, <2>3
  <2>5. now = Max(S)
    BY <1>1, <2>2 DEF MessageInit
  <2>6. now \in S /\ \A y \in S : now >= y
    BY <2>4, <2>5 DEF Max
  <2> QED
    BY <2>2, <2>3, <2>4, <2>6
<1>5. TimelineOk(msg, now)
  <2>1. \A m \in MessageIds : ReplyOk(msg, m)
    BY <1>2 DEF ReplyOk, Sent
  <2>2. ASSUME NEW m \in MessageIds, msg[m].st \in {"scheduled", "live", "deleted"} PROVE CountOk(msg, m)
    <3>1. msg[m].count = Cardinality(LiveReplies(msg, m)) /\ msg[m].count \in Nat
      BY <1>1, <1>2, <2>2 DEF LiveReplies, MessageRow
    <3> QED
      BY <3>1 DEF CountOk
  <2>3. \A m \in MessageIds : msg[m].st = "none" => msg[m] = Blank
    BY <1>2
  <2> QED
    BY <1>1, <1>2, <1>4, <2>1, <2>2, <2>3 DEF TimelineOk
<1>6. RequestsInv
  BY FreeOk DEF MessageInit, RequestsInv
<1>7. \A q : q = <<>> => /\ q \in Seq(Ev) /\ q \in Seq(OutboxRow) /\ q \in Seq(MessageIds) /\ DOMAIN q = {}
                         /\ \A S : q \in Seq(S)
  OBVIOUS
<1>8. OutboxInv
  BY <1>7 DEF MessageInit, OutboxInv
<1>9. EventsInv
  <2>1. ASSUME NEW a \in announced PROVE a \in EventTypes \X MessageIds /\ Sent(msg, a[2])
    <3>1. PICK m \in MessageIds : msg[m].st = "live" /\ a = <<"new", m>>
      BY DEF MessageInit
    <3> QED
      BY <3>1 DEF EventTypes, Sent
  <2>2. recent = {} /\ toIndex = <<>> /\ toBadge = <<>>
    BY DEF MessageInit
  <2> QED
    BY <1>7, <2>1, <2>2 DEF EventsInv
<1>10. FollowersInv
  <2>1. /\ parked = {} /\ promo = <<>> /\ reacted = {}
        /\ index = [m \in MessageIds |-> IF msg[m].st = "live" THEN msg[m].text ELSE NoBody]
    BY DEF MessageInit
  <2>2. \A m \in MessageIds : index[m] # NoBody => Sent(msg, m)
    BY <2>1 DEF Sent
  <2> QED
    BY <1>7, <2>1, <2>2 DEF FollowersInv
<1>11. BadgeInv
  <2>1. /\ badge = [u \in People |-> 0] /\ readAt = [u \in People |-> now] /\ call = [c \in Clients |-> Free]
        /\ fan = NoCounts /\ marking = NoCounts
    BY DEF MessageInit
  <2>2. ASSUME NEW u \in People PROVE Shown(u) = UnreadCount(u)
    <3>1. Shown(u) = 0
      BY <2>1 DEF Shown, NoCounts
    <3>2. \A m \in MessageIds : ~(msg[m].at > readAt[u])
      <4>1. \A m \in MessageIds : msg[m].at \in Nat
        BY <1>1 DEF MessageRow
      <4> QED
        BY <1>4, <2>1, <4>1
    <3>3. {m \in MessageIds : /\ msg[m].st = "live" /\ msg[m].parent = NoMessage
                              /\ msg[m].by # u /\ msg[m].at > readAt[u]} = {}
      BY <3>2
    <3>4. UnreadCount(u) = 0
      BY <3>3, FS_EmptySet DEF UnreadCount, UnreadIn
    <3> QED
      BY <3>1, <3>4
  <2>3. DOMAIN badge = People /\ DOMAIN readAt = People /\ DOMAIN call = Clients /\ DOMAIN marking = {}
    BY <2>1 DEF NoCounts
  <2> QED
    BY <2>2, <2>3 DEF BadgeInv
<1>12. horizon \in Nat
  BY DEF MessageInit
<1> QED
  BY <1>3, <1>5, <1>6, <1>8, <1>9, <1>10, <1>11, <1>12 DEF MessageInv

LEMMA HorizonTyped ==
    ASSUME MessageInv, horizon \in Nat, MessageNext
    PROVE  horizon' \in Nat
<1>1. now \in Nat
  BY DEF MessageInv, TimelineOk
<1>2. CASE Requested
  <2>1. \A c, u, m, p : /\ Send(c, u, m, p) \/ SendScheduled(c, u, m, p) \/ ReplyThread(c, u, m, p) => UNCHANGED horizon
                        /\ Forward(c, u, m, p) \/ Edit(c, u, m) => UNCHANGED horizon
    BY DEF Send, SendScheduled, ReplyThread, Forward, Edit, Quietly
  <2>2. \A c, u, m : Delete(c, u, m) \/ CreateFor(c, u, m) => UNCHANGED horizon
    BY DEF Delete, CreateFor, Quietly
  <2> QED
    BY <1>2, <2>1, <2>2 DEF Requested
<1>3. CASE Touched
  BY <1>3 DEF Touched, setPinned, AddReaction, RemoveReaction, React, CancelScheduled, Quietly
<1>4. CASE Working
  <2>1. \A due : promoteScheduled(due) => UNCHANGED horizon
    BY DEF promoteScheduled
  <2>2. /\ \A skipped : purgeRetentionBatch(skipped) \/ PurgeRollsBack(skipped) => UNCHANGED horizon
        /\ WindowPasses => UNCHANGED horizon
    BY DEF purgeRetentionBatch, PurgeRollsBack, WindowPasses
  <2>3. RetentionPasses => horizon' = now + 1
    BY DEF RetentionPasses
  <2>4. \A c, u, at : ClientCrash(c) \/ setArchived(c) \/ MarkRead(u, at) => UNCHANGED horizon
    BY DEF ClientCrash, setArchived, MarkRead, Quietly
  <2> QED
    BY <1>1, <1>4, <2>1, <2>2, <2>3, <2>4 DEF Working
<1>5. CASE Sweeping \/ Announcing
  BY <1>5 DEF Sweeping, SweepOutbox, SweepPublish, SweepFails, Announcing, publishPromoted
<1>6. CASE Indexing \/ Redelivering \/ Badging
  BY <1>6 DEF Indexing, HandleMessage, IndexNak, IndexTerm, Redelivering, IndexRedelivered, IndexFailsAgain, Badging, FanoutReads, FanoutPublishes,
              emitUnreadUpdate
<1>7. CASE \E c \in Clients : Publishing(c)
  BY <1>7 DEF Publishing, respondWithMessage, RecordOutboxEvent, publish, RecordOutboxFailure, MarkOutboxPublished,
              PublishPost, Quietly
<1> QED
  BY <1>2, <1>3, <1>4, <1>5, <1>6, <1>7 DEF MessageNext

LEMMA RequestedKeeps ==
    ASSUME MessageInv, Requested
    PROVE  MessageInv'
<1>1. PICK c \in Clients, u \in menv.authors, m \in MessageIds :
          \/ \E parent \in MessageIds \cup {NoMessage} :
                Send(c, u, m, parent) \/ SendScheduled(c, u, m, parent) \/ ReplyThread(c, u, m, parent)
          \/ \E src \in MessageIds : Forward(c, u, m, src)
          \/ Edit(c, u, m)
          \/ Delete(c, u, m)
          \/ CreateFor(c, u, m)
  BY DEF Requested
<1>2. u \in People
  BY DEF MessageInv, ChannelInv, ChannelEnvironment
<1>3. ASSUME NEW parent \in MessageIds \cup {NoMessage},
             Send(c, u, m, parent) \/ SendScheduled(c, u, m, parent) \/ ReplyThread(c, u, m, parent)
      PROVE  MessageInv'
  BY <1>2, <1>3, SendKeeps, SendScheduledKeeps, ReplyThreadKeeps
<1>4. ASSUME NEW src \in MessageIds, Forward(c, u, m, src) PROVE MessageInv'
  BY <1>2, <1>4, ForwardKeeps
<1>5. CASE Edit(c, u, m)
  BY <1>2, <1>5, EditKeeps
<1>6. CASE Delete(c, u, m)
  BY <1>2, <1>6, DeleteKeeps
<1>7. CASE CreateFor(c, u, m)
  BY <1>2, <1>7, CreateForKeeps
<1> QED
  BY <1>1, <1>3, <1>4, <1>5, <1>6, <1>7

LEMMA TouchedKeeps ==
    ASSUME MessageInv, Touched
    PROVE  MessageInv'
<1>1. PICK c \in Clients, m \in MessageIds :
          \/ \E v \in BOOLEAN : v # msg[m].pinned /\ setPinned(c, NoMessage, m, v)
          \/ AddReaction(c, m)
          \/ RemoveReaction(c, m)
          \/ CancelScheduled(m)
  BY DEF Touched
<1>2. ASSUME NEW v \in BOOLEAN, setPinned(c, NoMessage, m, v) PROVE MessageInv'
  BY <1>2, SetPinnedKeeps
<1>3. CASE AddReaction(c, m)
  <2>1. PICK op \in Operations : op = "react"
    BY DEF Operations
  <2>2. PICK type \in EventTypes : type = "reaction.added"
    BY DEF EventTypes
  <2>3. PICK on \in BOOLEAN : on = TRUE
    OBVIOUS
  <2>4. React(c, m, on, op, type) /\ type \notin {"new", "deleted"}
    BY <1>3, <2>1, <2>2, <2>3 DEF AddReaction
  <2> QED
    BY <2>4, ReactKeeps
<1>4. CASE RemoveReaction(c, m)
  <2>1. PICK op \in Operations : op = "unreact"
    BY DEF Operations
  <2>2. PICK type \in EventTypes : type = "reaction.removed"
    BY DEF EventTypes
  <2>3. PICK on \in BOOLEAN : on = FALSE
    OBVIOUS
  <2>4. React(c, m, on, op, type) /\ type \notin {"new", "deleted"}
    BY <1>4, <2>1, <2>2, <2>3 DEF RemoveReaction
  <2> QED
    BY <2>4, ReactKeeps
<1>5. CASE CancelScheduled(m)
  BY <1>5, CancelScheduledKeeps
<1> QED
  BY <1>1, <1>2, <1>3, <1>4, <1>5

LEMMA WorkingKeeps ==
    ASSUME MessageInv, horizon \in Nat, Working
    PROVE  MessageInv'
<1>1. ASSUME NEW due \in SUBSET MessageIds, promoteScheduled(due) PROVE MessageInv'
  BY <1>1, PromoteKeeps
<1>2. ASSUME NEW c \in Clients, ClientCrash(c) PROVE MessageInv'
  BY <1>2, CrashKeeps
<1>3. ASSUME NEW v \in BOOLEAN, setArchived(v) PROVE MessageInv'
  BY <1>3, SetArchivedKeeps
<1>4. ASSUME NEW u \in People, NEW at, MarkRead(u, at) PROVE MessageInv'
  BY <1>4, MarkReadKeeps
<1>5. ASSUME NEW skipped \in SUBSET Expired, purgeRetentionBatch(skipped) \/ PurgeRollsBack(skipped) PROVE MessageInv'
  BY <1>5, PurgeKeeps, RollbackKeeps
<1> QED
  BY <1>1, <1>2, <1>3, <1>4, <1>5, RetentionKeeps, WindowKeeps DEF Working

LEMMA PublishingKeeps ==
    ASSUME MessageInv, NEW c \in Clients, Publishing(c)
    PROVE  MessageInv'
<1>1. ASSUME NEW ok \in BOOLEAN, PublishPost(c, ok) PROVE MessageInv'
  BY <1>1, PostKeeps
<1> QED
  BY <1>1, RespondKeeps, RecordKeeps, PublishKeeps, FailureKeeps, MarkKeeps DEF Publishing

LEMMA MessageSteps ==
    ASSUME MessageInv, horizon \in Nat, [MessageNext]_mvars
    PROVE  MessageInv' /\ horizon' \in Nat
<1>1. CASE UNCHANGED mvars
  <2>1. /\ UNCHANGED <<rowVars, streamVars, readers, worker>> /\ UNCHANGED <<outbox, call>>
        /\ UNCHANGED <<menv, horizon>>
    BY <1>1 DEF mvars, rowVars, streamVars, readers, worker
  <2>2. ChannelInv' /\ menv'.badges = menv.badges
    BY <2>1 DEF ChannelInv, MessageInv
  <2> QED
    BY <2>1, <2>2, StillKeeps
<1>2. ASSUME MessageNext PROVE MessageInv'
  <2>1. CASE Sweeping
    <3>1. ASSUME NEW b \in BOOLEAN, SweepFails(b) PROVE MessageInv'
      BY <3>1, SweepFailsKeeps
    <3> QED
      BY <2>1, <3>1, SweepOutboxKeeps, SweepPublishKeeps DEF Sweeping
  <2>2. CASE Announcing
    BY <2>2, PublishPromotedKeeps DEF Announcing
  <2>3. CASE Indexing
    BY <2>3, HandleMessageKeeps, NakKeeps, TermKeeps DEF Indexing
  <2>4. CASE Redelivering
    BY <2>4, RedeliveryKeeps, FailureAgainKeeps DEF Redelivering
  <2>5. CASE Badging
    BY <2>5, FanoutReadsKeeps, FanoutPublishesKeeps, EmitKeeps DEF Badging
  <2>6. CASE \E c \in Clients : Publishing(c)
    BY <2>6, PublishingKeeps
  <2> QED
    BY <1>2, <2>1, <2>2, <2>3, <2>4, <2>5, <2>6, RequestedKeeps, TouchedKeeps, WorkingKeeps DEF MessageNext
<1> QED
  BY <1>1, <1>2, HorizonTyped

LEMMA MessageInvEnough ==
    ASSUME MessageInv
    PROVE  TimelineSound
<1>1. TimelineOk(msg, now) /\ EventsInv /\ FollowersInv /\ BadgeInv
  BY DEF MessageInv
<1>2. RepliesCounted
  <2>1. \A m : {r \in Replies(m) : liveOnly(r)} = LiveReplies(msg, m)
    BY DEF Replies, liveOnly, LiveReplies
  <2> QED
    BY <1>1, <2>1 DEF RepliesCounted, LiveReplyCount, TimelineOk, CountOk
<1>3. ThreadsStayWhole
  <2>1. ASSUME NEW m \in Stored, msg[m].parent # NoMessage PROVE msg[m].parent \in Stored
    <3>1. m \in MessageIds /\ ReplyOk(msg, m) /\ msg[m].parent \in MessageIds \cup {NoMessage}
      BY <1>1 DEF Stored, TimelineOk, MessageRow
    <3> QED
      BY <2>1, <3>1 DEF Stored, ReplyOk
  <2> QED
    BY <2>1 DEF ThreadsStayWhole, TopLevel
<1>4. UnsentIsUnseen
  <2>1. ASSUME NEW m \in MessageIds, msg[m].st \in {"none", "scheduled", "dropped"}
        PROVE  index[m] = NoBody /\ \A e \in announced : e[2] # m
    <3>1. ~Sent(msg, m)
      BY <2>1 DEF Sent
    <3>2. index[m] = NoBody
      BY <1>1, <3>1 DEF FollowersInv
    <3>3. \A e \in announced : Sent(msg, e[2])
      BY <1>1 DEF EventsInv
    <3> QED
      BY <3>1, <3>2, <3>3
  <2> QED
    BY <2>1 DEF UnsentIsUnseen
<1>5. BadgesAgree
  <2>1. ASSUME menv.badges, Settled, NEW u \in People PROVE badge[u] = UnreadCount(u)
    <3>1. toBadge = <<>> /\ promo = <<>> /\ fan = NoCounts /\ \A c \in Clients : call[c].pc = "free"
      BY <2>1 DEF Settled, Free
    <3>2. DOMAIN toBadge = {} /\ DOMAIN promo = {}
      BY <3>1
    <3>3. ~Awaits(u)
      BY <3>1, <3>2 DEF Awaits, Awaiting, OnTheWay, Promoted, CallTells
    <3>4. Shown(u) = badge[u]
      BY <3>1 DEF Shown, NoCounts
    <3> QED
      BY <1>1, <2>1, <3>3, <3>4 DEF BadgeInv
  <2> QED
    BY <2>1 DEF BadgesAgree
<1> QED
  BY <1>2, <1>3, <1>4, <1>5 DEF TimelineSound

\* Whatever is sent, scheduled, forwarded, promoted, edited, deleted and purged in a
\* channel, over crashes, lost acknowledgements, a retention that skips locked rows, a sweep
\* and an indexer that fail half way: a thread's reply count is its live replies, or less
\* where retention took an uncounted reply and had to leave the root; retention leaves no
\* reply without its root, nothing unsent is announced or found, and, where nothing loses an
\* event, the badges are right once the events are consumed.
THEOREM TimelineAlwaysSound == MessageSpec => []TimelineSound
<1>1. MessageInit => MessageInv /\ horizon \in Nat
  BY MessageStarts
<1>2. MessageInv /\ horizon \in Nat /\ [MessageNext]_mvars => MessageInv' /\ (horizon \in Nat)'
  BY MessageSteps
<1>3. MessageInv => TimelineSound
  BY MessageInvEnough
<1> QED
  BY <1>1, <1>2, <1>3, PTL DEF MessageSpec
=============================================================================
