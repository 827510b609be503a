# babylon-runner: specifications, model checking and proofs

babylon-runner executes the *runs* that Anarchy hands out for an AnarchySubject
(a catalogue item somebody ordered): it provisions, starts, stops, updates,
checks and destroys what the subject stands for, by launching Ansible Tower
jobs and by booking placements of the sandbox API, and it writes what happened
back into the subject. It keeps almost nothing in memory: every run carries the
subject as a payload, and every decision is taken on that payload and on the
answers of remote calls. What is hard about it is therefore not inside one
handler but between handlers: what a run left behind when it failed half way,
what the user did meanwhile, and what a second execution of the same run does.

The TLA+ here is written from the Go source under `src/`. `PROJECT.json` maps
each definition to the lines it stands for.

## Inventory

| Part | State it keeps | Operations | Interacts with |
|---|---|---|---|
| polling loop (`internal/runner/runner.go`) | `ready`, `consecutiveErrors`, the run in hand, the attempt | `Run`, `pollOnce`, `getRun`, `postResult` | Anarchy (GET /run, POST /run/{name}), `/readyz`, SIGTERM |
| configuration (`runner/config.go`) | interval lists, thresholds, read once | `ConfigFromEnv`, `envStringSlice` | environment |
| run context (`runner/run_context.go`, `types/`) | payload, result with its directive | `SubjectUpdate`, `ScheduleAction`, `FinishAction`, `ContinueAction`, `DeleteSubject` | handlers, Anarchy client |
| event handlers (`handler/event_*.go`) | none; subject state in Anarchy | create, update, delete | Anarchy |
| action handlers (`handler/{provision,destroy,start,stop,status,update}.go`) | none; `current_state`, `desired_state`, `check_status_state`, timestamps in the subject | one per action | Anarchy, Tower, sandbox API |
| job polling and outcomes (`handler/check_deployer.go`, `callback.go`) | `action_retry_count`, `tower_poll_count` in the action's vars | `checkDeployerJob`, completion and failure of each action, callbacks | Tower, Anarchy |
| job launch (`handler/tower_launch.go`) | `status.towerJobs` in the subject | `launchTowerJob`, `cancelTowerJob` | Tower, controller scheduler, secrets |
| sandbox workflow (`handler/sandbox.go`) | the placement in the sandbox API, sandbox vars in `job_vars` | get, book, start, stop, cleanup | sandbox API |
| Tower client (`clients/tower.go`) | the token and the identifiers of one launch | `LaunchJob`, `EnsureResource`, `SyncChildren`, `GetJobStatus`, `CancelJob` | Tower |
| other clients (`clients/`, `httputil/`) | tokens with their expiry, the pool of Tower clients | one method per remote call, retries | the network |
| secrets, templates, metrics, main | informer cache; counters; wiring | | Kubernetes, Prometheus |

How they interact: the loop of a pod gets one run at a time and calls one
handler; the handler makes its remote calls in order, through clients that
retry; it sets at most one directive in the result (finish the action, continue
it later, delete the subject); the loop posts the result. Several pods share
the queue. Tower calls Anarchy back when a job ends, and the callback becomes a
run of its own; the poll of the same job may see the same end.

Behaviours that are hard here:

* **partial failure**: a handler makes up to eight calls; each may fail after
  it took effect, and the client may repeat it. The run is then executed again
  from the start, on the state its first half left.
* **lost results and crashes**: the effects of the handler stand, the directive
  is lost, the run comes again.
* **stale payloads**: the user edits, starts, stops or deletes the subject while
  a handler works on a copy of it.
* **ordering**: callbacks come late, the delete event overtakes work in
  progress, a job ends between a decision and the call that rests on it.
* **suppressed events**: `skip_update_processing` hides a patch from Anarchy's
  update processing, and with it whatever else changed since.
* **shared resources**: pods that launch jobs of different actions search and
  create the same things on Tower, and a template outlives the attempt that made
  it, half set up or with older settings.
* **readiness**: a flag that a probe reads at any moment.
* **back-off**: counts that outgrow the lists they index, intervals that do not
  parse.

What makes each part correct:

* loop: no two pods execute a run at once, no run counts as done that no handler
  finished, every run is done in the end, a SIGTERM ends the loop, readiness
  follows the failures;
* handlers: no placement is leaked or taken away too early, no subject goes
  before its destroy job, no second job over a recorded one, no launch on a
  placement that is not ready, no change of `desired_state` lost, no pending
  state without an action that sees to it, no action left without a directive,
  deletion completes;
* job launch: no token and no job is left that nobody knows of, a job runs with
  its own variables and the credentials of its own settings, every action gets
  its job in the end;
* sandbox workflow: edits of `job_vars` survive the patches of sandbox vars,
  `current_state` agrees with the power of the placement, a start or stop that
  failed leaves its trace in the subject;
* back-off: an action is never retried at once, and ever less often.

## Modules

| Module | Models | Extends / used by |
|---|---|---|
| `RunnerLoop` | the polling loop of several pods, Anarchy's queue, the platform | checked as it is |
| `RunnerLoop_proofs` | theorems about `RunnerLoop` | extends `RunnerLoop`, `TLAPS` |
| `Governor` | what every handler decides: payload to sequence of calls | used by `Lifecycle` |
| `Lifecycle` | the life of one subject: handlers executed call by call against Anarchy, Tower, the sandbox API, the user and faults | extends `Governor`, instantiates `SubjectLife` |
| `Lifecycle_proofs` | theorems about `Lifecycle` and `Governor`: types, deletion, that `Lifecycle` implements `SubjectLife` and what follows from it, and where provision jobs are launched | extends `Lifecycle`, `SequenceTheorems`, `TLAPS` |
| `LifecyclePower_proofs` | theorems about starting and stopping without a deployer | extends `Lifecycle_proofs` |
| `LifecycleWakeup_proofs` | the theorem that no change of `desired_state` and no deletion is lost | extends `Lifecycle_proofs` |
| `LifecycleJobs_proofs` | the theorems that no second Tower job of an action is launched under its recorded one, and that the placement is released last | extends `LifecycleWakeup_proofs` |
| `LifecyclePending_proofs` | the theorems that no action of a live subject is left behind, and that nothing rests pending or running | extends `LifecycleJobs_proofs` |
| `SubjectLife` | the abstract promise: nothing provisioned without a placement, destroyed before it is released, released before the subject goes | implemented by `Lifecycle` |
| `TowerLaunch`, `MCTowerLaunch` | the launch of jobs by several pods on one Tower, request by request; settings for TLC | opens the `launch` call of `Lifecycle`; `MCTowerLaunch` extends `TowerLaunch` |
| `TowerLaunch_proofs` | theorems about `TowerLaunch` | extends `TowerLaunch`, `FiniteSetTheorems`, `TLAPS` |
| `Backoff`, `MCBackoff` | interval lists, counts and delays of one action; the real lists | `MCBackoff` extends `Backoff` |
| `Backoff_proofs` | theorems about `Backoff` | extends `Backoff`, `TLAPS` |

### RunnerLoop

`pc` says where each pod is between the remote calls of `Run`, `pollOnce`,
`getRun` and `postResult`; `ready` and `errors` are the two atomics; `holding`,
`result` and `attempt` are locals; `srv` is what Anarchy thinks of a run. The
order of the code is kept where it shows: `ready` is set on the 200 header
(`GetRun`), before the body is decoded (`Decode`, `DecodeFails`), and the count
is reset only by a poll that went through. `GetFails` includes the lost answer
that had assigned a run; `PostFails` includes the one that had been taken. A
done context makes the polls and posts fail for free, and where Go's `select`
finds both the timer and the context ready it takes either.

A handler is a single step (`Handle`), with the three ways it ends: it returns,
it returns an error, it panics. `Lifecycle` opens it.

### Governor and Lifecycle

Because a handler reads nothing but its payload and the answers of its calls,
`Governor` writes each one as an operator from the payload `s` to the sequence
of calls it is about to make. A call names the operation, the action it is for
and `onError`, what the handler does when the client gives up: fail the run,
go on (errors that are only logged), continue or finish the action, or take the
branch of `handleProvisionError`. A call whose answer decides what comes next
(`poll`, `get`, `book`, `checkQueue`, `power`, `await`) is replaced by the branch the
answer selects (`jobPolled`, `placedOrNot`, `booked`, `queueChecked`, `requested`,
`requestEnded`). `traced` marks the calls whose error is also recorded in the
subject (`recordSandboxActionFailure`). The names are those of
the Go functions.

Subject states are pairs: `stop-pending` is `<<"stop", "pending">>`, `stopping`
`<<"stop", "running">>`, `stop-failed` `<<"stop", "failed">>`.

`Lifecycle` executes `todo`, the calls left of the run in execution, one per
step: `SubjectUpdate`, `ScheduleAction`, `LaunchJob`, `CancelJobs`, `PollJob`,
`GetPlacement`, `GetBooked`, `CheckQueue`, `BookPlacement`, `PowerPlacement`,
`AwaitRequest`, `ReleasePlacement`, `PostResult`. Between any two of them the rest of the world
may move: jobs end and call back, placements become ready or break, the user
edits, starts, stops, asks for a status or deletes, the login token is removed.
A call may fail before or after its effect (`Does`, `Trouble`) and is then
repeated by the client or seen as an error by the handler. `Abandon` is the
crash of the pod or the loss of the result.

`tower[a]` is the recorded job of an action (`status.towerJobs.{a}`).
A start or stop of the sandbox is a request that the sandbox API carries out some
time after it took it (`PowerPlacement`, `RequestEnds`), while the handler polls it
to its end (`AwaitRequest`). The last poll, or a shutdown, ends the wait with an
error; the request itself goes on, and may change the power of the placement
behind the back of the next handler. `power` has the requests still to be carried
out; `tower[a].request` is the `jobStatus` the subject keeps of the last one.

`orphans[a]` counts the jobs of an action that run and are not recorded: the one
that the run in execution is about to record, those whose record was lost, and those
that another replaced in the record. Every job was given the callback URL and the
token of its action (`buildJobExtraVars`), recorded or not, and a callback says which
action ended and not which job. So `JobEnds` is the end of the recorded job and
`OrphanEnds` that of any other; each may call back. A job may end before it is
recorded (`InHand`); the record then finds it ended (`Launched`). Of an orphan
only an end that calls back is a step, for nothing else of it is ever noticed.

`acts` are Anarchy's live actions and `stuck` those whose run was posted
without a directive. Three history fields are read by no action: `ended` of a recorded
job, `edited` of `prev` (the last update event found `job_vars` edited) and `stray` of
`used` (the callbacks of jobs that were not recorded).

Data that no property reads is left out: names, labels, messages, credentials,
extra vars, inventories, the contents of a placement. `job_vars` keep an edit
counter and the forensics flag.

### TowerLaunch

`Lifecycle` takes a launch as one call that happens or does not. `TowerLaunch`
opens it: each pod is at a stage of `LaunchJob`, with the local variables it has
there (`pods`): what is `left` to search or to add, what to `drop`, the name that
was not found (`missing`), the credentials and groups collected so far, and
whether the update of the project was used. A request to Tower is a step;
any of them may fail, before or after its effect, and the pod may die before
the next (`Fault`, `Crash`). Between two steps of a pod the others go on with
their launches, and the governor is edited (`Edit`): an attempt keeps the
settings it was dispatched with (`Settings`).

The stages follow the code: `CreateOAuthToken`; `EnsureResource` for
organization, inventory, vault credentials, project, environment and template
(`SearchResource`, whose error falls through to `CreateResource`); the look-up of
static credentials and of instance groups, of which unknown ones are skipped
(`LookupCredential`, `resolveInstanceGroupIDs`); `SyncChildren` for both
(`listChildIDs`, `postChild`); `Launch`; the deferred `DeleteOAuthToken`; and the
patch of the job into the subject (`Report`). A template or a launch that was
refused is tried once more after `UpdateProject`. `Errs` is what the callers make
of an error: a provision gives up, all others fail their run, and Anarchy
dispatches it again (`Dispatch`).

### Backoff

One action through launches, polls, unreadable statuses, cancellations and
failures, with the counts it carries. `ParseDuration` is a constant function,
because `time.ParseDuration` is a library; `MCBackoff` gives it the values for
the intervals in use. `"1d"` is not a Go duration.

## What is assumed of the outside

Anarchy, Tower, the sandbox API and Kubernetes are not in the repository. What
the specifications assume of them, from the way the code uses them and from its
comments:

* Anarchy has at most one run of a subject in execution; a run that failed or
  was not reported is dispatched again before another of the same subject. In
  `RunnerLoop`, a run is not given to a second pod while the first one works on it;
  `HandlersExclusive` rests on this, and shows that no retry, lost answer
  or re-dispatch in the *runner* breaks it.
* A PATCH is merged into the subject. It raises an update event if it changed
  `spec.vars` and is not marked `skip_update_processing`, but not for a subject
  that is being deleted. A pending update event is handled before the delete
  event.
* A patch of `job_vars` with `skip_update_processing` counts as processed:
  `status.previous_state`, with which an update event compares `job_vars`, follows
  it. Otherwise the sandbox vars would look like an edit.
* The user may edit `job_vars` of a live subject under any governor, whether it has
  an update action or not.
* The vars of a continue directive are merged into those of the action. A posted
  result without a directive leaves the action where it is.
* Every Tower job, recorded or not, may call back once, when it ends, if its
  action is live then; the callback may be handled at any later time. A job may end,
  and call back, before its launch is recorded.
* The sandbox API has one placement per subject; booking returns the existing
  one. It carries out the start and stop requests of a placement in the order it
  took them, and every one of them ends; one that failed may have had its effect.
* Tower refuses a second resource of one kind and name. It refuses a template or a
  launch while the project has not been fetched; what was fetched once stays
  usable. A new project is fetched at once, and a fetch may fail.

## Runs

| Run | Expected | Asks | Bounds |
|---|---|---|---|
| `runner` | pass | the loop: all safety properties and liveness | 2 pods, 1 run, threshold 2 of a count to 3, 1 retry, 4 faults |
| `runner_exit` | violation | does the loop exit at `MAX_POLL_FAILURES`? | 1 pod |
| `lifecycle_sandbox` | pass | provision and destroy with a placement: is `SubjectLife` implemented, does deletion complete? | 2 faults, 1 failing job or placement, 1 callback |
| `lifecycle_power` | pass | start, stop and status interleaved with everything | 1 fault, 2 failures, 2 requests |
| `lifecycle_nodeployer` | pass | the sandbox API alone, deployer disabled: does the state follow the power, and a failure leave its trace? | 2 faults, 1 failing request, 3 requests of the user |
| `lifecycle_full` | pass | all six actions together, stale look-ups, vanishing token | 1 failure, 1 request, 1 callback |
| `lifecycle_token` | violation | is a placement always released? | no faults |
| `lifecycle_edit` | violation | do edits of `job_vars` survive? | 1 request |
| `lifecycle_pending` | violation | is a pending state always scheduled? | 1 fault |
| `tower_launch` | pass | launches on one Tower: are tokens and jobs accounted for, does a job run as configured, is every action launched? | 2 pods, a provision and a stop, 2 settings, 1 fault |
| `backoff` | pass | all lists of up to two items, and the defaults | counts to 7 |
| `backoff_default` | violation | does every retry wait? | the default lists, counts to 10 |

Why the bounds suffice. In `runner`, two pods are what exclusiveness needs; four
faults reach the threshold, pass it, spend all retries of a post, and leave one
for a crash or a SIGTERM; the count saturates one past the threshold, where all
values act alike. In `Lifecycle` the handlers keep no counter, so a second fault
of a kind differs from the first only in where it hits; two of them put one into
the execution that repairs the other. Two requests let the user change his mind
and back, three let him do so after a stop and a start. At most two live actions
of a name: a repeated schedule makes a second, and further ones are like it. One
callback, of any job of any action, may move a subject that is being destroyed, or
release the placement under another destroy job; a second one would make the case
where the first has destroy launched again and the second, of the first destroy job,
releases under it, which `ReleasedLast` does not speak of and which the theorems cover
for what remains true (`DestroyedFirst`, `ImplementsSubjectLife`, `NoPlacementLeak`
for any number of callbacks). In `tower_launch`, two pods are
what a race for a name needs, and a provision and a stop are the two ways an
action goes on after an error. The second settings take a vault credential and the
environment away and change the static credentials and the groups, some of them
unknown to Tower, so that children are added, dropped, kept and skipped. One fault leaves
a template half synchronised for the next attempt, or a project unfetched, or a
job unreported; the theorems cover any number of faults, and only
`LaunchesInTheEnd` rests on this bound. In
`backoff`, counts to 7 outgrow the lists of two items and the six default poll
intervals; counts to 10 outgrow the ten default retry delays.

Deadlock is checked in `runner` only. The life of a subject ends when it is gone,
and an action when it is finished, so the other systems may stop.

### Properties

`RunnerLoop`: `ReadinessFollowsFailures` (a pod at the threshold is not ready,
except between the 200 header and the end of the decoding),
`UnreadyOnlyAtThreshold` (and not before), `HandlersExclusive`,
`DoneMeansHandled`, `LoopInv` (the inductive invariant), and the liveness
properties `EveryRunDone` and `ShutdownEnds`.

`Lifecycle`: `NoPlacementLeak`, `ReleasedLast`, `DestroyedFirst`,
`OneJobPerAction`, `LaunchNeedsPlacement`, `NoLostWakeup`,
`PendingIsScheduledUnfailed`, `NoStuck`, `PowerFollowsState`,
`FailureLeavesTrace`, the liveness property `DeletionCompletes`, and the refinement `ImplementsSubjectLife`. Its
mapping reads the abstract state off the concrete one: `life` off the deletion
mark and the deletion itself, `held` off the sandbox API, `provisioned` off the
recorded jobs, `destroying` off the jobs that run, and `destroyed` off `ended`, a history
field of a recorded job that no action reads; `destroying` counts the destroy jobs
that are not recorded too. Every abstract step is the effect
of one concrete call or event; all decisions, retries and repetitions stutter.

`TowerLaunch`: `TokensAccounted` (no more tokens without a pod than faults),
`JobsAccounted` (no more jobs that nobody knows of than faults), `RunsOwnVars` (no
job runs a template of another action), `RunsAsConfigured` (a job has exactly the
credentials of its attempt's settings, and their groups up to a failed search),
and the liveness property `LaunchesInTheEnd`.

`Backoff`: `TypeOK` (the lists are never empty: every handler takes their first
or last item unchecked), `RetriesBackOff`, `PollsBackOff`.

Every property of a passing run has a mutant in `PROJECT.json`: a plausible bug in
one definition, written next to it, that makes the run fail.

### Fairness

`RunnerLoop`: a loop that can step steps (`PodStep`), the kubelet restarts a
stopped container, Anarchy re-dispatches what was dropped and answers some poll
with a run that stays pending (strong fairness: polls with nothing to do, and
polls between a redispatch and the next loss, must not starve it). Faults are
finite by `MaxFaults`; nothing could be promised under endless outages.

`TowerLaunch` (for `LaunchesInTheEnd`): a pod that handles a run goes on with it,
Tower ends its fetches, and Anarchy dispatches an action without a job as long as a pod
is free for it. Weak fairness is enough: an attempt in progress ends, and
nothing takes a fetch away. Faults are finite by `MaxFaults`. Nothing makes a
provision more persistent than the code has it, so the property lets it give up.

`Lifecycle` (`FairSpec`, for `DeletionCompletes`): runs are dispatched and their
handlers go on, jobs and sandbox requests end, and Anarchy does not starve the update event, the
delete event or the destroy action while other runs of the subject come and go.
No fairness is assumed of the user or of placements.

### Where properties stop

These behaviours are real, and the passing runs exclude them by a bound or
by a premise of the property:

* A late **callback** is handled without a look at `current_state`: it may set a
  subject that is being destroyed to `started`, and the next destroy run launches
  a second job. `OneJobPerAction` is stated while no callback came in. When the
  result of a completed destroy is lost, destroy may be launched again, and the
  callback of the first job releases the placement and deletes the subject while
  the second runs. A callback is handled without a look at the **job** either: when the
  record of a destroy job is lost, destroy is launched again, and a single callback, of
  the job that was not recorded, releases under the one that is. `DestroyedFirst`,
  `SubjectLife` and the first half of
  `ReleasedLast` ask that *a* destroy job ended before, which stays true; the other half
  of `ReleasedLast`, that none is running, is stated while at most one callback came in,
  and that of a recorded job. (TLC finds both cases: one fault and one callback are
  enough for the second.)
* A **start or stop that fails** while the user wants the other one schedules that
  one and ends (`retryOrPivot`). When the result of its run is lost, the run is
  dispatched again, takes the failed state for a retry and launches its job once
  more, beside the action it has just scheduled; a later one may then launch while
  that job still runs. `OneJobPerAction` asks nothing of start and stop after both a
  fault and a failure. (TLC finds this with one fault, one failure and three requests.)
* An **update** action may be scheduled over a pending provision; the provision
  run then meets a state it does not handle and posts no directive. `NoStuck` is
  checked and proved for governors without an update action.
* A **start or stop that nobody carries out**, disabled in the deployer and without a
  placement the sandbox API could start or stop, posts no directive either
  (`runStart`, `runStop`). `NothingIsStuck` leaves such governors out.
* A **booking whose request is not valid** finishes the provision, as its comment
  wants it, and leaves the subject provision-pending with no action.
  `PendingIsScheduledUnfailed` is checked without sandboxes, and proved with them as
  long as nothing outside failed.
* After a **fault** a provision may be repeated in the state `started`, where
  `handleProvision` posts no directive, and an update event may leave a pending
  state unscheduled. `NoStuck` and `PendingIsScheduledUnfailed` are stated
  while no call has failed; `lifecycle_pending` shows the second one.
* An **edit of `job_vars`** swallows a start or stop: an update event that finds
  `job_vars` edited returns "update" and does not look at `desired_state`
  (`determineUpdateAction`), and where the governor has no update action nothing is
  scheduled at all (`tryScheduleAction`). What the user asked for before that event is
  handled is acted upon at the next change of the subject only. The forensics flag that a
  failed provision leaves is such an edit too (`handleProvisionFailed`); that of a
  failed start or stop counts as processed. `NoLostWakeup` admits what such an event
  hid, until the next update event (`prev.edited`).
* Completions with `skip_update_processing` (an **update**, or a start or stop
  **without a deployer**) hide a change of `desired_state`; `NoLostWakeup` is
  checked with the deployer and without update actions.
* `LaunchNeedsPlacement` needs a sandbox API whose look-ups show a placement as
  soon as it is booked (`StaleLookups = FALSE`): not-found after a booking
  counts as ready.
* A start or stop request that outlasts its polls leaves no trace in the subject;
  `FailureLeavesTrace` is stated while no call has failed or timed out.
* What exists on Tower is **reused as it is**: a template keeps the extra vars,
  the project and the environment of the attempt that created it, and a vault
  credential its password, when the governor was edited since. `RunsOwnVars` and
  `RunsAsConfigured` say what is right about a reused template.
* The second try of a template or a launch follows the **update of the project** at
  once and does not wait for the fetch. The first provision on a new project may
  therefore fail, and so may a launch that loses the race for a name; the
  other actions are launched by a later attempt.
* A **search for an instance group** that fails drops the group, without an error;
  `RunsAsConfigured` admits fewer groups after a fault.
* The token of a launch is deleted with the context of the launch: a SIGTERM
  leaves it on Tower. `TokensAccounted` counts it as the one of that fault.
* A job that was launched and not recorded runs on unknown (`orphans`); nothing
  in the code finds it, until it calls back.

### Disagreements with the documentation or the code's own comments

* `runner_exit`: past `MAX_POLL_FAILURES` the loop polls on; the documentation
  says it exits.
* `lifecycle_token`: without a login token in the governor's secret the release is
  skipped, without an error, and the subject is deleted.
* `lifecycle_edit`: the patch of sandbox vars sends `job_vars` whole, out of a
  payload that may be old.
* `lifecycle_pending`: the repeated update event does not repair a schedule that
  failed after its patch.
* `backoff_default`: the default retry delays end in `1d`, which does not parse,
  so the tenth and later retries are made at once.

## Proofs

`RunnerLoop_proofs` proves, for any sets of pods and runs and any thresholds and
bounds that satisfy `LoopAssumption` (the threshold is positive and below the
saturation of the count; `NoRun` is no run; no pod is called `"pending"` or
`"done"`):

* `LoopInvHolds`: `Spec => []LoopInv`;
* `TypeCorrect`, `Readiness`, `DoneHandled`, `Exclusive`: the invariants of the
  run `runner`, each a consequence of `LoopInv`;
* `UnreadyAtThreshold`: the action property `UnreadyOnlyAtThreshold`.

Why a strengthening is needed: `HandlersExclusive` says nothing of what Anarchy
has assigned, so a step of a second pod could break it; `HandlerOwnsRun` (the run
a handler works on is assigned to the handler's pod) makes it follow, since a
run has one assignee. It in turn needs `HoldsRun`. `DoneMeansHandled`
needs `ResultIsHandlers` (a pod that is about to post success holds a run
that was handled, through all retries). `TypeOK` needs `AttemptsLeft` for the
bound of `attempt`. The proof takes the steps of a pod apart action by action,
for each group of conjuncts in a lemma of its own (`PodStepType`,
`PodStepHolds`, `PodStepReadiness`, `PodStepOwns`, and the same for the
environment).

`Backoff_proofs` proves, for any intervals, any conversion of an interval to a
delay (`ParseDuration`), any environments and any bounds that satisfy
`BackoffAssumption` and `FilledAssumption`:

* `BackoffTypes`: `Spec => []TypeOK`, so that no list a handler takes an item of
  is ever empty;
* `RetriesBackOffAlways`, `PollsBackOffAlways`: the action properties
  `RetriesBackOff` and `PollsBackOff`.

The strengthening is `DelaysInv`: the delay given last is no longer than the one
the present count prescribes. Without it the properties are not inductive, for
they compare two steps. Its step rests on `RetryIntervalAscends`, that the
choice of an interval is monotone in the count also past the end of the list.
`FilledAssumption` says what filtering the blanks out of an environment's list
returns: `SelectSeq` is recursive, so the provers cannot know, and TLC evaluates
it for the environments of the runs.

`Lifecycle_proofs` proves, for any governor, any number of faults, failures,
requests, callbacks and queued actions (`GovernorAssumption`,
`LifecycleAssumption`):

* `TypeCorrect`: `Spec => []TypeOK`, the calls a handler is still to make included;
* `NothingLeaks`: `Spec => []NoPlacementLeak`, for governors with
  `sandboxDestroyCatchAll` that keep their login token, the premises without
  which `lifecycle_token` shows a leak;
* `DestroyJobFirst`: `Spec => []DestroyedFirst`, without a premise.

`Invariance` is `Spec => []IInv`, on which all theorems about `Lifecycle` rest. `IInv` has
two halves, `Sound` and `Counted`; the second keeps the account of the jobs that are
not recorded. `EndFacts` says once what the end of any job does, so that the proofs need
not tell `JobEnds` from `OrphanEnds` where the difference is of no consequence;
`OrphanSteps` says that only a launch makes a job in addition.

Neither `NoPlacementLeak` nor `DestroyedFirst` is inductive, for they speak of the moment of the
deletion, and what leads there is a sequence of calls that may be cut off,
repeated or replaced by an error path at any point. The invariant (`Sound`)
therefore says of the calls that are left (`TodoOK`) that they are either `Plain`,
and then none posts the directive to delete, or a `Farewell`: no destroy job is
due, an error of any of them ends the run, and the placement is gone or a release
comes before the post. `Consistent` relates the parts of the state the branches
are taken on: a job with a status, a callback of a destroy job and a state that
says destroy failed all come after a destroy job ended; a payload is never ahead
of the subject; only a subject with a uuid, which a cleanup looks for, has a
placement. `Gone` says what stays true of a deleted subject. The proof has three parts: every handler of `Governor`
returns such a sequence (`DispatchOK` and the lemmas before it), every prefix that
was carried out and every error path leaves one (`TailOK`, `RecoveryOK`,
`RepeatedOK`), and then one lemma per action.

The second half of `Lifecycle_proofs` proves `RefinesSubjectLife`: `Spec => ImplementsSubjectLife`,
that every step of `Lifecycle` is a step of `SubjectLife` or leaves its variables
alone. Its premises are on the governor: it uses sandboxes, releases placements
(`CatchAll`), keeps its login token, and has a destroy action that is not
disabled. Without sandboxes a subject is provisioned with no placement, which
`SubjectLife` does not allow; a governor without `sandboxDestroyCatchAll` deletes
subjects without giving their placement back, and one that lets the token vanish
skips the clean-up (`lifecycle_token`); without a destroy action a subject goes
with no destroy job.
Stale look-ups need no premise: a look-up that misses a placement is followed by a
booking, and the placement that was there stays.

`PromiseKept` says what that promise is worth, under the same premises: a subject that
is gone has left nothing behind (`NothingLeft`), and what is provisioned keeps its
placement until a destroy job ended (`PlacementKept`). Both are proved of `SubjectLife`
alone, in seven short steps, and carried over by the refinement.

`LaunchesArePlaced` proves `Spec => LaunchNeedsPlacement`: a provision job is launched
on a placement that is there and ready. It needs a governor with sandboxes and
look-ups that show a placement as soon as it is booked (not-found after a booking
counts as ready), and neither a destroy action nor a token.

`IInv` is not enough here, for it says nothing of the order provision is made in,
nor of whom the user wants gone. `RInv` adds, of the calls that are left, that they
are either `Working`, and then a provision job is launched or recorded only where
the subject has a placement (a ready one, if look-ups are not stale) or behind the
look-up that finds one, or `Leaving`, and then
nothing is left undestroyed and the user wants the subject deleted. `Known` carries
that wish from the request through the delete event, the destroy action, its
callbacks and its job. That `RInv` is invariant needs sandboxes only; the other premises
serve the steps of `SubjectLife`. `RInv` was checked by TLC as an invariant before it was
proved.

`LifecyclePower_proofs` proves, for governors that start and stop the sandbox
placement without a deployer, provision without one, and have no update action
(`NoDeployer`, the kind of governor `lifecycle_nodeployer` checks):

* `PowerIsFollowed`: `Spec => []PowerFollowsState`;
* `FailureIsTraced`: `Spec => []FailureLeavesTrace`, for governors that keep their
  login token (without it a start fails and leaves no trace).

With a deployer the state follows the job and not the placement, so there is
nothing to prove there; an update action would leave the subject `started` out of
any state. The invariant `PInv` reads a start or stop as the short program it is
without a deployer: `Powering` lists the places a run of one may be at, with what
is then known of the requests to the sandbox API (a handler that completes has
seen its own request end, and requests end in order). `Steady` says which actions
may be alive in which state, since a stop canceled too late would turn off what is
started. `FailureLeavesTrace` needs more (`TInv`): while no call has failed, a
start or stop that is pending has an action that is alive or has been recorded
as an error, which every place in `Powering` keeps. Without a deployer there is no job but that of
a status check that could call back (`Orphanless`).

`LifecycleWakeup_proofs` proves `NoWakeupIsLost`: `Spec => []NoLostWakeup`, for
governors that start and stop with a deployer and have no update action
(`PowerDeployed`), for any number of faults, callbacks, edits and requests. Both premises
are those without which the property does not hold: an update, and a start or stop
without a deployer, complete with `skip_update_processing`. The property is about
rest, and its invariant `WInv` about everything before. `Woken`: a subject that is
not what the user wants has an update event, or a run of one that is about to move
it, or an edit of `job_vars` is in the way: the run of an update event found one
(`Distracted`), or the last one did (`Misled`).
`Attended`: a subject that is being deleted has a delete event, a destroy action,
or a run with the decisive call still ahead. The rest (`Upbringing`) is what these
two need. `TodoFits` says of the calls that are left that none starts or stops
the subject exempt from update processing, none takes a destroy action away, and those of
update and delete events give up on the first error that matters. `Provisioned` says that a subject with a
provision job is past the states before it, where a call could still move it exempt,
and `Occasions` that no update action and no unwanted deletion ever comes up. TLC
checked all parts of `WInv` before they were proved.

`LifecycleJobs_proofs` proves `LaunchesAreSingle`: `Spec => OneJobPerAction`, for
governors with deployers for start and stop and no update action (`PowerDeployed`),
and any number of faults, failures, callbacks, edits and requests. (`OneJobPerAction` itself
asks nothing after the first callback, and nothing of start and stop after both a
failure and a fault; `Orderly` is what is before that. A start or stop without a
deployer launches no job, and when both are without one the premise is only in the way
of the argument, which takes `Upbringing` and `Attended` from `LifecycleWakeup_proofs`;
an update action, which may start in any state, is left to TLC.)

A launch reads the payload and not Tower, so the proof is about what a recorded job
leaves in the subject. `Shown` and `Powered` say that a job in progress is seen there:
a destroy, start or stop job in the state, a status job in `check_status_state`. The
state may be moved by any run, and so `Alone` says of every call that is left that it
moves the state only when no job depends on it (`MayMove`), launches only a job of the
run's own action that is not in progress (`MayLaunch`), and schedules start or stop only
behind a cancellation of both (`MaySchedule`). After a job is recorded, or a run has turned
round, there is nothing left but the result (`Final`). `Departing` keeps those apart who
might meet on the way out: whoever is being destroyed has no start or stop
action, no update event and no second delete event. The proof has one part about handlers
(`DispatchSole`), one about what is left of their calls after an answer, an error or a
repetition (`LeftSole`), and one lemma per action (`NextAlone`). A job may fail before
it is recorded, and is then recorded as one that failed; `Blamed` says that this
failure was counted, as `Orderly` needs it. What is recorded and
what is left move in one step, so the proof of `SubjectUpdateAlone` takes the calls
left with the new job in progress already. TLC checked `SInv` before it was proved.

The second half of the module proves `PlacementGoesLast`: `Spec => ReleasedLast`, for
the same governors and any number of faults, failures and requests. That *a* destroy job
ended before the release follows from `RInv`, after any number of callbacks. That
*none is running* does not: between the decision to release and the release itself
the run makes other calls, and it decides on what its payload says. `Steers` therefore
tells two kinds of runs apart: an `Opening` one may launch and record a destroy job, and
neither releases nor gives up; a `Closing` one may do both, records no destroy job,
and there was none in progress when it was dispatched (`Over`). No run turns from one kind
into the other but by a poll that sees the destroy job end. `Spared`, `GivenUp` and `Tokened`
carry `Over` from one run to the next: through a governor that destroys nothing,
through the state a failed destroy leaves, and through a token that is read before it is used.

A callback is the hard part, for it decides on the status it brings and not on the
subject: it is right only if its job is still the last one. `Stills` says that while
the callback of a destroy job waits, or is handled, and would release (`Late`, `Presses`), the subject
stays where that job left it (`Kept`) and whatever run is at hand moves nothing (`Quietly`).
For the first callback this follows from `SInv`, which holds until then: the job was in
progress up to the moment its callback was sent, so every call left was one that leaves it alone
(`AloneIsQuiet`). A second one may find the subject moved by the first, and one of a job that was
not recorded never had the subject to itself, which is why the property stops there, and
so does the invariant (`ZInv`).

`LifecyclePending_proofs` proves, for any number of failures, callbacks, requests and
queued actions:

* `NothingIsStuck`: `Spec => []NoStuck`, for governors without an update action whose
  disabled actions the sandbox API carries out (`Equipped`), the premises without which
  an action is left behind (see "Where properties stop");
* `PendingIsSeenTo`: `PendingIsScheduledUnfailed`, for governors with deployers for start
  and stop and no update action (`PowerDeployed`), and a provision that somebody carries
  out; a governor with sandboxes as long as nothing outside failed.

Both properties speak of rest, but what they say is not kept from step to step: a
handler moves the state with one call and schedules an action, or finishes its own,
with another, and in between the subject is pending with no action or has an action
for no reason. The invariant `LInv` therefore looks ahead. `Rest` is the whole table of
what a state and a status check say of the live actions. `Leads` holds of the calls that
are left when they take the subject from where it stands (`Now`) to a result after
which `Rest` holds, whatever is answered on the way; each call has its `Effect`, and
may be made only where it does no harm (`Goes`, `Closes`). So `NoStuck` is a matter of
the last call only: a result without a directive may be posted for an action that is
no longer there. `Course` is then one of the two: `Rest` between the runs, `Leads`
during one. What runs may meet each other is in `Named`, `Fresh` and `Infancy`: nobody
destroys a live subject, and nobody starts or stops it before its provision is over, so that a
provision always finds the state it left. `LInv` asks this of a live subject while no
call has failed, which is what both properties ask. The proof has a lemma about `Leads`
per piece of a handler (`LeadsLaunch`, `LeadsPower`, `LeadsRetry`) and per handler
(`LeadsProvision` to `LeadsUpdate`), and one lemma per action (`NextLeads`).
`PendingIsSeenTo` also uses `Attended`, since a subject that is being deleted does not
come to rest.

`TowerLaunch_proofs` proves, for any finite set of pods, any actions, any sequence
of settings and any number of faults (`LaunchAssumption`; `NamesAssumption`, that
the names of vault credentials are not those of the kinds of resources, which
Tower keeps apart by type):

* `TypeCorrect`: `Spec => []TypeOK`, by which no token is deleted that was not made;
* `TokensNeverLost`, `JobsNeverLost`, `OwnVars`: the invariants
  `TokensAccounted`, `JobsAccounted` and `RunsOwnVars`;
* `JobsAsConfigured`: the action property `RunsAsConfigured`.

`RunsAsConfigured` speaks of the launch, and everything it needs was done many
requests before. The invariant has, for each stage, what the attempt has collected
(`Collected`, `Grouped`) and how the template differs from that (`Synced`: the
children it has are those collected, without the ones left to add, with the ones
left to drop). All of it is about one pod and its template; `Exclusive` (no two
pods work on one action, by `Dispatch`) keeps the others from that template.
`OwnTemplates` makes `RunsOwnVars` inductive, and `TokensHeld` counts from below
too, so that a deletion never finds a count of zero. `JobsAccounted` needs no
strengthening but `Placed`, which says that an attempt with a job in hand is past
its launch.

Only model-checked:

* liveness, which is out of the prover's reach: `EveryRunDone`, `ShutdownEnds`,
  `DeletionCompletes`, `LaunchesInTheEnd`;
* `DeletionCompletes` and the other liveness properties are also the only word on what
  happens to an action after a fault: `NoStuck` says nothing then;
* `OneJobPerAction` and `ReleasedLast` for governors with an update action or with a start
  or stop that has no deployer.

## Not modelled

* the token cache and the pool of Tower clients: a pod executes one run at a
  time and a run makes one call at a time, so that their locks are never
  contended. What does happen on one thread, that a token that expired is
  replaced and never deleted on Tower, is listed as a hazard;
* the choice of a controller and the scheduler client: one POST whose answer names
  a host; `TowerLaunch` and `Lifecycle` have one controller;
* the extraction and validation of placement data, extra vars, templates: data
  that no modelled decision reads;
* the secret cache: its concurrency is that of client-go's informer;
* the configuration apart from the interval lists and `MAX_POLL_FAILURES`: read
  once and passed on;
* metrics, logging, TLS and the wiring in `main`: I/O without decisions.

## Plan

Done: `RunnerLoop` and `Backoff` with their proofs; `Governor` and `Lifecycle` with
the requests of the sandbox API, and the proofs of their types, of the two
promises about a deleted subject, of the power of the placement, of lost
wake-ups, of single launches, of the placement that is released last, and of what is
pending or stuck; `SubjectLife`, and the proof that `Lifecycle`
implements it; `TowerLaunch`, the inside of a launch, with its proofs.

What would come next:

1. several controllers, with jobs polled on a host other than the one that runs
   them, once it is documented which hosts the scheduler may name.
2. `NoLostWakeup` for governors with updates or without a deployer, when it is
   settled what `skip_update_processing` is meant to hide there.
