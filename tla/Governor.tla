------------------------------ MODULE Governor ------------------------------
(***************************************************************************)
(* What the handlers of babylon-runner (internal/handler) decide.  A       *)
(* handler reads nothing but the payload its run was dispatched with and   *)
(* the answers of the remote calls it makes, so it is written here as the  *)
(* sequence of calls it is about to make, with what it does when one of    *)
(* them fails and the result it posts in the end.  Lifecycle executes the  *)
(* calls one by one against Anarchy, Tower and the sandbox API.            *)
(*                                                                         *)
(* A payload is a record s with the subject's current_state, desired_state,*)
(* check_status_state, job_vars, status-request timestamp, deletion mark,  *)
(* what Anarchy processed last (prev), whether job_vars hold a uuid,       *)
(* whether the governor's secret holds the sandbox login token, whether a  *)
(* provision job is recorded, and which actions have a startTimestamp.     *)
(***************************************************************************)
EXTENDS Naturals, Sequences

CONSTANTS
    GovActions,    \* governor.spec.actions
    Disabled,      \* the actions with __meta__.deployer.actions.{a}.disabled
    SandboxInUse,  \* SandboxAPIInUse
    CatchAll,      \* sandboxDestroyCatchAll
    PowerEnabled   \* the actions with sandboxActionEnabled, of start and stop

Actions == {"provision", "destroy", "start", "stop", "status", "update"}

ASSUME GovernorAssumption ==
    /\ GovActions \subseteq Actions
    /\ Disabled \subseteq Actions
    /\ SandboxInUse \in BOOLEAN
    /\ CatchAll \in BOOLEAN
    /\ PowerEnabled \subseteq {"start", "stop"}

(***************************************************************************)
(* Subject states.  A state is the action it belongs to and a phase:       *)
(* "stop-pending" is <<"stop", "pending">>, "stopping" <<"stop",           *)
(* "running">>, "stop-failed" <<"stop", "failed">>.                        *)
(***************************************************************************)
NoState == <<"none", "none">>
Started == <<"none", "started">>
Stopped == <<"none", "stopped">>
Queued == <<"provision", "queued">>
DestroyComplete == <<"destroy", "complete">>
KeepState == <<"keep", "keep">>    \* in a PATCH: the state is left out
Pending(a) == <<a, "pending">>
Running(a) == <<a, "running">>
Failure(a, status) == <<a, status>>

FailureStatuses == {"canceled", "error", "failed"}
JobStatuses == FailureStatuses \cup {"successful"}

\* What the sandbox API answers for a placement.
NotReady == {"queued", "initializing"}
PlacementStatuses == NotReady \cup {"absent", "success", "error"}

SubjectStates ==
    {NoState, Started, Stopped, Queued, DestroyComplete}
    \cup (Actions \X (FailureStatuses \cup {"pending", "running"}))

(***************************************************************************)
(* Calls.                                                                  *)
(***************************************************************************)

\* A PATCH of the subject; "keep" leaves a field out of it.  job_vars are sent
\* whole, as the payload has them ("same") or with the forensics flag added.
\* starts: the action that gets a startTimestamp; ends: the action whose Tower
\* job gets a completeTimestamp; job: the action whose new Tower job is recorded;
\* request: the action whose sandboxAPIJobs entry gets the jobStatus of outcome;
\* uuid: job_vars get a uuid.
NoPatch == [state |-> KeepState, desired |-> "keep", css |-> "keep", vars |-> "keep",
            starts |-> "keep", ends |-> "keep", job |-> "keep", request |-> "keep",
            outcome |-> "none", uuid |-> FALSE, skip |-> FALSE]

\* traced: an error is first recorded in the subject (recordSandboxActionFailure).
Call(op, a, onError) ==
    [op |-> op, act |-> a, cancel |-> {}, patch |-> NoPatch, onError |-> onError,
     traced |-> FALSE]

\* SubjectUpdate: a failed PATCH fails the run.
Patch(p) == [Call("patch", "none", "fail") EXCEPT !.patch = p]
SkipPatch(p) == Patch([p EXCEPT !.skip = TRUE])

\* The PATCH that sets status.actions.{a}.startTimestamp.
Stamp(a) == <<SkipPatch([NoPatch EXCEPT !.starts = a])>>

\* ScheduleAction, the same.
Schedule(a, cancel) == [Call("schedule", a, "fail") EXCEPT !.cancel = cancel]

\* The result: finish, continue, delete (and finish), or no directive at all.
Post(directive) == <<Call("post", directive, "fail")>>

\* Patches that end an action's job and move the subject's state.
Ends(a, state) == [NoPatch EXCEPT !.state = state, !.ends = a]

(***************************************************************************)
(* launchTowerJob: launch, then record the job and the new state in one    *)
(* PATCH, which is not exempt from update processing.                      *)
(***************************************************************************)
\* Mutant: the new state is left out of the PATCH that records the job.
launchTowerJobKeepsState(a, onError) ==
    <<Call("launch", a, onError),
      [Patch([NoPatch EXCEPT !.job = a]) EXCEPT !.onError = onError]>>

launchTowerJob(a, onError) ==
    LET recorded == [NoPatch EXCEPT
            !.job = a,
            !.state = IF a = "status" THEN @ ELSE Running(a),
            !.css = IF a = "status" THEN "running" ELSE @]
    IN  <<Call("launch", a, onError),
          [Patch(recorded) EXCEPT !.onError = onError]>>

\* sandboxGet without booking: start, stop, status, update and destroy use the
\* placement's vars if they get them and go on without them if not.
sandboxGet(a, s) ==
    IF SandboxInUse /\ s.uuid /\ s.token THEN <<Call("get", a, "ignore")>> ELSE <<>>

\* updateSubjectSandboxVars: the payload's whole job_vars with the sandbox vars
\* merged in; a failure is sandboxGet's.
updateSubjectSandboxVars(onError) ==
    <<[SkipPatch([NoPatch EXCEPT !.vars = "same"]) EXCEPT !.onError = onError]>>

launchAndPoll(a, s) ==
    sandboxGet(a, s) \o launchTowerJob(a, "fail") \o Post("continue")

(***************************************************************************)
(* sandboxStart and sandboxStop: request it of the sandbox API, record the *)
(* request, and wait for it to end, unless it was carried out at once.     *)
(***************************************************************************)
Traced(call, a) == [call EXCEPT !.act = a, !.traced = TRUE]

sandboxPower(a, onError) == <<Traced(Call("power", a, onError), a)>>

\* The jobStatus and message of an older request stay until this one ends.
requested(a, onError, async) ==
    <<Traced([SkipPatch(NoPatch) EXCEPT !.onError = onError], a)>>
    \o (IF async THEN <<Call("await", a, onError)>> ELSE <<>>)

recordSandboxJobOutcome(a, outcome, onError) ==
    <<[SkipPatch([NoPatch EXCEPT !.request = a, !.outcome = outcome]) EXCEPT
         !.onError = onError]>>

\* Errors of the recording are swallowed.
recordSandboxActionFailure(a) == recordSandboxJobOutcome(a, "error", "ignore")

\* pollSandboxRequest when the request has ended; handled is what the caller of
\* sandboxStart or sandboxStop does about its error.
\* Mutant: a failed request is not recorded.
requestEndedUntraced(call, ended, rest, handled) ==
    IF ended = "success"
    THEN recordSandboxJobOutcome(call.act, "successful", call.onError) \o rest
    ELSE handled

requestEnded(call, ended, rest, handled) ==
    IF ended = "success"
    THEN recordSandboxJobOutcome(call.act, "successful", call.onError) \o rest
    ELSE recordSandboxActionFailure(call.act) \o handled

\* checkDeployerJob: whatever keeps the status from being read, poll again.
checkDeployerJob(a) == <<Call("poll", a, "continue")>>

(***************************************************************************)
(* Provision.                                                              *)
(***************************************************************************)
handleProvisionError ==
    <<Patch(Ends("provision", Failure("provision", "error")))>> \o Post("finish")

handleProvisionFailed ==
    <<Patch([Ends("provision", Failure("provision", "failed")) EXCEPT
               !.vars = "forensics"])>> \o Post("finish")

handleProvisionCanceled ==
    <<SkipPatch(Ends("provision", Failure("provision", "canceled")))>> \o Post("finish")

handleProvisionComplete == <<Patch(Ends("provision", Started))>> \o Post("finish")

completeProvisionNoDeployer == <<Patch([NoPatch EXCEPT !.state = Started])>> \o Post("finish")

transitionToQueued == <<SkipPatch([NoPatch EXCEPT !.state = Queued])>> \o Post("continue")

\* runProvision once the sandbox, if any, is there.
launchProvision ==
    IF "provision" \notin Disabled
    THEN launchTowerJob("provision", "provisionError") \o Post("continue")
    ELSE IF SandboxInUse THEN completeProvisionNoDeployer ELSE Post("none")

runProvision(s) ==
    (IF "provision" \in s.started THEN <<>>
     ELSE <<Patch([NoPatch EXCEPT !.starts = "provision"])>>)
    \o (CASE ~SandboxInUse -> launchProvision
          [] SandboxInUse /\ s.uuid /\ s.token ->
               <<Call("get", "provision", "provisionError")>> \o launchProvision
          [] OTHER -> handleProvisionError)

\* What runProvision makes of sandboxGet's answer; rest is launchProvision.
\* Every status but success and error means that the placement is not ready.
\* Mutant: a placement in error does not stop the provision.
placedOrNotCarriesOn(status, rest) ==
    CASE status = "absent"  -> <<Call("book", "provision", "provisionError")>> \o rest
      [] status \in NotReady -> transitionToQueued
      [] status = "error"   -> rest
      [] status = "success" -> updateSubjectSandboxVars("provisionError") \o rest

placedOrNot(status, rest) ==
    CASE status = "absent"  -> <<Call("book", "provision", "provisionError")>> \o rest
      [] status \in NotReady -> transitionToQueued
      [] status = "error"   -> handleProvisionError
      [] status = "success" -> updateSubjectSandboxVars("provisionError") \o rest

\* sandboxBook's answer.  Any status but success and queued is looked up again,
\* without booking.
booked(status, rest) ==
    CASE status = "invalid" -> Post("finish")
      [] status = "refused" -> handleProvisionError
      [] status = "success" -> rest
      [] status = "queued"  -> transitionToQueued
      [] status \in {"initializing", "error"} -> <<Call("reget", "provision", "provisionError")>> \o rest

bookedAgain(status, rest) ==
    IF status = "absent" THEN rest ELSE placedOrNot(status, rest)

\* checkProvisionQueue.  Every status but error and queued counts as ready
\* here; a placement that is not is found out by the sandboxGet that follows.
checkProvisionQueue(s) ==
    IF s.uuid /\ s.token
    THEN <<Call("checkQueue", "provision", "provisionError")>>
    ELSE handleProvisionError

queueChecked(status, s) ==
    CASE status \in {"absent", "error"} -> handleProvisionError
      [] status = "queued"  -> <<SkipPatch(NoPatch)>> \o Post("continue")
      [] status \in {"initializing", "success"} ->
           <<SkipPatch([NoPatch EXCEPT !.state = Pending("provision"), !.vars = "same"])>>
           \o runProvision(s)

handleProvision(s) ==
    CASE s.state = Pending("provision") -> runProvision(s)
      [] s.state = Queued -> checkProvisionQueue(s)
      [] s.state = Running("provision") /\ "provision" \notin Disabled ->
           checkDeployerJob("provision")
      [] OTHER -> Post("none")

(***************************************************************************)
(* Destroy.                                                                *)
(***************************************************************************)

\* sandboxCleanup: without a login token the release is skipped, and that is no
\* error.  (Without a uuid ReleasePlacement fails.)
sandboxCleanup(s) == IF s.uuid /\ ~s.token THEN <<>> ELSE <<Call("release", "none", "fail")>>

handleDestroyCatchAll(s) == sandboxCleanup(s) \o Post("delete")

\* Mutant: the placement is released as soon as the destroy job is launched.
runDestroyCleansUp(s) ==
    <<Call("cancel", "provision", "ignore")>>
    \o launchTowerJob("destroy", "fail") \o sandboxCleanup(s) \o Post("continue")

runDestroy(s) ==
    sandboxGet("destroy", s) \o <<Call("cancel", "provision", "ignore")>>
    \o launchTowerJob("destroy", "fail") \o Post("continue")

\* Mutant: the subject goes first, the placement is released by a later run.
handleDestroyCompleteReleasesLate(s) ==
    <<SkipPatch(Ends("destroy", DestroyComplete))>> \o Post("delete")

handleDestroyComplete(s) ==
    (IF SandboxInUse THEN sandboxCleanup(s) ELSE <<>>)
    \o <<SkipPatch(Ends("destroy", DestroyComplete))>> \o Post("delete")

\* Mutant: a destroy that failed is over.
handleDestroyFailureGivesUp(status) ==
    <<SkipPatch(Ends("destroy", Failure("destroy", status)))>> \o Post("finish")

handleDestroyFailure(status) ==
    <<SkipPatch(Ends("destroy", Failure("destroy", status)))>> \o Post("continue")

handleDestroy(s) ==
    LET failed == \E f \in FailureStatuses : s.state = Failure("destroy", f)
        disabled == "destroy" \in Disabled
        fresh == s.state = Pending("destroy") /\ "destroy" \notin s.started
    IN  (IF fresh THEN Stamp("destroy") ELSE <<>>)
        \o (IF SandboxInUse /\ CatchAll /\ (failed \/ disabled) THEN handleDestroyCatchAll(s)
            ELSE IF disabled THEN Post("none")
            ELSE IF s.state = Running("destroy") THEN checkDeployerJob("destroy")
            ELSE runDestroy(s))

(***************************************************************************)
(* Start and stop.                                                         *)
(***************************************************************************)
powerOn == SandboxInUse /\ "start" \in PowerEnabled
powerOff == SandboxInUse /\ "stop" \in PowerEnabled

completeStartNoDeployer == <<SkipPatch([NoPatch EXCEPT !.state = Started])>> \o Post("finish")

runStart(s) ==
    Stamp("start")
    \o (IF "start" \notin Disabled
        THEN (IF powerOn THEN sandboxPower("start", "ignore") ELSE <<>>) \o launchAndPoll("start", s)
        ELSE IF powerOn THEN sandboxPower("start", "finish") \o completeStartNoDeployer
        ELSE Post("none"))

handleStart(s) ==
    IF s.state # Running("start") THEN runStart(s)
    ELSE IF "start" \notin Disabled THEN checkDeployerJob("start")
    ELSE Post("none")

handleStartComplete == <<Patch(Ends("start", Started))>> \o Post("finish")

\* Mutant: a failed sandbox stop does not keep the subject from being stopped.
completeStopNoDeployerAnyway ==
    sandboxPower("stop", "ignore")
    \o <<SkipPatch([NoPatch EXCEPT !.state = Stopped])>> \o Post("finish")

completeStopNoDeployer ==
    sandboxPower("stop", "finish")
    \o <<SkipPatch([NoPatch EXCEPT !.state = Stopped])>> \o Post("finish")

runStop(s) ==
    Stamp("stop")
    \o (IF "stop" \notin Disabled THEN launchAndPoll("stop", s)
        ELSE IF powerOff THEN completeStopNoDeployer
        ELSE Post("none"))

handleStop(s) ==
    IF s.state # Running("stop") THEN runStop(s)
    ELSE IF "stop" \notin Disabled THEN checkDeployerJob("stop")
    ELSE Post("none")

\* The job's end is recorded first, the state only after the sandbox stop.
\* Mutant: the state is patched with skip_update_processing.
handleStopCompleteSkips ==
    <<Patch([NoPatch EXCEPT !.ends = "stop"])>>
    \o (IF powerOff THEN sandboxPower("stop", "ignore") ELSE <<>>)
    \o <<SkipPatch([NoPatch EXCEPT !.state = Stopped])>> \o Post("finish")

handleStopComplete ==
    <<Patch([NoPatch EXCEPT !.ends = "stop"])>>
    \o (IF powerOff THEN sandboxPower("stop", "ignore") ELSE <<>>)
    \o <<Patch([NoPatch EXCEPT !.state = Stopped])>> \o Post("finish")

\* The directive after a failed start or stop: retry while the user still wants
\* it, turn round when the user wants the other one, and finish otherwise.
\* Mutant: the action that failed is not canceled.
retryOrPivotLeaves(s, wanted, other, pivot) ==
    CASE s.desired = wanted /\ ~s.deleting -> Post("continue")
      [] s.desired = other /\ ~s.deleting -> <<Schedule(pivot, {pivot})>> \o Post("none")
      [] OTHER -> Post("finish")

retryOrPivot(s, wanted, other, pivot) ==
    CASE s.desired = wanted /\ ~s.deleting -> Post("continue")
      [] s.desired = other /\ ~s.deleting ->
           <<Schedule(pivot, {"start", "stop"})>> \o Post("none")
      [] OTHER -> Post("finish")

failedVars(status) == IF status = "failed" THEN "forensics" ELSE "keep"

handleStartFailure(s, status) ==
    <<SkipPatch([Ends("start", Failure("start", status)) EXCEPT !.vars = failedVars(status)])>>
    \o retryOrPivot(s, "started", "stopped", "stop")

handleStopFailure(s, status) ==
    (IF powerOff /\ status # "canceled" THEN sandboxPower("stop", "ignore") ELSE <<>>)
    \o <<SkipPatch([Ends("stop", Failure("stop", status)) EXCEPT !.vars = failedVars(status)])>>
    \o retryOrPivot(s, "stopped", "started", "start")

(***************************************************************************)
(* Status and update.                                                      *)
(***************************************************************************)
\* Mutant: the name of the callback is recorded, not the job's status.
statusSuccessfulByCallback(p) == <<SkipPatch([p EXCEPT !.css = "complete"])>> \o Post("finish")

statusSuccessful(p) == <<SkipPatch([p EXCEPT !.css = "successful"])>> \o Post("finish")

runStatus(s) ==
    Stamp("status")
    \o (IF "status" \notin Disabled THEN launchAndPoll("status", s) ELSE statusSuccessful(NoPatch))

handleStatus(s) ==
    CASE s.css = "pending" -> runStatus(s)
      [] s.css = "running" /\ "status" \notin Disabled -> checkDeployerJob("status")
      [] s.css = "running" /\ "status" \in Disabled -> statusSuccessful(NoPatch)
      [] OTHER -> Post("none")

handleStatusComplete == statusSuccessful([NoPatch EXCEPT !.ends = "status"])

\* Mutant: check_status_state is left alone.
handleStatusFailureKeepsState(status) ==
    <<SkipPatch([NoPatch EXCEPT !.ends = "status"])>> \o Post("finish")

handleStatusFailure(status) ==
    <<SkipPatch([NoPatch EXCEPT !.ends = "status", !.css = status])>> \o Post("finish")

handleUpdate(s) ==
    IF s.state = Running("update") THEN checkDeployerJob("update")
    ELSE launchAndPoll("update", s)

handleUpdateComplete == <<SkipPatch(Ends("update", Started))>> \o Post("finish")

handleUpdateFailure(s, status) ==
    <<SkipPatch(Ends("update", Failure("update", status)))>>
    \o Post(IF s.deleting THEN "finish" ELSE "continue")

(***************************************************************************)
(* How a job ended, known from polling (checkDeployerJob) or from the      *)
(* callback.  Neither looks at the subject's state.                        *)
(***************************************************************************)
handleDeployerJobSuccess(a, s) ==
    CASE a = "provision" -> handleProvisionComplete
      [] a = "destroy" -> handleDestroyComplete(s)
      [] a = "start" -> handleStartComplete
      [] a = "stop" -> handleStopComplete
      [] a = "status" -> handleStatusComplete
      [] a = "update" -> handleUpdateComplete

handleDeployerJobFailure(a, status, s) ==
    CASE a = "provision" /\ status = "canceled" -> handleProvisionCanceled
      [] a = "provision" /\ status = "failed" -> handleProvisionFailed
      [] a = "provision" /\ status = "error" -> handleProvisionError
      [] a = "destroy" -> handleDestroyFailure(status)
      [] a = "start" -> handleStartFailure(s, status)
      [] a = "stop" -> handleStopFailure(s, status)
      [] a = "status" -> handleStatusFailure(status)
      [] a = "update" -> handleUpdateFailure(s, status)

handleCallback(a, status, s) ==
    IF status = "successful" THEN handleDeployerJobSuccess(a, s)
    ELSE handleDeployerJobFailure(a, status, s)

jobPolled(a, job, s) ==
    IF job \in JobStatuses THEN handleCallback(a, job, s) ELSE Post("continue")

(***************************************************************************)
(* Subject events.                                                         *)
(***************************************************************************)
handleEventCreate(s) ==
    (IF s.state = NoState
     THEN <<SkipPatch([NoPatch EXCEPT !.state = Pending("provision"), !.uuid = TRUE])>>
     ELSE <<>>)
    \o <<Schedule("provision", {})>> \o Post("none")

determineUpdateAction(s) ==
    IF s.vars # s.prev.vars THEN "update"
    ELSE IF s.desired = "started" /\ s.state = Stopped THEN "start"
    ELSE IF s.desired = "stopped" /\ s.state = Started THEN "stop"
    ELSE "none"

\* asked is check_status_request_timestamp, 0 when it is not set.
shouldScheduleStatus(s) ==
    \/ s.css = "pending" /\ s.asked = 0
    \/ /\ s.asked # 0
       /\ s.asked # s.prev.asked
       /\ s.css \in {"none", "successful"}

scheduleUpdateAction(a) ==
    <<SkipPatch([NoPatch EXCEPT !.state = Pending(a)]), Schedule(a, {"start", "stop"})>>

scheduleStatusCheck ==
    <<SkipPatch([NoPatch EXCEPT !.css = "pending"]), Schedule("status", {})>>

handleEventUpdate(s) ==
    LET a == determineUpdateAction(s)
    IN  (IF a \in GovActions THEN scheduleUpdateAction(a) ELSE <<>>)
        \o (IF "status" \in GovActions /\ shouldScheduleStatus(s) THEN scheduleStatusCheck
            ELSE <<>>)
        \o Post("none")

handleEventDeleteWithDestroy ==
    <<Schedule("destroy", {"start", "stop", "update"}),
      Patch([NoPatch EXCEPT !.state = Pending("destroy"), !.desired = "destroyed"])>>
    \o Post("none")

\* Mutant: a subject without a destroy action holds no placement.
handleEventDeleteWithoutDestroyLeaks(s) ==
    <<Patch([NoPatch EXCEPT !.state = DestroyComplete, !.desired = "destroyed"])>>
    \o Post("delete")

handleEventDeleteWithoutDestroy(s) ==
    (IF SandboxInUse /\ CatchAll /\ s.uuid THEN sandboxCleanup(s) ELSE <<>>)
    \o <<Patch([NoPatch EXCEPT !.state = DestroyComplete, !.desired = "destroyed"])>>
    \o Post("delete")

\* Mutant: the recorded provision job is not looked at.
handleEventDeleteAtOnce(s) ==
    <<Call("cancel", "all", "ignore")>> \o handleEventDeleteWithoutDestroy(s)

handleEventDelete(s) ==
    <<Call("cancel", "all", "ignore")>>
    \o (IF s.provisioned /\ "destroy" \in GovActions /\ "destroy" \notin Disabled
        THEN handleEventDeleteWithDestroy
        ELSE handleEventDeleteWithoutDestroy(s))

(***************************************************************************)
(* Dispatch: the handler of a run.                                         *)
(***************************************************************************)
Dispatch(r, s) ==
    CASE r.kind = "event" /\ r.name = "create" -> handleEventCreate(s)
      [] r.kind = "event" /\ r.name = "update" -> handleEventUpdate(s)
      [] r.kind = "event" /\ r.name = "delete" -> handleEventDelete(s)
      [] r.kind = "action" /\ r.name = "provision" -> handleProvision(s)
      [] r.kind = "action" /\ r.name = "destroy" -> handleDestroy(s)
      [] r.kind = "action" /\ r.name = "start" -> handleStart(s)
      [] r.kind = "action" /\ r.name = "stop" -> handleStop(s)
      [] r.kind = "action" /\ r.name = "status" -> handleStatus(s)
      [] r.kind = "action" /\ r.name = "update" -> handleUpdate(s)
      [] r.kind = "callback" -> handleCallback(r.name, r.status, s)
=============================================================================
