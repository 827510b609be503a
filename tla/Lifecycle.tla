----------------------------- MODULE Lifecycle -----------------------------
(***************************************************************************)
(* The life of one subject under babylon-runner: the runner executes the   *)
(* subject's runs with the handlers of Governor, remote call by remote     *)
(* call, while the user edits, starts, stops and deletes the subject, the  *)
(* Tower jobs and the placement move on, and calls, posts and pods fail.   *)
(*                                                                         *)
(* The handlers of a run touch the subject of its payload only, so one     *)
(* subject is enough.  Anarchy, Tower and the sandbox API are external.    *)
(* Anarchy has at most one run of a subject in execution and dispatches a  *)
(* run that failed or was not reported again before it goes on to the      *)
(* next.  It raises an update event for a change of spec.vars that is not  *)
(* exempt (skip_update_processing), unless the subject is being deleted.   *)
(***************************************************************************)
EXTENDS Governor

CONSTANTS
    MaxFaults,     \* model bound: failed or repeated calls, lost results, crashes
    MaxFailures,   \* model bound: Tower jobs and placements that do not succeed
    MaxRequests,   \* model bound: the user's edits, starts, stops, status requests
    MaxCallbacks,  \* model bound: callbacks of Tower that reach Anarchy
    MaxQueued,     \* model bound: live actions of one name
    TokenMayVanish, \* whether the login token may be taken out of the secret
    StaleLookups   \* whether the sandbox API may not show a placement just booked

ASSUME LifecycleAssumption ==
    /\ {MaxFaults, MaxFailures, MaxRequests, MaxCallbacks} \subseteq Nat
    /\ MaxQueued \in Nat \ {0}
    /\ TokenMayVanish \in BOOLEAN
    /\ StaleLookups \in BOOLEAN

VARIABLES
    subj,       \* the AnarchySubject
    prev,       \* what Anarchy processed last of it (status.previous_state);
                \* history: that job_vars differed at the last update event
    tower,      \* per action the recorded Tower job and its completeTimestamp, the
                \* action's own startTimestamp, and the jobStatus of its request to
                \* the sandbox API; history: that a job ended
    acts,       \* Anarchy: the live actions, per name
    stuck,      \* Anarchy: the actions left by a result without a directive
    events,     \* Anarchy: the subject events not handled yet
    callbacks,  \* Anarchy: the callbacks not handled yet
    placement,  \* the sandbox API's placement of the subject
    power,      \* whether the placement is on, the start and stop requests it has
                \* not carried out yet, and how the last one ended
    token,      \* whether the governor's secret holds the login token
    gone,       \* the subject is deleted
    run,        \* the run in execution, or NoRun
    snap,       \* the payload it was dispatched with
    todo,       \* the calls its handler is still to make; <<>>: not dispatched
    orphans,    \* per action the Tower jobs that run and are not recorded, and how
                \* the one still to be recorded ended, if it did
    used        \* model bounds: faults, failures, requests, callbacks so far;
                \* history: the callbacks of jobs that were not recorded

subject == <<subj, prev, tower, events>>
anarchy == <<acts, stuck>>
sandbox == <<placement, power>>
vars == <<subj, prev, tower, acts, stuck, events, callbacks, placement, power,
          token, gone, run, snap, todo, orphans, used>>

NoRun == [kind |-> "none", name |-> "none", status |-> "none"]

NoVars == [edit |-> 0, forensics |-> FALSE]

NewSubject == [state |-> NoState, desired |-> "started", css |-> "none", vars |-> NoVars,
               uuid |-> FALSE, deleting |-> FALSE, asked |-> 0]

NewPrev == [vars |-> NoVars, asked |-> 0, edited |-> FALSE]

PayloadOf(s, p, t, jobs) ==
    [state |-> s.state, desired |-> s.desired, css |-> s.css, vars |-> s.vars,
     uuid |-> s.uuid, deleting |-> s.deleting, asked |-> s.asked, prev |-> p,
     token |-> t, provisioned |-> jobs["provision"].job # "none",
     started |-> {a \in Actions : jobs[a].started}]

NoJobs == [a \in Actions |-> [job |-> "none", complete |-> FALSE, started |-> FALSE,
                            request |-> "none", ended |-> FALSE]]

NoPayload == PayloadOf(NewSubject, NewPrev, FALSE, NoJobs)

Init ==
    /\ subj = NewSubject
    /\ prev = NewPrev
    /\ tower = NoJobs
    /\ acts = [a \in Actions |-> 0]
    /\ stuck = {}
    /\ events = {"create"}
    /\ callbacks = {}
    /\ placement = "absent"
    /\ power = [on |-> TRUE, requests |-> <<>>, ended |-> "success"]
    /\ token = TRUE
    /\ gone = FALSE
    /\ run = NoRun
    /\ snap = NoPayload
    /\ todo = <<>>
    /\ orphans = [a \in Actions |-> [running |-> 0, ended |-> "none"]]
    /\ used = [fault |-> 0, failure |-> 0, request |-> 0, callback |-> 0, stray |-> 0]

(***************************************************************************)
(* The runner.                                                             *)
(***************************************************************************)

\* Any live action, pending event or callback may be next; an update event
\* comes before the delete event that was raised after it.
Waiting ==
    {[kind |-> "event", name |-> e, status |-> "none"] : e \in
        IF "update" \in events THEN events \ {"delete"} ELSE events}
    \cup {[kind |-> "action", name |-> a, status |-> "none"] :
            a \in {b \in Actions : acts[b] > 0}}
    \cup callbacks

Payload == PayloadOf(subj, prev, token, tower)

\* Anarchy hands out the next run, or the run of before once more, and the
\* runner routes it to its handler.
DispatchRun(r) ==
    /\ ~gone
    /\ todo = <<>>
    /\ r \in IF run = NoRun THEN Waiting ELSE {run}
    /\ run' = r
    /\ todo' = Dispatch(r, Payload)
    /\ snap' = Payload
    /\ events' = IF r.kind = "event" THEN events \ {r.name} ELSE events
    /\ callbacks' = callbacks \ {r}
    /\ UNCHANGED <<subj, prev, tower, acts, stuck, placement, power, token, gone,
                   orphans, used>>

At(op) == todo # <<>> /\ Head(todo).op = op

\* Go on with the calls in rest; with none left the run is not in execution.
Continue(rest) ==
    /\ todo' = rest
    /\ snap' = IF rest = <<>> THEN NoPayload ELSE snap

\* What a handler does about the error of a call.
Handled(call, rest) ==
    CASE call.onError = "fail" -> <<>>
      [] call.onError = "ignore" -> rest
      [] call.onError = "continue" -> Post("continue")
      [] call.onError = "finish" -> Post("finish")
      [] call.onError = "provisionError" -> handleProvisionError

Recovery(call, rest) ==
    (IF call.traced THEN recordSandboxActionFailure(call.act) ELSE <<>>) \o Handled(call, rest)

Spend(what, limit) ==
    /\ used[what] < limit
    /\ used' = [used EXCEPT ![what] = @ + 1]

\* A call that fails: the client repeats it, or the handler sees the error.
TroubleWith(again) ==
    /\ Spend("fault", MaxFaults)
    /\ Continue(again) \/ Continue(Recovery(Head(todo), Tail(todo)))

Trouble == TroubleWith(todo)

\* The call once more after it took effect: a job is recorded once.
Repeated == [todo EXCEPT ![1].patch.job = "keep"]

Succeeds == Continue(Tail(todo)) /\ UNCHANGED used

\* A call with an effect on some of the variables; same says that they keep.
Does(effect, same) ==
    \/ effect /\ Succeeds
    \/ effect /\ TroubleWith(Repeated)
    \/ same /\ Trouble

\* subject_update, merged into the subject by Anarchy.
Merged(p) ==
    [subj EXCEPT
        !.state = IF p.state = KeepState THEN @ ELSE p.state,
        !.desired = IF p.desired = "keep" THEN @ ELSE p.desired,
        !.css = IF p.css = "keep" THEN @ ELSE p.css,
        !.vars = IF p.vars = "keep" THEN @
                 ELSE [edit |-> snap.vars.edit, forensics |-> @.forensics \/ p.vars = "forensics"],
        !.uuid = @ \/ p.uuid]

\* The job that is recorded: it may have come to an end before.
Launched(a) == IF orphans[a].ended = "none" THEN "running" ELSE orphans[a].ended

\* It is no orphan any longer; the job recorded before is one as long as it runs.
Recorded(a) ==
    LET lost == orphans[a].running + (IF tower[a].job = "running" THEN 1 ELSE 0)
    IN  [running |-> IF orphans[a].ended = "none" /\ lost > 0 THEN lost - 1 ELSE lost,
         ended |-> "none"]

Apply(p) ==
    /\ subj' = Merged(p)
    /\ prev' = IF p.skip /\ p.vars # "keep" THEN [prev EXCEPT !.vars = Merged(p).vars] ELSE prev
    /\ events' = IF ~p.skip /\ Merged(p) # subj /\ ~subj.deleting
                 THEN events \cup {"update"} ELSE events
    /\ tower' = [a \in Actions |->
                   [tower[a] EXCEPT !.job = IF a = p.job THEN Launched(a) ELSE @,
                                    !.complete = a # p.job /\ (@ \/ a = p.ends),
                                    !.started = @ \/ a = p.starts,
                                    !.request = IF a = p.request THEN p.outcome ELSE @]]
    /\ orphans' = [a \in Actions |-> IF a = p.job THEN Recorded(a) ELSE orphans[a]]

SubjectUpdate ==
    /\ At("patch")
    /\ Does(Apply(Head(todo).patch), UNCHANGED <<subject, orphans>>)
    /\ UNCHANGED <<anarchy, callbacks, sandbox, token, gone, run>>

\* Anarchy cancels the named actions and creates a new one.
Scheduled(a, cancel) ==
    [b \in Actions |->
        LET n == IF b \in cancel THEN 0 ELSE acts[b]
        IN  IF b = a /\ n < MaxQueued THEN n + 1 ELSE n]

ScheduleAction ==
    /\ At("schedule")
    /\ Does(/\ acts' = Scheduled(Head(todo).act, Head(todo).cancel)
            /\ stuck' = stuck \ Head(todo).cancel,
            UNCHANGED anarchy)
    /\ UNCHANGED <<subject, callbacks, sandbox, token, gone, run, orphans>>

\* tc.LaunchJob: nobody but Tower knows of the job until it is recorded.
LaunchJob ==
    /\ At("launch")
    /\ Does(orphans' = [orphans EXCEPT ![Head(todo).act] =
                            [running |-> @.running + 1, ended |-> "none"]],
            UNCHANGED orphans)
    /\ UNCHANGED <<subject, anarchy, callbacks, sandbox, token, gone, run>>

\* cancelTowerJob of one action or of all: the recorded jobs without a
\* completeTimestamp.  Errors are logged.
Canceled(a) ==
    [b \in Actions |->
        IF a \in {b, "all"} /\ ~tower[b].complete /\ tower[b].job = "running"
        THEN [tower[b] EXCEPT !.job = "canceled", !.ended = TRUE] ELSE tower[b]]

CancelJobs ==
    /\ At("cancel")
    /\ Does(tower' = Canceled(Head(todo).act), UNCHANGED tower)
    /\ UNCHANGED <<subj, prev, events, anarchy, callbacks, sandbox, token, gone, run, orphans>>

\* tc.GetJobStatus of the recorded job.
PollJob ==
    /\ At("poll")
    /\ \/ /\ Continue(jobPolled(Head(todo).act, tower[Head(todo).act].job, snap))
          /\ UNCHANGED used
       \/ Trouble
    /\ UNCHANGED <<subject, anarchy, callbacks, sandbox, token, gone, run, orphans>>

\* client.GetPlacement, for sandboxGet.
GetPlacement ==
    /\ At("get")
    /\ \/ /\ Continue(
               IF Head(todo).act = "provision" THEN placedOrNot(placement, Tail(todo))
               ELSE IF placement = "success"
                    THEN updateSubjectSandboxVars("ignore") \o Tail(todo)
                    ELSE Tail(todo))
          /\ UNCHANGED used
       \/ Trouble
    /\ UNCHANGED <<subject, anarchy, callbacks, sandbox, token, gone, run, orphans>>

\* The look-up after a booking; the new placement may not be visible yet.
GetBooked ==
    /\ At("reget")
    /\ \/ Continue(bookedAgain(placement, Tail(todo))) /\ UNCHANGED used
       \/ StaleLookups /\ Continue(bookedAgain("absent", Tail(todo))) /\ UNCHANGED used
       \/ Trouble
    /\ UNCHANGED <<subject, anarchy, callbacks, sandbox, token, gone, run, orphans>>

\* client.GetPlacement, for checkProvisionQueue.
CheckQueue ==
    /\ At("checkQueue")
    /\ \/ Continue(queueChecked(placement, snap)) /\ UNCHANGED used
       \/ Trouble
    /\ UNCHANGED <<subject, anarchy, callbacks, sandbox, token, gone, run, orphans>>

\* client.BookPlacement: a placement in whatever status, the one there is when the
\* service has one, or none because the request is invalid or refused.
BookPlacement ==
    /\ At("book")
    /\ \/ \E status \in IF placement = "absent" THEN NotReady \cup {"success"} ELSE {placement} :
            /\ placement' = status
            /\ \/ Continue(booked(status, Tail(todo))) /\ UNCHANGED used
               \/ Trouble
       \/ \E status \in {"invalid", "refused", "error"} :
            /\ placement = "absent"
            /\ placement' = IF status = "error" THEN "error" ELSE "absent"
            /\ Continue(booked(status, Tail(todo)))
            /\ Spend("failure", MaxFailures)
       \/ placement' = placement /\ Trouble
    /\ UNCHANGED <<subject, anarchy, callbacks, power, token, gone, run, orphans>>

\* client.StartPlacement and StopPlacement: the API takes the request, and may
\* have carried it out when it answers; it has none for a placement not there or
\* not ready.
PowerPlacement ==
    /\ At("power")
    /\ LET call == Head(todo)
           taken == [power EXCEPT !.requests = Append(@, call.act)]
           done == [power EXCEPT !.on = (call.act = "start")]
       IN  \/ /\ snap.uuid /\ snap.token /\ placement \in {"success", "error"}
              /\ \/ /\ power' = taken
                    /\ Continue(requested(call.act, call.onError, TRUE) \o Tail(todo))
                    /\ UNCHANGED used
                 \/ /\ power.requests = <<>>
                    /\ power' = done
                    /\ Continue(requested(call.act, call.onError, FALSE) \o Tail(todo))
                    /\ UNCHANGED used
                 \/ power' \in {power, taken} /\ Trouble
           \/ /\ snap.uuid /\ ~snap.token
              /\ Continue(Handled(call, Tail(todo)))
              /\ UNCHANGED <<power, used>>
           \/ /\ snap.uuid => snap.token /\ placement \notin {"success", "error"}
              /\ Continue(Recovery(call, Tail(todo)))
              /\ UNCHANGED <<power, used>>
    /\ UNCHANGED <<subject, anarchy, callbacks, placement, token, gone, run, orphans>>

\* pollSandboxRequest: while the request is in progress, or its status cannot be
\* had, poll on; after the last poll, or on a shutdown, its error leaves no trace.
\* The request of the run in execution is the last one made.
AwaitRequest ==
    /\ At("await")
    /\ LET call == Head(todo)
           handled == Handled(call, Tail(todo))
       IN  \/ /\ power.requests = <<>>
              /\ Continue(requestEnded(call, power.ended, Tail(todo), handled))
              /\ UNCHANGED used
           \/ Continue(handled) /\ Spend("fault", MaxFaults)
    /\ UNCHANGED <<subject, anarchy, callbacks, sandbox, token, gone, run, orphans>>

\* client.ReleasePlacement; sandboxCleanup asserts the uuid before it.
ReleasePlacement ==
    /\ At("release")
    /\ IF snap.uuid
       THEN Does(placement' = "absent", UNCHANGED placement)
       ELSE Continue(<<>>) /\ UNCHANGED <<placement, used>>
    /\ UNCHANGED <<subject, anarchy, callbacks, power, token, gone, run, orphans>>

\* The result reaches Anarchy, which carries out the directive.  An action that
\* is neither finished nor continued is left where it is.
Ended(a) == [acts EXCEPT ![a] = IF @ > 0 THEN @ - 1 ELSE 0]

PostResult ==
    /\ At("post")
    /\ LET directive == Head(todo).act
           finish == directive = "finish" /\ run.name \in Actions
           leave == directive = "none" /\ run.kind = "action" /\ acts[run.name] > 0
       IN  /\ acts' = IF finish \/ leave THEN Ended(run.name) ELSE acts
           /\ stuck' = IF leave THEN stuck \cup {run.name} ELSE stuck
           /\ gone' = (directive = "delete")
    /\ prev' = IF run.kind = "event" /\ run.name = "update"
               THEN [vars |-> snap.vars, asked |-> snap.asked,
                     edited |-> snap.vars # snap.prev.vars]
               ELSE prev
    /\ run' = NoRun
    /\ Continue(<<>>)
    /\ UNCHANGED <<subj, tower, events, callbacks, sandbox, token, orphans, used>>

\* The pod dies, or the result never reaches Anarchy.
Abandon ==
    /\ todo # <<>>
    /\ Continue(<<>>)
    /\ Spend("fault", MaxFaults)
    /\ UNCHANGED <<subject, anarchy, callbacks, sandbox, token, gone, run, orphans>>

HandlerStep ==
    \/ SubjectUpdate \/ ScheduleAction \/ LaunchJob \/ CancelJobs \/ PollJob
    \/ GetPlacement \/ GetBooked \/ CheckQueue \/ BookPlacement \/ PowerPlacement
    \/ AwaitRequest \/ ReleasePlacement \/ PostResult

(***************************************************************************)
(* Tower, the sandbox API and the user.                                    *)
(***************************************************************************)
runner == <<run, snap, todo>>

Callback(a, status) == [kind |-> "callback", name |-> a, status |-> status]

\* A job of an action ends, and may call back if the action still lives: it was
\* launched with the action's callback URL and token.
JobEnded(a, status, called) ==
    /\ ~gone
    /\ called => acts[a] > 0 /\ used.callback < MaxCallbacks
    /\ status # "successful" => used.failure < MaxFailures
    /\ callbacks' = IF called THEN callbacks \cup {Callback(a, status)} ELSE callbacks
    /\ UNCHANGED <<subj, prev, events, anarchy, sandbox, token, gone, runner>>

Used(status, called, stray) ==
    [used EXCEPT !.callback = IF called THEN @ + 1 ELSE @,
                 !.stray = IF called /\ stray THEN @ + 1 ELSE @,
                 !.failure = IF status = "successful" THEN @ ELSE @ + 1]

\* The recorded job.
JobEnds(a) ==
    \E status \in JobStatuses, called \in BOOLEAN :
        /\ tower[a].job = "running"
        /\ JobEnded(a, status, called)
        /\ tower' = [tower EXCEPT ![a].job = status, ![a].ended = TRUE]
        /\ used' = Used(status, called, FALSE)
        /\ UNCHANGED orphans

\* The next call of the run in execution records the job it launched.
InHand(a) == todo # <<>> /\ Head(todo).patch.job = a /\ orphans[a].ended = "none"

\* One that is not recorded: that of the run in execution, which still will be, or
\* one that never will.  The latter matters only if it calls back.
OrphanEnds(a) ==
    \E status \in JobStatuses, called \in BOOLEAN, inHand \in BOOLEAN :
        /\ orphans[a].running > IF InHand(a) /\ ~inHand THEN 1 ELSE 0
        /\ IF inHand THEN InHand(a) ELSE called
        /\ JobEnded(a, status, called)
        /\ tower' = [tower EXCEPT ![a].ended = TRUE]
        /\ orphans' = [orphans EXCEPT ![a] = [running |-> @.running - 1,
                                              ended |-> IF inHand THEN status ELSE @.ended]]
        /\ used' = Used(status, called, TRUE)

\* A placement that is not ready becomes ready or breaks.
PlacementMoves ==
    /\ ~gone
    /\ placement \in NotReady
    /\ \/ placement' = "success" /\ UNCHANGED used
       \/ placement = "queued" /\ placement' = "initializing" /\ UNCHANGED used
       \/ placement' = "error" /\ Spend("failure", MaxFailures)
    /\ UNCHANGED <<subject, anarchy, callbacks, power, token, gone, runner, orphans>>

\* The sandbox API carries out the requests of a placement in the order it took
\* them; one that fails may have had its effect.
RequestEnds ==
    /\ ~gone
    /\ power.requests # <<>>
    /\ \/ /\ power' = [on |-> Head(power.requests) = "start", ended |-> "success",
                       requests |-> Tail(power.requests)]
          /\ UNCHANGED used
       \/ /\ \E on \in {power.on, Head(power.requests) = "start"} :
                power' = [on |-> on, ended |-> "failed", requests |-> Tail(power.requests)]
          /\ Spend("failure", MaxFailures)
    /\ UNCHANGED <<subject, anarchy, callbacks, placement, token, gone, runner, orphans>>

\* The governor's secret loses the login token.
TokenVanishes ==
    /\ TokenMayVanish /\ token /\ ~gone
    /\ token' = FALSE
    /\ UNCHANGED <<subject, anarchy, callbacks, sandbox, gone, runner, orphans, used>>

\* The user changes spec.vars of a live subject.
Request(new) ==
    /\ ~gone /\ ~subj.deleting /\ subj.state # NoState
    /\ Spend("request", MaxRequests)
    /\ subj' = new
    /\ events' = events \cup {"update"}
    /\ UNCHANGED <<prev, tower, anarchy, callbacks, sandbox, token, gone, runner, orphans>>

EditJobVars == Request([subj EXCEPT !.vars.edit = @ + 1])

SetDesiredState ==
    /\ {"start", "stop"} \subseteq GovActions
    /\ \E want \in {"started", "stopped"} \ {subj.desired} :
          Request([subj EXCEPT !.desired = want])

AskStatus == "status" \in GovActions /\ Request([subj EXCEPT !.asked = @ + 1])

DeleteSubject ==
    /\ ~gone /\ ~subj.deleting
    /\ subj' = [subj EXCEPT !.deleting = TRUE]
    /\ events' = events \cup {"delete"}
    /\ UNCHANGED <<prev, tower, anarchy, callbacks, sandbox, token, gone, runner, orphans, used>>

Environment ==
    \/ \E a \in Actions : JobEnds(a) \/ OrphanEnds(a)
    \/ PlacementMoves \/ RequestEnds \/ TokenVanishes
    \/ EditJobVars \/ SetDesiredState \/ AskStatus \/ DeleteSubject

DispatchNext == \E r \in Waiting \cup {run} : DispatchRun(r)

Next == DispatchNext \/ HandlerStep \/ Abandon \/ Environment

Spec == Init /\ [][Next]_vars

EventRun(e) == [kind |-> "event", name |-> e, status |-> "none"]
ActionRun(a) == [kind |-> "action", name |-> a, status |-> "none"]

Fairness ==
    /\ WF_vars(DispatchNext)
    /\ WF_vars(HandlerStep)
    /\ \A e \in {"update", "delete"} : SF_vars(DispatchRun(EventRun(e)))
    /\ SF_vars(DispatchRun(ActionRun("destroy")))
    /\ \A a \in Actions : WF_vars(JobEnds(a))
    /\ WF_vars(RequestEnds)

FairSpec == Spec /\ Fairness

(***************************************************************************)
(* Properties.                                                             *)
(***************************************************************************)
Patches == [state : SubjectStates \cup {KeepState}, desired : {"keep", "destroyed"},
            css : FailureStatuses \cup {"keep", "pending", "running", "successful"},
            vars : {"keep", "same", "forensics"}, starts : Actions \cup {"keep"}, ends : Actions \cup {"keep"},
            job : Actions \cup {"keep"}, request : Actions \cup {"keep"},
            outcome : {"none", "successful", "error"}, uuid : BOOLEAN, skip : BOOLEAN]

Calls == [op : {"patch", "schedule", "launch", "cancel", "poll", "get", "reget", "checkQueue",
                "book", "power", "await", "release", "post"},
          act : Actions \cup {"none", "all", "finish", "continue", "delete"},
          cancel : SUBSET Actions, patch : Patches,
          onError : {"fail", "ignore", "continue", "finish", "provisionError"},
          traced : BOOLEAN]

TypeOK ==
    /\ subj.state \in SubjectStates
    /\ subj.desired \in {"started", "stopped", "destroyed"}
    /\ subj.css \in JobStatuses \cup {"none", "pending", "running"}
    /\ subj.vars \in [edit : 0..MaxRequests, forensics : BOOLEAN]
    /\ tower \in [Actions -> [job : JobStatuses \cup {"none", "running"}, complete : BOOLEAN,
                            started : BOOLEAN, request : {"none", "successful", "error"},
                            ended : BOOLEAN]]
    /\ acts \in [Actions -> 0..MaxQueued]
    /\ stuck \subseteq Actions
    /\ events \subseteq {"create", "update", "delete"}
    /\ placement \in PlacementStatuses
    /\ power.on \in BOOLEAN
    /\ \A i \in DOMAIN power.requests : power.requests[i] \in {"start", "stop"}
    /\ run = NoRun => todo = <<>>
    /\ snap.vars \in [edit : 0..MaxRequests, forensics : BOOLEAN]
    /\ \A i \in DOMAIN todo : todo[i] \in Calls

\* A deleted subject leaves no placement behind: whatever fails or is repeated,
\* and wherever a pod dies, the directive to delete is posted after a release
\* that was carried out (handleDestroyComplete, handleDestroyCatchAll,
\* handleEventDeleteWithoutDestroy).
NoPlacementLeak == gone => placement = "absent"

\* A subject for which a provision job was recorded is not deleted before a
\* destroy job for it came to an end, as long as the governor has a destroy action.
DestroyedFirst ==
    gone /\ "destroy" \in GovActions \ Disabled /\ tower["provision"].job # "none"
    => tower["destroy"].ended

\* The placement of what was provisioned is not taken away before a destroy job came
\* to an end, nor under one that runs.  For the latter it takes more than one callback
\* of a recorded job: the second of two may find that the first moved the subject and
\* had destroy launched again, and so may the one of a destroy job that was not
\* recorded, because another was launched in its place (handleCallback looks at
\* neither the state nor the job).
ReleasedLast ==
    [][placement # "absent" /\ placement' = "absent" =>
         /\ "destroy" \in GovActions \ Disabled /\ tower["provision"].job # "none"
            => tower["destroy"].ended
         /\ used.callback < 2 /\ used.stray = 0 => tower["destroy"].job # "running"]_vars

\* A job is launched, not only recorded over one that runs.
Launches(a) == orphans'[a].running > orphans[a].running /\ UNCHANGED tower

\* No second Tower job of an action is launched while its recorded job runs, also
\* when the run that launched it is dispatched again.  Left out are a callback, which
\* may come too late and move the state of the subject under a job that runs, and a
\* start or stop that failed, turned round and was dispatched once more because its
\* result was lost: it launches its own job again beside the action it turned round to
\* (retryOrPivot).
OneJobPerAction ==
    [][used.callback = 0 =>
         \A a \in Actions :
            Launches(a) /\ (a \in {"start", "stop"} => used.fault = 0 \/ used.failure = 0)
            => tower[a].job # "running"]_vars

\* A provision job is launched on a placement that is there and ready.
LaunchNeedsPlacement ==
    [][Launches("provision") => placement = "success"]_vars

\* A patch the runner sends never takes back an edit the user made of job_vars.
EditsSurvive ==
    [][subj'.vars.edit # subj.vars.edit => UNCHANGED <<run, todo>>]_vars

\* Provision, destroy and their placement together keep the promise of SubjectLife.
Life == INSTANCE SubjectLife WITH
    life <- IF gone THEN "gone" ELSE IF subj.deleting THEN "deleting" ELSE "live",
    held <- placement # "absent",
    provisioned <- tower["provision"].job # "none",
    destroying <- tower["destroy"].job = "running" \/ orphans["destroy"].running > 0,
    destroyed <- tower["destroy"].ended

ImplementsSubjectLife == Life!Spec

\* Anarchy has nothing left to dispatch.
Quiescent ==
    /\ run = NoRun /\ ~gone
    /\ events = {} /\ callbacks = {}
    /\ \A a \in Actions : acts[a] = 0

\* A deletion is acted upon, and so is a change of desired_state however it interleaves
\* with the actions in progress: the system does not come to rest in the state the user
\* left.  What swallows a start or stop is a change of job_vars that the last update
\* event found beside it: determineUpdateAction then returns "update" and looks no
\* further, also under a governor without that action.
NoLostWakeup ==
    Quiescent => /\ ~subj.deleting
                 /\ \/ prev.edited
                    \/ /\ ~(subj.state = Started /\ subj.desired = "stopped" /\ "stop" \in GovActions)
                       /\ ~(subj.state = Stopped /\ subj.desired = "started" /\ "start" \in GovActions)

\* A pending or running state or status check has an action that will see to it.
PendingIsScheduled ==
    Quiescent => /\ \A a \in Actions : subj.state \notin {Pending(a), Running(a)}
                 /\ subj.css \notin {"pending", "running"}

\* The same while no call has failed.
PendingIsScheduledUnfailed == used.fault = 0 => PendingIsScheduled

\* While no call has failed, a live subject has no action whose handler returned
\* without a directive, which Anarchy would neither finish nor dispatch again.
NoStuck == used.fault = 0 /\ stuck # {} => subj.deleting

OnlyRequests(a) == \A i \in DOMAIN power.requests : power.requests[i] = a

\* With the deployer disabled the subject is started or stopped only when its
\* placement is, and no request that the sandbox API has still to carry out will
\* change that behind its back (completeStartNoDeployer, completeStopNoDeployer).
PowerFollowsState ==
    /\ subj.state = Stopped => ~power.on /\ OnlyRequests("stop")
    /\ subj.state = Started => power.on /\ OnlyRequests("start")

\* While no call has failed, a start or stop that the sandbox API could not carry
\* out, and that leaves the subject where it was, has left its trace in the subject
\* (pollSandboxRequest, recordSandboxActionFailure).
FailureLeavesTrace ==
    used.fault = 0 /\ Quiescent
    => \A a \in {"start", "stop"} : subj.state = Pending(a) => tower[a].request = "error"

\* A subject the user deletes is deleted in the end, although calls fail, the pod
\* dies, jobs fail and callbacks of its other actions come in.
DeletionCompletes == subj.deleting ~> gone
=============================================================================
