------------------------ MODULE LifecyclePower_proofs ------------------------
(***************************************************************************)
(* What Lifecycle says of starting and stopping without a deployer, for    *)
(* every such governor, every number of faults, of requests and of queued  *)
(* actions: the subject is started or stopped only when its placement is,  *)
(* and a request that was not carried out leaves its trace.                *)
(*                                                                         *)
(* Without a deployer a start or stop is a short program of calls, and     *)
(* Powering lists the places in it where a run may be, with what is then   *)
(* known of the placement.  All other handlers leave the placement on or   *)
(* off, and move the subject's state only while it is being provisioned    *)
(* (Provisioning), when a start or stop is due (Turning), or not at all    *)
(* (Mild).  Steady says which actions may be alive in which state: a stop  *)
(* is canceled before the subject may be started, and the other way round. *)
(***************************************************************************)
EXTENDS Lifecycle_proofs

PowerActions == {"start", "stop"}

\* The governors that start and stop the placement and have no deployer for it.
NoDeployer ==
    /\ SandboxInUse
    /\ PowerActions \cup {"provision"} \subseteq Disabled
    /\ PowerActions \subseteq PowerEnabled
    /\ "update" \notin GovActions

\* The states of a subject that is not provisioned.
Unprovisioned == {NoState, Queued, Pending("provision"), Failure("provision", "error")}

\* The state an action leads to.
Target(a) == IF a = "start" THEN Started ELSE Stopped

(***************************************************************************)
(* The calls that are left.                                                *)
(***************************************************************************)
\* Calls that have nothing to do with provisioning, starting and stopping.
Mild ==
    {c \in Calls :
        /\ c.op \in {"patch", "schedule", "launch", "cancel", "poll", "get", "release", "post"}
        /\ c.op = "schedule" => c.act \in {"provision", "status"} /\ c.cancel = {}
        /\ c.op \in {"launch", "poll", "get"} => c.act = "status"
        /\ c.patch.state \in {KeepState, DestroyComplete}
        /\ c.patch.job \in {"keep", "status"}
        /\ c.patch.request = "keep"
        /\ c.onError \in {"fail", "ignore", "continue"}
        /\ ~c.traced}

\* Calls that provision, but for the last.
Provisions ==
    {c \in Calls :
        /\ c.op \in {"patch", "schedule", "get", "book", "reget", "checkQueue", "post"}
        /\ c.op = "schedule" => c.act = "provision" /\ c.cancel = {}
        /\ c.op = "get" => c.act = "provision"
        /\ c.patch.state \in Unprovisioned \cup {KeepState}
        /\ c.patch.job = "keep"
        /\ c.patch.request = "keep"
        /\ c.onError \in {"fail", "provisionError"}
        /\ ~c.traced}

\* The rest of a handler that provisions: once the subject is started, it is done.
Provisional(s) ==
    \/ s \in Seq(Provisions)
    \/ \E t \in Seq(Provisions) : s = t \o completeProvisionNoDeployer

Provisioning(s) ==
    \/ subj.state \in Unprovisioned /\ Provisional(s)
    \/ subj.state = Started /\ s = completeProvisionNoDeployer

\* The calls of scheduleUpdateAction.
turns(a) == SkipPatch([NoPatch EXCEPT !.state = Pending(a)])
schedules(a) == Schedule(a, PowerActions)

\* The rest of a handler that turns the subject on or off.
Turning(a, s) ==
    \/ /\ subj.state \in {Started, Stopped, Pending(a)}
       /\ \E m \in Seq(Mild) : s = <<turns(a), schedules(a)>> \o m
    \/ /\ subj.state = Pending(a)
       /\ \E m \in Seq(Mild) : s = <<schedules(a)>> \o m

\* The last request was this one, or it has ended and had its effect if it was
\* successful.
Asked(a) ==
    IF power.requests = <<>> THEN power.ended = "success" => power.on = (a = "start")
    ELSE power.requests[Len(power.requests)] = a

\* The placement is what it was asked to be.
Done(a) == power.requests = <<>> /\ power.on = (a = "start")

\* The calls of a start or stop.
stamps(a) == SkipPatch([NoPatch EXCEPT !.starts = a])
powers(a) == Traced(Call("power", a, "finish"), a)
notes(a) == Traced([SkipPatch(NoPatch) EXCEPT !.onError = "finish"], a)
awaits(a) == Call("await", a, "finish")
succeeds(a) == [SkipPatch([NoPatch EXCEPT !.request = a, !.outcome = "successful"]) EXCEPT !.onError = "finish"]
fails(a) == [SkipPatch([NoPatch EXCEPT !.request = a, !.outcome = "error"]) EXCEPT !.onError = "ignore"]
completes(a) == SkipPatch([NoPatch EXCEPT !.state = Target(a)])
finishes == Call("post", "finish", "fail")

\* Where the handler of a start or stop may be.
Powering(a, s) ==
    \/ s \in {<<stamps(a), powers(a), completes(a), finishes>>, <<powers(a), completes(a), finishes>>,
              <<fails(a), finishes>>, <<finishes>>, <<>>}
    \/ /\ Asked(a)
       /\ s \in {<<notes(a), awaits(a), completes(a), finishes>>, <<awaits(a), completes(a), finishes>>}
    \/ /\ Done(a)
       /\ s \in {<<notes(a), completes(a), finishes>>, <<succeeds(a), completes(a), finishes>>,
                 <<completes(a), finishes>>}

(***************************************************************************)
(* The inductive invariant.                                                *)
(***************************************************************************)
PowerRuns == {ActionRun(a) : a \in PowerActions}

\* What the handlers of the runs may have left.
TodoFits ==
    IF run \in PowerRuns
    THEN acts[run.name] > 0 /\ Powering(run.name, todo)
    ELSE \/ todo \in Seq(Mild)
         \/ Provisioning(todo)
         \/ \E a \in PowerActions : Turning(a, todo)

\* No jobs are launched but those of status.
Jobless ==
    /\ \A a \in Actions \ {"status"} : tower[a].job = "none"
    /\ acts["destroy"] = 0 /\ acts["update"] = 0
    /\ \A c \in callbacks \cup {run} : c.kind = "callback" => c.name = "status"
    /\ run.kind = "action" => run.name \notin {"destroy", "update"}

\* A job that runs without a record is one of a status check.
Orphanless == \A a \in Actions \ {"status"} : orphans[a].running = 0

\* Which actions may be alive in which state, and what the placement is.
Steady ==
    /\ subj.state \in Unprovisioned \cup {Started, Stopped, Pending("start"), Pending("stop"), DestroyComplete}
    /\ acts["start"] = 0 \/ acts["stop"] = 0
    /\ subj.state \in Unprovisioned =>
          power.on /\ power.requests = <<>> /\ acts["start"] = 0 /\ acts["stop"] = 0
    /\ subj.state = Started => power.on /\ OnlyRequests("start") /\ acts["stop"] = 0
    /\ subj.state = Stopped => ~power.on /\ OnlyRequests("stop") /\ acts["start"] = 0

PInv == Jobless /\ Steady /\ TodoFits

\* The subject is not where it waits for the action, or a failure was recorded.
Left(a) == subj.state # Pending(a) \/ tower[a].request = "error"

\* A token that does not vanish is in every payload.
Tokens == token /\ (todo # <<>> => snap.token)

\* A pending start or stop has its action, or its trace.
Tracks ==
    \A a \in PowerActions :
       /\ Left(a) \/ acts[a] > 0 \/ (todo # <<>> /\ Head(todo) = schedules(a))
       /\ run = ActionRun(a) /\ todo = <<finishes>> => Left(a)

\* It has while no call failed.
TInv == Tokens /\ (used.fault = 0 => Tracks)

(***************************************************************************)
(* What the handlers are made of.                                          *)
(***************************************************************************)
\* Calls of Mild.
LEMMA MildCall ==
    ASSUME NEW op \in {"launch", "cancel", "poll", "get", "release", "post"},
           NEW a \in Actions \cup {"none", "all", "finish", "continue", "delete"},
           NEW f \in {"fail", "ignore", "continue"},
           op \in {"launch", "poll", "get"} => a = "status"
    PROVE  Call(op, a, f) \in Mild /\ <<Call(op, a, f)>> \in Seq(Mild)
<1>1. Call(op, a, f) \in Mild
  BY CallIs, NoPatchIs DEF Mild, Ops, OnErrors
<1> QED BY <1>1, Singleton

\* Patches of Mild.
LEMMA MildPatch ==
    ASSUME NEW p \in Patches, p.state \in {KeepState, DestroyComplete}, p.job \in {"keep", "status"},
           p.request = "keep", NEW f \in {"fail", "ignore", "continue"}
    PROVE  /\ <<Patch(p)>> \in Seq(Mild) /\ <<[Patch(p) EXCEPT !.onError = f]>> \in Seq(Mild)
           /\ <<SkipPatch(p)>> \in Seq(Mild) /\ <<[SkipPatch(p) EXCEPT !.onError = f]>> \in Seq(Mild)
<1>1. ASSUME NEW q \in Patches, q.state \in {KeepState, DestroyComplete}, q.job \in {"keep", "status"},
             q.request = "keep"
      PROVE  /\ Patch(q) \in Mild /\ <<Patch(q)>> \in Seq(Mild)
             /\ [Patch(q) EXCEPT !.onError = f] \in Mild
             /\ <<[Patch(q) EXCEPT !.onError = f]>> \in Seq(Mild)
  <2> DEFINE c == Patch(q)
             d == [c EXCEPT !.onError = f]
  <2>1. c \in Calls /\ c.op = "patch" /\ c.patch = q /\ c.onError = "fail" /\ ~c.traced
    BY <1>1, PatchIs
  <2> HIDE DEF c
  <2>2. c \in Mild /\ d \in Mild
    BY <1>1, <2>1 DEF Mild, Calls
  <2> QED BY <2>2, Singleton DEF c, d
<1>2. LET q == [p EXCEPT !.skip = TRUE]
      IN  q \in Patches /\ q.state = p.state /\ q.job = p.job /\ q.request = p.request
  BY SkipIs
<1> QED BY <1>1, <1>2 DEF SkipPatch

\* Results.
LEMMA MildPost ==
    ASSUME NEW x \in {"none", "finish", "continue", "delete"}
    PROVE  Post(x) \in Seq(Mild) /\ (x # "delete" => Post(x) \in Seq(Provisions))
<1>1. Call("post", x, "fail") \in Mild
  BY MildCall
<1>2. Call("post", x, "fail") \in Provisions
  <2>1. /\ Call("post", x, "fail") \in Calls /\ Call("post", x, "fail").op = "post"
        /\ Call("post", x, "fail").patch = NoPatch /\ Call("post", x, "fail").onError = "fail"
        /\ ~Call("post", x, "fail").traced
    BY CallIs DEF Ops, OnErrors
  <2> QED BY <2>1, NoPatchIs DEF Provisions
<1> QED BY <1>1, <1>2, Singleton DEF Post

\* A status check without its job, and with it, and what becomes of the job.
LEMMA StatusIsMild ==
    ASSUME NEW s
    PROVE  /\ handleStatus(s) \in Seq(Mild)
           /\ scheduleStatusCheck \in Seq(Mild)
           /\ \A st \in JobStatuses : handleCallback("status", st, s) \in Seq(Mild)
<1>1. /\ [NoPatch EXCEPT !.css = "pending"] \in Patches
      /\ \A st \in FailureStatuses : [NoPatch EXCEPT !.ends = "status", !.css = st] \in Patches
      /\ [NoPatch EXCEPT !.ends = "status", !.css = "successful"] \in Patches
      /\ [NoPatch EXCEPT !.css = "successful"] \in Patches
      /\ [NoPatch EXCEPT !.starts = "status"] \in Patches
      /\ [NoPatch EXCEPT !.job = "status", !.css = "running"] \in Patches
  BY DEF NoPatch, Patches, Actions
<1>3. statusSuccessful(NoPatch) \in Seq(Mild) /\ handleStatusComplete \in Seq(Mild)
  <2>1. /\ <<SkipPatch([NoPatch EXCEPT !.css = "successful"])>> \in Seq(Mild)
        /\ <<SkipPatch([NoPatch EXCEPT !.ends = "status", !.css = "successful"])>> \in Seq(Mild)
    BY <1>1, MildPatch DEF NoPatch
  <2> QED BY <2>1, MildPost, Concat DEF statusSuccessful, handleStatusComplete
<1>4. ASSUME NEW st \in JobStatuses PROVE handleCallback("status", st, s) \in Seq(Mild)
  <2>1. st # "successful" => handleStatusFailure(st) \in Seq(Mild)
    <3>1. st # "successful" => <<SkipPatch([NoPatch EXCEPT !.ends = "status", !.css = st])>> \in Seq(Mild)
      BY <1>1, MildPatch DEF NoPatch, JobStatuses
    <3> QED BY <3>1, MildPost, Concat DEF handleStatusFailure
  <2> QED BY <1>3, <2>1 DEF handleCallback, handleDeployerJobSuccess, handleDeployerJobFailure
<1>5. scheduleStatusCheck \in Seq(Mild)
  <2>1. <<SkipPatch([NoPatch EXCEPT !.css = "pending"])>> \in Seq(Mild)
    BY <1>1, MildPatch DEF NoPatch
  <2>2. Schedule("status", {}) \in Mild
    BY NoPatchIs DEF Schedule, Call, Mild, Calls, Actions
  <2>3. scheduleStatusCheck = <<SkipPatch([NoPatch EXCEPT !.css = "pending"])>> \o <<Schedule("status", {})>>
    BY DEF scheduleStatusCheck
  <2> QED BY <2>1, <2>2, <2>3, Singleton, Concat
<1>6. launchAndPoll("status", s) \in Seq(Mild)
  <2>1. sandboxGet("status", s) \in Seq(Mild)
    BY MildCall DEF sandboxGet, Actions
  <2>2. launchTowerJob("status", "fail") \in Seq(Mild)
    <3> DEFINE p == [NoPatch EXCEPT !.job = "status", !.css = "running"]
    <3>1. p = [NoPatch EXCEPT !.job = "status", !.state = NoPatch.state, !.css = "running"]
      BY DEF NoPatch
    <3>2. <<[Patch(p) EXCEPT !.onError = "fail"]>> \in Seq(Mild)
      BY <1>1, MildPatch DEF NoPatch
    <3>3. <<Call("launch", "status", "fail")>> \in Seq(Mild)
      BY MildCall DEF Actions
    <3>4. launchTowerJob("status", "fail")
             = <<Call("launch", "status", "fail")>> \o <<[Patch(p) EXCEPT !.onError = "fail"]>>
      <4> HIDE DEF p
      <4> QED BY <3>1 DEF launchTowerJob
    <3> QED BY <3>2, <3>3, <3>4, Concat
  <2> QED BY <2>1, <2>2, MildPost, Concat DEF launchAndPoll
<1>7. handleStatus(s) \in Seq(Mild)
  <2>1. Stamp("status") \in Seq(Mild)
    BY <1>1, MildPatch DEF Stamp, NoPatch
  <2>2. checkDeployerJob("status") \in Seq(Mild)
    BY MildCall DEF checkDeployerJob, Actions
  <2> QED BY <1>3, <1>6, <2>1, <2>2, MildPost, Concat DEF handleStatus, runStatus
<1> QED BY <1>4, <1>5, <1>7

\* Calls of Provisions.
LEMMA ProvisionCall ==
    ASSUME NEW op \in {"get", "book", "reget", "checkQueue"}
    PROVE  <<Call(op, "provision", "provisionError")>> \in Seq(Provisions)
<1> DEFINE c == Call(op, "provision", "provisionError")
<1>1. /\ c \in Calls /\ c.op = op /\ c.act = "provision" /\ c.onError = "provisionError"
      /\ c.patch = NoPatch /\ ~c.traced
  <2>1. op \in Ops /\ "provision" \in Actions /\ "provisionError" \in OnErrors
    BY DEF Ops, OnErrors, Actions
  <2> QED BY <2>1, CallIs
<1> HIDE DEF c
<1>2. c \in Provisions
  BY <1>1, NoPatchIs DEF Provisions
<1> QED BY <1>2, Singleton DEF c

\* Patches of Provisions.
LEMMA ProvisionPatch ==
    ASSUME NEW p \in Patches, p.state \in Unprovisioned \cup {KeepState}, p.job = "keep",
           p.request = "keep"
    PROVE  /\ <<Patch(p)>> \in Seq(Provisions)
           /\ <<SkipPatch(p)>> \in Seq(Provisions)
           /\ <<[SkipPatch(p) EXCEPT !.onError = "provisionError"]>> \in Seq(Provisions)
<1>1. ASSUME NEW q \in Patches, q.state \in Unprovisioned \cup {KeepState}, q.job = "keep",
             q.request = "keep"
      PROVE  /\ <<Patch(q)>> \in Seq(Provisions)
             /\ <<[Patch(q) EXCEPT !.onError = "provisionError"]>> \in Seq(Provisions)
  <2> DEFINE c == Patch(q)
             d == [c EXCEPT !.onError = "provisionError"]
  <2>1. c \in Calls /\ c.op = "patch" /\ c.patch = q /\ c.onError = "fail" /\ ~c.traced
    BY <1>1, PatchIs
  <2> HIDE DEF c
  <2>2. c \in Provisions /\ d \in Provisions
    BY <1>1, <2>1 DEF Provisions, Calls
  <2> QED BY <2>2, Singleton DEF c, d
<1>2. LET q == [p EXCEPT !.skip = TRUE]
      IN  q \in Patches /\ q.state = p.state /\ q.job = p.job /\ q.request = p.request
  BY SkipIs
<1> QED BY <1>1, <1>2 DEF SkipPatch

\* The sequences provision is made of.
LEMMA ProvisionParts ==
    /\ handleProvisionError \in Seq(Provisions)
    /\ transitionToQueued \in Seq(Provisions)
    /\ updateSubjectSandboxVars("provisionError") \in Seq(Provisions)
    /\ <<SkipPatch(NoPatch)>> \in Seq(Provisions)
    /\ <<Patch([NoPatch EXCEPT !.starts = "provision"])>> \in Seq(Provisions)
    /\ <<SkipPatch([NoPatch EXCEPT !.state = Pending("provision"), !.vars = "same"])>> \in Seq(Provisions)
    /\ <<SkipPatch([NoPatch EXCEPT !.state = Pending("provision"), !.uuid = TRUE])>> \in Seq(Provisions)
<1>1. /\ Failure("provision", "error") \in SubjectStates /\ Pending("provision") \in SubjectStates
      /\ Queued \in SubjectStates
      /\ {Failure("provision", "error"), Pending("provision"), Queued} \subseteq Unprovisioned
  BY States DEF Actions, FailureStatuses, Unprovisioned
<1>2. <<Patch(Ends("provision", Failure("provision", "error")))>> \in Seq(Provisions)
  <2> DEFINE p == Ends("provision", Failure("provision", "error"))
  <2>1. p \in Patches /\ p.state = Failure("provision", "error") /\ p.job = "keep" /\ p.request = "keep"
    BY <1>1 DEF Ends, NoPatch, Patches, Actions
  <2> HIDE DEF p
  <2> QED BY <1>1, <2>1, ProvisionPatch DEF p
<1>3. <<SkipPatch([NoPatch EXCEPT !.state = Queued])>> \in Seq(Provisions)
  <2> DEFINE p == [NoPatch EXCEPT !.state = Queued]
  <2>1. p \in Patches /\ p.state = Queued /\ p.job = "keep" /\ p.request = "keep"
    BY <1>1 DEF NoPatch, Patches
  <2> HIDE DEF p
  <2> QED BY <1>1, <2>1, ProvisionPatch DEF p
<1>4. updateSubjectSandboxVars("provisionError") \in Seq(Provisions)
  <2> DEFINE p == [NoPatch EXCEPT !.vars = "same"]
  <2>1. p \in Patches /\ p.state = KeepState /\ p.job = "keep" /\ p.request = "keep"
    BY DEF NoPatch, Patches
  <2> HIDE DEF p
  <2> QED BY <2>1, ProvisionPatch DEF p, updateSubjectSandboxVars
<1>5. <<Patch([NoPatch EXCEPT !.starts = "provision"])>> \in Seq(Provisions)
  <2> DEFINE p == [NoPatch EXCEPT !.starts = "provision"]
  <2>1. p \in Patches /\ p.state = KeepState /\ p.job = "keep" /\ p.request = "keep"
    BY DEF NoPatch, Patches, Actions
  <2> HIDE DEF p
  <2> QED BY <2>1, ProvisionPatch DEF p
<1>6. ASSUME NEW p \in {[NoPatch EXCEPT !.state = Pending("provision"), !.vars = "same"],
                        [NoPatch EXCEPT !.state = Pending("provision"), !.uuid = TRUE]}
      PROVE  <<SkipPatch(p)>> \in Seq(Provisions)
  <2>1. p \in Patches /\ p.state = Pending("provision") /\ p.job = "keep" /\ p.request = "keep"
    BY <1>1 DEF NoPatch, Patches
  <2> QED BY <1>1, <2>1, ProvisionPatch
<1>7. <<SkipPatch(NoPatch)>> \in Seq(Provisions)
  BY NoPatchIs, ProvisionPatch
<1>8. handleProvisionError \in Seq(Provisions) /\ transitionToQueued \in Seq(Provisions)
  BY <1>2, <1>3, MildPost, Concat DEF handleProvisionError, transitionToQueued
<1> QED BY <1>4, <1>5, <1>6, <1>7, <1>8

\* The last two calls of a provision.
starts == Patch([NoPatch EXCEPT !.state = Started])

\* The completion of a provision without a deployer, and its calls.
LEMMA CompletesIs ==
    /\ completeProvisionNoDeployer = <<starts, finishes>>
    /\ starts \in Calls /\ starts.op = "patch" /\ starts.patch.state = Started
    /\ starts.patch.job = "keep" /\ starts.patch.request = "keep" /\ starts.onError = "fail"
    /\ ~starts.traced
    /\ finishes \in Calls /\ finishes.op = "post" /\ finishes.act = "finish" /\ <<finishes>> \in Seq(Mild)
<1> DEFINE p == [NoPatch EXCEPT !.state = Started]
<1>1. p \in Patches /\ p.state = Started /\ p.job = "keep" /\ p.request = "keep"
  BY States DEF NoPatch, Patches
<1> HIDE DEF p
<1>2. /\ Patch(p) \in Calls /\ Patch(p).op = "patch" /\ Patch(p).patch = p
      /\ Patch(p).onError = "fail" /\ ~Patch(p).traced
  BY <1>1, PatchIs
<1>3. starts = Patch(p) /\ completeProvisionNoDeployer = <<starts, finishes>>
  <2>1. starts = Patch(p)
    BY DEF p, starts
  <2>2. completeProvisionNoDeployer = <<starts>> \o <<finishes>>
    BY DEF completeProvisionNoDeployer, Post, starts, finishes
  <2> QED BY <2>1, <2>2, Tuple2
<1>4. <<finishes>> \in Seq(Mild)
  BY MildPost DEF Post, finishes
<1>5. finishes \in Calls /\ finishes.op = "post" /\ finishes.act = "finish"
  BY CallIs DEF finishes, Ops, OnErrors
<1> QED BY <1>1, <1>2, <1>3, <1>4, <1>5

\* Lists of calls, joined.
LEMMA CallsAssociate ==
    \A a, b, u \in Seq(Calls) : (a \o b) \o u = a \o (b \o u)
BY ConcatAssociative

\* After calls that provision.
LEMMA ProvisionalConcat ==
    ASSUME NEW t \in Seq(Provisions), NEW s, Provisional(s) PROVE Provisional(t \o s)
<1>1. CASE s \in Seq(Provisions)
  BY <1>1, Concat DEF Provisional
<1>2. ASSUME NEW x \in Seq(Provisions), s = x \o completeProvisionNoDeployer
      PROVE  Provisional(t \o s)
  <2>1. completeProvisionNoDeployer \in Seq(Calls) /\ t \in Seq(Calls) /\ x \in Seq(Calls)
    <3>1. Provisions \subseteq Calls
      BY DEF Provisions
    <3> QED BY <3>1, CompletesIs
  <2>2. t \o s = (t \o x) \o completeProvisionNoDeployer
    <3>1. \A u \in Seq(Calls) : (t \o x) \o u = t \o (x \o u)
      BY <2>1, CallsAssociate
    <3> QED BY <1>2, <2>1, <3>1
  <2>3. t \o x \in Seq(Provisions)
    BY Concat
  <2> QED BY <2>2, <2>3 DEF Provisional
<1> QED BY <1>1, <1>2 DEF Provisional

\* The first call of them.
LEMMA ProvisionalHead ==
    ASSUME NEW s, Provisional(s), s # <<>>
    PROVE  \/ s \in Seq(Calls) /\ Head(s) \in Provisions /\ Provisional(Tail(s))
           \/ s = completeProvisionNoDeployer
<1>1. Provisions \subseteq Calls
  BY DEF Provisions
<1>2. CASE s \in Seq(Provisions)
  BY <1>1, <1>2 DEF Provisional
<1>3. ASSUME NEW t \in Seq(Provisions), t # <<>>, s = t \o completeProvisionNoDeployer
      PROVE  s \in Seq(Calls) /\ Head(s) \in Provisions /\ Provisional(Tail(s))
  <2> DEFINE f == completeProvisionNoDeployer
  <2>1. f \in Seq(Calls) /\ t \in Seq(Calls)
    BY <1>1, CompletesIs
  <2> HIDE DEF f
  <2>2. Head(t \o f) = Head(t) /\ Tail(t \o f) = Tail(t) \o f
    BY <1>3, <2>1
  <2>3. t \o f \in Seq(Calls) /\ Head(t) \in Provisions /\ Tail(t) \in Seq(Provisions)
    BY <1>3, <2>1
  <2> QED BY <1>3, <2>2, <2>3 DEF f, Provisional
<1>4. CASE s = <<>> \o completeProvisionNoDeployer
  BY <1>4, CompletesIs
<1> QED BY <1>2, <1>3, <1>4 DEF Provisional

\* The handlers of provision.
LEMMA ProvisionHandlers ==
    ASSUME NoDeployer, NEW s
    PROVE  /\ Provisional(runProvision(s)) /\ Provisional(checkProvisionQueue(s))
           /\ \A st \in PlacementStatuses : Provisional(queueChecked(st, s))
           /\ Provisional(handleEventCreate(s))
<1>1. \A t \in Seq(Provisions) : Provisional(t)
  BY DEF Provisional
<1>2. Provisional(launchProvision)
  <2>1. launchProvision = completeProvisionNoDeployer
    BY DEF launchProvision, NoDeployer
  <2>2. completeProvisionNoDeployer = <<>> \o completeProvisionNoDeployer
    BY CompletesIs
  <2>3. <<>> \in Seq(Provisions)
    OBVIOUS
  <2> QED BY <2>1, <2>2, <2>3 DEF Provisional
<1>3. <<Call("get", "provision", "provisionError")>> \in Seq(Provisions)
  BY ProvisionCall
<1>4. Provisional(runProvision(s))
  <2> DEFINE first == IF "provision" \in s.started THEN <<>>
                      ELSE <<Patch([NoPatch EXCEPT !.starts = "provision"])>>
             last == IF SandboxInUse /\ s.uuid /\ s.token
                     THEN <<Call("get", "provision", "provisionError")>> \o launchProvision
                     ELSE handleProvisionError
  <2>1. first \in Seq(Provisions)
    BY ProvisionParts
  <2>2. Provisional(last)
    BY <1>1, <1>2, <1>3, ProvisionParts, ProvisionalConcat
  <2>3. runProvision(s) = first \o last
    BY DEF runProvision, NoDeployer
  <2> HIDE DEF first, last
  <2> QED BY <2>1, <2>2, <2>3, ProvisionalConcat
<1>5. Provisional(checkProvisionQueue(s))
  BY <1>1, ProvisionCall, ProvisionParts DEF checkProvisionQueue
<1>6. ASSUME NEW st \in PlacementStatuses PROVE Provisional(queueChecked(st, s))
  <2>1. <<SkipPatch(NoPatch)>> \o Post("continue") \in Seq(Provisions)
    BY ProvisionParts, MildPost, Concat
  <2>2. Provisional(<<SkipPatch([NoPatch EXCEPT !.state = Pending("provision"), !.vars = "same"])>>
                       \o runProvision(s))
    BY <1>4, ProvisionParts, ProvisionalConcat
  <2> QED BY <1>1, <2>1, <2>2, ProvisionParts DEF queueChecked, PlacementStatuses, NotReady
<1>7. handleEventCreate(s) \in Seq(Provisions)
  <2> DEFINE first == IF s.state = NoState
                      THEN <<SkipPatch([NoPatch EXCEPT !.state = Pending("provision"), !.uuid = TRUE])>>
                      ELSE <<>>
  <2>1. first \in Seq(Provisions)
    BY ProvisionParts
  <2>2. <<Schedule("provision", {})>> \in Seq(Provisions)
    <3>1. Schedule("provision", {}) \in Provisions
      BY NoPatchIs DEF Schedule, Call, Provisions, Calls, Actions
    <3> QED BY <3>1, Singleton
  <2>3. handleEventCreate(s) = first \o <<Schedule("provision", {})>> \o Post("none")
    BY DEF handleEventCreate
  <2> HIDE DEF first
  <2> QED BY <2>1, <2>2, <2>3, MildPost, Concat
<1> QED BY <1>1, <1>4, <1>5, <1>6, <1>7

\* What they make of an answer of the sandbox API.
LEMMA ProvisionAnswers ==
    ASSUME NEW rest, Provisional(rest), NEW st \in PlacementStatuses \cup {"invalid", "refused"}
    PROVE  /\ st \in PlacementStatuses => Provisional(placedOrNot(st, rest))
           /\ st \in PlacementStatuses => Provisional(bookedAgain(st, rest))
           /\ st # "absent" => Provisional(booked(st, rest))
<1>1. \A t \in Seq(Provisions) : Provisional(t) /\ Provisional(t \o rest)
  BY ProvisionalConcat DEF Provisional
<1>2. /\ <<Call("book", "provision", "provisionError")>> \in Seq(Provisions)
      /\ <<Call("reget", "provision", "provisionError")>> \in Seq(Provisions)
  BY ProvisionCall
<1>3. st \in PlacementStatuses => Provisional(placedOrNot(st, rest))
  BY <1>1, <1>2, ProvisionParts DEF placedOrNot, PlacementStatuses, NotReady
<1>4. st # "absent" => Provisional(booked(st, rest))
  BY <1>1, <1>2, ProvisionParts, MildPost DEF booked, PlacementStatuses, NotReady
<1> QED BY <1>3, <1>4 DEF bookedAgain

(***************************************************************************)
(* One call: made, failed or repeated.                                     *)
(***************************************************************************)
\* The calls of Mild keep to themselves.
LEMMA MildMoves ==
    ASSUME todo \in Seq(Mild), todo # <<>>
    PROVE  /\ Head(todo) \in Mild /\ Head(todo) \in Calls
           /\ Tail(todo) \in Seq(Mild) /\ Repeated \in Seq(Mild)
           /\ Recovery(Head(todo), Tail(todo)) \in Seq(Mild)
<1> DEFINE c == Head(todo)
           d == [todo[1] EXCEPT !.patch.job = "keep"]
           h == Handled(Head(todo), Tail(todo))
<1>1. c \in Mild /\ todo[1] \in Mild /\ Tail(todo) \in Seq(Mild) /\ c \in Calls
  BY DEF Mild
<1>2. Repeated \in Seq(Mild)
  <2>1. d \in Mild
    <3>1. ASSUME NEW f \in Calls
          PROVE  [f EXCEPT !.patch.job = "keep"] \in Calls
      <4>1. [f.patch EXCEPT !.job = "keep"] \in Patches
        BY DEF Calls, Patches
      <4>2. [f EXCEPT !.patch.job = "keep"] = [f EXCEPT !.patch = [f.patch EXCEPT !.job = "keep"]]
        OBVIOUS
      <4> QED BY <4>1, <4>2 DEF Calls
    <3>2. ASSUME NEW f \in Calls
          PROVE  LET e == [f EXCEPT !.patch.job = "keep"]
                 IN  /\ e.op = f.op /\ e.act = f.act /\ e.cancel = f.cancel
                     /\ e.onError = f.onError /\ e.traced = f.traced
                     /\ e.patch.state = f.patch.state /\ e.patch.job = "keep"
                     /\ e.patch.request = f.patch.request
      BY DEF Calls, Patches
    <3>3. /\ d.op = todo[1].op /\ d.act = todo[1].act /\ d.cancel = todo[1].cancel
          /\ d.onError = todo[1].onError /\ d.traced = todo[1].traced
          /\ d.patch.state = todo[1].patch.state
          /\ d.patch.job = "keep" /\ d.patch.request = todo[1].patch.request
      BY <1>1, <3>2 DEF Mild
    <3> HIDE DEF d
    <3> QED
      <4>1. todo[1] \in Mild /\ todo[1] \in Calls
        BY <1>1 DEF Mild
      <4>2. d \in Calls
        BY <3>1, <4>1 DEF d
      <4> QED BY <3>3, <4>1, <4>2 DEF Mild
  <2>2. Repeated = [todo EXCEPT ![1] = d]
    BY DEF Repeated
  <2> HIDE DEF d
  <2> QED BY <2>1, <2>2
<1>3. h \in Seq(Mild) /\ ~c.traced
  <2>1. c.onError \in {"fail", "ignore", "continue"} /\ ~c.traced
    BY <1>1 DEF Mild
  <2>2. Post("continue") \in Seq(Mild) /\ <<>> \in Seq(Mild)
    BY MildPost
  <2> HIDE DEF c
  <2> QED BY <1>1, <2>1, <2>2 DEF Handled, c
<1>4. Recovery(c, Tail(todo)) = <<>> \o h
  BY <1>3 DEF Recovery
<1> HIDE DEF h, c
<1> QED BY <1>1, <1>2, <1>3, <1>4, ConcatEmptySeq DEF c

\* The calls that provision go on provisioning, but for the last two.
LEMMA ProvisionalMoves ==
    ASSUME Provisional(todo), todo # <<>>, todo # completeProvisionNoDeployer
    PROVE  /\ Head(todo) \in Provisions /\ Head(todo) \in Calls
           /\ Provisional(Tail(todo)) /\ Repeated = todo
           /\ Provisional(Recovery(Head(todo), Tail(todo)))
<1> DEFINE c == Head(todo)
           h == Handled(Head(todo), Tail(todo))
<1>1. c \in Provisions /\ todo \in Seq(Calls) /\ Provisional(Tail(todo))
  BY ProvisionalHead
<1>2. Repeated = todo /\ c \in Calls
  <2>1. todo[1] = c
    BY <1>1
  <2> QED BY <1>1, <2>1, RepeatedSame DEF Provisions
<1>3. h \in Seq(Provisions) /\ ~c.traced
  <2>1. c.onError \in {"fail", "provisionError"} /\ ~c.traced
    BY <1>1 DEF Provisions
  <2>2. handleProvisionError \in Seq(Provisions) /\ <<>> \in Seq(Provisions)
    BY ProvisionParts
  <2> HIDE DEF c
  <2> QED BY <1>1, <2>1, <2>2 DEF Handled, c
<1>4. Recovery(c, Tail(todo)) = <<>> \o h
  BY <1>3 DEF Recovery
<1> HIDE DEF h, c
<1>5. Provisional(Recovery(c, Tail(todo)))
  BY <1>3, <1>4, ConcatEmptySeq DEF Provisional
<1> QED BY <1>1, <1>2, <1>5 DEF c

\* Its last two calls.
LEMMA CompletesMoves ==
    ASSUME todo = completeProvisionNoDeployer
    PROVE  /\ todo # <<>> /\ Head(todo) = starts /\ Repeated = todo
           /\ Tail(todo) \in Seq(Mild) /\ Recovery(Head(todo), Tail(todo)) \in Seq(Mild)
<1>1. todo = <<starts, finishes>> /\ todo \in Seq(Calls)
  BY CompletesIs
<1>2. todo[1] = starts /\ Head(todo) = starts /\ todo # <<>> /\ Tail(todo) = <<finishes>>
  BY <1>1
<1>3. Recovery(starts, Tail(todo)) = <<>>
  BY CompletesIs DEF Recovery, Handled
<1>4. <<>> \in Seq(Mild)
  OBVIOUS
<1> QED BY <1>1, <1>2, <1>3, <1>4, CompletesIs, RepeatedSame

\* The patches of a start or stop.
LEMMA PowerPatches ==
    ASSUME NEW a \in PowerActions
    PROVE  /\ stamps(a) \in Calls /\ stamps(a).op = "patch" /\ stamps(a).onError = "fail"
           /\ ~stamps(a).traced /\ stamps(a).patch.state = KeepState
           /\ stamps(a).patch.job = "keep" /\ stamps(a).patch.request = "keep"
           /\ completes(a) \in Calls /\ completes(a).op = "patch" /\ completes(a).onError = "fail"
           /\ ~completes(a).traced /\ completes(a).patch.state = Target(a)
           /\ completes(a).patch.job = "keep" /\ completes(a).patch.request = "keep"
           /\ notes(a) \in Calls /\ notes(a).op = "patch" /\ notes(a).onError = "finish"
           /\ notes(a).traced /\ notes(a).act = a /\ notes(a).patch.state = KeepState
           /\ notes(a).patch.job = "keep" /\ notes(a).patch.request = "keep"
<1>1. a \in Actions /\ "finish" \in OnErrors /\ Target(a) \in SubjectStates
  BY States DEF PowerActions, Actions, OnErrors, Target
<1>2. /\ stamps(a) \in Calls /\ stamps(a).op = "patch" /\ stamps(a).onError = "fail"
      /\ ~stamps(a).traced /\ stamps(a).patch.state = KeepState
      /\ stamps(a).patch.job = "keep" /\ stamps(a).patch.request = "keep"
  <2> DEFINE p == [NoPatch EXCEPT !.starts = a]
  <2>1. p \in Patches /\ p.state = KeepState /\ p.job = "keep" /\ p.request = "keep"
    BY <1>1 DEF NoPatch, Patches
  <2>2. stamps(a) = SkipPatch(p)
    BY DEF stamps
  <2> HIDE DEF p
  <2> QED BY <1>1, <2>1, <2>2, SkipPatchIs
<1>3. /\ completes(a) \in Calls /\ completes(a).op = "patch" /\ completes(a).onError = "fail"
      /\ ~completes(a).traced /\ completes(a).patch.state = Target(a)
      /\ completes(a).patch.job = "keep" /\ completes(a).patch.request = "keep"
  <2> DEFINE p == [NoPatch EXCEPT !.state = Target(a)]
  <2>1. p \in Patches /\ p.state = Target(a) /\ p.job = "keep" /\ p.request = "keep"
    BY <1>1 DEF NoPatch, Patches
  <2>2. completes(a) = SkipPatch(p)
    BY DEF completes
  <2> HIDE DEF p
  <2> QED BY <1>1, <2>1, <2>2, SkipPatchIs
<1>4. /\ notes(a) \in Calls /\ notes(a).op = "patch" /\ notes(a).onError = "finish"
      /\ notes(a).traced /\ notes(a).act = a /\ notes(a).patch.state = KeepState
      /\ notes(a).patch.job = "keep" /\ notes(a).patch.request = "keep"
  <2> DEFINE d == SkipPatch(NoPatch)
             c == [d EXCEPT !.onError = "finish"]
  <2>1. /\ d \in Calls /\ d.op = "patch" /\ d.patch.state = KeepState /\ d.patch.job = "keep"
        /\ d.patch.request = "keep"
    BY <1>1, NoPatchIs, SkipPatchIs
  <2> HIDE DEF d
  <2>2. /\ c \in Calls /\ c.op = "patch" /\ c.patch = d.patch /\ c.onError = "finish"
    BY <2>1 DEF Calls
  <2>3. notes(a) = Traced(c, a)
    BY DEF notes, c, d
  <2> HIDE DEF c
  <2>4. /\ Traced(c, a) \in Calls /\ Traced(c, a).op = "patch" /\ Traced(c, a).patch = c.patch
        /\ Traced(c, a).onError = "finish" /\ Traced(c, a).traced /\ Traced(c, a).act = a
    BY <1>1, <2>2 DEF Traced, Calls
  <2> QED BY <2>1, <2>2, <2>3, <2>4
<1> QED BY <1>2, <1>3, <1>4

\* Its request, and the recordings of how the request ended.
LEMMA PowerRequests ==
    ASSUME NEW a \in PowerActions
    PROVE  /\ powers(a) \in Calls /\ powers(a).op = "power" /\ powers(a).onError = "finish"
           /\ powers(a).traced /\ powers(a).act = a
           /\ awaits(a) \in Calls /\ awaits(a).op = "await" /\ awaits(a).onError = "finish"
           /\ ~awaits(a).traced /\ awaits(a).act = a
           /\ succeeds(a) \in Calls /\ succeeds(a).op = "patch" /\ succeeds(a).onError = "finish"
           /\ ~succeeds(a).traced /\ succeeds(a).patch.state = KeepState
           /\ succeeds(a).patch.job = "keep" /\ succeeds(a).patch.request = a
           /\ fails(a) \in Calls /\ fails(a).op = "patch" /\ fails(a).onError = "ignore"
           /\ ~fails(a).traced /\ fails(a).patch.state = KeepState
           /\ fails(a).patch.job = "keep" /\ fails(a).patch.request = a
           /\ fails(a).patch.outcome = "error"
<1>1. a \in Actions /\ "finish" \in OnErrors /\ "ignore" \in OnErrors
  BY DEF PowerActions, Actions, OnErrors
<1>2. /\ powers(a) \in Calls /\ powers(a).op = "power" /\ powers(a).onError = "finish"
      /\ powers(a).traced /\ powers(a).act = a
  <2> DEFINE c == Call("power", a, "finish")
  <2>1. c \in Calls /\ c.op = "power" /\ c.onError = "finish"
    <3>1. "power" \in Ops
      BY DEF Ops
    <3> QED BY <1>1, <3>1, CallIs
  <2>2. powers(a) = Traced(c, a)
    BY DEF powers
  <2> HIDE DEF c
  <2> QED BY <1>1, <2>1, <2>2 DEF Traced, Calls
<1>3. /\ awaits(a) \in Calls /\ awaits(a).op = "await" /\ awaits(a).onError = "finish"
      /\ ~awaits(a).traced /\ awaits(a).act = a
  <2>1. "await" \in Ops
    BY DEF Ops
  <2> QED BY <1>1, <2>1, CallIs DEF awaits
<1>4. ASSUME NEW o \in {"successful", "error"}, NEW f \in {"finish", "ignore"}
      PROVE  LET p == [NoPatch EXCEPT !.request = a, !.outcome = o]
                 c == [SkipPatch(p) EXCEPT !.onError = f]
             IN  /\ c \in Calls /\ c.op = "patch" /\ c.onError = f /\ ~c.traced
                 /\ c.patch.state = KeepState /\ c.patch.job = "keep" /\ c.patch.request = a
                 /\ c.patch.outcome = o
  <2> DEFINE p == [NoPatch EXCEPT !.request = a, !.outcome = o]
             d == SkipPatch(p)
             c == [d EXCEPT !.onError = f]
  <2>1. p \in Patches /\ p.state = KeepState /\ p.job = "keep" /\ p.request = a /\ p.outcome = o
    BY <1>1 DEF NoPatch, Patches
  <2> HIDE DEF p
  <2>2. /\ d \in Calls /\ d.op = "patch" /\ ~d.traced /\ d.patch.state = KeepState
        /\ d.patch.job = "keep" /\ d.patch.request = a /\ d.patch.outcome = o
    BY <2>1, SkipPatchIs
  <2> HIDE DEF d
  <2>3. c \in Calls /\ c.op = d.op /\ c.traced = d.traced /\ c.patch = d.patch /\ c.onError = f
    BY <1>1, <2>2, OnErrorIs
  <2> HIDE DEF c
  <2>4. /\ c \in Calls /\ c.op = "patch" /\ c.onError = f /\ ~c.traced
        /\ c.patch.state = KeepState /\ c.patch.job = "keep" /\ c.patch.request = a
        /\ c.patch.outcome = o
    BY <2>2, <2>3
  <2> QED BY <2>4 DEF c, d, p
<1>5. succeeds(a) = [SkipPatch([NoPatch EXCEPT !.request = a, !.outcome = "successful"]) EXCEPT !.onError = "finish"]
      /\ fails(a) = [SkipPatch([NoPatch EXCEPT !.request = a, !.outcome = "error"]) EXCEPT !.onError = "ignore"]
  BY DEF succeeds, fails
<1> QED BY <1>2, <1>3, <1>4, <1>5

\* What a start or stop without a deployer is made of.
LEMMA PowerPrograms ==
    ASSUME NEW a \in PowerActions
    PROVE  /\ requested(a, "finish", TRUE) = <<notes(a), awaits(a)>>
           /\ requested(a, "finish", FALSE) = <<notes(a)>>
           /\ recordSandboxActionFailure(a) = <<fails(a)>>
           /\ recordSandboxJobOutcome(a, "successful", "finish") = <<succeeds(a)>>
           /\ Post("finish") = <<finishes>>
<1>1. requested(a, "finish", TRUE) = <<notes(a)>> \o <<awaits(a)>>
  BY DEF requested, notes, awaits
<1>2. requested(a, "finish", FALSE) = <<notes(a)>> \o <<>>
  BY DEF requested, notes
<1>3. <<notes(a)>> \o <<>> = <<notes(a)>>
  <2>1. <<notes(a)>> \in Seq(Calls)
    BY PowerPatches
  <2> QED BY <2>1, ConcatEmptySeq
<1>4. recordSandboxActionFailure(a) = <<fails(a)>>
  BY DEF recordSandboxActionFailure, recordSandboxJobOutcome, fails
<1>5. recordSandboxJobOutcome(a, "successful", "finish") = <<succeeds(a)>>
  BY DEF recordSandboxJobOutcome, succeeds
<1> QED BY <1>1, <1>2, <1>3, <1>4, <1>5, Tuple2 DEF Post, finishes

\* Without a deployer a start or stop is four calls, and what its state selects when it runs.
LEMMA PowerHandlers ==
    ASSUME NoDeployer, NEW a \in PowerActions, NEW s, s.state # Running(a)
    PROVE  /\ a = "start" => handleStart(s) = <<stamps(a), powers(a), completes(a), finishes>>
           /\ a = "stop" => handleStop(s) = <<stamps(a), powers(a), completes(a), finishes>>
<1> DEFINE last == <<completes(a)>> \o <<finishes>>
<1>1. <<stamps(a)>> \o (<<powers(a)>> \o last) = <<stamps(a), powers(a), completes(a), finishes>>
  <2>1. last = <<completes(a), finishes>>
    BY Tuple2
  <2>2. <<powers(a)>> \o <<completes(a), finishes>> = <<powers(a), completes(a), finishes>>
    BY Tuple3
  <2>3. <<stamps(a)>> \o <<powers(a), completes(a), finishes>>
          = <<stamps(a), powers(a), completes(a), finishes>>
    BY Tuple4
  <2> QED BY <2>1, <2>2, <2>3
<1>2. Stamp(a) = <<stamps(a)>> /\ sandboxPower(a, "finish") = <<powers(a)>>
  BY DEF Stamp, stamps, sandboxPower, powers
<1>3. /\ a = "start" => completeStartNoDeployer = last
      /\ a = "stop" => completeStopNoDeployer = <<powers(a)>> \o last
  <2>1. completes(a) = SkipPatch([NoPatch EXCEPT !.state = Target(a)]) /\ Post("finish") = <<finishes>>
    BY DEF completes, Post, finishes
  <2>2. a = "start" => completeStartNoDeployer = <<completes(a)>> \o <<finishes>>
    BY <2>1 DEF completeStartNoDeployer, Target
  <2>3. a = "stop" => completeStopNoDeployer = sandboxPower("stop", "finish") \o <<completes(a)>> \o <<finishes>>
    BY <2>1 DEF completeStopNoDeployer, Target
  <2>4. (<<powers(a)>> \o <<completes(a)>>) \o <<finishes>> = <<powers(a)>> \o last
    BY Tuple2, Tuple3, ConcatAssociative, PowerPatches, PowerRequests, CompletesIs
  <2> QED BY <1>2, <2>2, <2>3, <2>4
<1>4. /\ a = "start" => runStart(s) = Stamp(a) \o (sandboxPower(a, "finish") \o last)
      /\ a = "stop" => runStop(s) = Stamp(a) \o (<<powers(a)>> \o last)
  <2> HIDE DEF last
  <2>1. a \in Disabled /\ a \in PowerEnabled /\ SandboxInUse
    BY DEF NoDeployer
  <2>2. CASE a = "start"
    BY <1>3, <2>1, <2>2 DEF runStart, powerOn
  <2>3. CASE a = "stop"
    BY <1>3, <2>1, <2>3 DEF runStop, powerOff
  <2> QED BY <2>2, <2>3
<1> HIDE DEF last
<1> QED BY <1>1, <1>2, <1>4 DEF handleStart, handleStop

\* What is done about the error of one of its calls.
LEMMA PowerRecovery ==
    ASSUME NEW a \in PowerActions, NEW rest \in Seq(Calls)
    PROVE  /\ Recovery(stamps(a), rest) = <<>> /\ Recovery(completes(a), rest) = <<>>
           /\ Recovery(powers(a), rest) = <<fails(a), finishes>>
           /\ Recovery(notes(a), rest) = <<fails(a), finishes>>
           /\ Recovery(awaits(a), rest) = <<finishes>>
           /\ Recovery(succeeds(a), rest) = <<finishes>>
           /\ Recovery(fails(a), rest) = rest
           /\ Handled(powers(a), rest) = <<finishes>> /\ Handled(awaits(a), rest) = <<finishes>>
<1>1. /\ recordSandboxActionFailure(a) = <<fails(a)>> /\ Post("finish") = <<finishes>>
      /\ <<fails(a)>> \o <<finishes>> = <<fails(a), finishes>>
  BY PowerPrograms, Tuple2
<1>2. <<>> \o <<finishes>> = <<finishes>> /\ <<>> \o rest = rest /\ <<>> \o <<>> = <<>>
  BY ConcatEmptySeq, CompletesIs
<1>3. \A c : /\ c.onError = "fail" => Handled(c, rest) = <<>>
             /\ c.onError = "finish" => Handled(c, rest) = Post("finish")
             /\ c.onError = "ignore" => Handled(c, rest) = rest
  BY DEF Handled
<1>4. Recovery(stamps(a), rest) = <<>> /\ Recovery(completes(a), rest) = <<>>
  BY <1>2, <1>3, PowerPatches DEF Recovery
<1>5. /\ Recovery(powers(a), rest) = <<fails(a), finishes>>
      /\ Recovery(notes(a), rest) = <<fails(a), finishes>>
  <2>1. /\ powers(a).traced /\ powers(a).act = a /\ powers(a).onError = "finish"
        /\ notes(a).traced /\ notes(a).act = a /\ notes(a).onError = "finish"
    BY PowerPatches, PowerRequests
  <2>2. Handled(powers(a), rest) = <<finishes>> /\ Handled(notes(a), rest) = <<finishes>>
    BY <1>1, <1>3, <2>1
  <2> QED BY <1>1, <2>1, <2>2 DEF Recovery
<1>6. /\ Recovery(awaits(a), rest) = <<finishes>> /\ Recovery(succeeds(a), rest) = <<finishes>>
      /\ Recovery(fails(a), rest) = rest
  <2>1. /\ ~awaits(a).traced /\ awaits(a).onError = "finish"
        /\ ~succeeds(a).traced /\ succeeds(a).onError = "finish"
        /\ ~fails(a).traced /\ fails(a).onError = "ignore"
    BY PowerRequests
  <2>2. /\ Handled(awaits(a), rest) = <<finishes>> /\ Handled(succeeds(a), rest) = <<finishes>>
        /\ Handled(fails(a), rest) = rest
    BY <1>1, <1>3, <2>1
  <2> QED BY <1>2, <2>1, <2>2 DEF Recovery
<1>7. Handled(powers(a), rest) = <<finishes>> /\ Handled(awaits(a), rest) = <<finishes>>
  BY <1>1, <1>3, PowerRequests
<1> QED BY <1>4, <1>5, <1>6, <1>7

\* The calls that are left of it.
LEMMA PoweringIs ==
    ASSUME NEW a \in PowerActions, NEW s, Powering(a, s), s # <<>>
    PROVE  /\ s \in Seq(Calls) /\ Tail(s) \in Seq(Calls) /\ Head(s) = s[1]
           /\ \/ Head(s) = stamps(a) /\ Tail(s) = <<powers(a), completes(a), finishes>>
              \/ /\ s = <<powers(a), completes(a), finishes>>
                 /\ Head(s) = powers(a) /\ Tail(s) = <<completes(a), finishes>>
              \/ Head(s) = fails(a) /\ Tail(s) = <<finishes>>
              \/ Head(s) = finishes /\ s = <<finishes>>
              \/ Asked(a) /\ Head(s) = notes(a) /\ Tail(s) = <<awaits(a), completes(a), finishes>>
              \/ Asked(a) /\ Head(s) = awaits(a) /\ Tail(s) = <<completes(a), finishes>>
              \/ Done(a) /\ Head(s) = notes(a) /\ Tail(s) = <<completes(a), finishes>>
              \/ Done(a) /\ Head(s) = succeeds(a) /\ Tail(s) = <<completes(a), finishes>>
              \/ Done(a) /\ Head(s) = completes(a) /\ Tail(s) = <<finishes>>
<1>1. /\ stamps(a) \in Calls /\ powers(a) \in Calls /\ completes(a) \in Calls /\ finishes \in Calls
      /\ fails(a) \in Calls /\ notes(a) \in Calls /\ awaits(a) \in Calls /\ succeeds(a) \in Calls
  BY PowerPatches, PowerRequests, CompletesIs
<1>2. s \in Seq(Calls)
  <2>1. /\ <<stamps(a), powers(a), completes(a), finishes>> \in Seq(Calls)
        /\ <<powers(a), completes(a), finishes>> \in Seq(Calls)
        /\ <<fails(a), finishes>> \in Seq(Calls) /\ <<finishes>> \in Seq(Calls)
    BY <1>1
  <2>2. /\ <<notes(a), awaits(a), completes(a), finishes>> \in Seq(Calls)
        /\ <<awaits(a), completes(a), finishes>> \in Seq(Calls)
        /\ <<notes(a), completes(a), finishes>> \in Seq(Calls)
        /\ <<succeeds(a), completes(a), finishes>> \in Seq(Calls)
        /\ <<completes(a), finishes>> \in Seq(Calls)
    BY <1>1
  <2> QED BY <2>1, <2>2 DEF Powering
<1>3. Tail(s) \in Seq(Calls) /\ Head(s) = s[1]
  BY <1>2
<1>4. CASE s = <<stamps(a), powers(a), completes(a), finishes>>
  BY <1>2, <1>3, <1>4
<1>5. CASE s = <<powers(a), completes(a), finishes>>
  BY <1>2, <1>3, <1>5
<1>6. CASE s = <<fails(a), finishes>>
  BY <1>2, <1>3, <1>6
<1>12. CASE s = <<finishes>>
  BY <1>2, <1>3, <1>12
<1>7. CASE Asked(a) /\ s = <<notes(a), awaits(a), completes(a), finishes>>
  BY <1>2, <1>3, <1>7
<1>8. CASE Asked(a) /\ s = <<awaits(a), completes(a), finishes>>
  BY <1>2, <1>3, <1>8
<1>9. CASE Done(a) /\ s = <<notes(a), completes(a), finishes>>
  BY <1>2, <1>3, <1>9
<1>10. CASE Done(a) /\ s = <<succeeds(a), completes(a), finishes>>
  BY <1>2, <1>3, <1>10
<1>11. CASE Done(a) /\ s = <<completes(a), finishes>>
  BY <1>2, <1>3, <1>11
<1> QED BY <1>4, <1>5, <1>6, <1>7, <1>8, <1>9, <1>10, <1>11, <1>12 DEF Powering

\* The calls that turn the subject on or off.
LEMMA TurnCalls ==
    ASSUME NEW a \in PowerActions
    PROVE  /\ turns(a) \in Calls /\ turns(a).op = "patch" /\ turns(a).onError = "fail"
           /\ ~turns(a).traced /\ turns(a).patch.state = Pending(a)
           /\ turns(a).patch.job = "keep" /\ turns(a).patch.request = "keep"
           /\ schedules(a) \in Calls /\ schedules(a).op = "schedule" /\ schedules(a).onError = "fail"
           /\ ~schedules(a).traced /\ schedules(a).act = a /\ schedules(a).cancel = PowerActions
           /\ schedules(a).patch = NoPatch
<1>1. a \in Actions /\ Pending(a) \in SubjectStates /\ PowerActions \subseteq Actions
  BY States DEF PowerActions, Actions
<1>2. /\ turns(a) \in Calls /\ turns(a).op = "patch" /\ turns(a).onError = "fail"
      /\ ~turns(a).traced /\ turns(a).patch.state = Pending(a)
      /\ turns(a).patch.job = "keep" /\ turns(a).patch.request = "keep"
  <2> DEFINE p == [NoPatch EXCEPT !.state = Pending(a)]
  <2>1. p \in Patches /\ p.state = Pending(a) /\ p.job = "keep" /\ p.request = "keep"
    BY <1>1 DEF NoPatch, Patches
  <2>2. turns(a) = SkipPatch(p)
    BY DEF turns
  <2> HIDE DEF p
  <2> QED BY <1>1, <2>1, <2>2, SkipPatchIs
<1>3. /\ schedules(a) \in Calls /\ schedules(a).op = "schedule" /\ schedules(a).onError = "fail"
      /\ ~schedules(a).traced /\ schedules(a).act = a /\ schedules(a).cancel = PowerActions
      /\ schedules(a).patch = NoPatch
  <2> DEFINE c == Call("schedule", a, "fail")
  <2>1. /\ c \in Calls /\ c.op = "schedule" /\ c.act = a /\ c.onError = "fail"
        /\ c.patch = NoPatch /\ ~c.traced
    <3>1. "schedule" \in Ops /\ "fail" \in OnErrors
      BY DEF Ops, OnErrors
    <3> QED BY <1>1, <3>1, CallIs
  <2>2. schedules(a) = [c EXCEPT !.cancel = PowerActions]
    BY DEF schedules, Schedule
  <2> HIDE DEF c
  <2> QED BY <1>1, <2>1, <2>2 DEF Calls
<1> QED BY <1>2, <1>3

\* They go one by one, and an error of theirs fails the run.
LEMMA TurningIs ==
    ASSUME NEW a \in PowerActions, NEW m \in Seq(Mild)
    PROVE  /\ LET s == <<turns(a), schedules(a)>> \o m
              IN  /\ s \in Seq(Calls) /\ s # <<>> /\ Head(s) = turns(a) /\ s[1] = turns(a)
                  /\ Tail(s) = <<schedules(a)>> \o m
           /\ LET s == <<schedules(a)>> \o m
              IN  /\ s \in Seq(Calls) /\ s # <<>> /\ Head(s) = schedules(a) /\ s[1] = schedules(a)
                  /\ Tail(s) = m
           /\ \A rest : Recovery(turns(a), rest) = <<>> /\ Recovery(schedules(a), rest) = <<>>
<1>1. turns(a) \in Calls /\ schedules(a) \in Calls /\ m \in Seq(Calls)
  BY TurnCalls DEF Mild
<1>2. /\ LET s == <<turns(a), schedules(a)>> \o m
         IN  s \in Seq(Calls) /\ s # <<>> /\ Head(s) = turns(a) /\ s[1] = turns(a)
      /\ LET s == <<schedules(a)>> \o m
         IN  s \in Seq(Calls) /\ s # <<>> /\ Head(s) = schedules(a) /\ s[1] = schedules(a)
  BY <1>1
<1>3. Tail(<<schedules(a)>> \o m) = m
  BY <1>1
<1>4. Tail(<<turns(a), schedules(a)>> \o m) = <<schedules(a)>> \o m
  BY <1>1
<1>5. ASSUME NEW rest PROVE Recovery(turns(a), rest) = <<>> /\ Recovery(schedules(a), rest) = <<>>
  <2>1. Handled(turns(a), rest) = <<>> /\ Handled(schedules(a), rest) = <<>>
    BY TurnCalls DEF Handled
  <2> QED BY <2>1, TurnCalls DEF Recovery
<1> QED BY <1>2, <1>3, <1>4, <1>5

(***************************************************************************)
(* The steps.                                                              *)
(***************************************************************************)
\* The handlers that may be executing.
LEMMA Kinds ==
    ASSUME PInv, todo # <<>>
    PROVE  \/ run \notin PowerRuns /\ todo \in Seq(Mild)
           \/ /\ run \notin PowerRuns /\ subj.state \in Unprovisioned
              /\ Provisional(todo) /\ todo # completeProvisionNoDeployer
           \/ /\ run \notin PowerRuns /\ subj.state \in Unprovisioned \cup {Started}
              /\ todo = completeProvisionNoDeployer
           \/ \E a \in PowerActions : run \notin PowerRuns /\ Turning(a, todo)
           \/ \E a \in PowerActions : run = ActionRun(a) /\ acts[a] > 0 /\ Powering(a, todo)
<1>1. ASSUME run \in PowerRuns
      PROVE  \E a \in PowerActions : run = ActionRun(a) /\ acts[a] > 0 /\ Powering(a, todo)
  <2>1. PICK a \in PowerActions : run = ActionRun(a)
    BY <1>1 DEF PowerRuns
  <2>2. run.name = a
    BY <2>1 DEF ActionRun
  <2> QED BY <1>1, <2>1, <2>2 DEF PInv, TodoFits
<1> QED BY <1>1 DEF PInv, TodoFits, Provisioning

\* A handler that is not a start or stop, at a call of the given kinds.
LEMMA KindOf ==
    ASSUME PInv, todo # <<>>, Head(todo).op \notin {"patch", "schedule", "power", "await", "post"}
    PROVE  /\ run \notin PowerRuns
           /\ \/ todo \in Seq(Mild)
              \/ /\ subj.state \in Unprovisioned
                 /\ Provisional(todo) /\ todo # completeProvisionNoDeployer
<1>1. todo # completeProvisionNoDeployer
  BY CompletesMoves, CompletesIs
<1>2. ASSUME NEW a \in PowerActions PROVE ~Turning(a, todo) /\ ~Powering(a, todo)
  <2>1. ~Turning(a, todo)
    BY TurningIs, TurnCalls DEF Turning
  <2>2. ~Powering(a, todo)
    BY PoweringIs, PowerPatches, PowerRequests, CompletesIs
  <2> QED BY <2>1, <2>2
<1> QED BY <1>1, <1>2, Kinds

\* A step that leaves the subject's state, its actions and the placement's power alone.
LEMMA QuietStep ==
    ASSUME PInv, UNCHANGED <<subj, acts, run, power>>, callbacks' \subseteq callbacks,
           \A b \in Actions : tower[b].job = "none" => tower'[b].job = "none",
           TodoFits'
    PROVE  PInv'
<1>1. Steady'
  BY DEF PInv, Steady, OnlyRequests
<1>2. Jobless'
  BY DEF PInv, Jobless
<1> QED BY <1>1, <1>2 DEF PInv

\* A call that neither moves the subject nor starts or stops it.
LEMMA OrdinaryStep ==
    ASSUME PInv, todo # <<>>, Head(todo).op \notin {"patch", "schedule", "power", "await", "post"},
           UNCHANGED <<subj, acts, run, power, callbacks>>,
           \A b \in Actions : tower[b].job = "none" => tower'[b].job = "none",
           todo \in Seq(Mild) => todo' \in Seq(Mild),
           Provisional(todo) /\ todo # completeProvisionNoDeployer => Provisional(todo')
    PROVE  PInv'
<1>1. run' \notin PowerRuns
  BY KindOf
<1>2. \/ todo' \in Seq(Mild)
      \/ subj'.state \in Unprovisioned /\ Provisional(todo')
  BY KindOf
<1>3. TodoFits'
  BY <1>1, <1>2 DEF TodoFits, Provisioning
<1> QED BY <1>3, QuietStep

\* Such a call made, failed or repeated.
LEMMA OrdinaryMoves ==
    ASSUME IInv, todo # <<>>, Succeeds \/ TroubleWith(Repeated) \/ Trouble
    PROVE  /\ todo \in Seq(Mild) => todo' \in Seq(Mild)
           /\ Provisional(todo) /\ todo # completeProvisionNoDeployer => Provisional(todo')
<1>1. todo' \in {Tail(todo), Repeated, todo, Recovery(Head(todo), Tail(todo))}
  BY Moves
<1>2. todo \in Seq(Mild) => todo' \in Seq(Mild)
  BY <1>1, MildMoves
<1>3. Provisional(todo) /\ todo # completeProvisionNoDeployer => Provisional(todo')
  BY <1>1, ProvisionalMoves
<1> QED BY <1>2, <1>3

\* Launching, canceling and releasing.
LEMMA LaunchCancelReleasePower ==
    ASSUME IInv, PInv, LaunchJob \/ CancelJobs \/ ReleasePlacement PROVE PInv'
<1>1. /\ todo # <<>> /\ Head(todo).op \in {"launch", "cancel", "release"}
      /\ UNCHANGED <<subj, acts, run, power, callbacks>>
  BY DEF LaunchJob, CancelJobs, ReleasePlacement, At, subject, anarchy, sandbox
<1>2. \A b \in Actions : tower[b].job = "none" => tower'[b].job = "none"
  <2>1. CASE tower' = tower
    BY <2>1
  <2>2. ASSUME tower' = Canceled(Head(todo).act), NEW b \in Actions, tower[b].job = "none"
        PROVE  tower'[b].job = "none"
    BY <2>2 DEF Canceled
  <2> QED BY <2>1, <2>2 DEF LaunchJob, CancelJobs, ReleasePlacement, Does, subject
<1>3. \/ Succeeds \/ TroubleWith(Repeated) \/ Trouble
      \/ todo' = <<>>
  BY DEF LaunchJob, CancelJobs, ReleasePlacement, Does, Continue
<1>4. <<>> \in Seq(Mild) /\ Provisional(<<>>)
  BY DEF Provisional
<1>5. /\ todo \in Seq(Mild) => todo' \in Seq(Mild)
      /\ Provisional(todo) /\ todo # completeProvisionNoDeployer => Provisional(todo')
  BY <1>1, <1>3, <1>4, OrdinaryMoves
<1> QED BY <1>1, <1>2, <1>5, OrdinaryStep

\* Polling a status check.
LEMMA PollJobPower == ASSUME IInv, PInv, PollJob PROVE PInv'
<1> DEFINE c == Head(todo)
<1>1. /\ todo # <<>> /\ c.op = "poll"
      /\ UNCHANGED <<subj, acts, run, power, callbacks, tower>>
  BY DEF PollJob, At, subject, anarchy, sandbox
<1>2. todo \in Seq(Mild)
  <2>1. ~(Provisional(todo) /\ todo # completeProvisionNoDeployer)
    BY <1>1, ProvisionalMoves DEF Provisions
  <2> QED BY <1>1, <2>1, KindOf
<1>3. c.act = "status"
  BY <1>1, <1>2, MildMoves DEF Mild
<1>4. \A job : jobPolled("status", job, snap) \in Seq(Mild)
  BY StatusIsMild, MildPost DEF jobPolled
<1>5. todo' \in Seq(Mild)
  <2>1. CASE Trouble
    BY <1>1, <1>2, <2>1, OrdinaryMoves
  <2>2. CASE Continue(jobPolled(c.act, tower[c.act].job, snap))
    BY <1>3, <1>4, <2>2 DEF Continue
  <2> QED BY <2>1, <2>2 DEF PollJob
<1>6. TodoFits'
  BY <1>1, <1>5, KindOf DEF TodoFits
<1> QED BY <1>1, <1>6, QuietStep

\* Looking at the placement, for a status check or a provision.
LEMMA GetPlacementPower == ASSUME IInv, PInv, GetPlacement PROVE PInv'
<1> DEFINE c == Head(todo)
<1>1. /\ todo # <<>> /\ c.op = "get" /\ placement \in PlacementStatuses
      /\ UNCHANGED <<subj, acts, run, power, callbacks, tower>>
  BY DEF GetPlacement, At, subject, anarchy, sandbox, IInv, Sound, Types
<1>2. updateSubjectSandboxVars("ignore") \in Seq(Mild)
  <2> DEFINE p == [NoPatch EXCEPT !.vars = "same"]
  <2>1. p \in Patches /\ p.state = KeepState /\ p.job = "keep" /\ p.request = "keep"
    BY DEF NoPatch, Patches
  <2> HIDE DEF p
  <2>2. <<[SkipPatch(p) EXCEPT !.onError = "ignore"]>> \in Seq(Mild)
    BY <2>1, MildPatch
  <2> QED BY <2>2 DEF updateSubjectSandboxVars, p
<1>3. ASSUME todo \in Seq(Mild) PROVE todo' \in Seq(Mild)
  <2>1. c.act = "status" /\ Tail(todo) \in Seq(Mild)
    BY <1>1, <1>3, MildMoves DEF Mild
  <2>2. updateSubjectSandboxVars("ignore") \o Tail(todo) \in Seq(Mild)
    BY <1>2, <2>1, Concat
  <2>3. CASE Trouble
    BY <1>1, <1>3, <2>3, OrdinaryMoves
  <2> QED BY <2>1, <2>2, <2>3 DEF GetPlacement, Continue
<1>4. ASSUME Provisional(todo), todo # completeProvisionNoDeployer PROVE Provisional(todo')
  <2>1. c.act = "provision" /\ Provisional(Tail(todo))
    BY <1>1, <1>4, ProvisionalMoves DEF Provisions
  <2>2. Provisional(placedOrNot(placement, Tail(todo)))
    BY <1>1, <2>1, ProvisionAnswers
  <2>3. CASE Trouble
    BY <1>1, <1>4, <2>3, OrdinaryMoves
  <2> QED BY <2>1, <2>2, <2>3 DEF GetPlacement, Continue
<1> QED BY <1>1, <1>3, <1>4, OrdinaryStep

\* Booking one, looking at it again, and in the queue: only a provision does.
LEMMA BookingPower ==
    ASSUME IInv, NoDeployer, PInv, GetBooked \/ CheckQueue \/ BookPlacement PROVE PInv'
<1> DEFINE c == Head(todo)
<1>1. /\ todo # <<>> /\ c.op \in {"reget", "checkQueue", "book"} /\ placement \in PlacementStatuses
      /\ UNCHANGED <<subj, acts, run, power, callbacks, tower>>
  BY DEF GetBooked, CheckQueue, BookPlacement, At, subject, anarchy, sandbox, IInv, Sound, Types
<1>2. todo \notin Seq(Mild)
  BY <1>1, MildMoves DEF Mild
<1>3. ASSUME Provisional(todo), todo # completeProvisionNoDeployer PROVE Provisional(todo')
  <2>1. Provisional(Tail(todo))
    BY <1>1, <1>3, ProvisionalMoves
  <2>2. CASE Trouble
    BY <1>1, <1>3, <2>2, OrdinaryMoves
  <2>3. CASE GetBooked /\ ~Trouble
    <3>1. \E st \in PlacementStatuses : todo' = bookedAgain(st, Tail(todo))
      BY <1>1, <2>3 DEF GetBooked, Continue, PlacementStatuses
    <3> QED BY <2>1, <3>1, ProvisionAnswers
  <2>4. CASE CheckQueue /\ ~Trouble
    <3>1. todo' = queueChecked(placement, snap)
      BY <2>4 DEF CheckQueue, Continue
    <3> QED BY <1>1, <3>1, ProvisionHandlers
  <2>5. CASE BookPlacement /\ ~Trouble
    <3>1. \E st \in PlacementStatuses \cup {"invalid", "refused"} :
             st # "absent" /\ todo' = booked(st, Tail(todo))
      BY <1>1, <2>5 DEF BookPlacement, Continue, PlacementStatuses, NotReady
    <3> QED BY <2>1, <3>1, ProvisionAnswers
  <2> QED BY <2>2, <2>3, <2>4, <2>5
<1> QED BY <1>1, <1>2, <1>3, OrdinaryStep

\* Only a start or stop asks for it and waits.
LEMMA PowerHead ==
    ASSUME PInv, todo # <<>>, Head(todo).op \in {"power", "await"}
    PROVE  \E a \in PowerActions :
              /\ run = ActionRun(a) /\ acts[a] > 0 /\ Powering(a, todo)
              /\ Tail(todo) = <<completes(a), finishes>> /\ todo \in Seq(Calls)
              /\ Tail(todo) \in Seq(Calls) /\ todo[1] = Head(todo)
              /\ Head(todo).op = "power" => Head(todo) = powers(a) /\ todo = <<powers(a), completes(a), finishes>>
              /\ Head(todo).op = "await" => Head(todo) = awaits(a) /\ Asked(a)
<1>1. todo \notin Seq(Mild)
  BY MildMoves DEF Mild
<1>2. ~(Provisional(todo) /\ todo # completeProvisionNoDeployer)
  BY ProvisionalMoves DEF Provisions
<1>3. todo # completeProvisionNoDeployer
  BY CompletesMoves, CompletesIs
<1>4. ASSUME NEW a \in PowerActions PROVE ~Turning(a, todo)
  BY TurningIs, TurnCalls DEF Turning
<1>5. PICK a \in PowerActions : run = ActionRun(a) /\ acts[a] > 0 /\ Powering(a, todo)
  BY <1>1, <1>2, <1>3, <1>4, Kinds
<1>6. /\ todo \in Seq(Calls) /\ Tail(todo) \in Seq(Calls) /\ todo[1] = Head(todo)
      /\ Tail(todo) = <<completes(a), finishes>>
      /\ Head(todo).op = "power" => Head(todo) = powers(a) /\ todo = <<powers(a), completes(a), finishes>>
      /\ Head(todo).op = "await" => Head(todo) = awaits(a) /\ Asked(a)
  <2>1. /\ {stamps(a).op, fails(a).op, notes(a).op, succeeds(a).op, completes(a).op} = {"patch"}
        /\ finishes.op = "post" /\ powers(a).op = "power" /\ awaits(a).op = "await"
    BY PowerPatches, PowerRequests, CompletesIs
  <2>2. Head(todo) \notin {stamps(a), fails(a), notes(a), succeeds(a), completes(a), finishes}
    BY <2>1
  <2> QED BY <1>5, <2>1, <2>2, PoweringIs
<1> QED BY <1>5, <1>6

\* A step of a start or stop that may turn the placement, in the state it is made for.
LEMMA PowerStep ==
    ASSUME IInv, PInv, NEW a \in PowerActions, run = ActionRun(a), acts[a] > 0,
           UNCHANGED <<subj, acts, run, callbacks, tower>>, Powering(a, todo)',
           \/ power' = power
           \/ power' = [power EXCEPT !.requests = Append(@, a)]
           \/ power' = [power EXCEPT !.on = (a = "start")]
    PROVE  PInv'
<1>1. TodoFits'
  BY DEF TodoFits, PowerRuns, ActionRun
<1>2. Jobless'
  BY DEF PInv, Jobless
<1>3. Steady'
  <2> DEFINE Powers == [on : BOOLEAN, requests : Seq({"start", "stop"}), ended : {"success", "failed"}]
  <2>1. power \in Powers /\ acts[a] \in Nat
    BY QuietTypes, LifecycleAssumption DEF PowerActions, Actions
  <2>2. subj.state \notin Unprovisioned
    BY <2>1 DEF PInv, Steady, PowerActions
  <2>3. /\ subj.state = Started => a = "start"
        /\ subj.state = Stopped => a = "stop"
    BY <2>1 DEF PInv, Steady, PowerActions
  <2>4. \A b \in PowerActions : OnlyRequests(b) /\ a = b => OnlyRequests(b)'
    BY <2>1 DEF OnlyRequests, PowerActions
  <2>5. /\ a = "start" /\ power.on => power'.on
        /\ a = "stop" /\ ~power.on => ~power'.on
    BY <2>1
  <2> QED BY <2>2, <2>3, <2>4, <2>5 DEF PInv, Steady, PowerActions
<1> QED BY <1>1, <1>2, <1>3 DEF PInv

\* Asking the sandbox API to start or stop.
LEMMA PowerPlacementPower == ASSUME IInv, PInv, PowerPlacement PROVE PInv'
<1> DEFINE c == Head(todo)
<1>1. /\ todo # <<>> /\ c.op = "power"
      /\ UNCHANGED <<subj, acts, run, callbacks, tower>>
  BY DEF PowerPlacement, At, subject, anarchy
<1>2. PICK a \in PowerActions :
         /\ run = ActionRun(a) /\ acts[a] > 0 /\ Powering(a, todo)
         /\ Tail(todo) = <<completes(a), finishes>> /\ Tail(todo) \in Seq(Calls)
         /\ c = powers(a) /\ todo = <<powers(a), completes(a), finishes>>
  BY <1>1, PowerHead
<1> HIDE DEF c
<1>3. /\ c.act = a /\ c.onError = "finish"
      /\ Recovery(c, Tail(todo)) = <<fails(a), finishes>>
      /\ Handled(c, Tail(todo)) = <<finishes>>
  <2>1. c.act = a /\ c.onError = "finish"
    BY <1>2, PowerRequests
  <2>2. /\ Recovery(powers(a), Tail(todo)) = <<fails(a), finishes>>
        /\ Handled(powers(a), Tail(todo)) = <<finishes>>
    BY <1>2, PowerRecovery
  <2> QED BY <1>2, <2>1, <2>2
<1>4. /\ requested(c.act, c.onError, TRUE) \o Tail(todo) = <<notes(a), awaits(a), completes(a), finishes>>
      /\ requested(c.act, c.onError, FALSE) \o Tail(todo) = <<notes(a), completes(a), finishes>>
  <2>1. /\ requested(a, "finish", TRUE) = <<notes(a), awaits(a)>>
        /\ requested(a, "finish", FALSE) = <<notes(a)>>
    BY PowerPrograms
  <2>2. /\ <<notes(a), awaits(a)>> \o <<completes(a), finishes>>
              = <<notes(a), awaits(a), completes(a), finishes>>
        /\ <<notes(a)>> \o <<completes(a), finishes>> = <<notes(a), completes(a), finishes>>
    BY Tuple22, Tuple3
  <2> QED BY <1>2, <1>3, <2>1, <2>2
<1>6. \/ /\ power' = power
         /\ todo' \in {todo, <<fails(a), finishes>>, <<finishes>>}
      \/ /\ power' = [power EXCEPT !.requests = Append(@, a)]
         /\ todo' \in {<<notes(a), awaits(a), completes(a), finishes>>, todo, <<fails(a), finishes>>}
      \/ /\ power.requests = <<>>
         /\ power' = [power EXCEPT !.on = (a = "start")]
         /\ todo' = <<notes(a), completes(a), finishes>>
  BY <1>3, <1>4 DEF PowerPlacement, c, Continue, Trouble, TroubleWith
<1>7. Powering(a, todo)'
  <2>1. power \in [on : BOOLEAN, requests : Seq({"start", "stop"}), ended : {"success", "failed"}]
    BY QuietTypes
  <2>2. power' = [power EXCEPT !.requests = Append(@, a)] => Asked(a)'
    BY <2>1 DEF Asked, PowerActions
  <2>3. power.requests = <<>> /\ power' = [power EXCEPT !.on = (a = "start")] => Done(a)'
    BY <2>1 DEF Done
  <2> QED BY <1>2, <1>6, <2>2, <2>3 DEF Powering
<1> QED BY <1>1, <1>2, <1>6, <1>7, PowerStep

\* Waiting for the request to end.
LEMMA AwaitRequestPower == ASSUME IInv, PInv, AwaitRequest PROVE PInv'
<1> DEFINE c == Head(todo)
           handled == Handled(Head(todo), Tail(todo))
<1>1. /\ todo # <<>> /\ c.op = "await"
      /\ UNCHANGED <<subj, acts, run, callbacks, tower, power>>
  BY DEF AwaitRequest, At, subject, anarchy, sandbox
<1>2. PICK a \in PowerActions :
         /\ run = ActionRun(a) /\ acts[a] > 0 /\ Powering(a, todo)
         /\ Tail(todo) = <<completes(a), finishes>> /\ Tail(todo) \in Seq(Calls)
         /\ c = awaits(a) /\ Asked(a)
  BY <1>1, PowerHead
<1>3. c.act = a /\ c.onError = "finish"
  BY <1>2, PowerRequests
<1>4. handled = <<finishes>>
  BY <1>2, PowerRecovery
<1>5. \/ todo' = <<finishes>>
      \/ power.requests = <<>> /\ todo' = requestEnded(c, power.ended, Tail(todo), handled)
  BY <1>4 DEF AwaitRequest, Continue
<1> HIDE DEF c, handled
<1>6. power.requests = <<>> =>
         \/ todo' \in {<<finishes>>, <<fails(a), finishes>>}
         \/ power.ended = "success" /\ todo' = <<succeeds(a), completes(a), finishes>>
  <2>1. /\ recordSandboxActionFailure(a) = <<fails(a)>>
        /\ recordSandboxJobOutcome(a, "successful", "finish") = <<succeeds(a)>>
    BY PowerPrograms
  <2>2. /\ <<fails(a)>> \o <<finishes>> = <<fails(a), finishes>>
        /\ <<succeeds(a)>> \o <<completes(a), finishes>> = <<succeeds(a), completes(a), finishes>>
    BY Tuple2, Tuple3
  <2>3. requestEnded(c, power.ended, Tail(todo), handled)
          = IF power.ended = "success" THEN <<succeeds(a)>> \o Tail(todo)
            ELSE <<fails(a)>> \o handled
    BY <1>3, <2>1 DEF requestEnded
  <2> QED BY <1>2, <1>4, <1>5, <2>2, <2>3
<1>7. power.requests = <<>> /\ power.ended = "success" => Done(a)
  BY <1>2 DEF Asked, Done
<1>8. Powering(a, todo)'
  BY <1>1, <1>5, <1>6, <1>7 DEF Powering, Done
<1> QED BY <1>1, <1>2, <1>8, PowerStep

\* A crash, or a result that is lost.
LEMMA AbandonPower == ASSUME IInv, PInv, Abandon PROVE PInv'
<1>1. todo # <<>> /\ todo' = <<>> /\ UNCHANGED <<subj, acts, run, power, callbacks, tower>>
  BY DEF Abandon, Continue, subject, anarchy, sandbox
<1>2. TodoFits'
  <2>1. <<>> \in Seq(Mild)
    OBVIOUS
  <2> QED BY <1>1, <2>1 DEF PInv, TodoFits, Powering
<1> QED BY <1>1, <1>2, QuietStep

\* The environment leaves what a handler is to do and the subject's state alone.
LEMMA BesidesStep ==
    ASSUME PInv, UNCHANGED <<acts, run, todo>>, subj'.state = subj.state,
           Jobless', Steady',
           \A a \in PowerActions : /\ Asked(a) => Asked(a)'
                                   /\ Done(a) => Done(a)'
    PROVE  PInv'
<1>1. run \in PowerRuns => run.name \in PowerActions
  BY DEF PowerRuns, ActionRun
<1>2. \A a \in PowerActions : Powering(a, todo) => Powering(a, todo)'
  BY DEF Powering
<1>3. /\ Provisioning(todo) => Provisioning(todo)'
      /\ \A a : Turning(a, todo) => Turning(a, todo)'
  BY DEF Provisioning, Turning
<1>4. TodoFits'
  BY <1>1, <1>2, <1>3 DEF PInv, TodoFits
<1> QED BY <1>4 DEF PInv

\* The user, the token and the placement.
LEMMA UserPower ==
    ASSUME IInv, PInv,
           PlacementMoves \/ TokenVanishes \/ EditJobVars \/ SetDesiredState \/ AskStatus \/ DeleteSubject
    PROVE  PInv'
<1>1. UNCHANGED <<acts, run, todo, power, callbacks, tower>> /\ subj'.state = subj.state
  BY UserKeeps
<1>2. Jobless' /\ Steady'
  BY <1>1 DEF PInv, Jobless, Steady, OnlyRequests
<1>3. \A a \in PowerActions : (Asked(a) => Asked(a)') /\ (Done(a) => Done(a)')
  BY <1>1 DEF Asked, Done
<1> QED BY <1>1, <1>2, <1>3, BesidesStep

\* The sandbox API ends a request: the last one leaves the placement as it was asked.
LEMMA RequestEndsPower == ASSUME IInv, PInv, RequestEnds PROVE PInv'
<1> DEFINE q == power.requests
<1>1. /\ UNCHANGED <<acts, run, todo, subj, callbacks, tower>> /\ q # <<>>
  BY DEF RequestEnds, subject, anarchy, runner
<1>2. /\ q \in Seq({"start", "stop"}) /\ power.on \in BOOLEAN
  BY QuietTypes
<1>3. /\ power'.requests = Tail(q)
      /\ power'.on = power.on \/ power'.on = (Head(q) = "start")
      /\ power'.ended = "success" => power'.on = (Head(q) = "start")
  <2> DEFINE on == Head(q) = "start"
  <2>1. \/ power' = [on |-> on, ended |-> "success", requests |-> Tail(q)]
        \/ \E b \in {power.on, on} : power' = [on |-> b, ended |-> "failed", requests |-> Tail(q)]
    BY DEF RequestEnds
  <2> HIDE DEF on
  <2>2. ASSUME power' = [on |-> on, ended |-> "success", requests |-> Tail(q)]
        PROVE  power'.requests = Tail(q) /\ power'.on = on
    BY <2>2
  <2>3. ASSUME NEW b \in {power.on, on}, power' = [on |-> b, ended |-> "failed", requests |-> Tail(q)]
        PROVE  power'.requests = Tail(q) /\ power'.on \in {power.on, on} /\ power'.ended # "success"
    BY <2>3
  <2> QED BY <2>1, <2>2, <2>3 DEF on
<1>4. ASSUME NEW a \in PowerActions PROVE (Asked(a) => Asked(a)') /\ (Done(a) => Done(a)')
  <2>1. CASE Tail(q) = <<>>
    <3> HIDE DEF q
    <3>1. Len(q) = 1 /\ Head(q) = q[Len(q)]
      <4>1. Len(Tail(q)) = Len(q) - 1 /\ Len(q) \in Nat
        BY <1>1, <1>2, HeadTailProperties
      <4>2. Len(Tail(q)) = 0
        BY <2>1, EmptySeq
      <4>3. Len(q) = 1
        BY <4>1, <4>2
      <4> QED BY <1>1, <1>2, <4>3
    <3> QED BY <1>1, <1>3, <2>1, <3>1 DEF Asked, Done, q
  <2>2. CASE Tail(q) # <<>>
    <3> HIDE DEF q
    <3>1. Tail(q)[Len(Tail(q))] = q[Len(q)]
      BY <1>1, <1>2, <2>2
    <3> QED BY <1>1, <1>3, <2>2, <3>1 DEF Asked, Done, q
  <2> QED BY <2>1, <2>2
<1>5. ASSUME NEW a \in PowerActions, OnlyRequests(a)
      PROVE  OnlyRequests(a)' /\ Head(q) = a
  BY <1>1, <1>2, <1>3, <1>5 DEF OnlyRequests
<1>6. Steady'
  <2>1. subj.state \notin Unprovisioned
    BY <1>1 DEF PInv, Steady
  <2>2. subj.state = Started => power'.on /\ OnlyRequests("start")'
    BY <1>2, <1>3, <1>5 DEF PInv, Steady, PowerActions
  <2>3. subj.state = Stopped => ~power'.on /\ OnlyRequests("stop")'
    BY <1>2, <1>3, <1>5 DEF PInv, Steady, PowerActions
  <2> HIDE DEF q
  <2> QED BY <1>1, <2>1, <2>2, <2>3 DEF PInv, Steady
<1>7. Jobless'
  BY <1>1 DEF PInv, Jobless
<1> QED BY <1>1, <1>4, <1>6, <1>7, BesidesStep

\* Only a status check has a job.
LEMMA JobEndsPower ==
    ASSUME IInv, PInv, Orphanless, NEW a \in Actions, JobEnds(a) \/ OrphanEnds(a) PROVE PInv'
<1>1. /\ UNCHANGED <<acts, run, todo, subj, power>>
      /\ \A b \in Actions \ {a} : tower'[b] = tower[b]
      /\ \/ callbacks' = callbacks
         \/ \E status \in JobStatuses : callbacks' = callbacks \cup {Callback(a, status)}
  BY EndFacts
<1>2. a = "status"
  <2>1. JobEnds(a) => tower[a].job = "running"
    BY DEF JobEnds
  <2>2. OrphanEnds(a) => orphans[a].running # 0
    BY OrphanEndFacts
  <2> QED BY <2>1, <2>2 DEF PInv, Jobless, Orphanless
<1>3. /\ \A b \in Actions \ {"status"} : tower'[b] = tower[b]
      /\ \A c \in callbacks' : c \in callbacks \/ c.name = "status"
  <2>1. \A status : Callback(a, status).name = "status"
    BY <1>2 DEF Callback
  <2> QED BY <1>1, <1>2, <2>1
<1>4. Jobless'
  BY <1>1, <1>3 DEF PInv, Jobless
<1>5. Steady'
  BY <1>1 DEF PInv, Steady, OnlyRequests
<1>6. \A b \in PowerActions : (Asked(b) => Asked(b)') /\ (Done(b) => Done(b)')
  BY <1>1 DEF Asked, Done
<1> QED BY <1>1, <1>4, <1>5, <1>6, BesidesStep

\* The states that matter are different ones.
LEMMA Apart ==
    /\ \A a \in PowerActions :
          Pending(a) \notin Unprovisioned \cup {Started, Stopped, DestroyComplete, KeepState}
    /\ Pending("start") # Pending("stop") /\ Started # Stopped
    /\ {Started, Stopped, DestroyComplete, KeepState} \cap Unprovisioned = {}
    /\ DestroyComplete \notin {Started, Stopped} /\ KeepState \notin {Started, Stopped, DestroyComplete}
BY DEF PowerActions, Pending, Unprovisioned, Started, Stopped, DestroyComplete, KeepState,
       NoState, Queued, Failure

\* A handler that provisions schedules the provision.
LEMMA ScheduleActionPower == ASSUME IInv, PInv, ScheduleAction PROVE PInv'
<1> DEFINE c == Head(todo)
<1>1. /\ todo # <<>> /\ c.op = "schedule"
      /\ UNCHANGED <<subj, run, power, callbacks, tower>>
      /\ Succeeds \/ TroubleWith(Repeated) \/ Trouble
  BY DEF ScheduleAction, At, Does, subject, sandbox
<1>2. \/ acts' = acts
      \/ \A b \in Actions : /\ b \in c.cancel /\ b # c.act => acts'[b] = 0
                            /\ b \notin c.cancel /\ b # c.act => acts'[b] = acts[b]
  <2>1. acts' = acts \/ acts' = Scheduled(c.act, c.cancel)
    BY DEF ScheduleAction, Does, anarchy
  <2>2. \A b \in Actions : /\ b \in c.cancel /\ b # c.act => Scheduled(c.act, c.cancel)[b] = 0
                           /\ b \notin c.cancel /\ b # c.act => Scheduled(c.act, c.cancel)[b] = acts[b]
    <3>1. \A b \in Actions : acts[b] \in Nat
      BY QuietTypes, LifecycleAssumption
    <3> HIDE DEF c
    <3> QED BY <3>1 DEF Scheduled
  <2> HIDE DEF c
  <2> QED BY <2>1, <2>2
<1>3. "start" \in Actions /\ "stop" \in Actions /\ "destroy" \in Actions /\ "update" \in Actions
  BY DEF Actions
<1>4. ASSUME NEW a \in PowerActions, Powering(a, todo) PROVE FALSE
  BY <1>1, <1>4, PoweringIs, PowerPatches, PowerRequests, CompletesIs
<1>5. todo # completeProvisionNoDeployer
  BY <1>1, CompletesMoves, CompletesIs
<1>6. run \notin PowerRuns
  BY <1>1, <1>4, Kinds
<1>7. ASSUME c.cancel = {}, c.act \in {"provision", "status"}
      PROVE  Jobless' /\ Steady'
  <2>1. \A b \in {"start", "stop", "destroy", "update"} : acts'[b] = acts[b]
    BY <1>2, <1>3, <1>7
  <2> QED BY <1>1, <2>1 DEF PInv, Jobless, Steady, OnlyRequests
<1>8. CASE todo \in Seq(Mild)
  <2>1. c.cancel = {} /\ c.act \in {"provision", "status"}
    BY <1>1, <1>8, MildMoves DEF Mild
  <2>2. todo' \in Seq(Mild)
    BY <1>1, <1>8, OrdinaryMoves
  <2> QED BY <1>1, <1>6, <1>7, <2>1, <2>2 DEF PInv, TodoFits
<1>9. CASE subj.state \in Unprovisioned /\ Provisional(todo)
  <2>1. c.cancel = {} /\ c.act \in {"provision", "status"}
    BY <1>1, <1>5, <1>9, ProvisionalMoves DEF Provisions
  <2>2. Provisional(todo')
    BY <1>1, <1>5, <1>9, OrdinaryMoves
  <2> QED BY <1>1, <1>6, <1>7, <1>9, <2>1, <2>2 DEF PInv, TodoFits, Provisioning
<1>10. ASSUME NEW a \in PowerActions, Turning(a, todo) PROVE PInv'
  <2>1. PICK m \in Seq(Mild) : todo = <<schedules(a)>> \o m /\ subj.state = Pending(a)
    <3>1. ASSUME NEW m \in Seq(Mild), todo = <<turns(a), schedules(a)>> \o m PROVE FALSE
      <4>1. c = turns(a)
        BY <3>1, TurningIs
      <4> QED BY <1>1, <4>1, TurnCalls
    <3> QED BY <1>10, <3>1 DEF Turning
  <2>2. /\ c = schedules(a) /\ Tail(todo) = m /\ todo \in Seq(Calls) /\ todo[1] = schedules(a)
        /\ Recovery(c, Tail(todo)) = <<>>
    <3> DEFINE s == <<schedules(a)>> \o m
    <3>1. /\ s \in Seq(Calls) /\ Head(s) = schedules(a) /\ s[1] = schedules(a) /\ Tail(s) = m
          /\ Recovery(schedules(a), Tail(s)) = <<>>
      BY TurningIs
    <3>2. todo = s
      BY <2>1
    <3> HIDE DEF s
    <3> QED BY <3>1, <3>2
  <2>3. c.act = a /\ c.cancel = PowerActions /\ c.patch.job = "keep"
    BY <2>2, TurnCalls, NoPatchIs
  <2>4. Repeated = todo
    BY <1>1, <2>2, <2>3, RepeatedSame
  <2>5. todo' \in {m, todo, <<>>}
    BY <1>1, <2>2, <2>4, Moves
  <2>6. TodoFits'
    <3>1. <<>> \in Seq(Mild)
      OBVIOUS
    <3>2. todo' = todo => Turning(a, todo)'
      BY <1>1, <1>10 DEF Turning
    <3> QED BY <1>1, <1>6, <2>5, <3>1, <3>2 DEF TodoFits
  <2>7. Jobless'
    <3>1. acts'["destroy"] = acts["destroy"] /\ acts'["update"] = acts["update"]
      BY <1>2, <1>3, <2>3 DEF PowerActions
    <3> QED BY <1>1, <3>1 DEF PInv, Jobless
  <2>8. Steady'
    <3>1. acts'["start"] = 0 \/ acts'["stop"] = 0
      BY <1>2, <1>3, <2>3 DEF PInv, Steady, PowerActions
    <3> QED BY <1>1, <2>1, <3>1, Apart DEF PInv, Steady
  <2> QED BY <2>6, <2>7, <2>8 DEF PInv
<1> QED BY <1>1, <1>4, <1>5, <1>8, <1>9, <1>10, Kinds

\* The result is posted.
LEMMA PostResultPower == ASSUME IInv, PInv, PostResult PROVE PInv'
<1>1. todo' = <<>> /\ run' = NoRun /\ UNCHANGED <<subj, tower, callbacks, power>>
  BY DEF PostResult, Continue, sandbox
<1>2. \A b \in Actions : acts[b] = 0 => acts'[b] = 0
  <2>1. acts' = acts \/ \E a \in Actions : acts' = Ended(a)
    <3>1. run.kind = "action" => run.name \in Actions
      BY DEF IInv, Sound, Types, EventRuns, ActionRuns, CallbackRuns, NoRun
    <3> QED BY <3>1 DEF PostResult
  <2>2. \A a \in Actions, b \in Actions : acts[b] = 0 => Ended(a)[b] = 0
    BY QuietTypes DEF Ended
  <2> QED BY <2>1, <2>2
<1>3. TodoFits'
  <2>1. NoRun \notin PowerRuns
    BY DEF NoRun, PowerRuns, ActionRun
  <2>2. <<>> \in Seq(Mild)
    OBVIOUS
  <2> QED BY <1>1, <2>1, <2>2 DEF TodoFits
<1>4. Jobless' /\ Steady'
  <2>1. \A b \in {"start", "stop", "destroy", "update"} : acts[b] = 0 => acts'[b] = 0
    BY <1>2 DEF Actions
  <2> QED BY <1>1, <2>1 DEF PInv, Jobless, Steady, OnlyRequests, NoRun
<1> QED BY <1>3, <1>4 DEF PInv

\* A patch moves the subject if it arrives, and is not gone past before it does.
LEMMA PatchFacts ==
    ASSUME IInv, SubjectUpdate
    PROVE  LET p == Head(todo).patch
               moved == IF p.state = KeepState THEN subj.state ELSE p.state
           IN  /\ todo # <<>> /\ Head(todo).op = "patch" /\ p \in Patches
               /\ UNCHANGED <<acts, run, power, callbacks>>
               /\ \/ subj'.state = moved /\ todo' = Tail(todo)
                  \/ /\ subj'.state \in {subj.state, moved}
                     /\ todo' \in {Repeated, todo, Recovery(Head(todo), Tail(todo))}
               /\ \A b \in Actions : b # p.job => tower'[b].job = tower[b].job
<1> DEFINE p == Head(todo).patch
           moved == IF p.state = KeepState THEN subj.state ELSE p.state
<1>1. todo # <<>> /\ Head(todo).op = "patch" /\ p \in Patches
  BY HeadOK DEF SubjectUpdate, At, Calls
<1>2. UNCHANGED <<acts, run, power, callbacks>>
  BY DEF SubjectUpdate, anarchy, sandbox
<1>3. /\ Apply(p) => /\ subj'.state = moved
                     /\ \A b \in Actions : b # p.job => tower'[b].job = tower[b].job
      /\ UNCHANGED <<subject, orphans>> => subj' = subj /\ tower' = tower
  <2> HIDE DEF p
  <2>1. Apply(p) => subj'.state = moved
    <3>1. Apply(p) => subj' = Merged(p)
      BY DEF Apply
    <3>2. Merged(p).state = moved
      BY <1>1, MergedType
    <3> HIDE DEF moved
    <3> QED BY <3>1, <3>2
  <2>2. Apply(p) => \A b \in Actions : b # p.job => tower'[b].job = tower[b].job
    BY <1>1, ApplyTower
  <2> QED BY <2>1, <2>2 DEF subject
<1> HIDE DEF p, moved
<1>4. \/ Apply(p) /\ todo' = Tail(todo)
      \/ Apply(p) /\ todo' \in {Repeated, Recovery(Head(todo), Tail(todo))}
      \/ UNCHANGED <<subject, orphans>> /\ todo' \in {todo, Recovery(Head(todo), Tail(todo))}
  BY DEF SubjectUpdate, Does, Succeeds, Trouble, TroubleWith, Continue, p
<1> QED BY <1>1, <1>2, <1>3, <1>4 DEF p, moved

\* A patch of a start or stop: the last one moves the subject to where the placement is.
LEMMA PatchPowering ==
    ASSUME IInv, PInv, SubjectUpdate, NEW a \in PowerActions, run = ActionRun(a), acts[a] > 0,
           Powering(a, todo)
    PROVE  PInv'
<1> DEFINE c == Head(todo)
           p == c.patch
           moved == IF p.state = KeepState THEN subj.state ELSE p.state
<1>1. /\ todo # <<>> /\ c.op = "patch" /\ UNCHANGED <<acts, run, power, callbacks>>
      /\ \/ subj'.state = moved /\ todo' = Tail(todo)
         \/ /\ subj'.state \in {subj.state, moved}
            /\ todo' \in {Repeated, todo, Recovery(c, Tail(todo))}
      /\ \A b \in Actions : b # p.job => tower'[b].job = tower[b].job
  BY PatchFacts
<1>2. /\ todo \in Seq(Calls) /\ Tail(todo) \in Seq(Calls) /\ c = todo[1]
      /\ \/ c = stamps(a) /\ Tail(todo) = <<powers(a), completes(a), finishes>>
         \/ c = fails(a) /\ Tail(todo) = <<finishes>>
         \/ Asked(a) /\ c = notes(a) /\ Tail(todo) = <<awaits(a), completes(a), finishes>>
         \/ Done(a) /\ c = notes(a) /\ Tail(todo) = <<completes(a), finishes>>
         \/ Done(a) /\ c = succeeds(a) /\ Tail(todo) = <<completes(a), finishes>>
         \/ Done(a) /\ c = completes(a) /\ Tail(todo) = <<finishes>>
  <2>1. powers(a).op = "power" /\ awaits(a).op = "await" /\ finishes.op = "post"
    BY PowerRequests, CompletesIs
  <2>2. c \notin {powers(a), awaits(a), finishes}
    BY <1>1, <2>1
  <2> HIDE DEF c
  <2> QED BY <1>1, <2>2, PoweringIs DEF c
<1> HIDE DEF c
<1>3. /\ p.job = "keep"
      /\ p.state = KeepState \/ (Done(a) /\ p.state = Target(a))
      /\ Recovery(c, Tail(todo)) \in {<<>>, <<fails(a), finishes>>, <<finishes>>}
  <2>1. Recovery(c, Tail(todo)) \in {<<>>, <<fails(a), finishes>>, <<finishes>>}
    <3>1. /\ Recovery(stamps(a), Tail(todo)) = <<>> /\ Recovery(completes(a), Tail(todo)) = <<>>
          /\ Recovery(notes(a), Tail(todo)) = <<fails(a), finishes>>
          /\ Recovery(succeeds(a), Tail(todo)) = <<finishes>>
          /\ Recovery(fails(a), Tail(todo)) = Tail(todo)
      BY <1>2, PowerRecovery
    <3> QED BY <1>2, <3>1
  <2> QED BY <1>2, <2>1, PowerPatches, PowerRequests
<1>4. Repeated = todo
  BY <1>1, <1>2, <1>3, RepeatedSame
<1>5. Powering(a, todo)'
  <2>1. Powering(a, todo')
    BY <1>1, <1>2, <1>3, <1>4 DEF Powering
  <2>2. (Asked(a) <=> Asked(a)') /\ (Done(a) <=> Done(a)')
    BY <1>1 DEF Asked, Done
  <2> QED BY <2>1, <2>2 DEF Powering
<1>6. subj'.state = subj.state \/ (Done(a) /\ subj'.state = Target(a))
  BY <1>1, <1>3
<1>7. Steady'
  <2>1. subj'.state = subj.state => Steady'
    BY <1>1 DEF PInv, Steady, OnlyRequests
  <2>2. ASSUME Done(a), subj'.state = Target(a) PROVE Steady'
    <3>1. a = "start" => acts["stop"] = 0
      BY DEF PInv, Steady
    <3>2. a = "stop" => acts["start"] = 0
      BY DEF PInv, Steady
    <3>3. power.requests = <<>> => OnlyRequests("start")' /\ OnlyRequests("stop")'
      BY <1>1 DEF OnlyRequests
    <3> QED BY <1>1, <2>2, <3>1, <3>2, <3>3, Apart DEF PInv, Steady, Target, Done, PowerActions
  <2> QED BY <1>6, <2>1, <2>2
<1>8. Jobless'
  BY <1>1, <1>3 DEF PInv, Jobless, Actions
<1>9. TodoFits'
  BY <1>1, <1>5 DEF TodoFits, PowerRuns, ActionRun
<1> QED BY <1>7, <1>8, <1>9 DEF PInv

\* A patch of a handler that turns the subject on or off.
LEMMA PatchTurning ==
    ASSUME IInv, PInv, SubjectUpdate, NEW a \in PowerActions, run \notin PowerRuns,
           Turning(a, todo)
    PROVE  PInv'
<1> DEFINE c == Head(todo)
           p == c.patch
           moved == IF p.state = KeepState THEN subj.state ELSE p.state
<1>1. /\ todo # <<>> /\ c.op = "patch" /\ UNCHANGED <<acts, run, power, callbacks>>
      /\ \/ subj'.state = moved /\ todo' = Tail(todo)
         \/ /\ subj'.state \in {subj.state, moved}
            /\ todo' \in {Repeated, todo, Recovery(c, Tail(todo))}
      /\ \A b \in Actions : b # p.job => tower'[b].job = tower[b].job
  BY PatchFacts
<1> HIDE DEF c
<1>2. PICK m \in Seq(Mild) :
        /\ todo = <<turns(a), schedules(a)>> \o m
        /\ subj.state \in {Started, Stopped, Pending(a)}
  <2>1. ASSUME NEW m \in Seq(Mild), todo = <<schedules(a)>> \o m PROVE FALSE
    <3>1. c = schedules(a)
      BY <2>1, TurningIs DEF c
    <3> QED BY <1>1, <3>1, TurnCalls
  <2> QED BY <2>1 DEF Turning
<1>3. /\ c = turns(a) /\ todo[1] = turns(a) /\ todo \in Seq(Calls)
      /\ Tail(todo) = <<schedules(a)>> \o m /\ Recovery(c, Tail(todo)) = <<>>
  <2> DEFINE s == <<turns(a), schedules(a)>> \o m
  <2>1. /\ s \in Seq(Calls) /\ Head(s) = turns(a) /\ s[1] = turns(a)
        /\ Tail(s) = <<schedules(a)>> \o m
    BY TurningIs
  <2>2. \A rest : Recovery(turns(a), rest) = <<>>
    BY TurningIs
  <2>3. todo = s
    BY <1>2
  <2> HIDE DEF s
  <2> QED BY <2>1, <2>2, <2>3 DEF c
<1>4. p.job = "keep" /\ p.state = Pending(a)
  BY <1>3, TurnCalls
<1>5. Repeated = todo
  BY <1>1, <1>3, <1>4, RepeatedSame
<1>6. moved = Pending(a)
  BY <1>4, Apart
<1>7. TodoFits'
  <2>1. CASE subj'.state = Pending(a) /\ todo' = <<schedules(a)>> \o m
    BY <1>1, <2>1 DEF TodoFits, Turning
  <2>2. CASE todo' = todo
    BY <1>1, <1>2, <1>6, <2>2 DEF TodoFits, Turning
  <2>3. CASE todo' = <<>>
    <3>1. <<>> \in Seq(Mild)
      OBVIOUS
    <3> QED BY <1>1, <2>3, <3>1 DEF TodoFits
  <2> QED BY <1>1, <1>3, <1>5, <1>6, <2>1, <2>2, <2>3
<1>8. Steady'
  <2>1. subj'.state = subj.state \/ subj'.state = Pending(a)
    BY <1>1, <1>6
  <2>2. OnlyRequests("start")' = OnlyRequests("start") /\ OnlyRequests("stop")' = OnlyRequests("stop")
    BY <1>1 DEF OnlyRequests
  <2> QED BY <1>1, <2>1, <2>2, Apart DEF PInv, Steady, PowerActions
<1>9. Jobless'
  BY <1>1, <1>4 DEF PInv, Jobless, Actions
<1> QED BY <1>7, <1>8, <1>9 DEF PInv

\* A patch of a handler that neither provisions nor starts nor stops.
LEMMA PatchMild ==
    ASSUME IInv, PInv, SubjectUpdate, run \notin PowerRuns, todo \in Seq(Mild)
    PROVE  PInv'
<1> DEFINE p == Head(todo).patch
           moved == IF p.state = KeepState THEN subj.state ELSE p.state
<1>1. /\ todo # <<>> /\ Head(todo).op = "patch" /\ UNCHANGED <<acts, run, power, callbacks>>
      /\ subj'.state \in {subj.state, moved}
      /\ todo' \in {Tail(todo), Repeated, todo, Recovery(Head(todo), Tail(todo))}
      /\ \A b \in Actions : b # p.job => tower'[b].job = tower[b].job
  BY PatchFacts
<1>2. p.job \in {"keep", "status"} /\ p.state \in {KeepState, DestroyComplete}
  BY <1>1, MildMoves DEF Mild
<1>3. todo' \in Seq(Mild)
  BY <1>1, MildMoves
<1>4. TodoFits'
  BY <1>1, <1>3 DEF TodoFits
<1>5. Steady'
  <2>1. subj'.state = subj.state \/ subj'.state = DestroyComplete
    BY <1>1, <1>2
  <2>2. OnlyRequests("start")' = OnlyRequests("start") /\ OnlyRequests("stop")' = OnlyRequests("stop")
    BY <1>1 DEF OnlyRequests
  <2> QED BY <1>1, <2>1, <2>2, Apart DEF PInv, Steady
<1>6. Jobless'
  BY <1>1, <1>2 DEF PInv, Jobless, Actions
<1> QED BY <1>4, <1>5, <1>6 DEF PInv

\* A patch of a handler that provisions: the subject is started from where its
\* placement has not been stopped.
LEMMA PatchProvisional ==
    ASSUME IInv, PInv, SubjectUpdate, run \notin PowerRuns,
           \/ subj.state \in Unprovisioned /\ Provisional(todo) /\ todo # completeProvisionNoDeployer
           \/ subj.state \in Unprovisioned \cup {Started} /\ todo = completeProvisionNoDeployer
    PROVE  PInv'
<1> DEFINE p == Head(todo).patch
           moved == IF p.state = KeepState THEN subj.state ELSE p.state
<1>1. /\ todo # <<>> /\ Head(todo).op = "patch" /\ UNCHANGED <<acts, run, power, callbacks>>
      /\ subj'.state \in {subj.state, moved}
      /\ todo' \in {Tail(todo), Repeated, todo, Recovery(Head(todo), Tail(todo))}
      /\ \A b \in Actions : b # p.job => tower'[b].job = tower[b].job
  BY PatchFacts
<1>2. OnlyRequests("start")' = OnlyRequests("start") /\ OnlyRequests("stop")' = OnlyRequests("stop")
  BY <1>1 DEF OnlyRequests
<1>3. CASE subj.state \in Unprovisioned /\ Provisional(todo) /\ todo # completeProvisionNoDeployer
  <2>1. p.job = "keep" /\ p.state \in Unprovisioned \cup {KeepState}
    BY <1>1, <1>3, ProvisionalMoves DEF Provisions
  <2>2. Provisional(todo') /\ subj'.state \in Unprovisioned
    BY <1>1, <1>3, <2>1, ProvisionalMoves
  <2>3. TodoFits'
    BY <1>1, <2>2 DEF TodoFits, Provisioning
  <2>4. Steady'
    BY <1>1, <1>2, <1>3, <2>2, Apart DEF PInv, Steady
  <2>5. Jobless'
    BY <1>1, <2>1 DEF PInv, Jobless, Actions
  <2> QED BY <2>3, <2>4, <2>5 DEF PInv
<1>4. CASE subj.state \in Unprovisioned \cup {Started} /\ todo = completeProvisionNoDeployer
  <2>1. /\ p.job = "keep" /\ p.state = Started
        /\ Repeated = todo /\ Tail(todo) \in Seq(Mild) /\ Recovery(Head(todo), Tail(todo)) \in Seq(Mild)
    BY <1>4, CompletesMoves, CompletesIs
  <2>2. subj'.state \in {subj.state, Started} /\ (todo' = todo \/ todo' \in Seq(Mild))
    BY <1>1, <2>1
  <2>3. Provisional(completeProvisionNoDeployer)
    <3>1. <<>> \in Seq(Provisions) /\ completeProvisionNoDeployer \in Seq(Calls)
      BY CompletesIs
    <3>2. completeProvisionNoDeployer = <<>> \o completeProvisionNoDeployer
      BY <3>1, ConcatEmptySeq
    <3> QED BY <3>1, <3>2 DEF Provisional
  <2>4. TodoFits'
    BY <1>1, <1>4, <2>2, <2>3 DEF TodoFits, Provisioning
  <2>5. Steady'
    <3>1. subj.state \in Unprovisioned => OnlyRequests("start")
      BY DEF PInv, Steady, OnlyRequests
    <3> QED BY <1>1, <1>2, <1>4, <2>2, <3>1, Apart DEF PInv, Steady
  <2>6. Jobless'
    BY <1>1, <2>1 DEF PInv, Jobless, Actions
  <2> QED BY <2>4, <2>5, <2>6 DEF PInv
<1> QED BY <1>3, <1>4

\* A patch: the state it says agrees with the power of the placement.
LEMMA SubjectUpdatePower == ASSUME IInv, PInv, SubjectUpdate PROVE PInv'
<1>1. todo # <<>>
  BY DEF SubjectUpdate, At
<1> QED BY <1>1, Kinds, PatchMild, PatchProvisional, PatchTurning, PatchPowering

\* An update event turns the subject on or off, or leaves it alone.
LEMMA UpdateEventPower ==
    ASSUME NoDeployer, NEW s, s.state \in SubjectStates
    PROVE  \/ handleEventUpdate(s) \in Seq(Mild)
           \/ \E a \in PowerActions, m \in Seq(Mild) :
                 /\ s.state \in {Started, Stopped}
                 /\ handleEventUpdate(s) = <<turns(a), schedules(a)>> \o m
<1> DEFINE a == determineUpdateAction(s)
           check == IF "status" \in GovActions /\ shouldScheduleStatus(s) THEN scheduleStatusCheck
                    ELSE <<>>
           m == check \o Post("none")
<1>1. check \in Seq(Mild) /\ Post("none") \in Seq(Mild) /\ m \in Seq(Mild)
  <2>1. check \in Seq(Mild) /\ Post("none") \in Seq(Mild)
    BY StatusIsMild, MildPost
  <2> HIDE DEF check
  <2> QED BY <2>1, Concat
<1>2. a \in {"update", "start", "stop", "none"} /\ (a \in PowerActions => s.state \in {Started, Stopped})
  BY DEF determineUpdateAction, PowerActions
<1>3. handleEventUpdate(s) = (IF a \in GovActions THEN scheduleUpdateAction(a) ELSE <<>>)
                             \o check \o Post("none")
  BY DEF handleEventUpdate
<1> HIDE DEF a, check, m
<1>4. CASE a \in PowerActions /\ a \in GovActions
  <2>1. scheduleUpdateAction(a) = <<turns(a), schedules(a)>>
    BY <1>4 DEF scheduleUpdateAction, turns, schedules, PowerActions
  <2>2. <<turns(a), schedules(a)>> \in Seq(Calls) /\ check \in Seq(Calls) /\ Post("none") \in Seq(Calls)
    BY <1>1, <1>4, TurnCalls DEF Mild
  <2>3. handleEventUpdate(s) = <<turns(a), schedules(a)>> \o m
    BY <1>3, <1>4, <2>1, <2>2, ConcatAssociative DEF m
  <2> QED BY <1>1, <1>2, <1>4, <2>3
<1>5. CASE ~(a \in PowerActions /\ a \in GovActions)
  <2>1. a \notin GovActions
    BY <1>2, <1>5, GovernorAssumption DEF NoDeployer, PowerActions, Actions
  <2>2. handleEventUpdate(s) = <<>> \o check \o Post("none")
    BY <1>3, <2>1
  <2>3. <<>> \o check \in Seq(Mild)
    BY <1>1, ConcatEmptySeq
  <2> QED BY <1>1, <2>2, <2>3, Concat
<1> QED BY <1>4, <1>5

\* A delete event finds no job, so the subject is deleted without one.
LEMMA DeleteEventPower ==
    ASSUME NEW s, ~s.provisioned PROVE handleEventDelete(s) \in Seq(Mild)
<1>1. <<Call("cancel", "all", "ignore")>> \in Seq(Mild)
  BY MildCall
<1>2. sandboxCleanup(s) \in Seq(Mild)
  BY MildCall DEF sandboxCleanup
<1>3. <<Patch([NoPatch EXCEPT !.state = DestroyComplete, !.desired = "destroyed"])>> \in Seq(Mild)
  <2> DEFINE p == [NoPatch EXCEPT !.state = DestroyComplete, !.desired = "destroyed"]
  <2>1. p \in Patches /\ p.state = DestroyComplete /\ p.job = "keep" /\ p.request = "keep"
    BY States DEF NoPatch, Patches
  <2> HIDE DEF p
  <2>2. <<Patch(p)>> \in Seq(Mild)
    BY <2>1, MildPatch
  <2> QED BY <2>2 DEF p
<1>4. handleEventDeleteWithoutDestroy(s) \in Seq(Mild)
  <2> DEFINE first == IF SandboxInUse /\ CatchAll /\ s.uuid THEN sandboxCleanup(s) ELSE <<>>
             second == <<Patch([NoPatch EXCEPT !.state = DestroyComplete, !.desired = "destroyed"])>>
  <2>1. first \in Seq(Mild) /\ second \in Seq(Mild) /\ Post("delete") \in Seq(Mild)
    BY <1>2, <1>3, MildPost
  <2>2. handleEventDeleteWithoutDestroy(s) = first \o second \o Post("delete")
    BY DEF handleEventDeleteWithoutDestroy
  <2> HIDE DEF first, second
  <2> QED BY <2>1, <2>2, Concat
<1>5. handleEventDelete(s) = <<Call("cancel", "all", "ignore")>> \o handleEventDeleteWithoutDestroy(s)
  BY DEF handleEventDelete
<1> QED BY <1>1, <1>4, <1>5, Concat

\* A create event of a subject that is past its provision only schedules it once more.
LEMMA CreateEventPower ==
    ASSUME NEW s, s.state # NoState PROVE handleEventCreate(s) \in Seq(Mild)
<1>1. <<Schedule("provision", {})>> \in Seq(Mild)
  <2>1. Schedule("provision", {}) \in Mild
    BY NoPatchIs DEF Schedule, Call, Mild, Calls, Actions
  <2> QED BY <2>1, Singleton
<1>2. handleEventCreate(s) = <<>> \o <<Schedule("provision", {})>> \o Post("none")
  BY DEF handleEventCreate
<1>3. <<>> \o <<Schedule("provision", {})>> = <<Schedule("provision", {})>>
  BY <1>1, ConcatEmptySeq
<1> QED BY <1>1, <1>2, <1>3, MildPost, Concat

\* The handler that is dispatched fits the state it finds.
LEMMA DispatchRunPower ==
    ASSUME IInv, NoDeployer, PInv, NEW r, DispatchRun(r) PROVE PInv'
<1>1. r \in EventRuns \cup ActionRuns \cup CallbackRuns
  BY DispatchedRun
<1>2. /\ run' = r /\ todo' = Dispatch(r, Payload) /\ todo = <<>>
      /\ callbacks' \subseteq callbacks
      /\ UNCHANGED <<subj, tower, acts, power>>
      /\ r \in Waiting \/ r = run
  BY DEF DispatchRun
<1>3. /\ r.kind = "callback" => r \in callbacks \cup {run}
      /\ r.kind = "action" => r = run \/ acts[r.name] > 0
  BY <1>2 DEF Waiting, CallbackRuns, IInv, Sound, Types
<1>4. /\ r.kind = "callback" => r.name = "status"
      /\ r.kind = "action" => r.name \notin {"destroy", "update"}
  <2>1. r.kind = "callback" => r.name = "status"
    BY <1>3 DEF PInv, Jobless
  <2>2. r.kind = "action" => r.name \notin {"destroy", "update"}
    BY <1>3 DEF PInv, Jobless
  <2> QED BY <2>1, <2>2
<1>5. Jobless'
  BY <1>2, <1>4 DEF PInv, Jobless
<1>6. Steady'
  BY <1>2 DEF PInv, Steady, OnlyRequests
<1>7. /\ Payload.state = subj.state /\ Payload.state \in SubjectStates
      /\ ~Payload.provisioned
  BY DEF Payload, PayloadOf, IInv, Sound, Types, PInv, Jobless, Actions
<1>8. CASE r \in PowerRuns
  <2>1. PICK a \in PowerActions : r = ActionRun(a)
    BY <1>8 DEF PowerRuns
  <2>2. acts[a] > 0
    BY <1>3, <1>8, <2>1 DEF PInv, TodoFits, ActionRun
  <2>3. Payload.state # Running(a)
    <3>1. Running(a) \notin Unprovisioned \cup {Started, Stopped, Pending("start"), Pending("stop"), DestroyComplete}
      BY DEF Running, Unprovisioned, Started, Stopped, Pending, DestroyComplete, NoState, Queued,
             Failure, PowerActions
    <3> QED BY <1>7, <3>1 DEF PInv, Steady
  <2>4. todo' = <<stamps(a), powers(a), completes(a), finishes>>
    <3>1. /\ a = "start" => Dispatch(r, Payload) = handleStart(Payload)
          /\ a = "stop" => Dispatch(r, Payload) = handleStop(Payload)
      BY <2>1 DEF Dispatch, ActionRun
    <3> QED BY <1>2, <2>3, <3>1, PowerHandlers DEF PowerActions
  <2>5. Powering(a, todo)'
    BY <2>4 DEF Powering
  <2> QED BY <1>2, <1>5, <1>6, <2>1, <2>2, <2>5 DEF PInv, TodoFits, PowerRuns, ActionRun
<1>9. CASE r \in EventRuns
  <2>1. r \notin PowerRuns
    BY <1>9 DEF EventRuns, PowerRuns, ActionRun
  <2>2. CASE r.name = "create"
    <3>1. todo' = handleEventCreate(Payload)
      BY <1>2, <1>9, <2>2 DEF Dispatch, EventRuns
    <3>2. CASE subj.state \in Unprovisioned
      BY <1>2, <1>5, <1>6, <2>1, <3>1, <3>2, ProvisionHandlers DEF PInv, TodoFits, Provisioning
    <3>3. CASE subj.state \notin Unprovisioned
      <4>1. todo' \in Seq(Mild)
        BY <1>7, <3>1, <3>3, CreateEventPower DEF Unprovisioned
      <4> QED BY <1>2, <1>5, <1>6, <2>1, <4>1 DEF PInv, TodoFits
    <3> QED BY <3>2, <3>3
  <2>3. CASE r.name = "update"
    <3>1. todo' = handleEventUpdate(Payload)
      BY <1>2, <1>9, <2>3 DEF Dispatch, EventRuns
    <3>2. CASE todo' \in Seq(Mild)
      BY <1>2, <1>5, <1>6, <2>1, <3>2 DEF PInv, TodoFits
    <3>3. ASSUME NEW a \in PowerActions, NEW m \in Seq(Mild), subj.state \in {Started, Stopped},
                 todo' = <<turns(a), schedules(a)>> \o m
          PROVE  PInv'
      <4>1. Turning(a, todo)'
        BY <1>2, <3>3 DEF Turning
      <4> QED BY <1>2, <1>5, <1>6, <2>1, <4>1 DEF PInv, TodoFits
    <3> QED BY <1>7, <3>1, <3>2, <3>3, UpdateEventPower
  <2>4. CASE r.name = "delete"
    <3>1. todo' = handleEventDelete(Payload)
      BY <1>2, <1>9, <2>4 DEF Dispatch, EventRuns
    <3> QED BY <1>2, <1>5, <1>6, <1>7, <2>1, <3>1, DeleteEventPower DEF PInv, TodoFits
  <2> QED BY <1>9, <2>2, <2>3, <2>4 DEF EventRuns
<1>10. CASE r \in ActionRuns /\ r \notin PowerRuns
  <2>1. r.name \in {"provision", "status"}
    <3>1. r.name \notin PowerActions
      BY <1>10 DEF ActionRuns, PowerRuns, ActionRun
    <3> QED BY <1>4, <1>10, <3>1 DEF ActionRuns, Actions, PowerActions
  <2>2. CASE r.name = "status"
    <3>1. todo' = handleStatus(Payload)
      BY <1>2, <1>10, <2>2 DEF Dispatch, ActionRuns
    <3> QED BY <1>2, <1>5, <1>6, <1>10, <3>1, StatusIsMild DEF PInv, TodoFits
  <2>3. CASE r.name = "provision"
    <3>1. todo' = handleProvision(Payload)
      BY <1>2, <1>10, <2>3 DEF Dispatch, ActionRuns
    <3>2. \/ subj.state \in Unprovisioned /\ Provisional(todo')
          \/ todo' \in Seq(Mild)
      <4>1. "provision" \in Disabled
        BY DEF NoDeployer
      <4>2. \/ subj.state \in Unprovisioned
               /\ todo' \in {runProvision(Payload), checkProvisionQueue(Payload)}
            \/ todo' = Post("none")
        BY <1>7, <3>1, <4>1 DEF handleProvision, Unprovisioned
      <4>3. Provisional(runProvision(Payload)) /\ Provisional(checkProvisionQueue(Payload))
        BY ProvisionHandlers
      <4> QED BY <4>2, <4>3, MildPost
    <3> QED BY <1>2, <1>5, <1>6, <1>10, <3>2 DEF PInv, TodoFits, Provisioning
  <2> QED BY <2>1, <2>2, <2>3
<1>11. CASE r \in CallbackRuns
  <2>1. r \notin PowerRuns /\ r.status \in JobStatuses
    BY <1>11 DEF CallbackRuns, PowerRuns, ActionRun
  <2>2. todo' = handleCallback("status", r.status, Payload)
    BY <1>2, <1>4, <1>11 DEF Dispatch, CallbackRuns
  <2> QED BY <1>2, <1>5, <1>6, <2>1, <2>2, StatusIsMild DEF PInv, TodoFits
<1> QED BY <1>1, <1>8, <1>9, <1>10, <1>11

\* No job but one of status is launched.
LEMMA OrphanlessNext == ASSUME IInv, PInv, Orphanless, [Next]_vars PROVE Orphanless'
<1> SUFFICES ASSUME NEW a \in Actions \ {"status"} PROVE orphans'[a].running = 0
  BY DEF Orphanless
<1>1. a \in Actions /\ orphans[a].running = 0 /\ tower[a].job = "none" /\ DOMAIN orphans = Actions
  BY DEF Orphanless, PInv, Jobless, IInv, Counted
<1>2. CASE SubjectUpdate
  <2>1. Recorded(a).running = 0
    BY <1>1 DEF Recorded
  <2>2. orphans'[a] \in {orphans[a], Recorded(a)}
    BY <1>1, <1>2 DEF SubjectUpdate, Does, Apply
  <2> QED BY <1>1, <2>1, <2>2
<1>3. CASE LaunchJob
  <2>1. todo # <<>> /\ Head(todo).op = "launch"
    BY <1>3 DEF LaunchJob, At
  <2>2. Head(todo).act = "status"
    BY <2>1, KindOf, MildMoves, ProvisionalMoves DEF Mild, Provisions
  <2> QED BY <1>1, <1>3, <2>2 DEF LaunchJob, Does
<1>4. ASSUME NEW b \in Actions, JobEnds(b) \/ OrphanEnds(b) PROVE orphans'[a].running = 0
  <2>1. CASE JobEnds(b)
    BY <1>1, <2>1 DEF JobEnds
  <2>2. CASE OrphanEnds(b)
    BY <1>1, <2>2, OrphanEndFacts
  <2> QED BY <1>4, <2>1, <2>2
<1>5. CASE HandlerStep \/ Abandon
  <2>1. CASE orphans' = orphans
    BY <1>1, <2>1
  <2> QED BY <1>2, <1>3, <1>5, <2>1
          DEF HandlerStep, Abandon, ScheduleAction, CancelJobs, PollJob, GetPlacement, GetBooked, CheckQueue,
              BookPlacement, PowerPlacement, AwaitRequest, ReleasePlacement, PostResult
<1>6. CASE DispatchNext \/ UNCHANGED vars
  BY <1>1, <1>6 DEF DispatchNext, DispatchRun, vars
<1>7. CASE Environment
  <2>1. CASE orphans' = orphans
    BY <1>1, <2>1
  <2> QED BY <1>4, <1>7, <2>1
          DEF Environment, PlacementMoves, RequestEnds, TokenVanishes, EditJobVars, SetDesiredState,
              AskStatus, DeleteSubject, Request
<1> QED BY <1>5, <1>6, <1>7 DEF Next

\* Every step keeps PInv.
LEMMA PowerNext ==
    ASSUME NoDeployer PROVE IInv /\ PInv /\ Orphanless /\ [Next]_vars => PInv' /\ Orphanless'
<1> SUFFICES ASSUME IInv, PInv, Orphanless, [Next]_vars PROVE PInv'
  BY OrphanlessNext
<1>1. CASE HandlerStep
  BY <1>1, SubjectUpdatePower, ScheduleActionPower, LaunchCancelReleasePower, PollJobPower,
     GetPlacementPower, BookingPower, PowerPlacementPower, AwaitRequestPower, PostResultPower
     DEF HandlerStep
<1>2. CASE DispatchNext
  BY <1>2, DispatchRunPower DEF DispatchNext
<1>3. CASE Environment
  BY <1>3, JobEndsPower, RequestEndsPower, UserPower DEF Environment
<1>4. CASE UNCHANGED vars
  <2>1. UNCHANGED <<subj, acts, run, power, callbacks, tower, todo>>
    BY <1>4 DEF vars
  <2>2. Jobless' /\ Steady'
    BY <2>1 DEF PInv, Jobless, Steady, OnlyRequests
  <2>3. \A a \in PowerActions : (Asked(a) => Asked(a)') /\ (Done(a) => Done(a)')
    BY <2>1 DEF Asked, Done
  <2> QED BY <2>1, <2>2, <2>3, BesidesStep
<1> QED BY <1>1, <1>2, <1>3, <1>4, AbandonPower DEF Next

\* The initial state.
LEMMA PowerInit == Init => PInv /\ Orphanless
<1>0. Init => Orphanless
  BY DEF Init, Orphanless, Actions
<1> SUFFICES ASSUME Init PROVE PInv
  BY <1>0
<1>1. Jobless
  <2>1. \A a \in Actions : tower[a].job = "none" /\ acts[a] = 0
    BY DEF Init, NoJobs
  <2> QED BY <2>1 DEF Init, Jobless, NoRun, Actions
<1>2. Steady
  <2>1. subj.state = NoState /\ acts["start"] = 0 /\ acts["stop"] = 0
    BY DEF Init, NewSubject, Actions
  <2> QED BY <2>1, Apart DEF Init, Steady, Unprovisioned
<1>3. TodoFits
  <2>1. NoRun \notin PowerRuns
    BY DEF NoRun, PowerRuns, ActionRun
  <2>2. <<>> \in Seq(Mild)
    OBVIOUS
  <2> QED BY <2>1, <2>2 DEF Init, TodoFits
<1> QED BY <1>1, <1>2, <1>3 DEF PInv

\* The invariant of the power holds throughout.
LEMMA PowerInvariance == ASSUME NoDeployer PROVE Spec => []PInv
<1>1. Init => IInv /\ PInv /\ Orphanless
  BY InitOK, PowerInit
<1>2. IInv /\ PInv /\ Orphanless /\ [Next]_vars => (IInv /\ PInv /\ Orphanless)'
  BY NextOK, PowerNext
<1> QED BY <1>1, <1>2, PTL DEF Spec

\* With the deployer disabled and the sandbox API used for it, the subject is started or
\* stopped only when its placement is, and whatever the sandbox API has still to carry out
\* leaves it there: whichever calls fail, are repeated or cut off, whenever a pod dies,
\* and although the API answers before it has carried out what it was asked.
THEOREM PowerIsFollowed == ASSUME NoDeployer PROVE Spec => []PowerFollowsState
<1>1. PInv => PowerFollowsState
  BY DEF PInv, Steady, PowerFollowsState
<1> QED BY <1>1, PowerInvariance, PTL

(***************************************************************************)
(* The trace of a start or stop that failed.                               *)
(***************************************************************************)
\* Every step keeps the token the payload has.
LEMMA TokensKept ==
    ASSUME ~TokenMayVanish, Tokens, [Next]_vars PROVE Tokens'
<1>1. CASE HandlerStep \/ Abandon
  BY <1>1, SnapKept DEF Tokens
<1>2. ASSUME NEW r, DispatchRun(r) PROVE Tokens'
  BY <1>2 DEF DispatchRun, Tokens, Payload, PayloadOf
<1>3. CASE Environment
  <2>1. UNCHANGED <<token, todo, snap>>
    <3>1. \A a : JobEnds(a) \/ OrphanEnds(a) => UNCHANGED <<token, todo, snap>>
      BY DEF JobEnds, OrphanEnds, JobEnded, runner
    <3>2. PlacementMoves \/ RequestEnds \/ DeleteSubject => UNCHANGED <<token, todo, snap>>
      BY DEF PlacementMoves, RequestEnds, DeleteSubject, runner
    <3>3. EditJobVars \/ SetDesiredState \/ AskStatus => UNCHANGED <<token, todo, snap>>
      BY DEF EditJobVars, SetDesiredState, AskStatus, Request, runner
    <3> QED BY <1>3, <3>1, <3>2, <3>3 DEF Environment, TokenVanishes
  <2> QED BY <2>1 DEF Tokens
<1>4. CASE UNCHANGED vars
  BY <1>4 DEF vars, Tokens
<1> QED BY <1>1, <1>2, <1>3, <1>4 DEF Next, DispatchNext

\* A step that neither moves the subject nor schedules anything.
LEMMA TracksStay ==
    ASSUME Tracks, subj'.state = subj.state, UNCHANGED <<acts, run>>,
           \A b \in Actions : tower'[b].request = tower[b].request,
           \/ todo' = todo
           \/ /\ todo = <<>> \/ Head(todo).op # "schedule"
              /\ run \in PowerRuns => todo' # <<finishes>>
    PROVE  Tracks'
<1> SUFFICES ASSUME NEW a \in PowerActions
             PROVE  /\ Left(a)' \/ acts'[a] > 0 \/ (todo' # <<>> /\ Head(todo') = schedules(a))
                    /\ run' = ActionRun(a) /\ todo' = <<finishes>> => Left(a)'
  BY DEF Tracks
<1>1. a \in Actions /\ (Left(a)' <=> Left(a))
  BY DEF Left, PowerActions, Actions
<1>2. schedules(a).op = "schedule"
  BY TurnCalls
<1>3. run = ActionRun(a) => run \in PowerRuns
  BY DEF PowerRuns
<1> QED BY <1>1, <1>2, <1>3 DEF Tracks

\* A call for anything but starting and stopping.
LEMMA OrdinaryTrack ==
    ASSUME PInv, Tracks,
           LaunchJob \/ CancelJobs \/ ReleasePlacement \/ PollJob \/ GetPlacement \/ GetBooked
              \/ CheckQueue \/ BookPlacement
    PROVE  Tracks'
<1>1. /\ todo # <<>> /\ Head(todo).op \notin {"patch", "schedule", "power", "await", "post"}
      /\ UNCHANGED <<subj, acts, run>>
  BY DEF LaunchJob, CancelJobs, ReleasePlacement, PollJob, GetPlacement, GetBooked, CheckQueue,
         BookPlacement, At, subject, anarchy
<1>2. \A b \in Actions : tower'[b].request = tower[b].request
  <2>1. CASE CancelJobs
    <3>1. tower' = tower \/ tower' = Canceled(Head(todo).act)
      BY <2>1 DEF CancelJobs, Does
    <3>2. \A x : \A b \in Actions : Canceled(x)[b].request = tower[b].request
      BY DEF Canceled
    <3> QED BY <3>1, <3>2
  <2>2. CASE ~CancelJobs
    BY <2>2 DEF LaunchJob, ReleasePlacement, PollJob, GetPlacement, GetBooked, CheckQueue,
                BookPlacement, subject
  <2> QED BY <2>1, <2>2
<1>3. run \notin PowerRuns
  BY <1>1, KindOf
<1> QED BY <1>1, <1>2, <1>3, TracksStay

\* A request that is made, and one that fails, is followed by the patch that notes it.
LEMMA LongPrograms ==
    ASSUME NEW a \in PowerActions
    PROVE  <<finishes>> \notin {<<notes(a), awaits(a), completes(a), finishes>>,
                                <<notes(a), completes(a), finishes>>,
                                <<succeeds(a), completes(a), finishes>>, <<fails(a), finishes>>,
                                <<stamps(a), powers(a), completes(a), finishes>>}
<1>1. /\ Len(<<finishes>>) = 1 /\ Len(<<notes(a), awaits(a), completes(a), finishes>>) = 4
      /\ Len(<<notes(a), completes(a), finishes>>) = 3
      /\ Len(<<succeeds(a), completes(a), finishes>>) = 3 /\ Len(<<fails(a), finishes>>) = 2
      /\ Len(<<stamps(a), powers(a), completes(a), finishes>>) = 4
  OBVIOUS
<1> QED BY <1>1

\* A request that the sandbox API takes, or has none for.
LEMMA PowerPlacementTrack ==
    ASSUME IInv, PInv, Tokens, Tracks, used'.fault = 0, PowerPlacement PROVE Tracks'
<1> DEFINE c == Head(todo)
<1>1. /\ todo # <<>> /\ c.op = "power"
      /\ UNCHANGED <<subj, acts, run, tower>>
  BY DEF PowerPlacement, At, subject, anarchy
<1>2. PICK a \in PowerActions :
         /\ run = ActionRun(a) /\ Tail(todo) = <<completes(a), finishes>> /\ Tail(todo) \in Seq(Calls)
         /\ c = powers(a)
  BY <1>1, PowerHead
<1>4. ~Trouble
  BY NoFault
<1>5. snap.token
  BY <1>1 DEF Tokens
<1> HIDE DEF c
<1>6. /\ c.act = a /\ c.onError = "finish"
      /\ Recovery(c, Tail(todo)) = <<fails(a), finishes>>
  <2>1. Recovery(powers(a), Tail(todo)) = <<fails(a), finishes>>
    BY <1>2, PowerRecovery
  <2> QED BY <1>2, <2>1, PowerRequests
<1>7. /\ requested(c.act, c.onError, TRUE) \o Tail(todo) = <<notes(a), awaits(a), completes(a), finishes>>
      /\ requested(c.act, c.onError, FALSE) \o Tail(todo) = <<notes(a), completes(a), finishes>>
  <2>1. /\ requested(a, "finish", TRUE) = <<notes(a), awaits(a)>>
        /\ requested(a, "finish", FALSE) = <<notes(a)>>
    BY PowerPrograms
  <2>2. /\ <<notes(a), awaits(a)>> \o <<completes(a), finishes>>
              = <<notes(a), awaits(a), completes(a), finishes>>
        /\ <<notes(a)>> \o <<completes(a), finishes>> = <<notes(a), completes(a), finishes>>
    BY Tuple22, Tuple3
  <2> QED BY <1>2, <1>6, <2>1, <2>2
<1>8. todo' \in {<<notes(a), awaits(a), completes(a), finishes>>, <<notes(a), completes(a), finishes>>,
                 <<fails(a), finishes>>}
  BY <1>4, <1>5, <1>6, <1>7 DEF PowerPlacement, c, Continue
<1>9. todo' # <<finishes>>
  BY <1>8, LongPrograms
<1> QED BY <1>1, <1>9, TracksStay DEF c

\* A request that has ended.
LEMMA AwaitRequestTrack ==
    ASSUME IInv, PInv, Tracks, used'.fault = 0, AwaitRequest PROVE Tracks'
<1> DEFINE c == Head(todo)
           handled == Handled(Head(todo), Tail(todo))
<1>1. /\ todo # <<>> /\ c.op = "await"
      /\ UNCHANGED <<subj, acts, run, tower>>
  BY DEF AwaitRequest, At, subject, anarchy
<1>2. PICK a \in PowerActions :
         /\ Tail(todo) = <<completes(a), finishes>> /\ Tail(todo) \in Seq(Calls)
         /\ c = awaits(a)
  BY <1>1, PowerHead
<1>3. c.act = a /\ c.onError = "finish"
  BY <1>2, PowerRequests
<1>4. handled = <<finishes>>
  BY <1>2, PowerRecovery
<1>5. todo' = requestEnded(c, power.ended, Tail(todo), handled)
  <2>1. ~Spend("fault", MaxFaults)
    BY NoFault
  <2> QED BY <2>1 DEF AwaitRequest, Continue
<1> HIDE DEF c, handled
<1>6. todo' \in {<<fails(a), finishes>>, <<succeeds(a), completes(a), finishes>>}
  <2>1. /\ recordSandboxActionFailure(a) = <<fails(a)>>
        /\ recordSandboxJobOutcome(a, "successful", "finish") = <<succeeds(a)>>
    BY PowerPrograms
  <2>2. /\ <<fails(a)>> \o <<finishes>> = <<fails(a), finishes>>
        /\ <<succeeds(a)>> \o <<completes(a), finishes>> = <<succeeds(a), completes(a), finishes>>
    BY Tuple2, Tuple3
  <2>3. requestEnded(c, power.ended, Tail(todo), handled)
          = IF power.ended = "success" THEN <<succeeds(a)>> \o Tail(todo)
            ELSE <<fails(a)>> \o handled
    BY <1>3, <2>1 DEF requestEnded
  <2> QED BY <1>2, <1>4, <1>5, <2>2, <2>3
<1>7. todo' # <<finishes>>
  BY <1>6, LongPrograms
<1> QED BY <1>1, <1>7, TracksStay DEF c

\* Scheduling a start or stop brings the action of the state.
LEMMA ScheduleActionTrack ==
    ASSUME IInv, PInv, Tracks, used'.fault = 0, ScheduleAction PROVE Tracks'
<1> DEFINE c == Head(todo)
<1>1. /\ todo # <<>> /\ c.op = "schedule" /\ c \in Calls
      /\ UNCHANGED <<subj, run, tower>>
  BY HeadOK DEF ScheduleAction, At, subject
<1>2. acts' = Scheduled(c.act, c.cancel) /\ todo' = Tail(todo)
  BY NoFault DEF ScheduleAction, Does, Succeeds, Continue
<1> HIDE DEF c
<1>3. \A a \in PowerActions : a \in Actions /\ (Left(a)' <=> Left(a))
  BY <1>1 DEF Left, PowerActions, Actions
<1>4. ASSUME NEW a \in PowerActions, Powering(a, todo) PROVE FALSE
  BY <1>1, <1>4, PoweringIs, PowerPatches, PowerRequests, CompletesIs DEF c
<1>5. todo # completeProvisionNoDeployer
  BY <1>1, CompletesMoves, CompletesIs DEF c
<1>6. run \notin PowerRuns
  BY <1>1, <1>4, Kinds
<1>7. \A a \in PowerActions : run # ActionRun(a)
  BY <1>6 DEF PowerRuns
<1>8. \A b \in Actions : acts[b] \in Nat /\ MaxQueued \in Nat \ {0}
  BY QuietTypes, LifecycleAssumption
<1>9. ASSUME c.cancel = {}, c.act \notin PowerActions PROVE Tracks'
  <2>1. \A a \in PowerActions : acts'[a] = acts[a]
    BY <1>2, <1>3, <1>9 DEF Scheduled
  <2>2. \A a \in PowerActions : c # schedules(a)
    BY <1>9, TurnCalls
  <2>3. \A a \in PowerActions : Left(a) \/ acts[a] > 0
    BY <1>1, <2>2 DEF Tracks, c
  <2> QED BY <1>1, <1>3, <1>7, <2>1, <2>3 DEF Tracks
<1>10. CASE todo \in Seq(Mild)
  <2>1. c.cancel = {} /\ c.act \notin PowerActions
    BY <1>1, <1>10, MildMoves DEF Mild, c, PowerActions
  <2> QED BY <1>9, <2>1
<1>11. CASE subj.state \in Unprovisioned /\ Provisional(todo)
  <2>1. c.cancel = {} /\ c.act \notin PowerActions
    BY <1>1, <1>5, <1>11, ProvisionalMoves DEF Provisions, c, PowerActions
  <2> QED BY <1>9, <2>1
<1>12. ASSUME NEW a \in PowerActions, Turning(a, todo) PROVE Tracks'
  <2>1. PICK m \in Seq(Mild) : todo = <<schedules(a)>> \o m /\ subj.state = Pending(a)
    BY <1>1, <1>12, TurningIs, TurnCalls DEF Turning, c
  <2>2. c = schedules(a)
    BY <2>1, TurningIs DEF c
  <2>3. c.act = a /\ c.cancel = PowerActions
    BY <2>2, TurnCalls
  <2>4. acts'[a] > 0
    BY <1>2, <1>3, <1>8, <2>3 DEF Scheduled
  <2>5. \A b \in PowerActions : b # a => Left(b)
    BY <2>1, Apart DEF Left, PowerActions
  <2> QED BY <1>1, <1>3, <1>7, <2>4, <2>5 DEF Tracks
<1> QED BY <1>1, <1>4, <1>5, <1>10, <1>11, <1>12, Kinds

\* A start or stop that ends without its patch is posted after its failure was recorded.
LEMMA PostResultTrack ==
    ASSUME IInv, PInv, Tracks, PostResult PROVE Tracks'
<1>1. /\ todo # <<>> /\ Head(todo).op = "post" /\ todo' = <<>> /\ run' = NoRun
      /\ UNCHANGED <<subj, tower>>
  BY DEF PostResult, At, Continue
<1> SUFFICES ASSUME NEW a \in PowerActions PROVE Left(a)' \/ acts'[a] > 0
  BY <1>1 DEF Tracks, NoRun, ActionRun
<1>2. a \in Actions /\ (Left(a)' <=> Left(a))
  BY <1>1 DEF Left, PowerActions, Actions
<1>3. Left(a) \/ acts[a] > 0
  BY <1>1, TurnCalls DEF Tracks
<1>4. CASE run = ActionRun(a)
  <2>1. Powering(a, todo)
    BY <1>4 DEF PInv, TodoFits, PowerRuns, ActionRun
  <2>2. todo = <<finishes>>
    BY <1>1, <2>1, PoweringIs, PowerPatches, PowerRequests
  <2> QED BY <1>2, <1>4, <2>2 DEF Tracks
<1>5. CASE run # ActionRun(a)
  <2>1. run.kind = "action" => run.name # a
    BY <1>5 DEF IInv, Sound, Types, NoRun, EventRuns, ActionRuns, CallbackRuns, ActionRun
  <2>2. run.name # a
    BY <2>1 DEF IInv, Sound, Types, NoRun, EventRuns, ActionRuns, CallbackRuns, PInv, Jobless, PowerActions
  <2>3. acts' = acts \/ acts' = Ended(run.name)
    BY DEF PostResult
  <2>4. acts'[a] = acts[a]
    BY <1>2, <2>2, <2>3, QuietTypes DEF Ended
  <2> QED BY <1>2, <1>3, <2>4
<1> QED BY <1>4, <1>5

\* A patch that moves the subject to where it waits is followed by its scheduling; one
\* that ends a start or stop moves the subject on, or records the failure.
LEMMA SubjectUpdateTrack ==
    ASSUME IInv, PInv, Tracks, used'.fault = 0, SubjectUpdate PROVE Tracks'
<1> DEFINE c == Head(todo)
           p == c.patch
           moved == IF p.state = KeepState THEN subj.state ELSE p.state
<1>1. /\ todo # <<>> /\ c.op = "patch" /\ p \in Patches /\ UNCHANGED <<acts, run>>
      /\ todo' = Tail(todo) /\ subj'.state = moved
      /\ \A b \in Actions : tower'[b].request = IF b = p.request THEN p.outcome ELSE tower[b].request
  <2>1. todo # <<>> /\ c.op = "patch" /\ p \in Patches /\ UNCHANGED <<acts, run>>
    BY PatchFacts
  <2>2. Apply(p) /\ todo' = Tail(todo)
    BY NoFault DEF SubjectUpdate, Does, Succeeds, Continue
  <2> HIDE DEF p
  <2>3. subj'.state = moved
    BY <2>1, <2>2, MergedType DEF Apply
  <2> QED BY <2>1, <2>2, <2>3, ApplyRequest DEF p
<1> HIDE DEF c
<1>2. \A a \in PowerActions : a \in Actions /\ (Left(a) \/ acts[a] > 0)
  <2>1. \A a \in PowerActions : a \in Actions /\ c # schedules(a)
    BY <1>1, TurnCalls DEF PowerActions, Actions
  <2> QED BY <1>1, <2>1 DEF Tracks, c
<1>3. ASSUME run \notin PowerRuns, p.request = "keep",
             \A a \in PowerActions : moved # Pending(a) \/ moved = subj.state
      PROVE  Tracks'
  <2>1. "keep" \notin Actions /\ \A a \in PowerActions : run # ActionRun(a)
    BY <1>3 DEF Actions, PowerRuns
  <2>2. \A a \in PowerActions : Left(a) => Left(a)'
    BY <1>1, <1>2, <1>3, <2>1 DEF Left
  <2> QED BY <1>1, <1>2, <2>1, <2>2 DEF Tracks
<1>4. CASE run \notin PowerRuns /\ todo \in Seq(Mild)
  <2>1. p.request = "keep" /\ p.state \in {KeepState, DestroyComplete}
    BY <1>1, <1>4, MildMoves DEF Mild, c
  <2> QED BY <1>3, <1>4, <2>1, Apart
<1>5. CASE /\ run \notin PowerRuns
           /\ Provisional(todo) /\ todo # completeProvisionNoDeployer
  <2>1. p.request = "keep" /\ p.state \in Unprovisioned \cup {KeepState}
    BY <1>1, <1>5, ProvisionalMoves DEF Provisions, c
  <2> QED BY <1>3, <1>5, <2>1, Apart
<1>6. CASE run \notin PowerRuns /\ todo = completeProvisionNoDeployer
  <2>1. p.request = "keep" /\ p.state = Started
    BY <1>6, CompletesMoves, CompletesIs DEF c
  <2> QED BY <1>3, <1>6, <2>1, Apart
<1>7. ASSUME NEW a \in PowerActions, run \notin PowerRuns, Turning(a, todo) PROVE Tracks'
  <2>1. PICK m \in Seq(Mild) : todo = <<turns(a), schedules(a)>> \o m
    <3>1. ASSUME NEW m \in Seq(Mild), todo = <<schedules(a)>> \o m PROVE FALSE
      <4>1. c = schedules(a)
        BY <3>1, TurningIs DEF c
      <4> QED BY <1>1, <4>1, TurnCalls
    <3> QED BY <1>7, <3>1 DEF Turning
  <2>2. c = turns(a) /\ todo' = <<schedules(a)>> \o m
    BY <1>1, <2>1, TurningIs DEF c
  <2>3. todo' # <<>> /\ Head(todo') = schedules(a)
    BY <2>2, TurningIs
  <2>4. moved = Pending(a)
    BY <2>2, TurnCalls, Apart
  <2>5. \A b \in PowerActions : b # a => Left(b)'
    BY <1>1, <2>4, Apart DEF Left, PowerActions
  <2>6. \A b \in PowerActions : run # ActionRun(b)
    BY <1>7 DEF PowerRuns
  <2> QED BY <1>1, <2>3, <2>5, <2>6 DEF Tracks
<1>8. ASSUME NEW a \in PowerActions, run = ActionRun(a), acts[a] > 0, Powering(a, todo) PROVE Tracks'
  <2>1. \/ c = stamps(a) /\ Tail(todo) = <<powers(a), completes(a), finishes>>
        \/ c = fails(a) /\ Tail(todo) = <<finishes>>
        \/ c = notes(a) /\ Tail(todo) = <<awaits(a), completes(a), finishes>>
        \/ c = notes(a) /\ Tail(todo) = <<completes(a), finishes>>
        \/ c = succeeds(a) /\ Tail(todo) = <<completes(a), finishes>>
        \/ c = completes(a) /\ Tail(todo) = <<finishes>>
    <3>1. powers(a).op = "power" /\ awaits(a).op = "await" /\ finishes.op = "post"
      BY PowerRequests, CompletesIs
    <3>2. c \notin {powers(a), awaits(a), finishes}
      BY <1>1, <3>1
    <3> QED BY <1>1, <1>8, <3>2, PoweringIs DEF c
  <2>2. /\ p.request \in {"keep", a} /\ p.state \in {KeepState, Target(a)}
        /\ c = fails(a) => p.request = a /\ p.outcome = "error"
        /\ c = completes(a) => p.state = Target(a)
    BY <2>1, PowerPatches, PowerRequests
  <2>3. Target(a) \in {Started, Stopped}
    BY DEF Target
  <2>4. \A b \in PowerActions : b # a /\ Left(b) => Left(b)'
    <3>1. "keep" \notin Actions
      BY DEF Actions
    <3> QED BY <1>1, <1>2, <2>2, <2>3, <3>1, Apart DEF Left
  <2>5. todo' = <<finishes>> => Left(a)'
    <3>1. todo' = <<finishes>> => c = fails(a) \/ c = completes(a)
      <4>1. /\ Len(<<finishes>>) = 1 /\ Len(<<powers(a), completes(a), finishes>>) = 3
            /\ Len(<<awaits(a), completes(a), finishes>>) = 3 /\ Len(<<completes(a), finishes>>) = 2
        OBVIOUS
      <4>2. <<finishes>> \notin {<<powers(a), completes(a), finishes>>,
                                 <<awaits(a), completes(a), finishes>>, <<completes(a), finishes>>}
        BY <4>1
      <4> QED BY <1>1, <2>1, <4>2
    <3>2. c = fails(a) => Left(a)'
      BY <1>1, <1>2, <2>2 DEF Left
    <3>3. c = completes(a) => Left(a)'
      BY <1>1, <2>2, <2>3, Apart DEF Left
    <3> QED BY <3>1, <3>2, <3>3
  <2>6. \A b \in PowerActions : ActionRun(b) = ActionRun(a) => b = a
    BY DEF ActionRun
  <2> QED BY <1>1, <1>2, <1>8, <2>4, <2>5, <2>6 DEF Tracks
<1> QED BY <1>1, <1>4, <1>5, <1>6, <1>7, <1>8, Kinds

\* A start or stop that is dispatched is all still to be done.
LEMMA DispatchRunTrack ==
    ASSUME IInv, PInv, NoDeployer, Tracks, NEW r, DispatchRun(r) PROVE Tracks'
<1>1. /\ run' = r /\ todo' = Dispatch(r, Payload) /\ todo = <<>>
      /\ UNCHANGED <<subj, tower, acts>>
  BY DEF DispatchRun
<1> SUFFICES ASSUME NEW a \in PowerActions
             PROVE  /\ Left(a)' \/ acts'[a] > 0
                    /\ r = ActionRun(a) => todo' # <<finishes>>
  BY <1>1 DEF Tracks
<1>2. Left(a)' \/ acts'[a] > 0
  BY <1>1 DEF Tracks, Left
<1>3. ASSUME r = ActionRun(a) PROVE todo' # <<finishes>>
  <2>1. Payload.state # Running(a)
    <3>1. Running(a) \notin Unprovisioned \cup {Started, Stopped, Pending("start"), Pending("stop"), DestroyComplete}
      BY DEF Running, Unprovisioned, Started, Stopped, Pending, DestroyComplete, NoState, Queued,
             Failure, PowerActions
    <3> QED BY <3>1 DEF PInv, Steady, Payload, PayloadOf
  <2>2. /\ a = "start" => Dispatch(r, Payload) = handleStart(Payload)
        /\ a = "stop" => Dispatch(r, Payload) = handleStop(Payload)
    BY <1>3 DEF Dispatch, ActionRun
  <2>3. todo' = <<stamps(a), powers(a), completes(a), finishes>>
    BY <1>1, <2>1, <2>2, PowerHandlers DEF PowerActions
  <2> QED BY <2>3, LongPrograms
<1> QED BY <1>2, <1>3

\* Every step keeps the trace.
LEMMA TracksKept ==
    ASSUME IInv, PInv, NoDeployer, Tokens, Tracks, used'.fault = 0, [Next]_vars PROVE Tracks'
<1>1. CASE HandlerStep
  BY <1>1, SubjectUpdateTrack, ScheduleActionTrack, OrdinaryTrack, PowerPlacementTrack,
     AwaitRequestTrack, PostResultTrack DEF HandlerStep
<1>2. CASE DispatchNext
  BY <1>2, DispatchRunTrack DEF DispatchNext
<1>3. CASE Environment
  <2>1. ASSUME NEW a \in Actions, JobEnds(a) \/ OrphanEnds(a) PROVE Tracks'
    <3>1. UNCHANGED <<acts, run, todo, subj>>
      BY <2>1, EndFacts
    <3>2. \A b \in Actions : tower'[b].request = tower[b].request
      BY <2>1, EndFacts
    <3> QED BY <3>1, <3>2, TracksStay
  <2>2. CASE RequestEnds
    <3>1. UNCHANGED <<acts, run, todo, subj, tower>>
      BY <2>2 DEF RequestEnds, subject, anarchy, runner
    <3> QED BY <3>1, TracksStay
  <2>3. CASE PlacementMoves \/ TokenVanishes \/ EditJobVars \/ SetDesiredState \/ AskStatus \/ DeleteSubject
    BY <2>3, UserKeeps, TracksStay
  <2> QED BY <1>3, <2>1, <2>2, <2>3 DEF Environment
<1>4. CASE UNCHANGED vars
  BY <1>4, TracksStay DEF vars
<1>5. CASE Abandon
  BY <1>5, NoFault DEF Abandon
<1> QED BY <1>1, <1>2, <1>3, <1>4, <1>5 DEF Next

\* Without a deployer, and while no call has failed and the login token is there, a start
\* or stop that the sandbox API did not carry out, and that left the subject where it was,
\* has been recorded in the subject: it does not just vanish when its action is finished,
\* however it interleaves with the user's requests, with other actions and with callbacks.
THEOREM FailureIsTraced ==
    ASSUME NoDeployer, ~TokenMayVanish PROVE Spec => []FailureLeavesTrace
<1>1. Init => IInv /\ PInv /\ Orphanless /\ TInv
  <2>1. Init => TInv
    <3>1. Init => Tokens
      BY DEF Init, Tokens
    <3>2. Init => \A a \in PowerActions : subj.state # Pending(a)
      BY Apart DEF Init, NewSubject, Unprovisioned
    <3>3. Init => Tracks
      BY <3>2 DEF Init, Tracks, Left
    <3> QED BY <3>1, <3>3 DEF TInv
  <2> QED BY <2>1, InitOK, PowerInit
<1>2. IInv /\ PInv /\ Orphanless /\ TInv /\ [Next]_vars => (IInv /\ PInv /\ Orphanless /\ TInv)'
  <2> SUFFICES ASSUME IInv, PInv, Orphanless, TInv, [Next]_vars
               PROVE  (IInv /\ PInv /\ Orphanless /\ TInv)'
    OBVIOUS
  <2>1. IInv' /\ PInv' /\ Orphanless'
    BY NextOK, PowerNext
  <2>2. Tokens'
    BY TokensKept DEF TInv
  <2>3. used'.fault = 0 => Tracks'
    BY FaultsStay, TracksKept DEF TInv
  <2> QED BY <2>1, <2>2, <2>3 DEF TInv
<1>3. IInv /\ TInv => FailureLeavesTrace
  <2> SUFFICES ASSUME IInv, TInv, used.fault = 0, Quiescent, NEW a \in PowerActions,
                      subj.state = Pending(a)
               PROVE  tower[a].request = "error"
    BY DEF FailureLeavesTrace, PowerActions
  <2>1. todo = <<>>
    BY DEF IInv, Sound, Types, Quiescent
  <2>2. acts[a] = 0
    BY DEF Quiescent, PowerActions, Actions
  <2> QED BY <2>1, <2>2 DEF TInv, Tracks, Left
<1> QED BY <1>1, <1>2, <1>3, PTL DEF Spec

=============================================================================
