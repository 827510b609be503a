----------------------- MODULE LifecycleWakeup_proofs -----------------------
(***************************************************************************)
(* What Lifecycle says of the subject once Anarchy has nothing left to     *)
(* dispatch, for every governor that has a deployer for start and stop and *)
(* no update action, every number of faults, failures, requests and        *)
(* callbacks: no change of desired_state and no deletion is left           *)
(* unattended, but for one that an edit of job_vars hid.                   *)
(*                                                                         *)
(* The argument has two ends.  A subject that is not in the state the user *)
(* wants has an update event, a run of one whose next call moves it or     *)
(* which saw an edit of job_vars, or it saw one the last time (Woken); a   *)
(* subject that is being deleted has a delete event, a destroy action, or  *)
(* a run that is about to see to it (Attended).  Both rest on what the     *)
(* calls that are left may be (Fit): a patch that starts or stops the      *)
(* subject is never exempt from update processing, and nothing takes a     *)
(* destroy action away.                                                    *)
(***************************************************************************)
EXTENDS Lifecycle_proofs

\* The governors that start and stop with a deployer, and have no update action.
PowerDeployed == {"start", "stop"} \cap Disabled = {} /\ "update" \notin GovActions

\* The states before a provision job is recorded.
Early == {NoState, Queued, Pending("provision")}

Job == tower["provision"].job

(***************************************************************************)
(* The calls that are left.                                                *)
(***************************************************************************)
Records(c) == c.patch.job = "provision"

\* Calls of a provision that has no job yet.
Founds(c) ==
    \/ Records(c)
    \/ c.patch.state \in Early
    \/ c.op \in {"book", "reget", "checkQueue"}
    \/ c.op = "get" /\ c.act = "provision"

\* A call made after the job is recorded does not provision any more.
Ordered(s) == \A i, j \in 1..Len(s) : i < j /\ Records(s[i]) => ~Founds(s[j])

\* What every call keeps to.
Lively ==
    {c \in Calls :
        /\ c.patch.state \in {Started, Stopped} => ~c.patch.skip
        /\ Records(c) => /\ c.op = "patch" /\ c.patch.state = Running("provision")
                         /\ "provision" \notin Disabled
        /\ c.op = "schedule" => /\ c.act \in Actions \ {"update"} /\ "destroy" \notin c.cancel
                                /\ c.act = "destroy" => "destroy" \notin Disabled
        /\ c.op = "poll" => c.act \in Actions \ {"update"}}

\* Calls that do not provision.
Calm == {c \in Lively : ~Founds(c)}

\* Calls of runs of destroy, which never give it up.
Lasting ==
    {c \in Calls :
        /\ c.op \in {"patch", "launch", "cancel", "poll", "get", "release", "post"}
        /\ c.op \in {"poll", "get"} => c.act = "destroy"
        /\ c.op = "post" => c.act \in {"continue", "delete"}
        /\ c.onError \in {"fail", "ignore", "continue"}}

\* Calls of delete events.
Ending ==
    {c \in Calls :
        /\ c.op \in {"patch", "cancel", "schedule", "release", "post"}
        /\ c.onError \in {"fail", "ignore"}
        /\ c.op = "schedule" => c.onError = "fail"
        /\ ~c.traced}

\* Calls of update events.
Waking ==
    {c \in Calls :
        /\ c.op \in {"patch", "schedule", "post"}
        /\ c.op = "post" => c.act = "none"
        /\ c.patch.state \in {KeepState, Pending("start"), Pending("stop")}
        /\ c.onError = "fail"
        /\ ~c.traced}

\* The calls the run r may have left, with a provision job j.
FitFor(j, r) ==
    {c \in Lively :
        /\ Founds(c) => j = "none"
        /\ r.name = "destroy" => c \in Lasting
        /\ r.name = "delete" => c \in Ending
        /\ r = EventRun("update") => c \in Waking}

Fit == FitFor(Job, run)

Fits(s) == s \in Seq(Fit) /\ Ordered(s)

TodoFits == Fits(todo)

(***************************************************************************)
(* The inductive invariant.                                                *)
(***************************************************************************)
\* A subject with a provision job is past the states before it.
Provisioned == Job # "none" => subj.state \notin Early /\ "provision" \notin Disabled

\* Which actions and events there are.
Occasions ==
    /\ acts["update"] = 0
    /\ \A c \in callbacks \cup {run} : c.kind \in {"callback", "action"} => c.name # "update"
    /\ "delete" \in events \/ run.name = "delete" => subj.deleting
    /\ acts["destroy"] > 0 \/ run = ActionRun("destroy") => "destroy" \notin Disabled

\* The user wants the subject turned on or off.
Wanted ==
    \/ subj.state = Started /\ subj.desired = "stopped" /\ "stop" \in GovActions
    \/ subj.state = Stopped /\ subj.desired = "started" /\ "start" \in GovActions

Turns(c) == c.op = "patch" /\ c.patch.state \in {Pending("start"), Pending("stop")}

\* An update event under way that found job_vars edited, which it will remember.
Distracted == run = EventRun("update") /\ todo # <<>> /\ snap.vars # snap.prev.vars

\* The last update event that was handled did, and none is under way.
Misled == run # EventRun("update") /\ prev.edited

\* What Anarchy remembers of the subject has its fields.
Recalls == DOMAIN prev = DOMAIN NewPrev

\* What the user wants is noticed, unless an edit is in the way.
Woken ==
    ~gone /\ ~subj.deleting /\ Wanted
    => \/ "update" \in events
       \/ run = EventRun("update") /\ (todo = <<>> \/ Turns(Head(todo)))
       \/ Distracted
       \/ Misled

\* The call that has a subject deleted, now or by a destroy action.
Decisive(c) == (c.op = "schedule" /\ c.act = "destroy") \/ (c.op = "post" /\ c.act = "delete")

Decided(s) ==
    \E k \in 1..Len(s) : Decisive(s[k]) /\ \A j \in 1..(k - 1) : s[j].op # "post"

\* A deletion is seen to.
Attended ==
    ~gone /\ subj.deleting
    => \/ "delete" \in events
       \/ acts["destroy"] > 0
       \/ run = EventRun("delete") /\ (todo = <<>> \/ Decided(todo))

\* What the two rest on.
Upbringing == TodoFits /\ Provisioned /\ Occasions

WInv == Upbringing /\ Recalls /\ Woken /\ Attended

(***************************************************************************)
(* Kinds of calls.                                                         *)
(***************************************************************************)
\* The states apart.
LEMMA Apart ==
    /\ KeepState \notin Early \cup {Started, Stopped, Running("provision")}
    /\ \A a \in Actions : Running(a) \notin Early \cup {Started, Stopped, KeepState}
    /\ \A a \in Actions \ {"provision"} : Pending(a) \notin Early \cup {Started, Stopped, KeepState}
    /\ \A a \in Actions, f \in FailureStatuses :
          Failure(a, f) \notin Early \cup {Started, Stopped, KeepState}
    /\ DestroyComplete \notin Early \cup {Started, Stopped, KeepState}
    /\ Pending("provision") \in Early /\ Queued \in Early /\ NoState \in Early
    /\ Early \cap {Started, Stopped, KeepState} = {}
    /\ Started # Stopped
BY DEF Early, KeepState, Started, Stopped, DestroyComplete, Running, Pending, Failure,
       Actions, FailureStatuses, NoState, Queued

\* A call without a patch, and a patch.
IsCall(c, op, a, f) ==
    /\ c \in Calls /\ c.op = op /\ c.act = a /\ c.onError = f
    /\ c.patch = NoPatch /\ c.cancel = {} /\ ~c.traced

IsPatch(c, state, job, skip, f) ==
    /\ c \in Calls /\ c.op = "patch" /\ c.onError = f
    /\ c.patch.state = state /\ c.patch.job = job /\ c.patch.skip = skip

\* A call without a patch is one.
LEMMA CallForm ==
    ASSUME NEW op \in Ops, NEW a \in Actions \cup {"none", "all", "finish", "continue", "delete"},
           NEW f \in OnErrors
    PROVE  IsCall(Call(op, a, f), op, a, f)
<1> DEFINE c == Call(op, a, f)
<1>1. /\ c \in Calls /\ c.op = op /\ c.act = a /\ c.onError = f
      /\ c.patch = NoPatch /\ c.cancel = {} /\ ~c.traced
  BY CallIs DEF Call
<1> HIDE DEF c
<1>2. IsCall(c, op, a, f)
  BY <1>1 DEF IsCall
<1> QED BY <1>2 DEF c

\* So is a patch, exempt from update processing or not, whatever is done about its error.
LEMMA PatchForm ==
    ASSUME NEW p \in Patches, NEW f \in OnErrors
    PROVE  /\ IsPatch(Patch(p), p.state, p.job, p.skip, "fail") /\ ~Patch(p).traced
           /\ IsPatch(SkipPatch(p), p.state, p.job, TRUE, "fail") /\ ~SkipPatch(p).traced
           /\ IsPatch([Patch(p) EXCEPT !.onError = f], p.state, p.job, p.skip, f)
           /\ IsPatch([SkipPatch(p) EXCEPT !.onError = f], p.state, p.job, TRUE, f)
<1>1. ASSUME NEW q \in Patches
      PROVE  /\ IsPatch(Patch(q), q.state, q.job, q.skip, "fail") /\ ~Patch(q).traced
             /\ IsPatch([Patch(q) EXCEPT !.onError = f], q.state, q.job, q.skip, f)
  <2> DEFINE d == Patch(q)
  <2>1. d \in Calls /\ d.op = "patch" /\ d.patch = q /\ d.onError = "fail" /\ ~d.traced
    BY PatchIs
  <2> HIDE DEF d
  <2>2. [d EXCEPT !.onError = f] \in Calls /\ [d EXCEPT !.onError = f].op = d.op
        /\ [d EXCEPT !.onError = f].patch = d.patch /\ [d EXCEPT !.onError = f].onError = f
    BY <2>1, OnErrorIs
  <2>3. /\ IsPatch(d, q.state, q.job, q.skip, "fail") /\ ~d.traced
        /\ IsPatch([d EXCEPT !.onError = f], q.state, q.job, q.skip, f)
    BY <2>1, <2>2 DEF IsPatch
  <2> QED BY <2>3 DEF d
<1> DEFINE q == [p EXCEPT !.skip = TRUE]
<1>2. q \in Patches /\ q.state = p.state /\ q.job = p.job /\ q.skip = TRUE
  BY DEF Patches
<1>3. SkipPatch(p) = Patch(q)
  BY DEF SkipPatch
<1> HIDE DEF q
<1> QED BY <1>1, <1>2, <1>3

\* Which calls are Calm, and what else they are.
LEMMA CallFits ==
    ASSUME NEW c, NEW op \in Ops \ {"schedule"}, NEW a, NEW f, IsCall(c, op, a, f),
           op = "poll" => a \in Actions \ {"update"}
    PROVE  /\ c \in Lively /\ ~Records(c)
           /\ op \notin {"book", "reget", "checkQueue"} /\ (op = "get" => a # "provision") => c \in Calm
           /\ /\ op \in {"patch", "launch", "cancel", "poll", "get", "release", "post"}
              /\ op \in {"poll", "get"} => a = "destroy"
              /\ op = "post" => a \in {"continue", "delete"}
              /\ f \in {"fail", "ignore", "continue"}
              => c \in Lasting
           /\ op \in {"cancel", "release", "post"} /\ f \in {"fail", "ignore"} => c \in Ending
           /\ op = "post" /\ a = "none" /\ f = "fail" => c \in Waking
<1>1. NoPatch.state = KeepState /\ NoPatch.job = "keep" /\ NoPatch.skip = FALSE
  BY DEF NoPatch
<1>2. c \in Lively /\ ~Records(c) /\ c \in Calls /\ c.patch.state = KeepState
  BY <1>1, Apart DEF IsCall, Lively, Records
<1>3. op \notin {"book", "reget", "checkQueue"} /\ (op = "get" => a # "provision") => c \in Calm
  BY <1>1, <1>2, Apart DEF IsCall, Calm, Founds
<1>4. /\ op \in {"patch", "launch", "cancel", "poll", "get", "release", "post"}
      /\ op \in {"poll", "get"} => a = "destroy"
      /\ op = "post" => a \in {"continue", "delete"}
      /\ f \in {"fail", "ignore", "continue"}
      => c \in Lasting
  BY DEF IsCall, Lasting
<1>5. op \in {"cancel", "release", "post"} /\ f \in {"fail", "ignore"} => c \in Ending
  BY DEF IsCall, Ending
<1>6. op = "post" /\ a = "none" /\ f = "fail" => c \in Waking
  BY <1>1 DEF IsCall, Waking
<1> QED BY <1>2, <1>3, <1>4, <1>5, <1>6

\* Which patches are Calm, and what else they are.
LEMMA PatchFits ==
    ASSUME NEW c, NEW st, NEW job, NEW skip \in BOOLEAN, NEW f,
           IsPatch(c, st, job, skip, f), st \in {Started, Stopped} => ~skip,
           job = "provision" => st = Running("provision") /\ "provision" \notin Disabled
    PROVE  /\ c \in Lively
           /\ st \notin Early /\ job # "provision" => c \in Calm
           /\ f \in {"fail", "ignore", "continue"} => c \in Lasting
           /\ f \in {"fail", "ignore"} /\ ~c.traced => c \in Ending
           /\ f = "fail" /\ ~c.traced /\ st \in {KeepState, Pending("start"), Pending("stop")}
              => c \in Waking
<1>1. c \in Lively
  BY DEF IsPatch, Lively, Records
<1>2. st \notin Early /\ job # "provision" => c \in Calm
  BY <1>1 DEF IsPatch, Calm, Founds, Records
<1> QED BY <1>1, <1>2 DEF IsPatch, Lasting, Ending, Waking

\* What a patch says of the state and of jobs.
HasPatch(p, state, job) ==
    p \in Patches /\ p.state = state /\ p.job = job /\ p.skip = FALSE

\* The patches the handlers are made of.
LEMMA Patched ==
    ASSUME NEW a \in Actions, NEW st \in SubjectStates \cup {KeepState}
    PROVE  /\ HasPatch(NoPatch, KeepState, "keep")
           /\ HasPatch([NoPatch EXCEPT !.state = st], st, "keep")
           /\ HasPatch([NoPatch EXCEPT !.state = st, !.uuid = TRUE], st, "keep")
           /\ HasPatch([NoPatch EXCEPT !.state = st, !.vars = "same"], st, "keep")
           /\ HasPatch([NoPatch EXCEPT !.state = st, !.desired = "destroyed"], st, "keep")
           /\ HasPatch([NoPatch EXCEPT !.vars = "same"], KeepState, "keep")
           /\ HasPatch([NoPatch EXCEPT !.starts = a], KeepState, "keep")
           /\ HasPatch([NoPatch EXCEPT !.ends = a], KeepState, "keep")
           /\ \A o \in {"successful", "error"} :
                 HasPatch([NoPatch EXCEPT !.request = a, !.outcome = o], KeepState, "keep")
           /\ \A x \in JobStatuses \cup {"pending"} :
                 /\ HasPatch([NoPatch EXCEPT !.css = x], KeepState, "keep")
                 /\ HasPatch([NoPatch EXCEPT !.ends = a, !.css = x], KeepState, "keep")
           /\ HasPatch(Ends(a, st), st, "keep")
           /\ \A v \in {"keep", "forensics"} :
                 HasPatch([Ends(a, st) EXCEPT !.vars = v], st, "keep")
<1>1. /\ HasPatch(NoPatch, KeepState, "keep")
      /\ HasPatch([NoPatch EXCEPT !.state = st], st, "keep")
      /\ HasPatch([NoPatch EXCEPT !.state = st, !.uuid = TRUE], st, "keep")
      /\ HasPatch([NoPatch EXCEPT !.state = st, !.vars = "same"], st, "keep")
      /\ HasPatch([NoPatch EXCEPT !.state = st, !.desired = "destroyed"], st, "keep")
  BY DEF HasPatch, NoPatch, Patches
<1>2. /\ HasPatch([NoPatch EXCEPT !.vars = "same"], KeepState, "keep")
      /\ HasPatch([NoPatch EXCEPT !.starts = a], KeepState, "keep")
      /\ HasPatch([NoPatch EXCEPT !.ends = a], KeepState, "keep")
      /\ \A o \in {"successful", "error"} :
            HasPatch([NoPatch EXCEPT !.request = a, !.outcome = o], KeepState, "keep")
  BY DEF HasPatch, NoPatch, Patches
<1>3. ASSUME NEW x \in JobStatuses \cup {"pending"}
      PROVE  /\ HasPatch([NoPatch EXCEPT !.css = x], KeepState, "keep")
             /\ HasPatch([NoPatch EXCEPT !.ends = a, !.css = x], KeepState, "keep")
  BY DEF HasPatch, NoPatch, Patches, JobStatuses
<1>4. /\ HasPatch(Ends(a, st), st, "keep")
      /\ \A v \in {"keep", "forensics"} : HasPatch([Ends(a, st) EXCEPT !.vars = v], st, "keep")
  BY DEF HasPatch, Ends, NoPatch, Patches
<1> QED BY <1>1, <1>2, <1>3, <1>4

\* A patch that does not provision, and one that is exempt from update processing.
LEMMA PlainFits ==
    ASSUME NEW p, NEW st, NEW job, HasPatch(p, st, job), NEW f \in OnErrors,
           st \notin Early, job # "provision"
    PROVE  LET c == Patch(p)
               d == [Patch(p) EXCEPT !.onError = f]
           IN  /\ c \in Calm \cap Lasting \cap Ending /\ d \in Calm
               /\ f \in {"fail", "ignore", "continue"} => d \in Lasting
<1> DEFINE c == Patch(p)
           d == [c EXCEPT !.onError = f]
<1>1. IsPatch(c, st, job, FALSE, "fail") /\ IsPatch(d, st, job, FALSE, f) /\ ~c.traced
  BY PatchForm DEF HasPatch
<1> HIDE DEF c, d
<1>2. c \in Calm \cap Lasting \cap Ending
  BY <1>1, PatchFits
<1>3. d \in Calm /\ (f \in {"fail", "ignore", "continue"} => d \in Lasting)
  BY <1>1, PatchFits
<1> QED BY <1>2, <1>3 DEF c, d

\* A patch that is exempt from update processing must not start or stop the subject.
LEMMA SkipFits ==
    ASSUME NEW p, NEW st, NEW job, HasPatch(p, st, job), NEW f \in OnErrors,
           st \notin Early \cup {Started, Stopped}, job # "provision"
    PROVE  LET c == SkipPatch(p)
               d == [SkipPatch(p) EXCEPT !.onError = f]
           IN  /\ c \in Calm \cap Lasting \cap Ending /\ d \in Calm
               /\ f \in {"fail", "ignore", "continue"} => d \in Lasting
               /\ st \in {KeepState, Pending("start"), Pending("stop")} => c \in Waking
<1> DEFINE c == SkipPatch(p)
           d == [c EXCEPT !.onError = f]
<1>1. IsPatch(c, st, job, TRUE, "fail") /\ IsPatch(d, st, job, TRUE, f) /\ ~c.traced
  BY PatchForm DEF HasPatch
<1> HIDE DEF c, d
<1>2. /\ c \in Calm \cap Lasting \cap Ending
      /\ st \in {KeepState, Pending("start"), Pending("stop")} => c \in Waking
  BY <1>1, PatchFits
<1>3. d \in Calm /\ (f \in {"fail", "ignore", "continue"} => d \in Lasting)
  BY <1>1, PatchFits
<1> QED BY <1>2, <1>3 DEF c, d

\* A patch that keeps the state and takes no notice of update processing.
LEMMA NoteFits ==
    ASSUME NEW p, HasPatch(p, KeepState, "keep"), NEW f \in OnErrors
    PROVE  /\ <<SkipPatch(p)>> \in Seq(Calm \cap Lasting \cap Ending)
           /\ <<[SkipPatch(p) EXCEPT !.onError = f]>> \in Seq(Calm)
           /\ f \in {"fail", "ignore", "continue"} =>
                 <<[SkipPatch(p) EXCEPT !.onError = f]>> \in Seq(Calm \cap Lasting)
           /\ <<SkipPatch(p)>> \in Seq(Calm \cap Waking)
<1> DEFINE c == SkipPatch(p)
           d == [SkipPatch(p) EXCEPT !.onError = f]
<1>1. KeepState \notin Early \cup {Started, Stopped}
  BY Apart
<1>2. /\ c \in Calm \cap Lasting \cap Ending /\ d \in Calm
      /\ f \in {"fail", "ignore", "continue"} => d \in Calm \cap Lasting
      /\ c \in Calm \cap Waking
  BY <1>1, SkipFits
<1> HIDE DEF c, d
<1>3. /\ <<c>> \in Seq(Calm \cap Lasting \cap Ending) /\ <<d>> \in Seq(Calm)
      /\ f \in {"fail", "ignore", "continue"} => <<d>> \in Seq(Calm \cap Lasting)
      /\ <<c>> \in Seq(Calm \cap Waking)
  BY <1>2, Singleton
<1> QED BY <1>3 DEF c, d

\* Results.
LEMMA PostFits ==
    ASSUME NEW x \in {"none", "finish", "continue", "delete"}
    PROVE  /\ Post(x) \in Seq(Calm \cap Ending)
           /\ x \in {"continue", "delete"} => Post(x) \in Seq(Calm \cap Lasting)
           /\ x = "none" => Post(x) \in Seq(Calm \cap Waking)
<1> DEFINE c == Call("post", x, "fail")
<1>1. IsCall(c, "post", x, "fail") /\ "post" \in Ops \ {"schedule"}
  BY CallForm DEF Ops, OnErrors
<1> HIDE DEF c
<1>2. /\ c \in Calm \cap Ending /\ (x \in {"continue", "delete"} => c \in Calm \cap Lasting)
      /\ x = "none" => c \in Calm \cap Waking
  BY <1>1, CallFits
<1>3. Post(x) = <<c>>
  BY DEF Post, c
<1> QED BY <1>2, <1>3, Singleton

\* Schedules.
LEMMA ScheduleFits ==
    ASSUME NEW a \in Actions \ {"update"}, NEW cancel \in SUBSET {"start", "stop", "update"},
           a = "destroy" => "destroy" \notin Disabled
    PROVE  /\ Schedule(a, cancel) \in Calm \cap Ending \cap Waking
           /\ Schedule(a, cancel).op = "schedule" /\ Schedule(a, cancel).act = a
<1> DEFINE c == Schedule(a, cancel)
<1>1. /\ c \in Calls /\ c.op = "schedule" /\ c.act = a /\ c.cancel = cancel /\ c.onError = "fail"
      /\ c.patch = NoPatch /\ ~c.traced
  BY NoPatchIs DEF Schedule, Call, Calls, Actions
<1>2. NoPatch.state = KeepState /\ NoPatch.job = "keep"
  BY DEF NoPatch
<1> HIDE DEF c
<1>3. c \in Lively /\ ~Founds(c)
  BY <1>1, <1>2, Apart DEF Lively, Founds, Records
<1>4. c \in Calm \cap Ending \cap Waking
  BY <1>1, <1>2, <1>3 DEF Calm, Ending, Waking
<1> QED BY <1>1, <1>4 DEF c

(***************************************************************************)
(* The handlers.                                                           *)
(***************************************************************************)
LEMMA SeqMore == ASSUME NEW S, NEW T, S \subseteq T PROVE Seq(S) \subseteq Seq(T)
OBVIOUS

\* The look-up that goes on without an answer, a launch with its recording, a poll.
LEMMA LaunchFits ==
    ASSUME NEW a \in Actions \ {"provision", "update"}, NEW s
    PROVE  /\ sandboxGet(a, s) \in Seq(Calm) /\ launchTowerJob(a, "fail") \in Seq(Calm)
           /\ checkDeployerJob(a) \in Seq(Calm) /\ launchAndPoll(a, s) \in Seq(Calm)
           /\ a = "destroy" => /\ sandboxGet(a, s) \in Seq(Calm \cap Lasting)
                               /\ launchTowerJob(a, "fail") \in Seq(Calm \cap Lasting)
                               /\ checkDeployerJob(a) \in Seq(Calm \cap Lasting)
<1> DEFINE S == IF a = "destroy" THEN Calm \cap Lasting ELSE Calm
<1>1. <<Call("get", a, "ignore")>> \in Seq(S)
  <2> DEFINE c == Call("get", a, "ignore")
  <2>1. IsCall(c, "get", a, "ignore") /\ "get" \in Ops \ {"schedule"}
    BY CallForm DEF Ops, OnErrors
  <2> HIDE DEF c
  <2>2. c \in Calm /\ (a = "destroy" => c \in Lasting)
    BY <2>1, CallFits
  <2> QED BY <2>2, Singleton DEF c
<1>2. <<Call("poll", a, "continue")>> \in Seq(S)
  <2> DEFINE c == Call("poll", a, "continue")
  <2>1. IsCall(c, "poll", a, "continue") /\ "poll" \in Ops \ {"schedule"}
    BY CallForm DEF Ops, OnErrors
  <2> HIDE DEF c
  <2>2. c \in Calm /\ (a = "destroy" => c \in Lasting)
    BY <2>1, CallFits
  <2> QED BY <2>2, Singleton DEF c
<1>3. launchTowerJob(a, "fail") \in Seq(S)
  <2> DEFINE c == Call("launch", a, "fail")
             st == IF a = "status" THEN NoPatch.state ELSE Running(a)
             p == [NoPatch EXCEPT !.job = a, !.state = st,
                                  !.css = IF a = "status" THEN "running" ELSE NoPatch.css]
             d == [Patch(p) EXCEPT !.onError = "fail"]
  <2>1. IsCall(c, "launch", a, "fail") /\ "launch" \in Ops \ {"schedule"}
    BY CallForm DEF Ops, OnErrors
  <2>2. st \in SubjectStates \cup {KeepState} /\ (a = "status" => st = KeepState)
        /\ st \notin Early \cup {Started, Stopped}
    <3>1. NoPatch.state = KeepState
      BY DEF NoPatch
    <3> QED BY <3>1, Apart, States
  <2>3. HasPatch(p, st, a)
    <3> HIDE DEF st
    <3> QED BY <2>2 DEF HasPatch, NoPatch, Patches
  <2>4. launchTowerJob(a, "fail") = <<c>> \o <<d>>
    <3>1. p = [NoPatch EXCEPT !.job = a, !.state = IF a = "status" THEN @ ELSE Running(a),
                              !.css = IF a = "status" THEN "running" ELSE @]
      BY DEF NoPatch
    <3> HIDE DEF p
    <3> QED BY <3>1 DEF launchTowerJob
  <2>5. d \in Calm /\ d \in Lasting
    <3> HIDE DEF p, st
    <3>1. "fail" \in OnErrors /\ st \notin Early /\ a # "provision"
          /\ "fail" \in {"fail", "ignore", "continue"}
      BY <2>2 DEF OnErrors
    <3>2. d \in Calm /\ ("fail" \in {"fail", "ignore", "continue"} => d \in Lasting)
      BY <2>3, <3>1, PlainFits
    <3> QED BY <2>2, <3>1, <3>2
  <2> HIDE DEF c, d
  <2>6. c \in Calm /\ c \in Lasting
    BY <2>1, CallFits
  <2>7. <<c>> \in Seq(S) /\ <<d>> \in Seq(S)
    BY <2>5, <2>6, Singleton
  <2> HIDE DEF S
  <2> QED BY <2>4, <2>7, Concat
<1>4. Post("continue") \in Seq(S)
  <2>1. Calm \cap Ending \subseteq Calm
    OBVIOUS
  <2> QED BY <2>1, PostFits, SeqMore
<1>5. sandboxGet(a, s) \in Seq(S)
  <2>1. <<>> \in Seq(S)
    OBVIOUS
  <2> HIDE DEF S
  <2> QED BY <1>1, <2>1 DEF sandboxGet
<1>6. launchAndPoll(a, s) \in Seq(S)
  <2> HIDE DEF S
  <2> QED BY <1>3, <1>4, <1>5, Concat DEF launchAndPoll
<1>7. Seq(S) \subseteq Seq(Calm)
  BY SeqMore
<1>8. checkDeployerJob(a) \in Seq(S)
  BY <1>2 DEF checkDeployerJob
<1>9. a = "destroy" => S = Calm \cap Lasting
  OBVIOUS
<1> HIDE DEF S
<1> QED BY <1>3, <1>5, <1>6, <1>7, <1>8, <1>9

\* Status checks.
LEMMA StatusFits ==
    ASSUME NEW s
    PROVE  /\ handleStatus(s) \in Seq(Calm)
           /\ scheduleStatusCheck \in Seq(Calm \cap Waking)
           /\ \A st \in JobStatuses : handleCallback("status", st, s) \in Seq(Calm)
<1> DEFINE S == Calm
<1>1. Seq(Calm \cap Ending) \subseteq Seq(S) /\ Seq(Calm \cap Lasting \cap Ending) \subseteq Seq(S)
  BY SeqMore
<1>2. Post("finish") \in Seq(S) /\ Post("continue") \in Seq(S) /\ Post("none") \in Seq(S)
  BY <1>1, PostFits
<1>3. \A p : HasPatch(p, KeepState, "keep") => <<SkipPatch(p)>> \in Seq(S)
  BY <1>1, NoteFits DEF OnErrors
<1>4. /\ HasPatch([NoPatch EXCEPT !.css = "successful"], KeepState, "keep")
      /\ HasPatch([NoPatch EXCEPT !.css = "pending"], KeepState, "keep")
      /\ HasPatch([NoPatch EXCEPT !.starts = "status"], KeepState, "keep")
      /\ \A st \in JobStatuses :
            HasPatch([NoPatch EXCEPT !.ends = "status", !.css = st], KeepState, "keep")
  BY Patched DEF Actions, JobStatuses
<1> HIDE DEF S
<1>5. statusSuccessful(NoPatch) \in Seq(S) /\ handleStatusComplete \in Seq(S)
  <2>1. /\ <<SkipPatch([NoPatch EXCEPT !.css = "successful"])>> \in Seq(S)
        /\ <<SkipPatch([NoPatch EXCEPT !.ends = "status", !.css = "successful"])>> \in Seq(S)
    BY <1>3, <1>4 DEF JobStatuses
  <2> QED BY <1>2, <2>1, Concat DEF statusSuccessful, handleStatusComplete
<1>6. ASSUME NEW st \in JobStatuses PROVE handleCallback("status", st, s) \in Seq(S)
  <2>1. handleStatusFailure(st) \in Seq(S)
    BY <1>2, <1>3, <1>4, Concat DEF handleStatusFailure
  <2> QED BY <1>5, <2>1 DEF handleCallback, handleDeployerJobSuccess, handleDeployerJobFailure
<1>7. handleStatus(s) \in Seq(S)
  <2>1. Stamp("status") \in Seq(S)
    BY <1>3, <1>4 DEF Stamp
  <2>2. launchAndPoll("status", s) \in Seq(S) /\ checkDeployerJob("status") \in Seq(S)
    BY LaunchFits DEF Actions, S
  <2> QED BY <1>2, <1>5, <2>1, <2>2, Concat DEF handleStatus, runStatus
<1>8. scheduleStatusCheck \in Seq(Calm \cap Waking)
  <2>1. <<SkipPatch([NoPatch EXCEPT !.css = "pending"])>> \in Seq(Calm \cap Waking)
    BY <1>4, NoteFits DEF OnErrors
  <2>2. Schedule("status", {}) \in Calm \cap Waking
    BY ScheduleFits DEF Actions
  <2>3. scheduleStatusCheck = <<SkipPatch([NoPatch EXCEPT !.css = "pending"])>> \o <<Schedule("status", {})>>
    BY DEF scheduleStatusCheck
  <2> QED BY <2>1, <2>2, <2>3, Singleton, Concat
<1> QED BY <1>6, <1>7, <1>8 DEF S

\* Starting and stopping the placement, and recording how it went.
LEMMA SandboxFits ==
    ASSUME NEW a \in {"start", "stop"}, NEW f \in OnErrors, NEW async
    PROVE  /\ sandboxPower(a, f) \in Seq(Calm)
           /\ requested(a, f, async) \in Seq(Calm)
           /\ \A o \in {"successful", "error"} :
                 recordSandboxJobOutcome(a, o, f) \in Seq(Calm)
           /\ recordSandboxActionFailure(a) \in Seq(Calm \cap Lasting)
<1>1. a \in Actions
  BY DEF Actions
<1>2. ASSUME NEW c \in Calm, c.op \in {"power", "patch"}
      PROVE  Traced(c, a) \in Calm
  <2>1. c \in Calls
    BY DEF Calm, Lively
  <2>2. /\ Traced(c, a) \in Calls /\ Traced(c, a).op = c.op /\ Traced(c, a).patch = c.patch
    BY <1>1, <2>1 DEF Traced, Calls
  <2> QED BY <1>2, <2>2 DEF Calm, Lively, Founds, Records
<1>3. sandboxPower(a, f) \in Seq(Calm)
  <2> DEFINE c == Call("power", a, f)
  <2>1. IsCall(c, "power", a, f) /\ "power" \in Ops \ {"schedule"}
    BY <1>1, CallForm DEF Ops
  <2> HIDE DEF c
  <2>2. c \in Calm /\ c.op = "power"
    BY <2>1, CallFits DEF IsCall
  <2> QED BY <1>2, <2>2, Singleton DEF sandboxPower, c
<1>4. requested(a, f, async) \in Seq(Calm)
  <2> DEFINE d == [SkipPatch(NoPatch) EXCEPT !.onError = f]
             c == Call("await", a, f)
  <2>1. IsCall(c, "await", a, f) /\ "await" \in Ops \ {"schedule"}
    BY <1>1, CallForm DEF Ops
  <2>2. HasPatch(NoPatch, KeepState, "keep")
    BY <1>1, Patched
  <2>3. IsPatch(d, KeepState, "keep", TRUE, f)
    BY <2>2, PatchForm DEF HasPatch
  <2>4. KeepState \notin Early \cup {Started, Stopped}
    BY Apart
  <2> HIDE DEF c, d
  <2>5. c \in Calm
    BY <2>1, CallFits
  <2>6. d \in Calm /\ d.op = "patch"
    BY <2>3, <2>4, PatchFits DEF IsPatch
  <2>7. Traced(d, a) \in Calm
    BY <1>2, <2>6
  <2>8. <<Traced(d, a)>> \in Seq(Calm) /\ <<c>> \in Seq(Calm)
        /\ <<>> \in Seq(Calm)
    BY <2>5, <2>7, Singleton
  <2>9. requested(a, f, async) = <<Traced(d, a)>> \o (IF async THEN <<c>> ELSE <<>>)
    BY DEF requested, c, d
  <2> QED BY <2>8, <2>9, Concat
<1>5. ASSUME NEW o \in {"successful", "error"}
      PROVE  recordSandboxJobOutcome(a, o, f) \in Seq(Calm)
  <2>1. HasPatch([NoPatch EXCEPT !.request = a, !.outcome = o], KeepState, "keep")
    BY <1>1, Patched
  <2> QED BY <2>1, NoteFits DEF recordSandboxJobOutcome
<1>6. recordSandboxActionFailure(a) \in Seq(Calm \cap Lasting)
  <2>1. HasPatch([NoPatch EXCEPT !.request = a, !.outcome = "error"], KeepState, "keep")
    BY <1>1, Patched
  <2> QED BY <2>1, NoteFits DEF recordSandboxActionFailure, recordSandboxJobOutcome, OnErrors
<1> QED BY <1>3, <1>4, <1>5, <1>6

\* Starts and stops: no patch that moves the subject to where the user may not want it
\* is exempt from update processing.
LEMMA StartStopFits ==
    ASSUME PowerDeployed, NEW s
    PROVE  /\ handleStart(s) \in Seq(Calm) /\ handleStop(s) \in Seq(Calm)
           /\ \A st \in JobStatuses :
                 handleCallback("start", st, s) \in Seq(Calm) /\ handleCallback("stop", st, s) \in Seq(Calm)
<1>1. {"start", "stop"} \subseteq Actions \ {"provision", "update"} /\ {"ignore", "finish", "fail"} \subseteq OnErrors
  BY DEF Actions, OnErrors
<1>2. /\ Seq(Calm \cap Ending) \subseteq Seq(Calm)
      /\ Seq(Calm \cap Lasting \cap Ending) \subseteq Seq(Calm)
  BY SeqMore
<1>3. Post("finish") \in Seq(Calm) /\ Post("continue") \in Seq(Calm) /\ Post("none") \in Seq(Calm)
  BY <1>2, PostFits
<1>4. ASSUME NEW a \in {"start", "stop"}
      PROVE  /\ Stamp(a) \in Seq(Calm) /\ sandboxPower(a, "ignore") \in Seq(Calm)
             /\ launchAndPoll(a, s) \in Seq(Calm) /\ checkDeployerJob(a) \in Seq(Calm)
             /\ <<Patch(Ends(a, Started))>> \in Seq(Calm)
             /\ <<Patch([NoPatch EXCEPT !.ends = a])>> \in Seq(Calm)
             /\ <<Patch([NoPatch EXCEPT !.state = Stopped])>> \in Seq(Calm)
             /\ <<Schedule(a, {"start", "stop"})>> \in Seq(Calm)
             /\ \A st \in FailureStatuses :
                   <<SkipPatch([Ends(a, Failure(a, st)) EXCEPT !.vars = failedVars(st)])>> \in Seq(Calm)
  <2>1. a \in Actions \ {"provision", "update"}
    BY <1>1
  <2>2. HasPatch([NoPatch EXCEPT !.starts = a], KeepState, "keep")
        /\ HasPatch([NoPatch EXCEPT !.ends = a], KeepState, "keep")
        /\ HasPatch([NoPatch EXCEPT !.state = Stopped], Stopped, "keep")
        /\ HasPatch(Ends(a, Started), Started, "keep")
    BY <2>1, Patched, States
  <2>3. Stamp(a) \in Seq(Calm)
    BY <1>1, <1>2, <2>2, NoteFits DEF Stamp
  <2>4. {KeepState, Stopped, Started} \cap Early = {} /\ "keep" # "provision"
    BY Apart
  <2>5. /\ Patch(Ends(a, Started)) \in Calm
        /\ Patch([NoPatch EXCEPT !.ends = a]) \in Calm
        /\ Patch([NoPatch EXCEPT !.state = Stopped]) \in Calm
    <3>1. ASSUME NEW p, NEW st, HasPatch(p, st, "keep"), st \notin Early
          PROVE  Patch(p) \in Calm
      <4>1. "keep" # "provision" /\ "fail" \in OnErrors
        BY DEF OnErrors
      <4> QED BY <3>1, <4>1, PlainFits
    <3>2. KeepState \notin Early /\ Stopped \notin Early /\ Started \notin Early
      BY <2>4
    <3> QED BY <2>2, <3>1, <3>2
  <2>6. Schedule(a, {"start", "stop"}) \in Calm
    <3>1. {"start", "stop"} \in SUBSET {"start", "stop", "update"} /\ a # "destroy" /\ a \in Actions \ {"update"}
      BY <2>1
    <3> QED BY <3>1, ScheduleFits
  <2>7. ASSUME NEW st \in FailureStatuses
        PROVE  <<SkipPatch([Ends(a, Failure(a, st)) EXCEPT !.vars = failedVars(st)])>> \in Seq(Calm)
    <3> DEFINE p == [Ends(a, Failure(a, st)) EXCEPT !.vars = failedVars(st)]
    <3>1. HasPatch(p, Failure(a, st), "keep")
      <4>1. failedVars(st) \in {"keep", "forensics"} /\ Failure(a, st) \in SubjectStates \cup {KeepState}
        BY <2>1, States DEF failedVars
      <4> QED BY <2>1, <4>1, Patched
    <3> DEFINE state == Failure(a, st)
    <3>2. state \notin Early \cup {Started, Stopped} /\ "fail" \in OnErrors
      BY <2>1, <1>1, Apart
    <3> HIDE DEF p, state
    <3>3. HasPatch(p, state, "keep") /\ "keep" # "provision"
      BY <3>1 DEF state
    <3>4. SkipPatch(p) \in Calm
      BY <3>2, <3>3, SkipFits
    <3> QED BY <3>4, Singleton DEF p
  <2>8. sandboxPower(a, "ignore") \in Seq(Calm)
    BY <1>1, SandboxFits
  <2>9. launchAndPoll(a, s) \in Seq(Calm) /\ checkDeployerJob(a) \in Seq(Calm)
    BY <2>1, LaunchFits
  <2> QED BY <2>3, <2>5, <2>6, <2>7, <2>8, <2>9, Singleton
<1>5. <<>> \in Seq(Calm) /\ "start" \notin Disabled /\ "stop" \notin Disabled
  BY DEF PowerDeployed
<1>6. handleStart(s) \in Seq(Calm)
  BY <1>3, <1>4, <1>5, Concat DEF handleStart, runStart
<1>7. handleStop(s) \in Seq(Calm)
  BY <1>3, <1>4, <1>5, Concat DEF handleStop, runStop
<1>8. handleStartComplete \in Seq(Calm) /\ handleStopComplete \in Seq(Calm)
  <2>1. handleStartComplete \in Seq(Calm)
    BY <1>3, <1>4, Concat DEF handleStartComplete
  <2>2. <<Patch([NoPatch EXCEPT !.ends = "stop"])>>
          \o (IF powerOff THEN sandboxPower("stop", "ignore") ELSE <<>>) \in Seq(Calm)
    BY <1>4, <1>5, Concat
  <2>3. <<Patch([NoPatch EXCEPT !.state = Stopped])>> \o Post("finish") \in Seq(Calm)
    BY <1>3, <1>4, Concat
  <2> QED BY <1>3, <1>4, <2>1, <2>2, <2>3, Concat DEF handleStopComplete
<1>9. ASSUME NEW st \in FailureStatuses
      PROVE  handleStartFailure(s, st) \in Seq(Calm) /\ handleStopFailure(s, st) \in Seq(Calm)
  <2>1. ASSUME NEW wanted, NEW other, NEW pivot \in {"start", "stop"}
        PROVE  retryOrPivot(s, wanted, other, pivot) \in Seq(Calm)
    BY <1>3, <1>4, Concat DEF retryOrPivot
  <2>2. handleStartFailure(s, st) \in Seq(Calm)
    BY <1>4, <2>1, Concat DEF handleStartFailure
  <2>3. (IF powerOff /\ st # "canceled" THEN sandboxPower("stop", "ignore") ELSE <<>>) \in Seq(Calm)
    BY <1>4, <1>5
  <2>4. <<SkipPatch([Ends("stop", Failure("stop", st)) EXCEPT !.vars = failedVars(st)])>> \in Seq(Calm)
        /\ retryOrPivot(s, "stopped", "started", "start") \in Seq(Calm)
    BY <1>4, <2>1
  <2> QED BY <2>2, <2>3, <2>4, Concat DEF handleStopFailure
<1>10. \A st \in JobStatuses : st # "successful" => st \in FailureStatuses
  BY DEF JobStatuses
<1> QED BY <1>6, <1>7, <1>8, <1>9, <1>10 DEF handleCallback, handleDeployerJobSuccess, handleDeployerJobFailure

\* Cleaning up a placement.
LEMMA CleanupFits == ASSUME NEW s PROVE sandboxCleanup(s) \in Seq(Calm \cap Lasting \cap Ending)
<1> DEFINE c == Call("release", "none", "fail")
<1>1. IsCall(c, "release", "none", "fail") /\ "release" \in Ops \ {"schedule"}
  BY CallForm DEF Ops, OnErrors
<1> HIDE DEF c
<1>2. c \in Calm \cap Lasting \cap Ending
  BY <1>1, CallFits
<1>3. <<c>> \in Seq(Calm \cap Lasting \cap Ending) /\ <<>> \in Seq(Calm \cap Lasting \cap Ending)
  BY <1>2, Singleton
<1> QED BY <1>3 DEF sandboxCleanup, c

\* Canceling jobs.
LEMMA CancelFits ==
    ASSUME NEW a \in {"provision", "all"}
    PROVE  /\ Call("cancel", a, "ignore") \in Calm \cap Lasting \cap Ending
           /\ Call("cancel", a, "ignore").op = "cancel"
<1> DEFINE c == Call("cancel", a, "ignore")
<1>1. IsCall(c, "cancel", a, "ignore") /\ "cancel" \in Ops \ {"schedule"}
  BY CallForm DEF Ops, OnErrors, Actions
<1> HIDE DEF c
<1>2. c \in Calm \cap Lasting \cap Ending /\ c.op = "cancel"
  BY <1>1, CallFits DEF IsCall
<1> QED BY <1>2 DEF c

\* Destroy goes on until the subject is deleted.
LEMMA DestroyFits ==
    ASSUME NEW s
    PROVE  /\ "destroy" \notin Disabled => handleDestroy(s) \in Seq(Calm \cap Lasting)
           /\ \A st \in JobStatuses : handleCallback("destroy", st, s) \in Seq(Calm \cap Lasting)
<1> DEFINE S == Calm \cap Lasting
<1>1. "destroy" \in Actions \ {"provision", "update"} /\ "fail" \in OnErrors
  BY DEF Actions, OnErrors
<1>2. Post("continue") \in Seq(S) /\ Post("delete") \in Seq(S)
  BY PostFits
<1>3. Seq(Calm \cap Lasting \cap Ending) \subseteq Seq(S)
  BY SeqMore
<1>4. sandboxCleanup(s) \in Seq(S)
  BY <1>3, CleanupFits
<1>5. /\ Stamp("destroy") \in Seq(S)
      /\ <<SkipPatch(Ends("destroy", DestroyComplete))>> \in Seq(S)
      /\ \A f \in FailureStatuses : <<SkipPatch(Ends("destroy", Failure("destroy", f)))>> \in Seq(S)
  <2>1. HasPatch([NoPatch EXCEPT !.starts = "destroy"], KeepState, "keep")
    BY <1>1, Patched
  <2>2. Stamp("destroy") \in Seq(S)
    BY <1>1, <1>3, <2>1, NoteFits DEF Stamp
  <2>3. ASSUME NEW st \in SubjectStates, st \notin Early \cup {Started, Stopped}
        PROVE  <<SkipPatch(Ends("destroy", st))>> \in Seq(S)
    <3>1. HasPatch(Ends("destroy", st), st, "keep") /\ "keep" # "provision"
      BY <1>1, Patched
    <3>2. SkipPatch(Ends("destroy", st)) \in S
      BY <1>1, <2>3, <3>1, SkipFits
    <3> QED BY <3>2, Singleton
  <2>4. DestroyComplete \in SubjectStates /\ DestroyComplete \notin Early \cup {Started, Stopped}
    BY Apart, States
  <2>5. \A f \in FailureStatuses : /\ Failure("destroy", f) \in SubjectStates
                                   /\ Failure("destroy", f) \notin Early \cup {Started, Stopped}
    BY <1>1, Apart, States
  <2> QED BY <2>2, <2>3, <2>4, <2>5
<1>6. <<Call("cancel", "provision", "ignore")>> \in Seq(S)
  BY CancelFits, Singleton
<1>7. /\ sandboxGet("destroy", s) \in Seq(S) /\ launchTowerJob("destroy", "fail") \in Seq(S)
      /\ checkDeployerJob("destroy") \in Seq(S)
  BY <1>1, LaunchFits
<1>8. <<>> \in Seq(S)
  OBVIOUS
<1> HIDE DEF S
<1>9. runDestroy(s) \in Seq(S)
  BY <1>2, <1>6, <1>7, Concat DEF runDestroy
<1>10. handleDestroyCatchAll(s) \in Seq(S)
  BY <1>2, <1>4, Concat DEF handleDestroyCatchAll
<1>11. "destroy" \notin Disabled => handleDestroy(s) \in Seq(S)
  <2> DEFINE first == IF s.state = Pending("destroy") /\ "destroy" \notin s.started THEN Stamp("destroy") ELSE <<>>
             rest == IF SandboxInUse /\ CatchAll /\ (\E f \in FailureStatuses : s.state = Failure("destroy", f))
                     THEN handleDestroyCatchAll(s)
                     ELSE IF s.state = Running("destroy") THEN checkDeployerJob("destroy")
                     ELSE runDestroy(s)
  <2>1. first \in Seq(S) /\ rest \in Seq(S)
    BY <1>5, <1>7, <1>8, <1>9, <1>10
  <2>2. "destroy" \notin Disabled => handleDestroy(s) = first \o rest
    BY DEF handleDestroy
  <2> HIDE DEF first, rest
  <2> QED BY <2>1, <2>2, Concat
<1>12. handleDestroyComplete(s) \in Seq(S)
  BY <1>2, <1>4, <1>5, <1>8, Concat DEF handleDestroyComplete
<1>13. \A f \in FailureStatuses : handleDestroyFailure(f) \in Seq(S)
  BY <1>2, <1>5, Concat DEF handleDestroyFailure
<1>14. \A st \in JobStatuses : st # "successful" => st \in FailureStatuses
  BY DEF JobStatuses
<1>15. \A st \in JobStatuses : handleCallback("destroy", st, s) \in Seq(S)
  BY <1>12, <1>13, <1>14 DEF handleCallback, handleDeployerJobSuccess, handleDeployerJobFailure
<1> QED BY <1>11, <1>15 DEF S

\* The decisive call after others.
LEMMA DecidedConcat ==
    ASSUME NEW s \in Seq(Calls), NEW t \in Seq(Calls), Decided(t),
           \A i \in 1..Len(s) : s[i].op # "post"
    PROVE  Decided(s \o t)
<1>1. PICK k \in 1..Len(t) : Decisive(t[k]) /\ \A j \in 1..(k - 1) : t[j].op # "post"
  BY DEF Decided
<1> DEFINE r == s \o t
           n == Len(s)
<1>2. /\ Len(r) = n + Len(t) /\ n \in Nat /\ Len(t) \in Nat
      /\ \A i \in 1..n : r[i] = s[i]
      /\ \A i \in 1..Len(t) : r[n + i] = t[i]
  OBVIOUS
<1> HIDE DEF r, n
<1>3. n + k \in 1..Len(r) /\ Decisive(r[n + k])
  BY <1>1, <1>2
<1>4. ASSUME NEW j \in 1..((n + k) - 1) PROVE r[j].op # "post"
  <2>1. CASE j \in 1..n
    BY <1>2, <2>1 DEF n
  <2>2. CASE j > n
    <3>1. j - n \in 1..(k - 1) /\ j - n \in 1..Len(t) /\ j = n + (j - n)
      BY <1>1, <1>2, <2>2
    <3>2. r[j] = t[j - n]
      BY <1>2, <3>1
    <3> QED BY <1>1, <3>1, <3>2
  <2> QED BY <1>2, <2>1, <2>2
<1>5. \E m \in 1..Len(r) : Decisive(r[m]) /\ \A j \in 1..(m - 1) : r[j].op # "post"
  <2> DEFINE m == n + k
  <2>1. m \in 1..Len(r) /\ Decisive(r[m])
    BY <1>3
  <2>2. \A j \in 1..(m - 1) : r[j].op # "post"
    BY <1>4
  <2> HIDE DEF m
  <2> QED BY <2>1, <2>2
<1>6. Decided(r)
  BY <1>5 DEF Decided
<1> QED BY <1>6 DEF r

\* The decisive call ahead of others.
LEMMA DecidedHead ==
    ASSUME NEW c \in Calls, Decisive(c), NEW t \in Seq(Calls) PROVE Decided(<<c>> \o t)
<1> DEFINE r == <<c>> \o t
<1>1. Len(r) \in Nat /\ Len(r) >= 1 /\ r[1] = c
  OBVIOUS
<1> HIDE DEF r
<1>2. 1 \in 1..Len(r) /\ Decisive(r[1]) /\ \A j \in 1..(1 - 1) : r[j].op # "post"
  BY <1>1
<1>3. Decided(r)
  BY <1>2 DEF Decided
<1> QED BY <1>3 DEF r

\* A patch that moves the subject on and has no job.
LEMMA MoveFits ==
    ASSUME NEW p, NEW st, HasPatch(p, st, "keep"), st \notin Early
    PROVE  Patch(p) \in Calm \cap Ending
<1>1. ASSUME NEW job, job # "provision", HasPatch(p, st, job), NEW f \in OnErrors
      PROVE  Patch(p) \in Calm /\ Patch(p) \in Ending
  <2> DEFINE c == Patch(p)
  <2>1. IsPatch(c, st, job, FALSE, "fail") /\ ~c.traced
    BY <1>1, PatchForm DEF HasPatch
  <2> HIDE DEF c
  <2>2. c \in Calm /\ c \in Ending
    BY <1>1, <2>1, PatchFits
  <2> QED BY <2>2 DEF c
<1>2. "fail" \in OnErrors
  BY DEF OnErrors
<1>3. "keep" # "provision"
  OBVIOUS
<1> QED BY <1>1, <1>2, <1>3

\* A delete event has the subject destroyed or deletes it.
LEMMA DeleteFits ==
    ASSUME NEW s
    PROVE  handleEventDelete(s) \in Seq(Calm \cap Ending) /\ Decided(handleEventDelete(s))
<1> DEFINE S == Calm \cap Ending
           cancels == Call("cancel", "all", "ignore")
           destroys == Schedule("destroy", {"start", "stop", "update"})
           dooms == Patch([NoPatch EXCEPT !.state = Pending("destroy"), !.desired = "destroyed"])
           ends == Patch([NoPatch EXCEPT !.state = DestroyComplete, !.desired = "destroyed"])
           deletes == Call("post", "delete", "fail")
           cleanup == IF SandboxInUse /\ CatchAll /\ s.uuid THEN sandboxCleanup(s) ELSE <<>>
<1>1. /\ cancels \in S /\ cancels.op # "post"
      /\ <<cancels>> \in Seq(S) /\ \A i \in 1..Len(<<cancels>>) : <<cancels>>[i].op # "post"
  <2>1. cancels \in S /\ cancels.op # "post"
    BY CancelFits
  <2> HIDE DEF cancels, S
  <2> QED BY <2>1
<1>2. /\ dooms \in S /\ ends \in S /\ ends.op # "post"
  <2>1. /\ HasPatch([NoPatch EXCEPT !.state = Pending("destroy"), !.desired = "destroyed"],
                    Pending("destroy"), "keep")
        /\ HasPatch([NoPatch EXCEPT !.state = DestroyComplete, !.desired = "destroyed"],
                    DestroyComplete, "keep")
    BY Patched, States DEF Actions
  <2>2. Pending("destroy") \notin Early /\ DestroyComplete \notin Early
    BY Apart DEF Actions
  <2>3. dooms \in S /\ ends \in S
    BY <2>1, <2>2, MoveFits
  <2>4. ends.op = "patch"
    BY <2>1, PatchIs DEF HasPatch
  <2> HIDE DEF S, dooms, ends
  <2> QED BY <2>3, <2>4
<1>3. /\ Post("none") \in Seq(S) /\ Post("delete") \in Seq(S) /\ Post("delete") = <<deletes>>
  <2> QED BY PostFits DEF Post
<1>4. Seq(S) \subseteq Seq(Calls) /\ S \subseteq Calls
  <2>1. S \subseteq Calls
    BY DEF Calm, Lively
  <2> QED BY <2>1, SeqMore
<1>5. CASE s.provisioned /\ "destroy" \in GovActions /\ "destroy" \notin Disabled
  <2>1. destroys \in S /\ Decisive(destroys)
    <3>1. "destroy" \in Actions \ {"update"} /\ {"start", "stop", "update"} \in SUBSET {"start", "stop", "update"}
      BY DEF Actions
    <3> QED BY <1>5, <3>1, ScheduleFits DEF Decisive
  <2>2. handleEventDelete(s) = <<cancels>> \o (<<destroys, dooms>> \o Post("none"))
    BY <1>5 DEF handleEventDelete, handleEventDeleteWithDestroy
  <2> HIDE DEF S, cancels, destroys, dooms, ends, deletes
  <2>3. <<destroys, dooms>> = <<destroys>> \o <<dooms>> /\ <<destroys>> \in Seq(S) /\ <<dooms>> \in Seq(S)
    BY <1>2, <2>1, Singleton, Tuple2
  <2>4. <<dooms>> \o Post("none") \in Seq(S)
    BY <1>3, <2>3, Concat
  <2>5. <<destroys, dooms>> \o Post("none") = <<destroys>> \o (<<dooms>> \o Post("none"))
    BY <1>3, <2>3, ConcatAssociative
  <2>6. /\ <<destroys>> \o (<<dooms>> \o Post("none")) \in Seq(S)
        /\ Decided(<<destroys>> \o (<<dooms>> \o Post("none")))
    BY <1>4, <2>1, <2>3, <2>4, DecidedHead, Concat
  <2>7. handleEventDelete(s) = <<cancels>> \o (<<destroys>> \o (<<dooms>> \o Post("none")))
    BY <2>2, <2>5
  <2> DEFINE t == <<destroys>> \o (<<dooms>> \o Post("none"))
  <2>8. t \in Seq(S) /\ t \in Seq(Calls) /\ Decided(t) /\ <<cancels>> \in Seq(Calls)
    BY <1>1, <1>4, <2>6
  <2> HIDE DEF t
  <2>9. <<cancels>> \o t \in Seq(S) /\ Decided(<<cancels>> \o t)
    BY <1>1, <2>8, DecidedConcat, Concat
  <2> QED BY <2>7, <2>9 DEF S, t
<1>6. CASE ~(s.provisioned /\ "destroy" \in GovActions /\ "destroy" \notin Disabled)
  <2>1. handleEventDelete(s) = <<cancels>> \o ((cleanup \o <<ends>>) \o Post("delete"))
    BY <1>6 DEF handleEventDelete, handleEventDeleteWithoutDestroy
  <2>2. cleanup \in Seq(S) /\ \A i \in 1..Len(cleanup) : cleanup[i].op # "post"
    <3>1. Seq(Calm \cap Lasting \cap Ending) \subseteq Seq(S)
      BY SeqMore
    <3>2. sandboxCleanup(s) \in Seq(S)
      BY <3>1, CleanupFits
    <3>3. <<>> \in Seq(S) /\ Len(<<>>) = 0
      OBVIOUS
    <3>4. \A i \in 1..Len(sandboxCleanup(s)) : sandboxCleanup(s)[i].op # "post"
      BY CallIs DEF sandboxCleanup, Call
    <3> HIDE DEF S
    <3> QED BY <3>2, <3>3, <3>4
  <2>3. deletes \in Calls /\ Decisive(deletes)
    <3>1. IsCall(deletes, "post", "delete", "fail")
      BY CallForm DEF Ops, OnErrors
    <3> QED BY <3>1 DEF IsCall, Decisive
  <2>4. Decided(<<deletes>>)
    <3> HIDE DEF deletes
    <3>1. Decided(<<deletes>> \o <<>>)
      <4>1. <<>> \in Seq(Calls)
        OBVIOUS
      <4> QED BY <2>3, <4>1, DecidedHead
    <3>2. <<deletes>> \o <<>> = <<deletes>>
      OBVIOUS
    <3> QED BY <3>1, <3>2
  <2> HIDE DEF S, cancels, destroys, dooms, ends, deletes, cleanup
  <2>5. cleanup \o <<ends>> \in Seq(S) /\ \A i \in 1..Len(cleanup \o <<ends>>) : (cleanup \o <<ends>>)[i].op # "post"
    BY <1>2, <2>2
  <2> DEFINE first == cleanup \o <<ends>>
  <2> HIDE DEF first
  <2>6. first \in Seq(S) /\ \A i \in 1..Len(first) : first[i].op # "post"
    BY <2>5 DEF first
  <2>7. first \o Post("delete") \in Seq(S) /\ Decided(first \o Post("delete"))
    BY <1>3, <1>4, <2>4, <2>6, DecidedConcat, Concat
  <2>8. handleEventDelete(s) = <<cancels>> \o (first \o Post("delete"))
    BY <2>1 DEF first
  <2> DEFINE t == first \o Post("delete")
  <2>9. t \in Seq(S) /\ t \in Seq(Calls) /\ Decided(t) /\ <<cancels>> \in Seq(Calls)
    BY <1>1, <1>4, <2>7
  <2> HIDE DEF t
  <2>10. <<cancels>> \o t \in Seq(S) /\ Decided(<<cancels>> \o t)
    BY <1>1, <2>9, DecidedConcat, Concat
  <2> QED BY <2>8, <2>10 DEF S, t
<1> QED BY <1>5, <1>6

\* The action an update event is about.
LEMMA UpdateAction ==
    ASSUME PowerDeployed, NEW s, determineUpdateAction(s) \in GovActions
    PROVE  /\ s.vars = s.prev.vars
           /\ \/ determineUpdateAction(s) = "start" /\ s.desired = "started" /\ s.state = Stopped
              \/ determineUpdateAction(s) = "stop" /\ s.desired = "stopped" /\ s.state = Started
<1>1. "none" \notin GovActions /\ "update" \notin GovActions
  BY GovernorAssumption DEF PowerDeployed, Actions
<1> QED BY <1>1 DEF determineUpdateAction

\* An update event moves a subject that is not where the user wants it with its first
\* call, unless it finds job_vars edited.
LEMMA UpdateFits ==
    ASSUME PowerDeployed, NEW s
    PROVE  /\ handleEventUpdate(s) \in Seq(Calm \cap Waking)
           /\ handleEventUpdate(s) # <<>>
           /\ determineUpdateAction(s) \in GovActions => Turns(Head(handleEventUpdate(s)))
<1> DEFINE a == determineUpdateAction(s)
           S == Calm \cap Waking
           check == IF "status" \in GovActions /\ shouldScheduleStatus(s) THEN scheduleStatusCheck ELSE <<>>
           rest == check \o Post("none")
           first == IF a \in GovActions THEN scheduleUpdateAction(a) ELSE <<>>
<1>1. check \in Seq(S)
  <2>1. <<>> \in Seq(S)
    OBVIOUS
  <2> HIDE DEF S
  <2> QED BY <2>1, StatusFits DEF S
<1>2. Post("none") \in Seq(S) /\ Post("none") # <<>>
  <2>1. Post("none") \in Seq(S)
    BY PostFits
  <2> QED BY <2>1 DEF Post
<1>3. "fail" \in OnErrors
  BY DEF OnErrors
<1>4. handleEventUpdate(s) = (first \o check) \o Post("none")
  BY DEF handleEventUpdate
<1>5. CASE a \in GovActions
  <2> DEFINE p == [NoPatch EXCEPT !.state = Pending(a)]
             c == SkipPatch(p)
             d == Schedule(a, {"start", "stop"})
  <2>1. a \in {"start", "stop"}
    BY <1>5, UpdateAction
  <2>2. a \in Actions \ {"provision", "update", "destroy"} /\ "fail" \in OnErrors
    BY <1>3, <2>1 DEF Actions
  <2>3. first = <<c, d>>
    BY <1>5 DEF scheduleUpdateAction
  <2> HIDE DEF a, first
  <2>4. HasPatch(p, Pending(a), "keep") /\ "keep" # "provision"
        /\ Pending(a) \notin Early \cup {Started, Stopped}
    BY <2>2, Patched, States, Apart
  <2> HIDE DEF p
  <2>5. c \in Calm /\ (Pending(a) \in {Pending("start"), Pending("stop")} => c \in Waking)
    BY <2>2, <2>4, SkipFits
  <2>6. c.op = "patch" /\ c.patch.state = Pending(a)
    BY <2>4, SkipPatchIs DEF HasPatch
  <2>7. d \in S
    <3>1. {"start", "stop"} \in SUBSET {"start", "stop", "update"}
      OBVIOUS
    <3> QED BY <2>2, <3>1, ScheduleFits
  <2>8. c \in S /\ Turns(c)
    BY <2>1, <2>5, <2>6 DEF Turns
  <2> HIDE DEF c, d, check, S
  <2>9. first \in Seq(S) /\ check \in Seq(S) /\ Post("none") \in Seq(S) /\ Head(first) = c /\ first # <<>>
    BY <1>1, <1>2, <2>3, <2>7, <2>8
  <2> DEFINE mid == first \o check
             all == mid \o Post("none")
  <2>10. mid \in Seq(S) /\ mid # <<>> /\ Head(mid) = c
    BY <2>3, <2>9
  <2> HIDE DEF mid
  <2>11. all \in Seq(S) /\ all # <<>> /\ Head(all) = c
    BY <2>9, <2>10
  <2> HIDE DEF all
  <2>12. handleEventUpdate(s) = all
    BY <1>4 DEF all, mid
  <2> QED BY <2>1, <2>8, <2>11, <2>12 DEF S
<1>6. CASE a \notin GovActions
  <2>1. first = <<>> /\ <<>> \in Seq(S)
    BY <1>6
  <2> HIDE DEF first, check, S, a
  <2>2. handleEventUpdate(s) = check \o Post("none")
    BY <1>1, <1>4, <2>1
  <2>3. handleEventUpdate(s) \in Seq(S) /\ handleEventUpdate(s) # <<>>
    BY <1>1, <1>2, <2>2, Concat
  <2> QED BY <1>6, <2>3 DEF S, a
<1> QED BY <1>5, <1>6

\* Calls that provision; those that do not record the job; and the sequences of them in
\* which nothing provisions once the job is recorded.
Feeding == {c \in Lively : ~Records(c)}
Nurses(s) == s \in Seq(Lively) /\ Ordered(s)

\* Where nothing records a job, or nothing provisions, the order is kept.
LEMMA OrderedCalm ==
    ASSUME NEW s, s \in Seq(Calm) \/ s \in Seq(Feeding)
    PROVE  Ordered(s)
BY DEF Ordered, Calm, Feeding, Founds

\* Ahead of an ordered sequence nothing is recorded; behind a recording all is calm.
LEMMA OrderedConcat ==
    ASSUME NEW S, NEW s \in Seq(S), NEW t \in Seq(S), \A c \in Range(s) : ~Records(c), Ordered(t)
    PROVE  Ordered(s \o t)
<1> DEFINE r == s \o t
           n == Len(s)
<1>1. /\ n \in Nat /\ Len(t) \in Nat /\ Len(r) = n + Len(t)
      /\ \A i \in 1..n : r[i] = s[i] /\ s[i] \in Range(s)
      /\ \A i \in 1..Len(t) : r[n + i] = t[i]
  BY DEF Range
<1> HIDE DEF r, n
<1>2. ASSUME NEW i \in 1..Len(r), NEW j \in 1..Len(r), i < j, Records(r[i]) PROVE ~Founds(r[j])
  <2>1. i \notin 1..n
    BY <1>1, <1>2
  <2>2. i - n \in 1..Len(t) /\ j - n \in 1..Len(t) /\ i = n + (i - n) /\ j = n + (j - n) /\ i - n < j - n
    BY <1>1, <1>2, <2>1
  <2>3. r[i] = t[i - n] /\ r[j] = t[j - n]
    BY <1>1, <2>2
  <2> QED BY <1>2, <2>2, <2>3 DEF Ordered
<1>3. Ordered(r)
  BY <1>2 DEF Ordered
<1> QED BY <1>3 DEF r

\* Calls that record no job ahead of a provision.
LEMMA NursesConcat ==
    ASSUME NEW s \in Seq(Feeding), NEW t, Nurses(t) PROVE Nurses(s \o t)
<1>1. s \in Seq(Lively) /\ t \in Seq(Lively) /\ Ordered(t)
  BY SeqMore DEF Feeding, Nurses
<1>2. \A c \in Range(s) : ~Records(c)
  BY DEF Feeding, Range
<1> QED BY <1>1, <1>2, OrderedConcat, Concat DEF Nurses

\* The call that records the job ahead of calm ones.
LEMMA RecordFirst ==
    ASSUME NEW c \in Lively, NEW t \in Seq(Lively), t \in Seq(Calm) PROVE Nurses(<<c>> \o t)
<1> DEFINE r == <<c>> \o t
<1>1. /\ r \in Seq(Lively) /\ Len(t) \in Nat /\ Len(r) = 1 + Len(t)
      /\ \A i \in 2..Len(r) : r[i] = t[i - 1] /\ i - 1 \in 1..Len(t)
  OBVIOUS
<1> HIDE DEF r
<1>2. ASSUME NEW i \in 1..Len(r), NEW j \in 1..Len(r), i < j PROVE ~Founds(r[j])
  <2>1. j \in 2..Len(r)
    BY <1>2
  <2>2. r[j] = t[j - 1] /\ j - 1 \in 1..Len(t)
    BY <1>1, <2>1
  <2>3. t[j - 1] \in Calm
    BY <2>2
  <2> QED BY <2>2, <2>3 DEF Calm
<1>3. Ordered(r)
  BY <1>2 DEF Ordered
<1> QED BY <1>1, <1>3 DEF Nurses, r

\* What is calm goes everywhere in a provision.
LEMMA CalmNurses ==
    /\ Calm \subseteq Feeding /\ Feeding \subseteq Lively
    /\ \A s \in Seq(Calm) : s \in Seq(Feeding) /\ Nurses(s)
    /\ \A s \in Seq(Feeding) : Nurses(s)
<1>1. Calm \subseteq Feeding /\ Feeding \subseteq Lively
  BY DEF Calm, Feeding, Lively, Founds
<1>2. \A s \in Seq(Feeding) : Nurses(s)
  BY <1>1, OrderedCalm, SeqMore DEF Nurses
<1> QED BY <1>1, <1>2, SeqMore

\* The end of a provision job.
LEMMA ProvisionEndFits ==
    /\ handleProvisionError \in Seq(Calm)
    /\ handleProvisionCanceled \in Seq(Calm)
    /\ handleProvisionComplete \in Seq(Calm)
    /\ handleProvisionFailed \in Seq(Calm)
    /\ updateSubjectSandboxVars("provisionError") \in Seq(Calm)
    /\ updateSubjectSandboxVars("ignore") \in Seq(Calm \cap Lasting)
<1>1. "provision" \in Actions /\ {"fail", "provisionError", "ignore"} \subseteq OnErrors
  BY DEF Actions, OnErrors
<1>2. Post("finish") \in Seq(Calm)
  BY PostFits, SeqMore
<1>3. ASSUME NEW f \in FailureStatuses
      PROVE  /\ Failure("provision", f) \notin Early \cup {Started, Stopped, KeepState}
             /\ HasPatch(Ends("provision", Failure("provision", f)), Failure("provision", f), "keep")
             /\ HasPatch([Ends("provision", Failure("provision", f)) EXCEPT !.vars = "forensics"],
                         Failure("provision", f), "keep")
  <2>1. Failure("provision", f) \in SubjectStates \cup {KeepState}
    BY <1>1, States
  <2>2. Failure("provision", f) \notin Early \cup {Started, Stopped, KeepState}
    BY <1>1, Apart
  <2> QED BY <1>1, <2>1, <2>2, Patched
<1>4. {"error", "canceled", "failed"} \subseteq FailureStatuses
  BY DEF FailureStatuses
<1>5. "keep" # "provision"
  OBVIOUS
<1>6. handleProvisionError \in Seq(Calm)
  <2> DEFINE st == Failure("provision", "error")
             p == Ends("provision", Failure("provision", "error"))
             c == Patch(p)
  <2>1. c \in Calm
    <3>1. HasPatch(p, st, "keep") /\ st \notin Early \cup {Started, Stopped}
      BY <1>3, <1>4
    <3>2. "keep" # "provision" /\ "fail" \in OnErrors
      BY <1>1
    <3> HIDE DEF p, st
    <3> QED BY <3>1, <3>2, PlainFits
  <2>2. handleProvisionError = <<c>> \o Post("finish")
    BY DEF handleProvisionError
  <2> HIDE DEF c
  <2> QED BY <1>2, <2>1, <2>2, Singleton, Concat
<1>7. handleProvisionCanceled \in Seq(Calm)
  <2> DEFINE st == Failure("provision", "canceled")
             p == Ends("provision", Failure("provision", "canceled"))
             c == SkipPatch(p)
  <2>1. c \in Calm
    <3>1. HasPatch(p, st, "keep") /\ st \notin Early \cup {Started, Stopped}
      BY <1>3, <1>4
    <3>2. "keep" # "provision" /\ "fail" \in OnErrors
      BY <1>1
    <3> HIDE DEF p, st
    <3> QED BY <3>1, <3>2, SkipFits
  <2>2. handleProvisionCanceled = <<c>> \o Post("finish")
    BY DEF handleProvisionCanceled
  <2> HIDE DEF c
  <2> QED BY <1>2, <2>1, <2>2, Singleton, Concat
<1>8. handleProvisionComplete \in Seq(Calm)
  <2> DEFINE c == Patch(Ends("provision", Started))
  <2>1. HasPatch(Ends("provision", Started), Started, "keep") /\ Started \notin Early
    BY <1>1, Patched, States, Apart
  <2>2. c \in Calm
    BY <1>1, <1>5, <2>1, PlainFits
  <2>3. handleProvisionComplete = <<c>> \o Post("finish")
    BY DEF handleProvisionComplete
  <2> HIDE DEF c
  <2> QED BY <1>2, <2>2, <2>3, Singleton, Concat
<1>9. handleProvisionFailed \in Seq(Calm)
  <2> DEFINE st == Failure("provision", "failed")
             p == [Ends("provision", Failure("provision", "failed")) EXCEPT !.vars = "forensics"]
             c == Patch(p)
  <2>1. c \in Calm
    <3>1. HasPatch(p, st, "keep") /\ st \notin Early \cup {Started, Stopped}
      BY <1>3, <1>4
    <3>2. "keep" # "provision" /\ "fail" \in OnErrors
      BY <1>1
    <3> HIDE DEF p, st
    <3> QED BY <3>1, <3>2, PlainFits
  <2>2. handleProvisionFailed = <<c>> \o Post("finish")
    BY DEF handleProvisionFailed
  <2> HIDE DEF c
  <2> QED BY <1>2, <2>1, <2>2, Singleton, Concat
<1>10. /\ updateSubjectSandboxVars("provisionError") \in Seq(Calm)
       /\ updateSubjectSandboxVars("ignore") \in Seq(Calm \cap Lasting)
  <2>1. HasPatch([NoPatch EXCEPT !.vars = "same"], KeepState, "keep")
    BY <1>1, Patched, States
  <2> QED BY <1>1, <2>1, NoteFits DEF updateSubjectSandboxVars
<1> QED BY <1>6, <1>7, <1>8, <1>9, <1>10

\* A patch that moves a subject that has no provision job yet.
LEMMA EarlyFits ==
    ASSUME NEW p, NEW st \in Early, HasPatch(p, st, "keep")
    PROVE  <<SkipPatch(p)>> \in Seq(Feeding)
<1> DEFINE c == SkipPatch(p)
<1>1. IsPatch(c, st, "keep", TRUE, "fail")
  BY PatchForm DEF HasPatch, OnErrors
<1> HIDE DEF c
<1>2. st \notin {Started, Stopped} /\ "keep" # "provision"
  BY Apart
<1>3. c \in Lively
  BY <1>1, <1>2, PatchFits
<1>4. ~Records(c)
  BY <1>1 DEF IsPatch, Records
<1>5. c \in Feeding
  BY <1>3, <1>4 DEF Feeding, Lively
<1> QED BY <1>5, Singleton DEF c

\* The calls a provision makes before its job is launched, and the launch.
LEMMA AheadFits ==
    ASSUME NEW op \in {"launch", "get", "book", "reget", "checkQueue"}
    PROVE  <<Call(op, "provision", "provisionError")>> \in Seq(Feeding)
<1> DEFINE c == Call(op, "provision", "provisionError")
<1>1. IsCall(c, op, "provision", "provisionError") /\ op \in Ops \ {"schedule"} /\ op # "poll"
  BY CallForm DEF Ops, OnErrors, Actions
<1> HIDE DEF c
<1>2. c \in Lively /\ ~Records(c)
  BY <1>1, CallFits
<1>3. c \in Feeding
  BY <1>2 DEF Feeding, Lively
<1> QED BY <1>3, Singleton DEF c

\* The launch of a provision.
LEMMA ProvisionLaunchFits == Nurses(launchProvision)
<1>1. CASE "provision" \notin Disabled
  <2> DEFINE c == Call("launch", "provision", "provisionError")
             p == [NoPatch EXCEPT !.job = "provision", !.state = Running("provision"), !.css = NoPatch.css]
             d == [Patch(p) EXCEPT !.onError = "provisionError"]
  <2>1. <<c>> \in Seq(Feeding)
    BY AheadFits
  <2>2. HasPatch(p, Running("provision"), "provision")
    <3>1. Running("provision") \in SubjectStates /\ "provision" \in Actions
      BY States DEF Actions
    <3> QED BY <3>1 DEF HasPatch, NoPatch, Patches
  <2>3. launchTowerJob("provision", "provisionError") = <<c>> \o <<d>>
    <3>1. p = [NoPatch EXCEPT !.job = "provision", !.state = IF "provision" = "status" THEN @ ELSE Running("provision"),
                              !.css = IF "provision" = "status" THEN "running" ELSE @]
      BY DEF NoPatch
    <3> HIDE DEF p
    <3> QED BY <3>1 DEF launchTowerJob
  <2> HIDE DEF p
  <2>4. IsPatch(d, Running("provision"), "provision", FALSE, "provisionError")
    BY <2>2, PatchForm DEF HasPatch, OnErrors
  <2> HIDE DEF c, d
  <2>5. d \in Lively
    <3>1. Running("provision") \notin {Started, Stopped}
      BY Apart DEF Actions
    <3>2. d \in Lively
      BY <1>1, <2>4, <3>1, PatchFits
    <3> QED BY <2>4, <3>2 DEF Lively, IsPatch
  <2>6. Post("continue") \in Seq(Lively) /\ Post("continue") \in Seq(Calm)
    <3>1. Post("continue") \in Seq(Calm \cap Ending)
      BY PostFits
    <3>2. Calm \cap Ending \subseteq Lively /\ Calm \cap Ending \subseteq Calm
      BY CalmNurses
    <3> QED BY <3>1, <3>2, SeqMore
  <2>7. Nurses(<<d>> \o Post("continue"))
    BY <2>5, <2>6, RecordFirst
  <2> DEFINE t == <<d>> \o Post("continue")
  <2>8. Nurses(<<c>> \o t)
    <3> HIDE DEF t
    <3> QED BY <2>1, <2>7, NursesConcat DEF t
  <2>9. launchProvision = <<c>> \o t
    <3>1. <<d>> \in Seq(Lively) /\ <<c>> \in Seq(Lively)
      BY <2>1, <2>5, Singleton, CalmNurses, SeqMore
    <3>2. (<<c>> \o <<d>>) \o Post("continue") = <<c>> \o (<<d>> \o Post("continue"))
      BY <2>6, <3>1, ConcatAssociative
    <3> QED BY <1>1, <2>3, <3>2 DEF launchProvision
  <2> QED BY <2>8, <2>9
<1>2. CASE "provision" \in Disabled
  <2>1. Calm \subseteq Feeding
    BY <1>2 DEF Calm, Feeding, Lively, Founds
  <2>2. Seq(Calm) \subseteq Seq(Feeding)
    BY <2>1, SeqMore
  <2>3. Post("none") \in Seq(Calm) /\ Post("finish") \in Seq(Calm)
    <3>1. Calm \cap Ending \subseteq Calm
      OBVIOUS
    <3> QED BY <3>1, PostFits, SeqMore
  <2>4. <<Patch([NoPatch EXCEPT !.state = Started])>> \in Seq(Calm)
    <3> DEFINE p == [NoPatch EXCEPT !.state = Started]
    <3>1. HasPatch(p, Started, "keep") /\ Started \notin Early /\ "keep" # "provision"
          /\ "fail" \in OnErrors
      BY Patched, States, Apart DEF Actions, OnErrors
    <3> HIDE DEF p
    <3>2. Patch(p) \in Calm
      BY <3>1, PlainFits
    <3> QED BY <3>2, Singleton DEF p
  <2>5. completeProvisionNoDeployer \in Seq(Calm)
    BY <2>3, <2>4, Concat DEF completeProvisionNoDeployer
  <2> QED BY <1>2, <2>2, <2>3, <2>5, CalmNurses DEF launchProvision
<1> QED BY <1>1, <1>2

\* Provisioning, and what a provision does with an answer of the sandbox API.
LEMMA ProvisionFits ==
    ASSUME NEW s
    PROVE  /\ Nurses(runProvision(s)) /\ Nurses(handleProvision(s))
           /\ \A st \in PlacementStatuses : Nurses(queueChecked(st, s))
           /\ s.state \notin Early => handleProvision(s) \in Seq(Calm)
<1>1. /\ Seq(Calm \cap Ending) \subseteq Seq(Calm)
      /\ Seq(Calm \cap Lasting \cap Ending) \subseteq Seq(Calm)
  BY SeqMore
<1>2. Post("none") \in Seq(Calm) /\ Post("continue") \in Seq(Calm)
  BY <1>1, PostFits
<1>3. checkDeployerJob("provision") \in Seq(Calm)
  <2> DEFINE c == Call("poll", "provision", "continue")
  <2>1. IsCall(c, "poll", "provision", "continue") /\ "poll" \in Ops \ {"schedule"}
        /\ "provision" \in Actions \ {"update"}
    BY CallForm DEF Ops, OnErrors, Actions
  <2> HIDE DEF c
  <2>2. c \in Calm
    BY <2>1, CallFits
  <2> QED BY <2>2, Singleton DEF checkDeployerJob, c
<1>4. Nurses(handleProvisionError) /\ Nurses(Post("none"))
  BY <1>2, CalmNurses, ProvisionEndFits
<1>5. Nurses(runProvision(s))
  <2> DEFINE first == IF "provision" \in s.started THEN <<>>
                      ELSE <<Patch([NoPatch EXCEPT !.starts = "provision"])>>
             rest == CASE ~SandboxInUse -> launchProvision
                       [] SandboxInUse /\ s.uuid /\ s.token ->
                            <<Call("get", "provision", "provisionError")>> \o launchProvision
                       [] OTHER -> handleProvisionError
  <2>1. first \in Seq(Feeding)
    <3> DEFINE p == [NoPatch EXCEPT !.starts = "provision"]
    <3>1. HasPatch(p, KeepState, "keep") /\ KeepState \notin Early /\ "keep" # "provision"
          /\ "fail" \in OnErrors
      BY Patched, States, Apart DEF Actions, OnErrors
    <3> HIDE DEF p
    <3>2. Patch(p) \in Calm
      BY <3>1, PlainFits
    <3>3. <<Patch(p)>> \in Seq(Feeding) /\ <<>> \in Seq(Feeding)
      BY <3>2, CalmNurses, Singleton
    <3> QED BY <3>3 DEF p
  <2>2. Nurses(<<Call("get", "provision", "provisionError")>> \o launchProvision)
    <3> DEFINE c == Call("get", "provision", "provisionError")
    <3>1. <<c>> \in Seq(Feeding)
      BY AheadFits
    <3> HIDE DEF c
    <3>2. Nurses(<<c>> \o launchProvision)
      BY <3>1, ProvisionLaunchFits, NursesConcat
    <3> QED BY <3>2 DEF c
  <2>3. Nurses(rest)
    BY <1>4, <2>2, ProvisionLaunchFits
  <2>4. runProvision(s) = first \o rest
    BY DEF runProvision
  <2> HIDE DEF first, rest
  <2> QED BY <2>1, <2>3, <2>4, NursesConcat
<1>6. ASSUME NEW st \in PlacementStatuses PROVE Nurses(queueChecked(st, s))
  <2>1. <<SkipPatch([NoPatch EXCEPT !.state = Pending("provision"), !.vars = "same"])>> \in Seq(Feeding)
    <3> DEFINE p == [NoPatch EXCEPT !.state = Pending("provision"), !.vars = "same"]
    <3>1. HasPatch(p, Pending("provision"), "keep") /\ Pending("provision") \in Early
      BY Patched, States, Apart DEF Actions
    <3> HIDE DEF p
    <3> QED BY <3>1, EarlyFits DEF p
  <2> DEFINE one == <<SkipPatch([NoPatch EXCEPT !.state = Pending("provision"), !.vars = "same"])>>
  <2>2. Nurses(one \o runProvision(s))
    <3> HIDE DEF one
    <3> QED BY <1>5, <2>1, NursesConcat DEF one
  <2>3. Nurses(<<SkipPatch(NoPatch)>> \o Post("continue"))
    <3>1. HasPatch(NoPatch, KeepState, "keep")
      BY Patched, States DEF Actions
    <3>2. <<SkipPatch(NoPatch)>> \in Seq(Calm)
      BY <1>1, <3>1, NoteFits DEF OnErrors
    <3>3. <<SkipPatch(NoPatch)>> \o Post("continue") \in Seq(Calm)
      BY <1>2, <3>2, Concat
    <3> QED BY <3>3, CalmNurses
  <2> QED BY <1>4, <2>2, <2>3 DEF queueChecked, PlacementStatuses, NotReady
<1>7. Nurses(checkProvisionQueue(s))
  <2>1. Nurses(<<Call("checkQueue", "provision", "provisionError")>>)
    BY AheadFits, CalmNurses
  <2> QED BY <1>4, <2>1 DEF checkProvisionQueue
<1>8. Nurses(handleProvision(s))
  <2>1. Nurses(checkDeployerJob("provision"))
    BY <1>3, CalmNurses
  <2> QED BY <1>4, <1>5, <1>7, <2>1 DEF handleProvision
<1>9. s.state \notin Early => handleProvision(s) \in Seq(Calm)
  BY <1>2, <1>3 DEF handleProvision, Early
<1> QED BY <1>5, <1>6, <1>8, <1>9

\* What a provision does with an answer of the sandbox API.
LEMMA PlacementFits ==
    ASSUME NEW st \in PlacementStatuses \cup {"invalid", "refused"}, NEW S, Lively \subseteq S,
           NEW rest \in Seq(S), Ordered(rest)
    PROVE  /\ st \in PlacementStatuses =>
                 /\ placedOrNot(st, rest) \in Seq(S) /\ Ordered(placedOrNot(st, rest))
                 /\ bookedAgain(st, rest) \in Seq(S) /\ Ordered(bookedAgain(st, rest))
           /\ st # "absent" => booked(st, rest) \in Seq(S) /\ Ordered(booked(st, rest))
<1> DEFINE In(s) == s \in Seq(S) /\ Ordered(s)
<1>1. ASSUME NEW s, s \in Seq(Feeding) \/ s \in Seq(Calm) PROVE In(s)
  <2>1. Nurses(s)
    BY <1>1, CalmNurses
  <2> QED BY <2>1, SeqMore DEF Nurses
<1>2. ASSUME NEW s \in Seq(Feeding) PROVE In(s \o rest)
  <2>1. s \in Seq(S)
    BY <1>1, <1>2
  <2>2. \A c \in Range(s) : ~Records(c)
    BY <1>2 DEF Feeding, Range
  <2> QED BY <2>1, <2>2, OrderedConcat, Concat
<1> HIDE DEF In
<1>3. In(transitionToQueued)
  <2> DEFINE p == [NoPatch EXCEPT !.state = Queued]
  <2>1. HasPatch(p, Queued, "keep") /\ Queued \in Early
    BY Patched, States, Apart DEF Actions
  <2> HIDE DEF p
  <2>2. <<SkipPatch(p)>> \in Seq(Feeding)
    BY <2>1, EarlyFits
  <2>3. Post("continue") \in Seq(Feeding)
    <3>1. Calm \cap Ending \subseteq Feeding
      BY CalmNurses
    <3> QED BY <3>1, PostFits, SeqMore
  <2>4. transitionToQueued \in Seq(Feeding)
    BY <2>2, <2>3, Concat DEF transitionToQueued, p
  <2> QED BY <1>1, <2>4
<1>4. In(handleProvisionError) /\ In(Post("finish"))
  <2>1. Calm \cap Ending \subseteq Calm
    OBVIOUS
  <2>2. Post("finish") \in Seq(Calm)
    BY <2>1, PostFits, SeqMore
  <2> QED BY <1>1, <2>2, ProvisionEndFits
<1>5. ASSUME NEW op \in {"book", "reget"}
      PROVE  In(<<Call(op, "provision", "provisionError")>> \o rest)
  BY <1>2, AheadFits
<1>6. In(updateSubjectSandboxVars("provisionError") \o rest)
  BY <1>2, ProvisionEndFits, CalmNurses
<1>7. In(rest)
  BY DEF In
<1>8. st \in PlacementStatuses => In(placedOrNot(st, rest))
  BY <1>3, <1>4, <1>5, <1>6 DEF placedOrNot, PlacementStatuses, NotReady
<1>9. st # "absent" => In(booked(st, rest))
  BY <1>3, <1>4, <1>5, <1>7 DEF booked, PlacementStatuses, NotReady
<1>10. st \in PlacementStatuses => In(bookedAgain(st, rest))
  BY <1>7, <1>8 DEF bookedAgain
<1> QED BY <1>8, <1>9, <1>10 DEF In

\* The create event.
LEMMA CreateFits ==
    ASSUME NEW s
    PROVE  /\ handleEventCreate(s) \in Seq(Feeding)
           /\ s.state # NoState => handleEventCreate(s) \in Seq(Calm)
<1> DEFINE p == [NoPatch EXCEPT !.state = Pending("provision"), !.uuid = TRUE]
           c == Schedule("provision", {})
           first == IF s.state = NoState THEN <<SkipPatch(p)>> ELSE <<>>
<1>1. HasPatch(p, Pending("provision"), "keep") /\ Pending("provision") \in Early
  BY Patched, States, Apart DEF Actions
<1>2. c \in Calm
  <2>1. {} \in SUBSET {"start", "stop", "update"} /\ "provision" \in Actions \ {"update"}
    BY DEF Actions
  <2> QED BY <2>1, ScheduleFits
<1>3. Post("none") \in Seq(Calm)
  <2>1. Calm \cap Ending \subseteq Calm
    OBVIOUS
  <2> QED BY <2>1, PostFits, SeqMore
<1>4. handleEventCreate(s) = (first \o <<c>>) \o Post("none")
  BY DEF handleEventCreate
<1> HIDE DEF p, c
<1>5. first \in Seq(Feeding) /\ (s.state # NoState => first \in Seq(Calm))
  <2>1. <<SkipPatch(p)>> \in Seq(Feeding)
    BY <1>1, EarlyFits
  <2> QED BY <2>1
<1> HIDE DEF first
<1>6. <<c>> \in Seq(Calm)
  BY <1>2, Singleton
<1>7. /\ s.state # NoState => (first \o <<c>>) \o Post("none") \in Seq(Calm)
      /\ (first \o <<c>>) \o Post("none") \in Seq(Feeding)
  <2>1. <<c>> \in Seq(Feeding) /\ Post("none") \in Seq(Feeding)
    BY <1>3, <1>6, CalmNurses
  <2> QED BY <1>3, <1>5, <1>6, <2>1, Concat
<1> QED BY <1>4, <1>7

(***************************************************************************)
(* Runs and their calls.                                                   *)
(***************************************************************************)
\* What the invariant says of a run that may be dispatched.
LEMMA RunFacts ==
    ASSUME IInv, Upbringing, NEW r \in Waiting \cup {run}, r # NoRun
    PROVE  /\ r \in EventRuns \cup ActionRuns \cup CallbackRuns
           /\ r.kind \in {"callback", "action"} => r.name # "update"
           /\ r.name = "delete" => subj.deleting
           /\ r = ActionRun("destroy") => "destroy" \notin Disabled
<1>1. r = run \/ r \in callbacks
      \/ (\E e \in events : r = EventRun(e)) \/ (\E a \in Actions : acts[a] > 0 /\ r = ActionRun(a))
  BY DEF Waiting, EventRun, ActionRun
<1>2. events \subseteq {"create", "update", "delete"} /\ callbacks \subseteq CallbackRuns
      /\ run \in EventRuns \cup ActionRuns \cup CallbackRuns \cup {NoRun}
      /\ acts \in [Actions -> 0..MaxQueued]
  BY DEF IInv, Sound, Types
<1>3. CASE r = run
  BY <1>2, <1>3 DEF Upbringing, Occasions
<1>4. CASE r \in callbacks
  <2>1. r \in CallbackRuns /\ r.kind = "callback" /\ r.name \in Actions
    BY <1>2, <1>4 DEF CallbackRuns
  <2>2. r.name # "delete" /\ r # ActionRun("destroy")
    BY <2>1 DEF Actions, ActionRun
  <2> QED BY <1>4, <2>1, <2>2 DEF Upbringing, Occasions
<1>5. ASSUME NEW e \in events, r = EventRun(e)
      PROVE  /\ r \in EventRuns /\ r.kind = "event" /\ r # ActionRun("destroy")
             /\ r.name = "delete" => subj.deleting
  BY <1>2, <1>5 DEF EventRuns, EventRun, ActionRun, Upbringing, Occasions
<1>6. ASSUME NEW a \in Actions, acts[a] > 0, r = ActionRun(a)
      PROVE  /\ r \in ActionRuns /\ r.kind = "action" /\ r.name = a /\ a # "update" /\ a # "delete"
             /\ r = ActionRun("destroy") => "destroy" \notin Disabled
  <2>1. r \in ActionRuns /\ r.kind = "action" /\ r.name = a /\ a # "delete"
        /\ (r = ActionRun("destroy") => a = "destroy")
    BY <1>6 DEF ActionRuns, ActionRun, Actions
  <2>2. acts["update"] = 0 /\ (acts["destroy"] > 0 => "destroy" \notin Disabled)
    BY DEF Upbringing, Occasions
  <2>3. acts[a] # 0
    BY <1>2, <1>6
  <2> QED BY <1>6, <2>1, <2>2, <2>3
<1>7. "event" \notin {"callback", "action"} /\ "action" # "callback"
  OBVIOUS
<1> QED BY <1>1, <1>3, <1>4, <1>5, <1>6, <1>7

\* The calls fit that a kind of call allows.
LEMMA KindsFit ==
    ASSUME NEW j, NEW r
    PROVE  /\ r.name # "destroy" /\ r.name # "delete" /\ r # EventRun("update") =>
                 /\ Calm \subseteq FitFor(j, r)
                 /\ j = "none" => Lively \subseteq FitFor(j, r)
           /\ r.name = "destroy" /\ r.kind # "event" => Calm \cap Lasting \subseteq FitFor(j, r)
           /\ r = EventRun("delete") => Calm \cap Ending \subseteq FitFor(j, r)
           /\ r = EventRun("update") => Calm \cap Waking \subseteq FitFor(j, r)
<1>1. EventRun("update").name = "update" /\ EventRun("update").kind = "event"
      /\ EventRun("delete").name = "delete"
  BY DEF EventRun
<1> QED BY <1>1 DEF FitFor, Calm

\* Every handler returns calls that fit its run.
LEMMA DispatchFits ==
    ASSUME PowerDeployed, IInv, Upbringing, NEW r \in Waiting \cup {run}, r # NoRun
    PROVE  /\ Dispatch(r, Payload) \in Seq(FitFor(Job, r))
           /\ Ordered(Dispatch(r, Payload))
<1> DEFINE F == FitFor(Job, r)
           s == Payload
<1>1. s.state = subj.state
  BY DEF Payload, PayloadOf
<1>2. Job # "none" => subj.state \notin Early
  BY DEF Upbringing, Provisioned
<1>3. /\ r \in EventRuns \cup ActionRuns \cup CallbackRuns
      /\ r.kind \in {"callback", "action"} => r.name # "update"
      /\ r.name = "delete" => subj.deleting
      /\ r = ActionRun("destroy") => "destroy" \notin Disabled
  BY RunFacts
<1> HIDE DEF s, F
<1>4. ASSUME NEW T, T \subseteq F, NEW q \in Seq(T) PROVE q \in Seq(F)
  BY <1>4, SeqMore
<1>5. ASSUME NEW q \in Seq(Calm) PROVE Ordered(q)
  BY OrderedCalm
<1>6. /\ Seq(Calm \cap Waking) \subseteq Seq(Calm)
      /\ Seq(Calm \cap Lasting) \subseteq Seq(Calm) /\ Seq(Calm \cap Ending) \subseteq Seq(Calm)
  BY SeqMore
<1>7. ASSUME r.name # "destroy", r.name # "delete", r # EventRun("update")
      PROVE  Calm \subseteq F /\ (Job = "none" => Lively \subseteq F)
  BY <1>7, KindsFit DEF F
<1>8. ASSUME NEW q, Job = "none", q \in Seq(Feeding) \/ Nurses(q), r.name # "destroy", r.name # "delete",
             r # EventRun("update")
      PROVE  q \in Seq(F) /\ Ordered(q)
  <2>1. Nurses(q)
    BY <1>8, CalmNurses
  <2> QED BY <1>4, <1>7, <1>8, <2>1 DEF Nurses
<1>9. CASE r \in EventRuns
  <2>1. CASE r.name = "create"
    <3>1. Dispatch(r, s) = handleEventCreate(s) /\ r # EventRun("update")
      BY <1>9, <2>1 DEF Dispatch, EventRuns, EventRun
    <3>2. CASE s.state = NoState
      <4>1. Job = "none"
        BY <1>1, <1>2, <3>2, Apart
      <4> QED BY <1>8, <2>1, <3>1, <4>1, CreateFits DEF s, F
    <3>3. CASE s.state # NoState
      <4>1. handleEventCreate(s) \in Seq(Calm)
        BY <3>3, CreateFits
      <4> QED BY <1>4, <1>5, <1>6, <1>7, <2>1, <3>1, <4>1 DEF s, F
    <3> QED BY <3>2, <3>3
  <2>2. CASE r.name = "update"
    <3>1. Dispatch(r, s) = handleEventUpdate(s) /\ r = EventRun("update")
      BY <1>9, <2>2 DEF Dispatch, EventRuns, EventRun
    <3>2. Calm \cap Waking \subseteq F
      BY <3>1, KindsFit DEF F
    <3>3. handleEventUpdate(s) \in Seq(Calm \cap Waking)
      BY UpdateFits
    <3> QED BY <1>4, <1>5, <1>6, <3>1, <3>2, <3>3 DEF s, F
  <2>3. CASE r.name = "delete"
    <3>1. Dispatch(r, s) = handleEventDelete(s) /\ r = EventRun("delete")
      BY <1>9, <2>3 DEF Dispatch, EventRuns, EventRun
    <3>2. Calm \cap Ending \subseteq F
      BY <3>1, KindsFit DEF F
    <3>3. handleEventDelete(s) \in Seq(Calm \cap Ending)
      BY DeleteFits
    <3> QED BY <1>4, <1>5, <1>6, <3>1, <3>2, <3>3 DEF s, F
  <2> QED BY <1>9, <2>1, <2>2, <2>3 DEF EventRuns
<1>10. CASE r \notin EventRuns
  <2>1. /\ r \in ActionRuns \cup CallbackRuns /\ r.kind \in {"action", "callback"} /\ r.name \in Actions
        /\ r.name \notin {"delete", "update"} /\ r # EventRun("update")
        /\ r \in CallbackRuns => r.status \in JobStatuses /\ r.kind = "callback"
        /\ r \in ActionRuns => r.kind = "action"
    BY <1>3, <1>10 DEF ActionRuns, CallbackRuns, EventRun, Actions
  <2>2. CASE r.name = "provision"
    <3>1. CASE r \in ActionRuns
      <4>1. Dispatch(r, s) = handleProvision(s)
        BY <2>1, <2>2, <3>1 DEF Dispatch
      <4>2. CASE s.state \in Early
        <5>1. Job = "none"
          BY <1>1, <1>2, <4>2
        <5> QED BY <1>8, <2>1, <2>2, <4>1, <5>1, ProvisionFits DEF s, F
      <4>3. CASE s.state \notin Early
        <5>1. handleProvision(s) \in Seq(Calm)
          BY <4>3, ProvisionFits
        <5> QED BY <1>4, <1>5, <1>6, <1>7, <2>1, <2>2, <4>1, <5>1 DEF s, F
      <4> QED BY <4>2, <4>3
    <3>2. CASE r \in CallbackRuns
      <4>1. Dispatch(r, s) = handleCallback("provision", r.status, s) /\ r.status \in JobStatuses
        BY <2>1, <2>2, <3>2 DEF Dispatch
      <4>2. handleCallback("provision", r.status, s)
              \in {handleProvisionComplete, handleProvisionCanceled, handleProvisionFailed,
                   handleProvisionError}
        BY <4>1 DEF handleCallback, handleDeployerJobSuccess, handleDeployerJobFailure, JobStatuses,
                    FailureStatuses
      <4> QED BY <1>4, <1>5, <1>7, <2>1, <2>2, <4>1, <4>2, ProvisionEndFits DEF s, F
    <3> QED BY <2>1, <3>1, <3>2
  <2>3. CASE r.name = "status"
    <3>1. /\ r \in ActionRuns => Dispatch(r, s) = handleStatus(s)
          /\ r \in CallbackRuns => Dispatch(r, s) = handleCallback("status", r.status, s)
      BY <2>1, <2>3 DEF Dispatch
    <3>2. Dispatch(r, s) \in Seq(Calm)
      BY <2>1, <3>1, StatusFits
    <3> QED BY <1>4, <1>5, <1>6, <1>7, <2>1, <2>3, <3>2 DEF s, F
  <2>4. CASE r.name \in {"start", "stop"}
    <3>1. /\ r \in ActionRuns => Dispatch(r, s) \in {handleStart(s), handleStop(s)}
          /\ r \in CallbackRuns => Dispatch(r, s) \in {handleCallback("start", r.status, s),
                                                      handleCallback("stop", r.status, s)}
      BY <2>1, <2>4 DEF Dispatch
    <3>2. Dispatch(r, s) \in Seq(Calm)
      BY <2>1, <3>1, StartStopFits
    <3> QED BY <1>4, <1>5, <1>7, <2>1, <2>4, <3>2 DEF s, F
  <2>5. CASE r.name = "destroy"
    <3>1. /\ r \in ActionRuns => Dispatch(r, s) = handleDestroy(s) /\ r = ActionRun("destroy")
          /\ r \in CallbackRuns => Dispatch(r, s) = handleCallback("destroy", r.status, s)
      BY <2>1, <2>5 DEF Dispatch, ActionRuns, ActionRun
    <3>2. Dispatch(r, s) \in Seq(Calm \cap Lasting)
      BY <1>3, <2>1, <3>1, DestroyFits
    <3>3. Calm \cap Lasting \subseteq F
      BY <2>1, <2>5, KindsFit DEF F
    <3> QED BY <1>4, <1>5, <1>6, <3>2, <3>3 DEF s, F
  <2> QED BY <2>1, <2>2, <2>3, <2>4, <2>5 DEF Actions
<1> QED BY <1>9, <1>10

(***************************************************************************)
(* What a call leaves fits as well.                                        *)
(***************************************************************************)
\* The first call, and what the run is.
LEMMA HeadFits ==
    ASSUME IInv, TodoFits, todo # <<>>
    PROVE  /\ Head(todo) \in Fit /\ Head(todo) \in Lively /\ Head(todo) \in Calls /\ Head(todo) = todo[1]
           /\ todo \in Seq(Calls) /\ Len(todo) \in Nat /\ 1 \in 1..Len(todo)
           /\ run \in EventRuns \cup ActionRuns \cup CallbackRuns /\ ~gone
           /\ Head(todo).traced => Head(todo).act \in {"start", "stop"}
           /\ Head(todo).onError \in OnErrors
<1>1. todo \in Seq(Fit) /\ Fit \subseteq Lively /\ Lively \subseteq Calls
  BY DEF TodoFits, Fits, Fit, FitFor, Lively
<1>2. Head(todo) \in Fit /\ Head(todo) = todo[1] /\ Len(todo) \in Nat /\ 1 \in 1..Len(todo)
  BY <1>1
<1>3. todo \in Seq(Calls) /\ Head(todo) \in Lively /\ Head(todo) \in Calls
  BY <1>1, <1>2, SeqMore
<1>4. run \in EventRuns \cup ActionRuns \cup CallbackRuns /\ ~gone
  BY DEF IInv, Sound, Types, Gone
<1>5. Head(todo).traced => Head(todo).act \in {"start", "stop"}
  <2>1. CASE Plain(todo)
    <3>1. Head(todo) \in Allowed(MayBook, tower["destroy"].ended, Actions)
      BY <2>1 DEF Plain
    <3> QED BY <3>1 DEF Allowed
  <2>2. CASE Farewell(todo)
    <3>1. Head(todo) \in Parting
      BY <2>2 DEF Farewell
    <3> QED BY <3>1 DEF Parting
  <2> QED BY <2>1, <2>2 DEF IInv, Sound, TodoOK
<1>6. Head(todo).onError \in OnErrors
  BY <1>3 DEF Calls, OnErrors
<1> QED BY <1>2, <1>3, <1>4, <1>5, <1>6

\* Calm calls fit most runs, and lasting ones those of destroy.
LEMMA QuietFits ==
    ASSUME IInv, TodoFits, todo # <<>>, run.name # "delete", run # EventRun("update"), NEW s
    PROVE  /\ s \in Seq(Calm) /\ run.name # "destroy" => Fits(s)
           /\ s \in Seq(Calm \cap Lasting) => Fits(s)
<1>1. ASSUME s \in Seq(Calm), run.name # "destroy" PROVE Fits(s)
  <2>1. Calm \subseteq Fit
    BY <1>1, KindsFit DEF Fit
  <2>2. s \in Seq(Fit)
    BY <1>1, <2>1, SeqMore
  <2> QED BY <1>1, <2>2, OrderedCalm DEF Fits
<1>2. ASSUME s \in Seq(Calm \cap Lasting) PROVE Fits(s)
  <2>1. Calm \cap Lasting \subseteq Fit
    BY DEF Fit, FitFor, Calm
  <2>2. s \in Seq(Fit)
    BY <1>2, <2>1, SeqMore
  <2>3. s \in Seq(Calm)
    BY <1>2, SeqMore
  <2> QED BY <2>2, <2>3, OrderedCalm DEF Fits
<1> QED BY <1>1, <1>2

\* After a call, after all of them, and before one that is made once more.
LEMMA TailFits ==
    ASSUME IInv, TodoFits, todo # <<>>
    PROVE  Fits(Tail(todo)) /\ Fits(<<>>)
<1>1. todo \in Seq(Fit) /\ Ordered(todo)
  BY DEF TodoFits, Fits
<1>2. /\ Tail(todo) \in Seq(Fit) /\ Len(todo) \in Nat /\ Len(Tail(todo)) = Len(todo) - 1
      /\ \A i \in 1..Len(Tail(todo)) : Tail(todo)[i] = todo[i + 1]
  BY <1>1
<1> DEFINE t == Tail(todo)
<1> HIDE DEF t
<1>3. ASSUME NEW i \in 1..Len(t), NEW j \in 1..Len(t), i < j, Records(t[i]) PROVE ~Founds(t[j])
  <2>1. i + 1 \in 1..Len(todo) /\ j + 1 \in 1..Len(todo) /\ i + 1 < j + 1
    BY <1>2, <1>3 DEF t
  <2> QED BY <1>1, <1>2, <1>3, <2>1 DEF Ordered, t
<1>4. Ordered(t)
  BY <1>3 DEF Ordered
<1>5. Ordered(<<>>) /\ <<>> \in Seq(Fit)
  BY DEF Ordered
<1> QED BY <1>2, <1>4, <1>5 DEF Fits, t

\* A call that is made once more differs in the job it records, and in nothing else.
LEMMA RepeatedForm ==
    ASSUME IInv, TodoFits, todo # <<>>
    PROVE  /\ Repeated # <<>> /\ Len(Repeated) = Len(todo) /\ Repeated \in Seq(Calls)
           /\ Head(Repeated) = Repeated[1]
           /\ Head(Repeated).op = Head(todo).op /\ Head(Repeated).act = Head(todo).act
           /\ Head(Repeated).onError = Head(todo).onError /\ Head(Repeated).traced = Head(todo).traced
           /\ Head(Repeated).cancel = Head(todo).cancel
           /\ Head(Repeated).patch.job = "keep" /\ Head(Repeated).patch.state = Head(todo).patch.state
           /\ Head(Repeated).patch.vars = Head(todo).patch.vars
           /\ Head(Repeated).patch.skip = Head(todo).patch.skip
           /\ Head(Repeated).patch.css = Head(todo).patch.css
           /\ \A i \in 2..Len(todo) : Repeated[i] = todo[i]
           /\ Head(Repeated).patch.state # KeepState => Head(Repeated).patch.state \in SubjectStates
<1> DEFINE c == [todo[1] EXCEPT !.patch.job = "keep"]
<1>1. todo \in Seq(Calls) /\ todo[1] \in Calls /\ 1 \in 1..Len(todo) /\ Len(todo) \in Nat /\ todo[1] = Head(todo)
  BY HeadFits
<1>2. /\ c \in Calls /\ c.op = todo[1].op /\ c.act = todo[1].act /\ c.onError = todo[1].onError
      /\ c.traced = todo[1].traced /\ c.cancel = todo[1].cancel /\ c.patch.job = "keep"
      /\ c.patch.state = todo[1].patch.state /\ c.patch.vars = todo[1].patch.vars
      /\ c.patch.skip = todo[1].patch.skip /\ c.patch.css = todo[1].patch.css
      /\ c.patch.state # KeepState => c.patch.state \in SubjectStates
  <2> DEFINE p == todo[1].patch
             q == [p EXCEPT !.job = "keep"]
  <2>1. p \in Patches
    BY <1>1 DEF Calls
  <2>2. /\ q \in Patches /\ q.job = "keep" /\ q.state = p.state /\ q.vars = p.vars /\ q.skip = p.skip
        /\ q.css = p.css
        /\ q.state # KeepState => q.state \in SubjectStates
    BY <2>1 DEF Patches
  <2>3. c = [todo[1] EXCEPT !.patch = q]
    BY <1>1 DEF Calls
  <2> HIDE DEF c, q, p
  <2>4. /\ c \in Calls /\ c.op = todo[1].op /\ c.act = todo[1].act /\ c.onError = todo[1].onError
        /\ c.traced = todo[1].traced /\ c.cancel = todo[1].cancel /\ c.patch = q
    BY <1>1, <2>2, <2>3 DEF Calls
  <2> QED BY <2>2, <2>4 DEF p
<1>3. Repeated = [todo EXCEPT ![1] = c]
  BY DEF Repeated
<1> HIDE DEF c
<1>4. Repeated \in Seq(Calls) /\ Len(Repeated) = Len(todo) /\ Repeated[1] = c /\ Repeated # <<>>
      /\ \A i \in 2..Len(todo) : Repeated[i] = todo[i]
  BY <1>1, <1>2, <1>3
<1>5. Head(Repeated) = Repeated[1]
  BY <1>4
<1> QED BY <1>1, <1>2, <1>4, <1>5

\* It fits, and provisions no more when it recorded the job.
LEMMA RepeatedFits ==
    ASSUME IInv, TodoFits, todo # <<>>
    PROVE  Fits(Repeated) /\ (Records(Head(todo)) => ~Founds(Head(Repeated)))
<1> DEFINE r == Repeated
           d == Head(Repeated)
           c == Head(todo)
<1>1. /\ r # <<>> /\ Len(r) = Len(todo) /\ r \in Seq(Calls) /\ d = r[1]
      /\ d.op = c.op /\ d.act = c.act /\ d.onError = c.onError /\ d.traced = c.traced
      /\ d.cancel = c.cancel /\ d.patch.job = "keep" /\ d.patch.state = c.patch.state
      /\ d.patch.vars = c.patch.vars /\ d.patch.skip = c.patch.skip
      /\ \A i \in 2..Len(todo) : r[i] = todo[i]
  BY RepeatedForm
<1>2. /\ c \in Fit /\ c \in Lively /\ c = todo[1] /\ Len(todo) \in Nat /\ 1 \in 1..Len(todo)
  BY HeadFits
<1>3. todo \in Seq(Fit) /\ Ordered(todo)
  BY DEF TodoFits, Fits
<1> HIDE DEF r, d, c
<1>4. d \in Calls
  BY <1>1, <1>2
<1>5. ~Records(d) /\ (Founds(d) => Founds(c))
  BY <1>1 DEF Records, Founds
<1>6. d \in Lively
  BY <1>1, <1>2, <1>4, <1>5 DEF Lively
<1>7. (c \in Lasting => d \in Lasting) /\ (c \in Ending => d \in Ending) /\ (c \in Waking => d \in Waking)
  BY <1>1, <1>4 DEF Lasting, Ending, Waking
<1>8. d \in Fit
  BY <1>2, <1>5, <1>6, <1>7 DEF Fit, FitFor
<1>9. \A i \in 1..Len(r) : r[i] \in Fit
  BY <1>1, <1>2, <1>3, <1>8
<1>10. r \in Seq(Fit)
  BY <1>1, <1>9
<1>11. ASSUME NEW i \in 1..Len(r), NEW j \in 1..Len(r), i < j, Records(r[i]) PROVE ~Founds(r[j])
  <2>1. i # 1
    BY <1>1, <1>5, <1>11
  <2>2. r[i] = todo[i] /\ r[j] = todo[j] /\ i \in 1..Len(todo) /\ j \in 1..Len(todo)
    BY <1>1, <1>2, <1>11, <2>1
  <2> QED BY <1>3, <1>11, <2>2 DEF Ordered
<1>12. Fits(r)
  BY <1>10, <1>11 DEF Fits, Ordered
<1>13. Records(c) => ~Founds(d)
  <2>1. Records(c) => c.op = "patch" /\ c.patch.state = Running("provision")
    BY <1>2 DEF Lively
  <2>2. Running("provision") \notin Early
    BY Apart DEF Actions
  <2> QED BY <1>1, <1>5, <2>1, <2>2 DEF Founds
<1> QED BY <1>12, <1>13 DEF r, d, c

\* After a call that failed, with and without its trace.
LEMMA HandledFits ==
    ASSUME IInv, TodoFits, todo # <<>>
    PROVE  /\ Fits(Handled(Head(todo), Tail(todo))) /\ Fits(Recovery(Head(todo), Tail(todo)))
           /\ run = EventRun("update") => Recovery(Head(todo), Tail(todo)) = <<>>
           /\ run.name = "delete" => /\ Recovery(Head(todo), Tail(todo)) \in {<<>>, Tail(todo)}
                                     /\ Head(todo).op = "schedule" => Recovery(Head(todo), Tail(todo)) = <<>>
<1> DEFINE c == Head(todo)
           t == Tail(todo)
           h == Handled(c, t)
           first == IF c.traced THEN recordSandboxActionFailure(c.act) ELSE <<>>
<1>1. /\ c \in Fit /\ c \in Calls /\ c.onError \in OnErrors /\ (c.traced => c.act \in {"start", "stop"})
      /\ run \in EventRuns \cup ActionRuns \cup CallbackRuns
  BY HeadFits
<1>2. Fits(t) /\ Fits(<<>>) /\ t \in Seq(Fit) /\ <<>> \in Seq(Fit)
  BY TailFits DEF Fits
<1>3. c.traced \in BOOLEAN /\ Recovery(c, t) = first \o h
  BY <1>1 DEF Calls, Recovery
<1>4. ASSUME run.name # "delete", run # EventRun("update")
      PROVE  /\ Fits(h) /\ Fits(first) /\ \A d \in Range(first) : ~Records(d)
  <2>1. Fits(first) /\ \A d \in Range(first) : ~Records(d)
    <3>1. CASE c.traced
      <4>1. recordSandboxActionFailure(c.act) \in Seq(Calm \cap Lasting)
        BY <1>1, <3>1, SandboxFits DEF OnErrors
      <4>2. \A d \in Calm : ~Records(d)
        BY DEF Calm, Founds
      <4>3. first = recordSandboxActionFailure(c.act)
        BY <3>1
      <4> HIDE DEF first
      <4>4. Fits(first)
        BY <1>4, <4>1, <4>3, QuietFits
      <4>5. \A d \in Range(first) : d \in Calm
        BY <4>1, <4>3 DEF Range
      <4> QED BY <4>2, <4>4, <4>5
    <3>2. CASE ~c.traced
      <4>1. first = <<>> /\ Range(<<>>) = {}
        BY <3>2 DEF Range
      <4> HIDE DEF first
      <4> QED BY <1>2, <4>1
    <3> QED BY <1>3, <3>1, <3>2
  <2>2. Fits(h)
    <3>1. CASE c.onError \in {"fail", "ignore"}
      BY <1>2, <3>1 DEF Handled
    <3>2. CASE c.onError = "continue"
      <4>1. Fits(Post("continue"))
        BY <1>4, PostFits, QuietFits
      <4> QED BY <3>2, <4>1 DEF Handled
    <3>3. CASE c.onError \in {"finish", "provisionError"}
      <4>1. run.name # "destroy"
        BY <1>1, <3>3 DEF Fit, FitFor, Lasting
      <4>2. Post("finish") \in Seq(Calm) /\ handleProvisionError \in Seq(Calm)
        <5>1. Calm \cap Ending \subseteq Calm
          OBVIOUS
        <5> QED BY <5>1, PostFits, ProvisionEndFits, SeqMore
      <4>3. Fits(Post("finish")) /\ Fits(handleProvisionError)
        BY <1>4, <4>1, <4>2, QuietFits
      <4> QED BY <3>3, <4>3 DEF Handled
    <3> QED BY <1>1, <3>1, <3>2, <3>3 DEF OnErrors
  <2> QED BY <2>1, <2>2
<1>5. ASSUME Fits(h), Fits(first), \A d \in Range(first) : ~Records(d)
      PROVE  Fits(first \o h)
  <2> HIDE DEF first, h
  <2> QED BY <1>5, OrderedConcat, Concat DEF Fits
<1>6. CASE run.name # "delete" /\ run # EventRun("update")
  BY <1>3, <1>4, <1>5, <1>6
<1>7. CASE run.name = "delete" \/ run = EventRun("update")
  <2>1. ~c.traced /\ c.onError \in {"fail", "ignore"} /\ (run = EventRun("update") => c.onError = "fail")
        /\ (run.name = "delete" /\ c.op = "schedule" => c.onError = "fail")
    BY <1>1, <1>7 DEF Fit, FitFor, Ending, Waking
  <2>2. h = IF c.onError = "fail" THEN <<>> ELSE t
    BY <2>1 DEF Handled
  <2>3. Recovery(c, t) = h
    <3>1. first = <<>>
      BY <2>1
    <3> HIDE DEF c, t, h, first
    <3>2. h \in Seq(Fit)
      BY <1>2, <2>2
    <3> QED BY <1>3, <3>1, <3>2
  <2> QED BY <1>2, <2>1, <2>2, <2>3
<1> QED BY <1>6, <1>7

\* After a call that is made, fails, or is made once more.
LEMMA Left ==
    ASSUME IInv, TodoFits, todo # <<>>, Succeeds \/ TroubleWith(Repeated) \/ Trouble
    PROVE  Fits(todo')
<1>1. todo' \in {Tail(todo), Repeated, todo, Recovery(Head(todo), Tail(todo))}
  BY Moves
<1>2. Fits(todo)
  BY DEF TodoFits
<1> QED BY <1>1, <1>2, TailFits, RepeatedFits, HandledFits

\* What fits goes on to fit while there is no provision job, and without it if it is calm.
LEMMA FitKeeps ==
    ASSUME run' = run, NEW s, Fits(s),
           (Job = "none" => Job' = "none") \/ s \in Seq(Calm)
    PROVE  s \in Seq(Fit')
<1>1. s \in Seq(Fit)
  BY DEF Fits
<1>2. CASE Job = "none" => Job' = "none"
  <2>1. Fit \subseteq Fit'
    BY <1>2 DEF Fit, FitFor
  <2> QED BY <1>1, <2>1, SeqMore
<1>3. CASE s \in Seq(Calm)
  <2>1. Fit \cap Calm \subseteq Fit'
    BY DEF Fit, FitFor, Calm
  <2>2. s \in Seq(Fit \cap Calm)
    BY <1>1, <1>3
  <2> QED BY <2>1, <2>2, SeqMore
<1> QED BY <1>2, <1>3

\* Behind the recording of a provision job nothing provisions.
LEMMA CalmAfter ==
    ASSUME IInv, TodoFits, todo # <<>>, Records(Head(todo))
    PROVE  \A s \in {Tail(todo), Repeated, Recovery(Head(todo), Tail(todo))} : s \in Seq(Calm)
<1> DEFINE c == Head(todo)
           t == Tail(todo)
           first == IF c.traced THEN recordSandboxActionFailure(c.act) ELSE <<>>
<1>1. /\ c = todo[1] /\ c \in Calls /\ c.onError \in OnErrors /\ (c.traced => c.act \in {"start", "stop"})
      /\ Len(todo) \in Nat /\ 1 \in 1..Len(todo) /\ todo \in Seq(Fit) /\ Ordered(todo)
  BY HeadFits DEF TodoFits, Fits
<1>2. \A i \in 2..Len(todo) : todo[i] \in Calm
  <2>1. Fit \subseteq Lively
    BY DEF Fit, FitFor
  <2> QED BY <1>1, <2>1 DEF Ordered, Calm
<1>3. t \in Seq(Calm)
  <2>1. t \in Seq(Fit) /\ Len(t) = Len(todo) - 1 /\ \A i \in 1..Len(t) : t[i] = todo[i + 1]
    BY <1>1
  <2> HIDE DEF t
  <2>2. \A i \in 1..Len(t) : t[i] \in Calm
    BY <1>1, <1>2, <2>1
  <2> QED BY <2>1, <2>2
<1>4. Repeated \in Seq(Calm)
  <2> DEFINE r == Repeated
  <2>1. /\ r \in Seq(Calls) /\ Len(r) = Len(todo) /\ r[1] = Head(r) /\ \A i \in 2..Len(todo) : r[i] = todo[i]
    BY RepeatedForm
  <2>2. Fits(r) /\ ~Founds(Head(r))
    BY RepeatedFits
  <2> HIDE DEF r
  <2>3. r[1] \in Calm
    <3>1. r[1] \in Fit /\ Fit \subseteq Lively
      BY <1>1, <2>1, <2>2 DEF Fits, Fit, FitFor
    <3> QED BY <2>1, <2>2, <3>1 DEF Calm
  <2>4. \A i \in 1..Len(r) : r[i] \in Calm
    BY <1>1, <1>2, <2>1, <2>3
  <2> QED BY <2>1, <2>4 DEF r
<1>5. Recovery(c, t) \in Seq(Calm)
  <2>2. Seq(Calm \cap Lasting) \subseteq Seq(Calm) /\ Seq(Calm \cap Ending) \subseteq Seq(Calm)
    BY SeqMore
  <2>3. <<>> \in Seq(Calm) /\ Post("continue") \in Seq(Calm) /\ Post("finish") \in Seq(Calm)
        /\ handleProvisionError \in Seq(Calm)
    BY <2>2, PostFits, ProvisionEndFits
  <2> DEFINE h == Handled(c, t)
  <2>4. h \in Seq(Calm)
    BY <1>1, <1>3, <2>3 DEF Handled, OnErrors
  <2>5. first \in Seq(Calm)
    <3>1. c.traced => recordSandboxActionFailure(c.act) \in Seq(Calm)
      BY <1>1, <2>2, SandboxFits DEF OnErrors
    <3> QED BY <2>3, <3>1
  <2>6. Recovery(c, t) = first \o h
    BY DEF Recovery
  <2> HIDE DEF c, t, first, h
  <2> QED BY <2>4, <2>5, <2>6, Concat
<1> QED BY <1>3, <1>4, <1>5

(***************************************************************************)
(* What Woken and Attended rest on, action by action.                      *)
(***************************************************************************)
\* A step that leaves the subject alone.  Only a job that runs may end.
LEMMA StaysOK ==
    ASSUME IInv, Upbringing, Fits(todo'), UNCHANGED <<subj, events, run>>,
           Job' = Job \/ (Job = "running" /\ Job' \in JobStatuses),
           acts'["update"] = 0, acts'["destroy"] > 0 => "destroy" \notin Disabled,
           \A c \in callbacks' \ callbacks : c.name # "update"
    PROVE  Upbringing'
<1>1. (Job = "none" => Job' = "none") /\ (Job' # "none" => Job # "none")
  BY DEF JobStatuses
<1>2. TodoFits'
  <2>1. todo' \in Seq(Fit') /\ Ordered(todo')
    BY <1>1, FitKeeps DEF Fits
  <2> QED BY <2>1 DEF TodoFits, Fits
<1>3. Provisioned'
  BY <1>1 DEF Upbringing, Provisioned
<1>4. Occasions'
  BY DEF Upbringing, Occasions
<1> QED BY <1>2, <1>3, <1>4 DEF Upbringing

\* A step of a handler that touches nothing these facts are about.
LEMMA QuietOK ==
    ASSUME IInv, Upbringing, Fits(todo'), UNCHANGED <<subj, tower, acts, events, callbacks, run>>
    PROVE  Upbringing'
<1>1. acts["update"] = 0 /\ (acts["destroy"] > 0 => "destroy" \notin Disabled)
  BY DEF Upbringing, Occasions
<1>2. callbacks' \ callbacks = {} /\ Job' = Job
  BY DEF Job
<1> QED BY <1>1, <1>2, StaysOK

\* The calls that leave the subject and its actions alone.
LEMMA QuietStepOK ==
    ASSUME IInv, Upbringing, LaunchJob \/ ReleasePlacement \/ Abandon PROVE Upbringing'
<1>1. TodoFits
  BY DEF Upbringing
<1>2. /\ todo # <<>> /\ UNCHANGED <<subj, tower, acts, events, callbacks, run>>
      /\ Succeeds \/ TroubleWith(Repeated) \/ Trouble \/ Continue(<<>>)
  BY DEF LaunchJob, ReleasePlacement, Abandon, At, Does, subject, anarchy, sandbox
<1>3. Fits(todo')
  <2>1. CASE Continue(<<>>)
    BY <1>1, <1>2, <2>1, TailFits DEF Continue
  <2> QED BY <1>1, <1>2, <2>1, Left
<1> QED BY <1>2, <1>3, QuietOK

\* An action is scheduled and others are canceled, but no destroy.
LEMMA ScheduleActionFits == ASSUME IInv, Upbringing, ScheduleAction PROVE Upbringing'
<1> DEFINE c == Head(todo)
<1>1. TodoFits /\ todo # <<>> /\ c.op = "schedule"
  BY DEF Upbringing, ScheduleAction, At
<1>2. /\ UNCHANGED <<subj, tower, events, callbacks, run>>
      /\ acts' = acts \/ acts' = Scheduled(c.act, c.cancel)
      /\ Succeeds \/ TroubleWith(Repeated) \/ Trouble
  BY DEF ScheduleAction, Does, subject, anarchy, sandbox
<1>3. Fits(todo')
  BY <1>1, <1>2, Left
<1>4. c \in Lively
  BY <1>1, HeadFits
<1>5. c.act \in Actions \ {"update"} /\ (c.act = "destroy" => "destroy" \notin Disabled)
  BY <1>1, <1>4 DEF Lively
<1>6. acts["update"] = 0 /\ (acts["destroy"] > 0 => "destroy" \notin Disabled)
      /\ acts \in [Actions -> 0..MaxQueued]
  BY DEF Upbringing, Occasions, IInv, Sound, Types
<1>7. \A b \in Actions : b # c.act => acts'[b] \in {0, acts[b]}
  BY <1>2, <1>6 DEF Scheduled
<1> HIDE DEF c
<1>8. acts'["update"] = 0 /\ (acts'["destroy"] > 0 => "destroy" \notin Disabled)
  BY <1>5, <1>6, <1>7 DEF Actions
<1>9. Job' = Job /\ callbacks' \ callbacks = {}
  BY <1>2 DEF Job
<1> QED BY <1>2, <1>3, <1>8, <1>9, StaysOK

\* Jobs are canceled, jobs end.
LEMMA CancelJobsFits == ASSUME IInv, Upbringing, CancelJobs PROVE Upbringing'
<1>1. TodoFits /\ todo # <<>>
  BY DEF Upbringing, CancelJobs, At
<1>2. /\ UNCHANGED <<subj, events, acts, callbacks, run>>
      /\ tower' = tower \/ tower' = Canceled(Head(todo).act)
      /\ Succeeds \/ TroubleWith(Repeated) \/ Trouble
  BY DEF CancelJobs, Does, anarchy, sandbox
<1>3. Fits(todo')
  BY <1>1, <1>2, Left
<1>4. Job' = Job \/ (Job = "running" /\ Job' \in JobStatuses)
  <2>1. tower \in Towers /\ "provision" \in Actions
    BY DEF IInv, Sound, Types, Towers, Actions
  <2>2. CASE tower' = Canceled(Head(todo).act)
    <3>1. tower'["provision"] \in {tower["provision"], [tower["provision"] EXCEPT !.job = "canceled", !.ended = TRUE]}
          /\ (tower'["provision"] # tower["provision"] => tower["provision"].job = "running")
      BY <2>1, <2>2 DEF Canceled
    <3>2. [tower["provision"] EXCEPT !.job = "canceled", !.ended = TRUE].job = "canceled"
      BY <2>1 DEF Towers
    <3> QED BY <3>1, <3>2 DEF Job, JobStatuses, FailureStatuses
  <2> QED BY <1>2, <2>2 DEF Job
<1>5. acts["update"] = 0 /\ (acts["destroy"] > 0 => "destroy" \notin Disabled)
  BY DEF Upbringing, Occasions
<1>6. callbacks' \ callbacks = {}
  BY <1>2
<1> QED BY <1>2, <1>3, <1>4, <1>5, <1>6, StaysOK

\* A job ends and may call back, recorded or not.
LEMMA JobEndsFits ==
    ASSUME IInv, Upbringing, NEW a \in Actions, JobEnds(a) \/ OrphanEnds(a) PROVE Upbringing'
<1>1. /\ UNCHANGED <<subj, events, acts, run, todo>>
      /\ Job' = Job \/ (Job = "running" /\ Job' \in JobStatuses)
      /\ \/ callbacks' = callbacks
         \/ \E status \in JobStatuses : callbacks' = callbacks \cup {Callback(a, status)} /\ acts[a] > 0
  <2>1. "provision" \in Actions
    BY DEF Actions
  <2> QED BY <2>1, EndFacts DEF Job
<1>2. acts["update"] = 0 /\ (acts["destroy"] > 0 => "destroy" \notin Disabled)
      /\ acts \in [Actions -> 0..MaxQueued]
  BY DEF Upbringing, Occasions, IInv, Sound, Types
<1>3. \A c \in callbacks' \ callbacks : c.name # "update"
  <2>1. CASE callbacks' = callbacks
    BY <2>1
  <2>2. ASSUME NEW status \in JobStatuses, callbacks' = callbacks \cup {Callback(a, status)}, acts[a] > 0
        PROVE  \A c \in callbacks' \ callbacks : c.name # "update"
    <3>1. Callback(a, status).name # "update"
      BY <1>2, <2>2 DEF Callback
    <3> QED BY <2>2, <3>1
  <2> QED BY <1>1, <2>1, <2>2
<1>4. Fits(todo')
  BY <1>1 DEF Upbringing, TodoFits
<1> QED BY <1>1, <1>2, <1>3, <1>4, StaysOK

\* The result of a job that was polled.
LEMMA PollJobFits == ASSUME PowerDeployed, IInv, Upbringing, PollJob PROVE Upbringing'
<1> DEFINE a == Head(todo).act
           job == tower[a].job
<1>1. TodoFits /\ todo # <<>> /\ Head(todo).op = "poll" /\ UNCHANGED <<subj, tower, acts, events, callbacks, run>>
  BY DEF Upbringing, PollJob, At, subject, anarchy, sandbox
<1>2. CASE Trouble
  BY <1>1, <1>2, Left, QuietOK
<1>3. CASE Continue(jobPolled(a, job, snap))
  <2> DEFINE s == jobPolled(a, job, snap)
  <2>1. Head(todo) \in Fit /\ run \in EventRuns \cup ActionRuns \cup CallbackRuns
    BY <1>1, HeadFits
  <2>2. /\ a \in Actions \ {"update"}
        /\ run.name = "destroy" => a = "destroy"
        /\ run.name # "delete" /\ run # EventRun("update")
    BY <1>1, <2>1 DEF Fit, FitFor, Lively, Lasting, Ending, Waking
  <2>3. Fits(s)
    <3>1. CASE job \notin JobStatuses
      BY <1>1, <2>2, <3>1, PostFits, QuietFits DEF jobPolled
    <3>2. CASE job \in JobStatuses
      <4>1. s = handleCallback(a, job, snap)
        BY <3>2 DEF jobPolled
      <4>2. CASE a = "provision"
        <5>1. s \in {handleProvisionComplete, handleProvisionCanceled, handleProvisionFailed,
                     handleProvisionError}
          BY <3>2, <4>1, <4>2 DEF handleCallback, handleDeployerJobSuccess, handleDeployerJobFailure,
                                  JobStatuses, FailureStatuses
        <5>2. s \in Seq(Calm) /\ run.name # "destroy"
          BY <2>2, <4>2, <5>1, ProvisionEndFits
        <5> QED BY <1>1, <2>2, <5>2, QuietFits
      <4>3. CASE a = "status"
        <5>1. s \in Seq(Calm)
          BY <3>2, <4>1, <4>3, StatusFits
        <5> QED BY <1>1, <2>2, <4>3, <5>1, QuietFits
      <4>4. CASE a \in {"start", "stop"}
        <5>1. s \in Seq(Calm) /\ run.name # "destroy"
          BY <2>2, <3>2, <4>1, <4>4, StartStopFits
        <5> QED BY <1>1, <2>2, <5>1, QuietFits
      <4>5. CASE a = "destroy"
        <5>1. s \in Seq(Calm \cap Lasting)
          BY <3>2, <4>1, <4>5, DestroyFits
        <5> QED BY <1>1, <2>2, <5>1, QuietFits
      <4> QED BY <2>2, <4>2, <4>3, <4>4, <4>5 DEF Actions
    <3> QED BY <3>1, <3>2
  <2>4. Fits(todo')
    BY <1>3, <2>3 DEF Continue
  <2> QED BY <1>1, <2>4, QuietOK
<1> QED BY <1>2, <1>3 DEF PollJob

\* Calm calls ahead of others that fit.
LEMMA AheadOfFits ==
    ASSUME NEW s, Fits(s), s \in Seq(Calm), NEW t, Fits(t) PROVE Fits(s \o t)
<1>1. \A c \in Range(s) : ~Records(c)
  BY DEF Calm, Founds, Range
<1> QED BY <1>1, OrderedConcat, Concat DEF Fits

\* The answers of the sandbox API.
LEMMA AnswerOK ==
    ASSUME IInv, Upbringing, todo # <<>>, UNCHANGED <<subj, tower, acts, events, callbacks, run>>,
           Trouble \/ (\E s : Continue(s) /\ Fits(s))
    PROVE  Upbringing'
<1>1. TodoFits
  BY DEF Upbringing
<1>2. Fits(todo')
  BY <1>1, Left DEF Continue
<1> QED BY <1>2, QuietOK

\* A provision that has its answer still has no job.
LEMMA FoundsFits ==
    ASSUME IInv, TodoFits, todo # <<>>,
           Head(todo).op \in {"book", "reget", "checkQueue"} \/ (Head(todo).op = "get" /\ Head(todo).act = "provision")
    PROVE  Lively \subseteq Fit /\ \A s : Nurses(s) => Fits(s)
<1>1. Head(todo) \in Fit /\ run \in EventRuns \cup ActionRuns \cup CallbackRuns
  BY HeadFits
<1>2. Founds(Head(todo))
  BY DEF Founds
<1>3. Job = "none" /\ run.name # "destroy" /\ run.name # "delete" /\ run # EventRun("update")
  BY <1>1, <1>2 DEF Fit, FitFor, Lasting, Ending, Waking
<1>4. Lively \subseteq Fit
  BY <1>3 DEF Fit, FitFor
<1> QED BY <1>4, SeqMore DEF Nurses, Fits

\* The placement is looked up.
LEMMA GetPlacementFits == ASSUME IInv, Upbringing, GetPlacement PROVE Upbringing'
<1> DEFINE c == Head(todo)
           t == Tail(todo)
<1>1. TodoFits /\ todo # <<>> /\ c.op = "get"
      /\ UNCHANGED <<subj, tower, acts, events, callbacks, run>>
  BY DEF Upbringing, GetPlacement, At, subject, anarchy, sandbox
<1>2. Fits(t) /\ t \in Seq(Fit) /\ Ordered(t)
  BY <1>1, TailFits DEF Fits
<1>3. CASE Trouble
  BY <1>1, <1>3, AnswerOK
<1>4. CASE c.act = "provision" /\ Continue(placedOrNot(placement, t))
  <2>1. placement \in PlacementStatuses
    BY DEF IInv, Sound, Types
  <2>2. Lively \subseteq Fit
    BY <1>1, <1>4, FoundsFits
  <2> HIDE DEF t
  <2>3. Fits(placedOrNot(placement, t))
    BY <1>2, <2>1, <2>2, PlacementFits DEF Fits
  <2> QED BY <1>1, <1>4, <2>3, AnswerOK
<1>5. CASE c.act # "provision" /\ Continue(updateSubjectSandboxVars("ignore") \o t)
  <2>1. c \in Fit
    BY <1>1, HeadFits
  <2>2. run.name # "delete" /\ run # EventRun("update")
    BY <1>1, <2>1 DEF Fit, FitFor, Ending, Waking
  <2> DEFINE s == updateSubjectSandboxVars("ignore")
  <2>3. s \in Seq(Calm \cap Lasting) /\ s \in Seq(Calm)
    BY ProvisionEndFits, SeqMore
  <2> HIDE DEF s, t
  <2>4. Fits(s)
    BY <1>1, <2>2, <2>3, QuietFits
  <2>5. Fits(s \o t)
    BY <1>2, <2>3, <2>4, AheadOfFits
  <2> QED BY <1>1, <1>5, <2>5, AnswerOK DEF s
<1>6. CASE Continue(t)
  <2> HIDE DEF t
  <2> QED BY <1>1, <1>2, <1>6, AnswerOK
<1> QED BY <1>3, <1>4, <1>5, <1>6 DEF GetPlacement

\* The placement is looked up after its booking.
LEMMA GetBookedFits == ASSUME IInv, Upbringing, GetBooked PROVE Upbringing'
<1> DEFINE t == Tail(todo)
<1>1. TodoFits /\ todo # <<>> /\ Head(todo).op = "reget"
      /\ UNCHANGED <<subj, tower, acts, events, callbacks, run>>
  BY DEF Upbringing, GetBooked, At, subject, anarchy, sandbox
<1>2. t \in Seq(Fit) /\ Ordered(t)
  BY <1>1, TailFits DEF Fits
<1>3. Lively \subseteq Fit /\ placement \in PlacementStatuses /\ "absent" \in PlacementStatuses
  BY <1>1, FoundsFits DEF IInv, Sound, Types, PlacementStatuses
<1>4. Fits(bookedAgain(placement, t)) /\ Fits(bookedAgain("absent", t))
  <2> HIDE DEF t
  <2> QED BY <1>2, <1>3, PlacementFits DEF Fits
<1>5. Trouble \/ Continue(bookedAgain(placement, t)) \/ Continue(bookedAgain("absent", t))
  BY DEF GetBooked
<1> QED BY <1>1, <1>4, <1>5, AnswerOK

\* A queued placement is looked up.
LEMMA CheckQueueFits == ASSUME IInv, Upbringing, CheckQueue PROVE Upbringing'
<1>1. TodoFits /\ todo # <<>> /\ Head(todo).op = "checkQueue"
      /\ UNCHANGED <<subj, tower, acts, events, callbacks, run>>
  BY DEF Upbringing, CheckQueue, At, subject, anarchy, sandbox
<1>2. placement \in PlacementStatuses
  BY DEF IInv, Sound, Types
<1>3. Fits(queueChecked(placement, snap))
  BY <1>1, <1>2, FoundsFits, ProvisionFits
<1>4. Trouble \/ Continue(queueChecked(placement, snap))
  BY DEF CheckQueue
<1> QED BY <1>1, <1>3, <1>4, AnswerOK

\* A placement is booked.
LEMMA BookPlacementFits == ASSUME IInv, Upbringing, BookPlacement PROVE Upbringing'
<1> DEFINE t == Tail(todo)
<1>1. TodoFits /\ todo # <<>> /\ Head(todo).op = "book"
      /\ UNCHANGED <<subj, tower, acts, events, callbacks, run>>
  BY DEF Upbringing, BookPlacement, At, subject, anarchy
<1>2. t \in Seq(Fit) /\ Ordered(t)
  BY <1>1, TailFits DEF Fits
<1>3. Lively \subseteq Fit
  BY <1>1, FoundsFits
<1>4. \A st \in (PlacementStatuses \ {"absent"}) \cup {"invalid", "refused"} : Fits(booked(st, t))
  <2> HIDE DEF t
  <2> QED BY <1>2, <1>3, PlacementFits DEF Fits
<1>5. \/ Trouble
      \/ \E st \in (PlacementStatuses \ {"absent"}) \cup {"invalid", "refused"} : Continue(booked(st, t))
  <2>1. placement \in PlacementStatuses
    BY DEF IInv, Sound, Types
  <2>2. CASE \E st \in IF placement = "absent" THEN NotReady \cup {"success"} ELSE {placement} :
               Continue(booked(st, t)) \/ Trouble
    BY <2>1, <2>2 DEF PlacementStatuses, NotReady
  <2>3. CASE \E st \in {"invalid", "refused", "error"} : Continue(booked(st, t))
    BY <2>3 DEF PlacementStatuses
  <2>4. CASE Trouble
    BY <2>4
  <2> QED BY <2>2, <2>3, <2>4 DEF BookPlacement
<1> QED BY <1>1, <1>4, <1>5, AnswerOK

\* What is recorded of a start or stop of the placement.
LEMMA PowerCallFits ==
    ASSUME IInv, Upbringing, todo # <<>>, Head(todo).op \in {"power", "await"}
    PROVE  /\ Fits(Tail(todo)) /\ Fits(Handled(Head(todo), Tail(todo)))
           /\ Fits(Recovery(Head(todo), Tail(todo)))
           /\ \A async : Fits(requested(Head(todo).act, Head(todo).onError, async) \o Tail(todo))
           /\ Fits(recordSandboxJobOutcome(Head(todo).act, "successful", Head(todo).onError) \o Tail(todo))
           /\ Fits(recordSandboxActionFailure(Head(todo).act) \o Handled(Head(todo), Tail(todo)))
<1> DEFINE a == Head(todo).act
           f == Head(todo).onError
           t == Tail(todo)
           h == Handled(Head(todo), Tail(todo))
<1>1. TodoFits
  BY DEF Upbringing
<1>2. Head(todo) \in Fit /\ f \in OnErrors
  BY <1>1, HeadFits
<1>3. a \in {"start", "stop"}
  BY HeadOK DEF Allowed
<1>4. run.name # "destroy" /\ run.name # "delete" /\ run # EventRun("update")
  BY <1>2 DEF Fit, FitFor, Lasting, Ending, Waking
<1>5. Fits(t) /\ Fits(h) /\ Fits(Recovery(Head(todo), t))
  BY <1>1, TailFits, HandledFits
<1> HIDE DEF a, f, t, h
<1>6. ASSUME NEW s, s \in Seq(Calm), NEW rest, Fits(rest) PROVE Fits(s \o rest)
  <2>1. Fits(s) /\ s \in Seq(Calm)
    BY <1>1, <1>4, <1>6, QuietFits
  <2> QED BY <1>6, <2>1, AheadOfFits
<1>7. \A async : Fits(requested(a, f, async) \o t)
  BY <1>2, <1>3, <1>5, <1>6, SandboxFits
<1>8. Fits(recordSandboxJobOutcome(a, "successful", f) \o t)
  BY <1>2, <1>3, <1>5, <1>6, SandboxFits
<1>9. Fits(recordSandboxActionFailure(a) \o h)
  <2>1. recordSandboxActionFailure(a) \in Seq(Calm)
    <3>1. Calm \cap Lasting \subseteq Calm
      OBVIOUS
    <3> QED BY <1>2, <1>3, <3>1, SandboxFits, SeqMore
  <2> QED BY <1>5, <1>6, <2>1
<1> QED BY <1>5, <1>7, <1>8, <1>9 DEF a, f, t, h

\* A start or stop is asked for.
LEMMA PowerPlacementFits == ASSUME IInv, Upbringing, PowerPlacement PROVE Upbringing'
<1> DEFINE c == Head(todo)
           t == Tail(todo)
<1>1. TodoFits /\ todo # <<>> /\ c.op = "power"
      /\ UNCHANGED <<subj, tower, acts, events, callbacks, run>>
  BY DEF Upbringing, PowerPlacement, At, subject, anarchy
<1>2. /\ Fits(Handled(c, t)) /\ Fits(Recovery(c, t))
      /\ Fits(requested(c.act, c.onError, TRUE) \o t) /\ Fits(requested(c.act, c.onError, FALSE) \o t)
  BY <1>1, PowerCallFits
<1>3. \/ Trouble \/ Continue(Handled(c, t)) \/ Continue(Recovery(c, t))
      \/ Continue(requested(c.act, c.onError, TRUE) \o t) \/ Continue(requested(c.act, c.onError, FALSE) \o t)
  BY DEF PowerPlacement
<1> HIDE DEF c, t
<1> QED BY <1>1, <1>2, <1>3, AnswerOK

\* It has ended, or is waited for no more.
LEMMA AwaitRequestFits == ASSUME IInv, Upbringing, AwaitRequest PROVE Upbringing'
<1> DEFINE c == Head(todo)
           t == Tail(todo)
<1>1. TodoFits /\ todo # <<>> /\ c.op = "await"
      /\ UNCHANGED <<subj, tower, acts, events, callbacks, run>>
  BY DEF Upbringing, AwaitRequest, At, subject, anarchy, sandbox
<1>2. /\ Fits(Handled(c, t))
      /\ Fits(recordSandboxJobOutcome(c.act, "successful", c.onError) \o t)
      /\ Fits(recordSandboxActionFailure(c.act) \o Handled(c, t))
  BY <1>1, PowerCallFits
<1>3. Continue(Handled(c, t)) \/ Continue(requestEnded(c, power.ended, t, Handled(c, t)))
  BY DEF AwaitRequest
<1> HIDE DEF c, t
<1>4. Fits(requestEnded(c, power.ended, t, Handled(c, t)))
  BY <1>2 DEF requestEnded
<1> QED BY <1>1, <1>2, <1>3, <1>4, AnswerOK

\* What a patch leaves of the subject.
LEMMA MergedIs ==
    ASSUME IInv, NEW p \in Patches
    PROVE  /\ Merged(p).deleting = subj.deleting
           /\ Merged(p).desired = IF p.desired = "keep" THEN subj.desired ELSE p.desired
           /\ Merged(p).state = IF p.state = KeepState THEN subj.state ELSE p.state
<1> DEFINE st == IF p.state = KeepState THEN subj.state ELSE p.state
           de == IF p.desired = "keep" THEN subj.desired ELSE p.desired
           cs == IF p.css = "keep" THEN subj.css ELSE p.css
           v == IF p.vars = "keep" THEN subj.vars
                ELSE [edit |-> snap.vars.edit, forensics |-> subj.vars.forensics \/ p.vars = "forensics"]
           uu == subj.uuid \/ p.uuid
<1>1. subj \in Subjects
  BY DEF IInv, Sound, Types, Subjects
<1>2. Merged(p) = [subj EXCEPT !.state = st, !.desired = de, !.css = cs, !.vars = v, !.uuid = uu]
  BY <1>1 DEF Merged, Subjects
<1> HIDE DEF st, de, cs, v, uu
<1>3. Merged(p).deleting = subj.deleting /\ Merged(p).desired = de /\ Merged(p).state = st
  BY <1>1, <1>2 DEF Subjects
<1> QED BY <1>3 DEF st, de

\* A patch that is sent, and what it leaves to be done.
LEMMA Sent ==
    ASSUME IInv, Upbringing, SubjectUpdate
    PROVE  /\ todo # <<>> /\ Head(todo).op = "patch" /\ Head(todo) \in Fit /\ Head(todo) \in Lively
           /\ Head(todo).patch \in Patches /\ run \in EventRuns \cup ActionRuns \cup CallbackRuns /\ ~gone
           /\ UNCHANGED <<acts, callbacks, gone, run>>
           /\ Fits(todo')
           /\ \/ /\ Apply(Head(todo).patch)
                 /\ todo' \in {Tail(todo), Repeated, Recovery(Head(todo), Tail(todo))}
              \/ /\ UNCHANGED <<subj, prev, events, tower>>
                 /\ todo' \in {todo, Recovery(Head(todo), Tail(todo))}
<1>1. todo # <<>> /\ Head(todo).op = "patch" /\ TodoFits
  BY DEF Upbringing, SubjectUpdate, At
<1>2. UNCHANGED <<acts, callbacks, gone, run>>
  BY DEF SubjectUpdate, anarchy, sandbox
<1>3. Does(Apply(Head(todo).patch), UNCHANGED <<subject, orphans>>)
  BY DEF SubjectUpdate
<1>4. Fits(todo')
  BY <1>1, <1>3, Left DEF Does
<1>5. /\ Head(todo) \in Fit /\ Head(todo) \in Lively /\ Head(todo) \in Calls
      /\ run \in EventRuns \cup ActionRuns \cup CallbackRuns /\ ~gone
  BY <1>1, HeadFits
<1>6. Head(todo).patch \in Patches
  BY <1>5 DEF Calls
<1>7. \/ /\ Apply(Head(todo).patch)
         /\ todo' \in {Tail(todo), Repeated, Recovery(Head(todo), Tail(todo))}
      \/ /\ UNCHANGED <<subj, prev, events, tower>>
         /\ todo' \in {todo, Recovery(Head(todo), Tail(todo))}
  BY <1>3 DEF Does, Succeeds, Trouble, TroubleWith, Continue, subject
<1> QED BY <1>1, <1>2, <1>4, <1>5, <1>6, <1>7

\* A patch.  It records a provision job while there is none, and provisions no more once
\* there is one.
LEMMA SubjectUpdateFits == ASSUME IInv, Upbringing, SubjectUpdate PROVE Upbringing'
<1> DEFINE c == Head(todo)
           p == c.patch
<1>1. /\ todo # <<>> /\ c.op = "patch" /\ c \in Fit /\ p \in Patches
      /\ UNCHANGED <<acts, callbacks, run>>
      /\ Fits(todo')
      /\ \/ Apply(p) /\ todo' \in {Tail(todo), Repeated, Recovery(c, Tail(todo))}
         \/ UNCHANGED <<subj, events, tower>>
  BY Sent
<1>2. CASE UNCHANGED <<subj, events, tower>>
  BY <1>1, <1>2, QuietOK
<1>3. CASE Apply(p) /\ todo' \in {Tail(todo), Repeated, Recovery(c, Tail(todo))}
  <2>1. /\ subj'.deleting = subj.deleting
        /\ subj'.state = IF p.state = KeepState THEN subj.state ELSE p.state
        /\ events' \subseteq events \cup {"update"}
    BY <1>1, <1>3, MergedIs DEF Apply
  <2>2. Job' = IF p.job = "provision" THEN Launched("provision") ELSE Job
    BY <1>1, <1>3, ApplyTower DEF Job, Actions
  <2>3. /\ Records(c) <=> p.job = "provision"
        /\ Records(c) => p.state = Running("provision") /\ "provision" \notin Disabled /\ Job = "none"
        /\ p.state \in Early => Job = "none"
    BY <1>1 DEF Fit, FitFor, Lively, Records, Founds
  <2>4. (Job' # "none" => Job # "none" \/ Records(c)) /\ (Job = "none" => Job' = "none" \/ Records(c))
        /\ (Job # "none" => Job' = Job)
    BY <2>2, <2>3
  <2> HIDE DEF c, p
  <2>5. TodoFits'
    <3>1. (Job = "none" => Job' = "none") \/ todo' \in Seq(Calm)
      BY <1>1, <1>3, <2>4, CalmAfter DEF c, Upbringing
    <3>2. todo' \in Seq(Fit') /\ Ordered(todo')
      BY <1>1, <3>1, FitKeeps DEF Fits
    <3> QED BY <3>2 DEF TodoFits, Fits
  <2>6. Provisioned'
    <3>1. Running("provision") \notin Early /\ Running("provision") # KeepState
      BY Apart DEF Actions
    <3> QED BY <2>1, <2>3, <2>4, <3>1 DEF Upbringing, Provisioned
  <2>7. Occasions'
    BY <1>1, <2>1 DEF Upbringing, Occasions
  <2> QED BY <2>5, <2>6, <2>7 DEF Upbringing
<1> QED BY <1>1, <1>2, <1>3

\* What a result leaves of the actions.
LEMMA Posted ==
    ASSUME IInv, PostResult
    PROVE  /\ todo # <<>> /\ Head(todo).op = "post" /\ todo' = <<>> /\ run' = NoRun /\ snap' = NoPayload
           /\ UNCHANGED <<subj, tower, events, callbacks>>
           /\ run \in EventRuns \cup ActionRuns \cup CallbackRuns
           /\ prev' = IF run = EventRun("update")
                     THEN [vars |-> snap.vars, asked |-> snap.asked,
                           edited |-> snap.vars # snap.prev.vars]
                     ELSE prev
           /\ \A a \in Actions : /\ acts'[a] \in 0..MaxQueued /\ acts'[a] <= acts[a]
                                 /\ acts'[a] # acts[a] => /\ run.name = a
                                                          /\ Head(todo).act \in {"finish", "none"}
           /\ gone' = (Head(todo).act = "delete")
<1>1. /\ todo # <<>> /\ Head(todo).op = "post" /\ todo' = <<>> /\ run' = NoRun /\ snap' = NoPayload
      /\ UNCHANGED <<subj, tower, events, callbacks>>
      /\ gone' = (Head(todo).act = "delete")
  BY DEF PostResult, At, Continue, sandbox
<1>2. run \in EventRuns \cup ActionRuns \cup CallbackRuns
  BY <1>1 DEF IInv, Sound, Types
<1>3. run.kind = "event" /\ run.name = "update" <=> run = EventRun("update")
  BY <1>2 DEF EventRuns, ActionRuns, CallbackRuns, EventRun
<1>4. prev' = IF run = EventRun("update")
              THEN [vars |-> snap.vars, asked |-> snap.asked, edited |-> snap.vars # snap.prev.vars]
              ELSE prev
  BY <1>3 DEF PostResult
<1>5. acts \in [Actions -> 0..MaxQueued] /\ MaxQueued \in Nat
  BY LifecycleAssumption DEF IInv, Sound, Types
<1>6. acts' = acts \/ (acts' = Ended(run.name) /\ Head(todo).act \in {"finish", "none"})
  BY DEF PostResult
<1>7. ASSUME NEW a \in Actions
      PROVE  /\ acts'[a] \in 0..MaxQueued /\ acts'[a] <= acts[a]
             /\ acts'[a] # acts[a] => run.name = a /\ Head(todo).act \in {"finish", "none"}
  <2>1. CASE acts' = acts
    BY <1>5, <2>1
  <2>2. CASE acts' = Ended(run.name) /\ Head(todo).act \in {"finish", "none"}
    <3>1. acts'[a] = IF a = run.name THEN (IF acts[a] > 0 THEN acts[a] - 1 ELSE 0) ELSE acts[a]
      BY <1>5, <2>2 DEF Ended
    <3> QED BY <1>5, <2>2, <3>1
  <2> QED BY <1>6, <2>1, <2>2
<1> QED BY <1>1, <1>2, <1>4, <1>7

\* A result.
LEMMA PostResultFits == ASSUME IInv, Upbringing, PostResult PROVE Upbringing'
<1>1. /\ todo' = <<>> /\ run' = NoRun /\ UNCHANGED <<subj, tower, events, callbacks>>
      /\ \A a \in Actions : acts'[a] \in 0..MaxQueued /\ acts'[a] <= acts[a]
  BY Posted
<1>2. acts \in [Actions -> 0..MaxQueued] /\ MaxQueued \in Nat /\ "update" \in Actions /\ "destroy" \in Actions
  BY LifecycleAssumption DEF IInv, Sound, Types, Actions
<1>3. \A a \in Actions : (acts'[a] > 0 => acts[a] > 0) /\ (acts[a] = 0 => acts'[a] = 0)
  BY <1>1, <1>2
<1>4. NoRun.kind = "none" /\ NoRun.name = "none" /\ NoRun # ActionRun("destroy")
  BY DEF NoRun, ActionRun
<1>5. TodoFits'
  <2>1. Ordered(<<>>) /\ <<>> \in Seq(Fit')
    BY DEF Ordered
  <2> QED BY <1>1, <2>1 DEF TodoFits, Fits, Ordered
<1>6. Provisioned'
  BY <1>1 DEF Upbringing, Provisioned, Job
<1>7. Occasions'
  BY <1>1, <1>2, <1>3, <1>4 DEF Upbringing, Occasions
<1> QED BY <1>5, <1>6, <1>7 DEF Upbringing

\* What the user does, and what is about the placement.
LEMMA OutsideFits ==
    ASSUME IInv, Upbringing,
           \/ PlacementMoves \/ RequestEnds \/ TokenVanishes
           \/ EditJobVars \/ SetDesiredState \/ AskStatus \/ DeleteSubject
    PROVE  Upbringing'
<1>1. CASE PlacementMoves \/ RequestEnds \/ TokenVanishes
  <2>1. UNCHANGED <<subj, tower, acts, events, callbacks, run, todo>>
    BY <1>1 DEF PlacementMoves, RequestEnds, TokenVanishes, subject, anarchy, sandbox, runner
  <2>2. Fits(todo')
    BY <2>1 DEF Upbringing, TodoFits
  <2> QED BY <2>1, <2>2, QuietOK
<1>2. CASE EditJobVars \/ SetDesiredState \/ AskStatus \/ DeleteSubject
  <2>1. subj \in Subjects
    BY DEF IInv, Sound, Types, Subjects
  <2>2. /\ UNCHANGED <<tower, acts, callbacks, run, todo>>
        /\ subj'.state = subj.state /\ (subj.deleting => subj'.deleting)
        /\ events' \subseteq events \cup {"update", "delete"}
        /\ "delete" \in events' => "delete" \in events \/ subj'.deleting
    <3>1. CASE SetDesiredState
      <4>1. PICK want : Request([subj EXCEPT !.desired = want])
        BY <3>1 DEF SetDesiredState
      <4> QED BY <2>1, <4>1 DEF Request, Subjects, anarchy, sandbox, runner
    <3>2. CASE EditJobVars
      <4>1. \A v : [subj EXCEPT !.vars = v].state = subj.state
                   /\ [subj EXCEPT !.vars = v].deleting = subj.deleting
        BY <2>1 DEF Subjects
      <4>2. \E v : Request([subj EXCEPT !.vars = v])
        BY <3>2 DEF EditJobVars
      <4> QED BY <4>1, <4>2 DEF Request, anarchy, sandbox, runner
    <3>3. CASE AskStatus
      BY <2>1, <3>3 DEF AskStatus, Request, Subjects, anarchy, sandbox, runner
    <3>4. CASE DeleteSubject
      BY <2>1, <3>4 DEF DeleteSubject, Subjects, anarchy, sandbox, runner
    <3> QED BY <1>2, <3>1, <3>2, <3>3, <3>4
  <2>3. Job' = Job
    BY <2>2 DEF Job
  <2>4. TodoFits'
    <3>1. todo' \in Seq(Fit') /\ Ordered(todo')
      BY <2>2, <2>3, FitKeeps DEF Upbringing, TodoFits, Fits
    <3> QED BY <3>1 DEF TodoFits, Fits
  <2>5. Provisioned'
    BY <2>2, <2>3 DEF Upbringing, Provisioned
  <2>6. Occasions'
    BY <2>2 DEF Upbringing, Occasions
  <2> QED BY <2>4, <2>5, <2>6 DEF Upbringing
<1> QED BY <1>1, <1>2

\* A run is dispatched, or dispatched again.
LEMMA DispatchRunFits ==
    ASSUME PowerDeployed, IInv, Upbringing, NEW r \in Waiting \cup {run}, DispatchRun(r) PROVE Upbringing'
<1>1. r \in EventRuns \cup ActionRuns \cup CallbackRuns /\ r # NoRun
  <2>1. NoRun \notin EventRuns \cup ActionRuns \cup CallbackRuns
    BY DEF NoRun, EventRuns, ActionRuns, CallbackRuns
  <2> QED BY <2>1, DispatchedRun
<1>2. /\ run' = r /\ todo' = Dispatch(r, Payload)
      /\ events' \subseteq events /\ callbacks' \subseteq callbacks
      /\ UNCHANGED <<subj, tower, acts>>
  BY DEF DispatchRun
<1>3. /\ r.kind \in {"callback", "action"} => r.name # "update"
      /\ r.name = "delete" => subj.deleting
      /\ r = ActionRun("destroy") => "destroy" \notin Disabled
  BY <1>1, RunFacts
<1>4. Job' = Job
  BY <1>2 DEF Job
<1>5. TodoFits'
  <2>1. Fit' = FitFor(Job, r)
    BY <1>2, <1>4 DEF Fit, FitFor
  <2>2. todo' \in Seq(Fit') /\ Ordered(todo')
    BY <1>1, <1>2, <2>1, DispatchFits
  <2> QED BY <2>2 DEF TodoFits, Fits
<1>6. Provisioned'
  BY <1>2, <1>4 DEF Upbringing, Provisioned
<1>7. Occasions'
  BY <1>2, <1>3 DEF Upbringing, Occasions
<1> QED BY <1>5, <1>6, <1>7 DEF Upbringing

\* Every step.
LEMMA NextFits == ASSUME PowerDeployed, IInv, Upbringing, [Next]_vars PROVE Upbringing'
<1>1. CASE DispatchNext
  BY <1>1, DispatchRunFits DEF DispatchNext
<1>2. CASE HandlerStep
  BY <1>2, SubjectUpdateFits, ScheduleActionFits, QuietStepOK, CancelJobsFits, PollJobFits, GetPlacementFits,
     GetBookedFits, CheckQueueFits, BookPlacementFits, PowerPlacementFits, AwaitRequestFits, PostResultFits
     DEF HandlerStep
<1>3. CASE Abandon
  BY <1>3, QuietStepOK
<1>4. CASE Environment
  BY <1>4, JobEndsFits, OutsideFits DEF Environment
<1>5. CASE UNCHANGED vars
  <2>1. UNCHANGED <<subj, tower, acts, events, callbacks, run, todo>>
    BY <1>5 DEF vars
  <2>2. Fits(todo')
    BY <2>1 DEF Upbringing, TodoFits
  <2> QED BY <2>1, <2>2, QuietOK
<1> QED BY <1>1, <1>2, <1>3, <1>4, <1>5 DEF Next

(***************************************************************************)
(* What the user wants is noticed.                                         *)
(***************************************************************************)
\* Only a patch and the result of an update event change what Anarchy remembers.
LEMMA Recall ==
    ASSUME IInv, Recalls, [Next]_vars
    PROVE  /\ Recalls'
           /\ PostResult \/ prev'.edited = prev.edited
<1>1. ASSUME prev' = prev PROVE Recalls' /\ prev'.edited = prev.edited
  BY <1>1 DEF Recalls
<1>2. CASE SubjectUpdate
  <2>1. \A v : LET p == [prev EXCEPT !.vars = v] IN DOMAIN p = DOMAIN NewPrev /\ p.edited = prev.edited
    BY DEF Recalls, NewPrev
  <2>2. prev' = prev \/ \E v : prev' = [prev EXCEPT !.vars = v]
    BY <1>2 DEF SubjectUpdate, Does, Apply, subject
  <2> QED BY <1>1, <2>1, <2>2 DEF Recalls
<1>3. CASE PostResult
  <2>1. \A v, a, b : DOMAIN [vars |-> v, asked |-> a, edited |-> b] = DOMAIN NewPrev
    BY DEF NewPrev
  <2> QED BY <1>3, <2>1 DEF PostResult, Recalls
<1>4. CASE HandlerStep /\ ~SubjectUpdate /\ ~PostResult
  <2>1. prev' = prev
    BY <1>4 DEF HandlerStep, ScheduleAction, LaunchJob, CancelJobs, PollJob, GetPlacement, GetBooked,
       CheckQueue, BookPlacement, PowerPlacement, AwaitRequest, ReleasePlacement, subject
  <2> QED BY <1>1, <2>1
<1>5. CASE DispatchNext \/ Abandon \/ UNCHANGED vars
  <2>1. prev' = prev
    BY <1>5 DEF DispatchNext, DispatchRun, Abandon, vars, subject
  <2> QED BY <1>1, <2>1
<1>6. CASE Environment
  <2>1. prev' = prev
    <3>1. \A a \in Actions : JobEnds(a) \/ OrphanEnds(a) => prev' = prev
      BY EndFacts
    <3>2. PlacementMoves \/ RequestEnds \/ TokenVanishes \/ DeleteSubject => prev' = prev
      BY DEF PlacementMoves, RequestEnds, TokenVanishes, DeleteSubject, subject
    <3>3. EditJobVars \/ SetDesiredState \/ AskStatus => prev' = prev
      BY DEF EditJobVars, SetDesiredState, AskStatus, Request
    <3> QED BY <1>6, <3>1, <3>2, <3>3 DEF Environment
  <2> QED BY <1>1, <2>1
<1> QED BY <1>2, <1>3, <1>4, <1>5, <1>6 DEF Next

\* A step that changes neither the subject nor its events.
LEMMA WokenStays ==
    ASSUME Woken, UNCHANGED <<subj, events, run, gone>>, prev'.edited = prev.edited,
           todo = <<>> => todo' = <<>>, todo' # <<>> => snap' = snap,
           \/ todo # <<>> /\ Head(todo).op # "patch"
           \/ todo' = todo
           \/ todo' = <<>>
    PROVE  Woken'
<1>1. Distracted => todo' = <<>> \/ Distracted'
  <2>1. todo' # <<>> /\ Distracted => Distracted'
    BY DEF Distracted
  <2> QED BY <2>1
<1>2. Misled => Misled'
  BY DEF Misled
<1>3. run = EventRun("update") /\ (todo = <<>> \/ Turns(Head(todo))) => todo' = <<>> \/ todo' = todo
  BY DEF Turns
<1>4. Distracted => run = EventRun("update")
  BY DEF Distracted
<1> QED BY <1>1, <1>2, <1>3, <1>4 DEF Woken, Wanted

\* A subject that is started or stopped by a patch has an update event, and one that an
\* update event has moved is neither started nor stopped.
LEMMA SubjectUpdateWakes ==
    ASSUME IInv, Upbringing, Woken, SubjectUpdate, prev'.edited = prev.edited PROVE Woken'
<1> DEFINE c == Head(todo)
           p == c.patch
<1>1. /\ todo # <<>> /\ c.op = "patch" /\ c \in Lively /\ p \in Patches
      /\ run \in EventRuns \cup ActionRuns \cup CallbackRuns /\ ~gone
      /\ UNCHANGED <<gone, run>>
      /\ \/ Apply(p)
         \/ /\ UNCHANGED <<subj, prev, events, tower>>
            /\ todo' \in {todo, Recovery(c, Tail(todo))}
  BY Sent
<1>2. /\ Distracted => run' = EventRun("update") /\ (todo' = <<>> \/ Distracted')
      /\ Misled => Misled'
  <2>1. todo' # <<>> => snap' = snap
    BY SnapKept DEF HandlerStep
  <2>2. Distracted /\ todo' # <<>> => Distracted'
    BY <1>1, <2>1 DEF Distracted
  <2> QED BY <1>1, <2>2 DEF Distracted, Misled
<1>3. CASE UNCHANGED <<subj, prev, events, tower>> /\ todo' \in {todo, Recovery(c, Tail(todo))}
  <2>1. run = EventRun("update") => todo' \in {todo, <<>>}
    BY <1>1, <1>3, HandledFits DEF Upbringing
  <2> QED BY <1>1, <1>3, <1>2, <2>1 DEF Woken, Wanted
<1>4. CASE Apply(p)
  <2> SUFFICES ASSUME ~subj'.deleting, Wanted' 
               PROVE  \/ "update" \in events'
                      \/ run' = EventRun("update") /\ todo' = <<>>
                      \/ Distracted'
                      \/ Misled'
    BY DEF Woken
  <2>1. /\ subj' = Merged(p) /\ subj'.deleting = subj.deleting
        /\ subj'.state = IF p.state = KeepState THEN subj.state ELSE p.state
        /\ subj'.desired = IF p.desired = "keep" THEN subj.desired ELSE p.desired
        /\ events' = IF ~p.skip /\ subj' # subj /\ ~subj.deleting THEN events \cup {"update"} ELSE events
    BY <1>1, <1>4, MergedIs DEF Apply
  <2>2. p.desired \in {"keep", "destroyed"} /\ (p.state \in {Started, Stopped} => ~p.skip)
    BY <1>1 DEF Patches, Lively
  <2>3. subj'.state \in {Started, Stopped} /\ subj'.desired \in {"started", "stopped"}
    BY DEF Wanted
  <2>4. CASE subj'.state # subj.state
    BY <2>1, <2>2, <2>3, <2>4
  <2>5. CASE subj'.state = subj.state
    <3>1. subj'.desired = subj.desired
      BY <2>1, <2>2, <2>3
    <3>2. Wanted /\ ~subj.deleting
      BY <2>1, <2>5, <3>1 DEF Wanted
    <3>3. ~Turns(c)
      <4>1. Pending("start") \notin {Started, Stopped, KeepState} /\ Pending("stop") \notin {Started, Stopped, KeepState}
        BY Apart DEF Actions
      <4> QED BY <2>1, <2>3, <4>1 DEF Turns
    <3>4. "update" \in events \/ Distracted \/ Misled
      BY <1>1, <3>2, <3>3 DEF Woken
    <3> QED BY <1>2, <2>1, <3>4
  <2> QED BY <2>4, <2>5
<1> QED BY <1>1, <1>3, <1>4

\* The run of an update event of a subject that is not what the user wants begins by
\* moving it, unless job_vars are edited.
LEMMA UpdateTurns ==
    ASSUME PowerDeployed, Wanted
    PROVE  LET calls == Dispatch(EventRun("update"), Payload)
           IN  calls # <<>> /\ (Turns(Head(calls)) \/ Payload.vars # Payload.prev.vars)
<1> DEFINE s == Payload
<1>1. s.state = subj.state /\ s.desired = subj.desired
  BY DEF Payload, PayloadOf
<1>2. Dispatch(EventRun("update"), s) = handleEventUpdate(s)
  BY DEF Dispatch, EventRun
<1> HIDE DEF s
<1>3. s.vars = s.prev.vars => determineUpdateAction(s) \in GovActions
  BY <1>1, Apart DEF determineUpdateAction, Wanted
<1> QED BY <1>2, <1>3, UpdateFits DEF s

\* A run is dispatched.
LEMMA DispatchRunWakes ==
    ASSUME PowerDeployed, IInv, Woken, NEW r, DispatchRun(r) PROVE Woken'
<1>1. r \in EventRuns \cup ActionRuns \cup CallbackRuns /\ NoRun \notin EventRuns \cup ActionRuns \cup CallbackRuns
  BY DispatchedRun DEF NoRun, EventRuns, ActionRuns, CallbackRuns
<1>2. /\ run' = r /\ todo' = Dispatch(r, Payload) /\ UNCHANGED <<subj, prev, gone>> /\ snap' = Payload /\ ~gone /\ todo = <<>>
      /\ events' = IF r.kind = "event" THEN events \ {r.name} ELSE events
      /\ run # NoRun => r = run
  BY DEF DispatchRun
<1>3. r.kind = "event" /\ r.name = "update" => r = EventRun("update")
  BY <1>1 DEF EventRuns, ActionRuns, CallbackRuns, EventRun
<1>4. ASSUME Wanted, r = EventRun("update")
      PROVE  todo' # <<>> /\ (Turns(Head(todo')) \/ Distracted')
  BY <1>2, <1>4, UpdateTurns DEF Distracted
<1>5. ASSUME ~subj.deleting, Wanted, r # EventRun("update") PROVE "update" \in events' \/ Misled'
  <2>1. EventRun("update") # NoRun
    BY DEF EventRun, NoRun
  <2>2. "update" \in events \/ Misled
    BY <1>2, <1>5, <2>1 DEF Woken, Distracted
  <2> QED BY <1>2, <1>3, <1>5, <2>2 DEF Misled
<1> QED BY <1>2, <1>4, <1>5 DEF Woken, Wanted

\* The calls that are neither patches nor results.
OtherStep ==
    \/ ScheduleAction \/ LaunchJob \/ CancelJobs \/ PollJob \/ GetPlacement \/ GetBooked \/ CheckQueue
    \/ BookPlacement \/ PowerPlacement \/ AwaitRequest \/ ReleasePlacement

\* They are made with a call that is left, and change neither the subject nor the run.
LEMMA OtherSteps ==
    ASSUME OtherStep
    PROVE  /\ todo # <<>> /\ Head(todo).op \notin {"patch", "post"}
           /\ UNCHANGED <<subj, events, run, gone>>
<1>1. ScheduleAction \/ LaunchJob \/ CancelJobs \/ PollJob \/ GetPlacement =>
      /\ todo # <<>> /\ Head(todo).op \notin {"patch", "post"} /\ UNCHANGED <<subj, events, run, gone>>
  BY DEF ScheduleAction, LaunchJob, CancelJobs, PollJob, GetPlacement, At, subject
<1>2. GetBooked \/ CheckQueue \/ BookPlacement \/ PowerPlacement \/ AwaitRequest \/ ReleasePlacement =>
      /\ todo # <<>> /\ Head(todo).op \notin {"patch", "post"} /\ UNCHANGED <<subj, events, run, gone>>
  BY DEF GetBooked, CheckQueue, BookPlacement, PowerPlacement, AwaitRequest, ReleasePlacement, At, subject
<1> QED BY <1>1, <1>2 DEF OtherStep

\* Every step.
LEMMA NextWakes == ASSUME PowerDeployed, IInv, Upbringing, Recalls, Woken, [Next]_vars PROVE Woken'
<1>1. CASE DispatchNext
  BY <1>1, DispatchRunWakes DEF DispatchNext
<1>2. PostResult \/ prev'.edited = prev.edited
  BY Recall
<1>3. CASE HandlerStep
  <2>1. SubjectUpdate \/ PostResult \/ OtherStep
    BY <1>3 DEF HandlerStep, OtherStep
  <2>2. CASE PostResult
    <3>1. /\ todo # <<>> /\ Head(todo).op = "post" /\ UNCHANGED <<subj, events>> /\ run' = NoRun
          /\ prev' = IF run = EventRun("update")
                     THEN [vars |-> snap.vars, asked |-> snap.asked, edited |-> snap.vars # snap.prev.vars]
                     ELSE prev
      BY <2>2, Posted
    <3>2. ~gone /\ NoRun # EventRun("update")
      BY <3>1 DEF IInv, Sound, Gone, NoRun, EventRun
    <3>3. Distracted \/ Misled => Misled'
      BY <3>1, <3>2 DEF Distracted, Misled
    <3> QED BY <3>1, <3>2, <3>3 DEF Woken, Wanted, Turns
  <2>3. CASE SubjectUpdate /\ ~PostResult
    BY <1>2, <2>3, SubjectUpdateWakes
  <2>4. CASE OtherStep /\ ~PostResult
    BY <1>2, <1>3, <2>4, OtherSteps, SnapKept, WokenStays
  <2> QED BY <2>1, <2>2, <2>3, <2>4
<1>4. CASE Abandon
  <2>1. /\ UNCHANGED <<subj, prev, events, run, gone>> /\ todo' = <<>> /\ todo # <<>>
    BY <1>4 DEF Abandon, Continue, subject
  <2> QED BY <2>1, WokenStays
<1>5. CASE Environment
  <2>1. CASE (\E a \in Actions : JobEnds(a) \/ OrphanEnds(a)) \/ PlacementMoves \/ RequestEnds \/ TokenVanishes
    <3>1. UNCHANGED <<subj, prev, events, run, gone, todo, snap>>
      BY <2>1, EndFacts DEF PlacementMoves, RequestEnds, TokenVanishes, subject, runner
    <3> QED BY <3>1, WokenStays
  <2>2. CASE EditJobVars \/ SetDesiredState \/ AskStatus
    <3>1. "update" \in events'
      BY <2>2 DEF EditJobVars, SetDesiredState, AskStatus, Request
    <3> QED BY <3>1 DEF Woken
  <2>3. CASE DeleteSubject
    <3>1. subj'.deleting
      BY <2>3 DEF DeleteSubject, IInv, Sound, Types
    <3> QED BY <3>1 DEF Woken
  <2> QED BY <1>5, <2>1, <2>2, <2>3 DEF Environment
<1>6. CASE UNCHANGED vars
  BY <1>6, WokenStays DEF vars
<1> QED BY <1>1, <1>3, <1>4, <1>5, <1>6 DEF Next

(***************************************************************************)
(* A deletion is seen to.                                                  *)
(***************************************************************************)
\* A step that takes neither the delete event nor a destroy action away.
LEMMA AttendedStays ==
    ASSUME Attended, subj'.deleting = subj.deleting, gone' = gone, run' = run,
           "delete" \in events => "delete" \in events',
           acts["destroy"] > 0 => acts'["destroy"] > 0,
           run = EventRun("delete") /\ (todo = <<>> \/ Decided(todo)) =>
              acts'["destroy"] > 0 \/ todo' = <<>> \/ Decided(todo')
    PROVE  Attended'
BY DEF Attended

\* What is decided remains so, behind a call that does not decide and when it is made
\* once more.
LEMMA DecidedStays ==
    ASSUME IInv, TodoFits, todo # <<>>, Decided(todo)
    PROVE  /\ ~Decisive(Head(todo)) => Decided(Tail(todo))
           /\ Decided(Repeated)
           /\ Head(todo).op = "post" => Decisive(Head(todo))
<1>1. PICK k \in 1..Len(todo) : Decisive(todo[k]) /\ \A j \in 1..(k - 1) : todo[j].op # "post"
  BY DEF Decided
<1>2. Len(todo) \in Nat /\ Head(todo) = todo[1] /\ 1 \in 1..Len(todo) /\ todo \in Seq(Calls)
  BY HeadFits
<1>3. ASSUME ~Decisive(Head(todo)) PROVE Decided(Tail(todo))
  <2> DEFINE t == Tail(todo)
             n == k - 1
  <2>1. /\ Len(t) = Len(todo) - 1 /\ \A i \in 1..Len(t) : t[i] = todo[i + 1]
    BY <1>2
  <2>2. k # 1
    BY <1>1, <1>2, <1>3
  <2>3. n \in 1..Len(t) /\ t[n] = todo[k]
    BY <1>1, <1>2, <2>1, <2>2
  <2>4. ASSUME NEW j \in 1..(n - 1) PROVE t[j].op # "post"
    <3>1. j \in 1..Len(t) /\ j + 1 \in 1..(k - 1)
      BY <1>1, <1>2, <2>1, <2>3
    <3> QED BY <1>1, <2>1, <3>1
  <2> HIDE DEF t, n
  <2>5. Decisive(t[n])
    BY <1>1, <2>3
  <2>6. Decided(t)
    BY <2>3, <2>4, <2>5 DEF Decided
  <2> QED BY <2>6 DEF t
<1>4. Decided(Repeated)
  <2> DEFINE r == Repeated
  <2>1. /\ Len(r) = Len(todo) /\ Head(r) = r[1] /\ r[1].op = todo[1].op /\ r[1].act = todo[1].act
        /\ \A i \in 2..Len(todo) : r[i] = todo[i]
    BY <1>2, RepeatedForm
  <2> HIDE DEF r
  <2>2. \A i \in 1..Len(todo) : r[i].op = todo[i].op /\ r[i].act = todo[i].act
    BY <1>2, <2>1
  <2>3. k \in 1..Len(r) /\ Decisive(r[k])
    BY <1>1, <2>1, <2>2 DEF Decisive
  <2>4. \A j \in 1..(k - 1) : r[j].op # "post"
    BY <1>1, <1>2, <2>2
  <2>5. Decided(r)
    BY <2>3, <2>4 DEF Decided
  <2> QED BY <2>5 DEF r
<1>5. Head(todo).op = "post" => Decisive(Head(todo))
  <2>1. k # 1 => 1 \in 1..(k - 1)
    BY <1>1, <1>2
  <2> QED BY <1>1, <1>2, <2>1
<1> QED BY <1>3, <1>4, <1>5

\* The calls of a delete event that decide nothing.
LEMMA EndingStays ==
    ASSUME IInv, TodoFits, todo # <<>>, run = EventRun("delete"), Decided(todo), ~Decisive(Head(todo)),
           Succeeds \/ TroubleWith(Repeated) \/ Trouble
    PROVE  todo' = <<>> \/ Decided(todo')
<1>1. todo' \in {Tail(todo), Repeated, todo, Recovery(Head(todo), Tail(todo))}
  BY Moves
<1>2. EventRun("delete").name = "delete"
  BY DEF EventRun
<1>3. Recovery(Head(todo), Tail(todo)) \in {<<>>, Tail(todo)}
  BY <1>2, HandledFits
<1> QED BY <1>1, <1>3, DecidedStays

\* Every call but a result.
LEMMA CallAttends ==
    ASSUME IInv, Upbringing, Attended, SubjectUpdate \/ OtherStep PROVE Attended'
<1>1. TodoFits /\ todo # <<>> /\ Head(todo).op # "post"
  BY OtherSteps DEF Upbringing, SubjectUpdate, At
<1>2. Head(todo) \in Fit /\ Head(todo) \in Lively
  BY <1>1, HeadFits
<1>3. acts \in [Actions -> 0..MaxQueued] /\ MaxQueued \in Nat \ {0} /\ "destroy" \in Actions
  BY LifecycleAssumption DEF IInv, Sound, Types, Actions
<1>4. run = EventRun("delete") => Head(todo).op \in {"patch", "cancel", "schedule", "release"}
  BY <1>1, <1>2 DEF EventRun, Fit, FitFor, Ending
<1>5. CASE SubjectUpdate
  <2>1. /\ Head(todo).op = "patch" /\ Head(todo).patch \in Patches /\ UNCHANGED <<acts, gone, run>>
        /\ \/ Apply(Head(todo).patch)
           \/ UNCHANGED <<subj, prev, events, tower>>
    BY <1>5, Sent
  <2>2. subj'.deleting = subj.deleting /\ events \subseteq events'
    <3>1. CASE Apply(Head(todo).patch)
      <4>1. subj' = Merged(Head(todo).patch) /\ events \subseteq events'
        BY <3>1 DEF Apply
      <4>2. Merged(Head(todo).patch).deleting = subj.deleting
        BY <2>1, MergedIs
      <4> QED BY <4>1, <4>2
    <3> QED BY <2>1, <3>1
  <2>3. Succeeds \/ TroubleWith(Repeated) \/ Trouble
    BY <1>5 DEF SubjectUpdate, Does
  <2>4. run = EventRun("delete") /\ Decided(todo) => todo' = <<>> \/ Decided(todo')
    BY <1>1, <2>1, <2>3, EndingStays DEF Decisive
  <2> QED BY <1>1, <2>1, <2>2, <2>4, AttendedStays
<1>6. CASE ScheduleAction
  <2> DEFINE c == Head(todo)
             moves == acts' = Scheduled(c.act, c.cancel)
  <2>1. UNCHANGED <<subj, events, gone, run>> /\ c.op = "schedule" /\ "destroy" \notin c.cancel
    BY <1>2, <1>6 DEF ScheduleAction, At, subject, Lively
  <2>2. \/ moves /\ (Succeeds \/ TroubleWith(Repeated))
        \/ acts' = acts /\ Trouble
    BY <1>6 DEF ScheduleAction, Does, anarchy
  <2>3. moves => /\ acts["destroy"] > 0 => acts'["destroy"] > 0
                 /\ c.act = "destroy" => acts'["destroy"] > 0
    <3>1. moves => acts'["destroy"] = IF c.act = "destroy" /\ acts["destroy"] < MaxQueued
                                      THEN acts["destroy"] + 1 ELSE acts["destroy"]
      BY <1>3, <2>1 DEF Scheduled
    <3>2. acts["destroy"] \in 0..MaxQueued
      BY <1>3
    <3> HIDE DEF c, moves
    <3> QED BY <1>3, <3>1, <3>2
  <2>4. run = EventRun("delete") /\ Decided(todo) =>
           acts'["destroy"] > 0 \/ todo' = <<>> \/ Decided(todo')
    <3> SUFFICES ASSUME run = EventRun("delete"), Decided(todo), ~(acts'["destroy"] > 0)
                 PROVE  todo' = <<>> \/ Decided(todo')
      OBVIOUS
    <3>1. CASE c.act # "destroy"
      <4>1. ~Decisive(c)
        BY <2>1, <3>1 DEF Decisive
      <4> QED BY <1>1, <2>2, <4>1, EndingStays
    <3>2. CASE c.act = "destroy"
      <4>1. Trouble
        BY <2>2, <2>3, <3>2
      <4>2. Recovery(c, Tail(todo)) = <<>>
        BY <1>1, <2>1, HandledFits DEF EventRun
      <4>3. todo' \in {todo, Recovery(c, Tail(todo))}
        BY <4>1 DEF Trouble, TroubleWith, Continue
      <4> QED BY <4>2, <4>3
    <3> QED BY <3>1, <3>2
  <2>5. acts["destroy"] > 0 => acts'["destroy"] > 0
    BY <2>2, <2>3
  <2> QED BY <1>1, <2>1, <2>4, <2>5, AttendedStays
<1>7. CASE OtherStep /\ ~ScheduleAction
  <2>1. UNCHANGED <<subj, events, gone, run>>
    BY <1>7, OtherSteps
  <2>2. acts' = acts
    BY <1>7 DEF OtherStep, LaunchJob, CancelJobs, PollJob, GetPlacement, GetBooked, CheckQueue,
       BookPlacement, PowerPlacement, AwaitRequest, ReleasePlacement, anarchy
  <2>3. run = EventRun("delete") => CancelJobs \/ ReleasePlacement
    BY <1>4, <1>7 DEF OtherStep, LaunchJob, PollJob, GetPlacement, GetBooked, CheckQueue,
       BookPlacement, PowerPlacement, AwaitRequest, At
  <2>4. CancelJobs \/ ReleasePlacement =>
           /\ ~Decisive(Head(todo))
           /\ Succeeds \/ TroubleWith(Repeated) \/ Trouble \/ todo' = <<>>
    BY DEF CancelJobs, ReleasePlacement, At, Decisive, Does, Continue
  <2>5. run = EventRun("delete") /\ Decided(todo) => todo' = <<>> \/ Decided(todo')
    BY <1>1, <2>3, <2>4, EndingStays
  <2> QED BY <1>1, <2>1, <2>2, <2>5, AttendedStays
<1> QED BY <1>5, <1>6, <1>7 DEF OtherStep

\* A result.  A run of destroy is never finished, and a delete event that schedules no
\* destroy posts the directive to delete.
LEMMA PostResultAttends == ASSUME IInv, Upbringing, Attended, PostResult PROVE Attended'
<1> DEFINE c == Head(todo)
<1>1. /\ todo # <<>> /\ c.op = "post" /\ run' = NoRun /\ UNCHANGED <<subj, events>>
      /\ acts'["destroy"] \in 0..MaxQueued
      /\ acts'["destroy"] # acts["destroy"] => run.name = "destroy" /\ c.act \in {"finish", "none"}
      /\ gone' = (c.act = "delete")
  BY Posted DEF Actions
<1>2. TodoFits /\ ~gone
  BY <1>1 DEF Upbringing, IInv, Sound, Gone
<1>3. run.name = "destroy" => c.act \in {"continue", "delete"}
  <2>1. c \in Fit
    BY <1>1, <1>2, HeadFits
  <2> QED BY <1>1, <2>1 DEF Fit, FitFor, Lasting
<1>4. acts'["destroy"] = acts["destroy"]
  BY <1>1, <1>3
<1>5. Decided(todo) => gone'
  BY <1>1, <1>2, DecidedStays DEF Decisive
<1> QED BY <1>1, <1>2, <1>4, <1>5 DEF Attended

\* A run is dispatched.
LEMMA DispatchRunAttends == ASSUME IInv, Attended, NEW r, DispatchRun(r) PROVE Attended'
<1>1. r \in EventRuns \cup ActionRuns \cup CallbackRuns
  BY DispatchedRun
<1>2. /\ run' = r /\ todo' = Dispatch(r, Payload) /\ UNCHANGED <<subj, gone, acts>> /\ todo = <<>>
      /\ events' = IF r.kind = "event" THEN events \ {r.name} ELSE events
      /\ run # NoRun => r = run
  BY DEF DispatchRun
<1>3. r.kind = "event" /\ r.name = "delete" => r = EventRun("delete")
  BY <1>1 DEF EventRuns, ActionRuns, CallbackRuns, EventRun
<1>4. r = EventRun("delete") => Decided(todo')
  <2>1. Dispatch(EventRun("delete"), Payload) = handleEventDelete(Payload)
    BY DEF Dispatch, EventRun
  <2> QED BY <1>2, <2>1, DeleteFits
<1>5. r # EventRun("delete") => ("delete" \in events => "delete" \in events') /\ run # EventRun("delete")
  <2>1. EventRun("delete") # NoRun
    BY DEF EventRun, NoRun
  <2> QED BY <1>2, <1>3, <2>1
<1> QED BY <1>2, <1>4, <1>5 DEF Attended

\* Every step.
LEMMA NextAttends == ASSUME IInv, Upbringing, Attended, [Next]_vars PROVE Attended'
<1>1. CASE DispatchNext
  BY <1>1, DispatchRunAttends DEF DispatchNext
<1>2. CASE HandlerStep
  <2>1. SubjectUpdate \/ PostResult \/ OtherStep
    BY <1>2 DEF HandlerStep, OtherStep
  <2> QED BY <2>1, CallAttends, PostResultAttends
<1>3. CASE Abandon
  BY <1>3, AttendedStays DEF Abandon, Continue, subject, anarchy
<1>4. CASE Environment
  <2>1. CASE (\E a \in Actions : JobEnds(a) \/ OrphanEnds(a)) \/ PlacementMoves \/ RequestEnds \/ TokenVanishes
    <3>1. UNCHANGED <<subj, events, run, gone, todo, acts>>
      BY <2>1, EndFacts DEF PlacementMoves, RequestEnds, TokenVanishes, subject, anarchy, runner
    <3> QED BY <3>1, AttendedStays
  <2>2. CASE EditJobVars \/ SetDesiredState \/ AskStatus
    <3>1. subj \in Subjects
      BY DEF IInv, Sound, Types, Subjects
    <3>2. ~subj.deleting /\ subj'.deleting = subj.deleting
      <4>1. /\ \A v : [subj EXCEPT !.vars = v].deleting = subj.deleting
            /\ \A v : [subj EXCEPT !.desired = v].deleting = subj.deleting
            /\ \A v : [subj EXCEPT !.asked = v].deleting = subj.deleting
        BY <3>1 DEF Subjects
      <4>2. \E v : \/ Request([subj EXCEPT !.vars = v]) \/ Request([subj EXCEPT !.desired = v])
                   \/ Request([subj EXCEPT !.asked = v])
        BY <2>2 DEF EditJobVars, SetDesiredState, AskStatus
      <4> QED BY <4>1, <4>2 DEF Request
    <3> QED BY <3>2 DEF Attended
  <2>3. CASE DeleteSubject
    <3>1. "delete" \in events'
      BY <2>3 DEF DeleteSubject
    <3> QED BY <3>1 DEF Attended
  <2> QED BY <1>4, <2>1, <2>2, <2>3 DEF Environment
<1>5. CASE UNCHANGED vars
  BY <1>5, AttendedStays DEF vars
<1> QED BY <1>1, <1>2, <1>3, <1>4, <1>5 DEF Next

(***************************************************************************)
(* The theorem.                                                            *)
(***************************************************************************)
LEMMA WakeupInit == Init => WInv
<1> SUFFICES ASSUME Init PROVE WInv
  OBVIOUS
<1>1. /\ subj = NewSubject /\ prev = NewPrev /\ tower = NoJobs /\ acts = [a \in Actions |-> 0]
      /\ events = {"create"} /\ callbacks = {} /\ gone = FALSE /\ run = NoRun /\ todo = <<>>
  BY DEF Init
<1>2. subj.state = NoState /\ ~subj.deleting
  BY <1>1 DEF NewSubject
<1>3. Job = "none" /\ \A a \in Actions : acts[a] = 0
  BY <1>1 DEF Job, NoJobs, Actions
<1>4. NoRun.kind = "none" /\ NoRun.name = "none" /\ NoRun # ActionRun("destroy")
  BY DEF NoRun, ActionRun
<1>5. NoState # Started /\ NoState # Stopped
  BY DEF NoState, Started, Stopped
<1>6. TodoFits
  <2>1. <<>> \in Seq(Fit)
    OBVIOUS
  <2> QED BY <1>1, <2>1 DEF TodoFits, Fits, Ordered
<1>7. Provisioned /\ Occasions
  BY <1>1, <1>2, <1>3, <1>4 DEF Provisioned, Occasions, Actions
<1>8. Recalls /\ Woken /\ Attended
  BY <1>1, <1>2, <1>5 DEF Recalls, Woken, Attended, Wanted
<1> QED BY <1>6, <1>7, <1>8 DEF WInv, Upbringing

\* With a deployer for start and stop and no update action, the system does not come to
\* rest while the subject is not started or stopped as the user wants it, nor while it
\* is being deleted, whatever fails, is repeated or is lost, and for every number of
\* faults, callbacks and requests: every change of desired_state meets a handler of
\* update events that acts upon it, or one that found job_vars edited and looked no
\* further (handleEventUpdate, determineUpdateAction); every deletion is acted upon
\* (handleEventDelete).
THEOREM NoWakeupIsLost == ASSUME PowerDeployed PROVE Spec => []NoLostWakeup
<1>1. Init => WInv
  BY WakeupInit
<1>2. WInv /\ IInv /\ [Next]_vars => WInv'
  BY NextFits, Recall, NextWakes, NextAttends DEF WInv
<1>3. WInv => NoLostWakeup
  <2> SUFFICES ASSUME WInv, Quiescent PROVE NoLostWakeup
    BY DEF NoLostWakeup
  <2>1. run = NoRun /\ ~gone /\ events = {} /\ acts["destroy"] = 0
    BY DEF Quiescent, Actions
  <2>2. NoRun # EventRun("delete") /\ NoRun # EventRun("update")
    BY DEF NoRun, EventRun
  <2>3. ~subj.deleting
    BY <2>1, <2>2 DEF WInv, Attended
  <2>4. ~Wanted \/ prev.edited
    BY <2>1, <2>2, <2>3 DEF WInv, Woken, Distracted, Misled
  <2> QED BY <2>3, <2>4 DEF NoLostWakeup, Wanted
<1> QED BY <1>1, <1>2, <1>3, Invariance, PTL DEF Spec

=============================================================================
