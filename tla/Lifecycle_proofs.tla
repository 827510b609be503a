-------------------------- MODULE Lifecycle_proofs --------------------------
(***************************************************************************)
(* Proofs about Lifecycle for every governor, every number of faults, of   *)
(* requests and of queued actions.                                         *)
(*                                                                         *)
(* What a handler is still to do is a sequence of calls, so the invariant  *)
(* IInv says of that sequence what matters of it: either it never posts    *)
(* the directive to delete (Plain), or it is one of the few that take      *)
(* leave of the subject (Farewell), made only when no destroy job is due,  *)
(* and with a release ahead of the post or done.  The first part shows     *)
(* that every handler of Governor returns such a sequence from the payload *)
(* it gets, the second that every call made, failed, repeated or cut off   *)
(* leaves such a sequence behind, the third takes Lifecycle action by      *)
(* action.  What follows proves with it that Lifecycle implements          *)
(* SubjectLife.                                                            *)
(***************************************************************************)
EXTENDS Lifecycle, SequenceTheorems, TLAPS

(***************************************************************************)
(* The calls a handler may make.                                           *)
(***************************************************************************)
\* The directive after which Anarchy deletes the subject.
Deleting(c) == c.op = "post" /\ c.act = "delete"

\* The states in which a destroy job ended without success.
DestroyFailures == {Failure("destroy", f) : f \in FailureStatuses}

\* Patches that do not say a destroy job failed unless one ended (e), and record a
\* destroy or provision job only if it is one of J.
PatchesOf(e, J) == {p \in Patches : /\ p.state \in DestroyFailures => e
                                    /\ p.job = "destroy" => "destroy" \in J
                                    /\ p.job = "provision" => "provision" \in J}

\* The calls that find out whether a provision has its placement.
Looks(c) == c.op \in {"book", "reget"} \/ (c.op = "get" /\ c.act = "provision")

\* Calls that do not delete the subject.  u: a placement may be booked for it; J: of
\* destroy and provision, the actions that may be launched for it, and "reget" when
\* its placement may be looked up once more.
Allowed(u, e, J) ==
    {c \in Calls : /\ ~Deleting(c) /\ c.op # "release"
                   /\ c.op \in {"get", "book", "reget"} => u
                   /\ c.op = "poll" => c.act \in Actions
                   /\ c.op \in {"power", "await"} \/ c.traced => c.act \in {"start", "stop"}
                   /\ c.op \in {"schedule", "launch"} /\ c.act = "destroy" => "destroy" \in J
                   /\ c.op = "launch" /\ c.act = "provision" => "provision" \in J
                   /\ c.op = "reget" => {"provision", "reget"} \cap J # {}
                   /\ Looks(c) => c.onError = "provisionError" /\ ~c.traced
                   /\ c.patch \in PatchesOf(e, J)}

\* What a call may be.
Ops == {"patch", "schedule", "launch", "cancel", "poll", "get", "reget", "checkQueue",
        "book", "power", "await", "release", "post"}

\* What a handler may do about an error.
OnErrors == {"fail", "ignore", "continue", "finish", "provisionError"}

\* The two are actions.
LEMMA ActionNames == "destroy" \in Actions /\ "provision" \in Actions
BY DEF Actions

\* The empty patch is one of them.
LEMMA NoPatchType ==
    ASSUME NEW e, NEW J PROVE NoPatch \in PatchesOf(e, J)
BY DEF NoPatch, PatchesOf, Patches, KeepState, DestroyFailures, Failure, FailureStatuses

\* A patch that moves on otherwise is one of them as well.
LEMMA SkipType ==
    ASSUME NEW e, NEW J, NEW p \in PatchesOf(e, J)
    PROVE  /\ [p EXCEPT !.skip = TRUE] \in PatchesOf(e, J)
           /\ [p EXCEPT !.skip = TRUE].job = p.job
<1>1. p \in Patches
  BY DEF PatchesOf
<1>2. /\ [p EXCEPT !.skip = TRUE] \in Patches
      /\ [p EXCEPT !.skip = TRUE].job = p.job
      /\ [p EXCEPT !.skip = TRUE].state = p.state
  BY <1>1 DEF Patches
<1> QED BY <1>2 DEF PatchesOf

\* Sequences of one element, and of two sequences.
LEMMA Singleton == ASSUME NEW S, NEW c \in S PROVE <<c>> \in Seq(S)
OBVIOUS

\* Calls of one set followed by others of it.
LEMMA Concat ==
    ASSUME NEW S, NEW s \in Seq(S), NEW t \in Seq(S) PROVE s \o t \in Seq(S)
OBVIOUS

\* A call without a patch is allowed when its kind is.
LEMMA CallType ==
    ASSUME NEW u, NEW e, NEW J, NEW op \in Ops, NEW a \in Actions \cup {"none", "all", "finish", "continue"},
           NEW f \in OnErrors, op \in {"get", "book", "reget"} => u,
           op = "poll" => a \in Actions, op \in {"power", "await"} => a \in {"start", "stop"},
           op # "release", op \in {"schedule", "launch"} /\ a = "destroy" => "destroy" \in J,
           op = "launch" /\ a = "provision" => "provision" \in J,
           op = "reget" => {"provision", "reget"} \cap J # {},
           op \in {"book", "reget"} \/ (op = "get" /\ a = "provision") => f = "provisionError"
    PROVE  /\ Call(op, a, f) \in Allowed(u, e, J)
           /\ <<Call(op, a, f)>> \in Seq(Allowed(u, e, J))
<1>1. Call(op, a, f) \in Allowed(u, e, J)
  BY NoPatchType DEF Call, Allowed, Looks, Calls, Ops, OnErrors, Deleting, PatchesOf, Actions
<1> QED BY <1>1, Singleton

\* A patch is allowed, whatever is done about its error.
LEMMA PatchErrorType ==
    ASSUME NEW u, NEW e, NEW J, NEW p \in PatchesOf(e, J), NEW f \in OnErrors
    PROVE  /\ [Patch(p) EXCEPT !.onError = f] \in Allowed(u, e, J)
           /\ [SkipPatch(p) EXCEPT !.onError = f] \in Allowed(u, e, J)
<1>3. [p EXCEPT !.skip = TRUE] \in PatchesOf(e, J)
  BY SkipType
<1>4. \A q \in PatchesOf(e, J) : [Patch(q) EXCEPT !.onError = f] \in Allowed(u, e, J)
  BY NoPatchType DEF Patch, Call, Allowed, Looks, Calls, Ops, OnErrors, Deleting, PatchesOf
<1> QED BY <1>3, <1>4 DEF SkipPatch

\* A patch that fails the run is allowed.
LEMMA PatchType ==
    ASSUME NEW u, NEW e, NEW J, NEW p \in PatchesOf(e, J)
    PROVE  /\ <<Patch(p)>> \in Seq(Allowed(u, e, J))
           /\ <<SkipPatch(p)>> \in Seq(Allowed(u, e, J))
<1>3. [p EXCEPT !.skip = TRUE] \in PatchesOf(e, J)
  BY SkipType
<1>4. \A q \in PatchesOf(e, J) : Patch(q) \in Allowed(u, e, J)
  BY NoPatchType DEF Patch, Call, Allowed, Looks, Calls, Ops, OnErrors, Deleting, PatchesOf
<1> QED BY <1>3, <1>4, Singleton DEF SkipPatch

\* Results other than the deletion are allowed.
LEMMA PostType ==
    ASSUME NEW u, NEW e, NEW J, NEW x \in {"none", "finish", "continue"}
    PROVE  Post(x) \in Seq(Allowed(u, e, J))
BY CallType DEF Post, Ops, OnErrors

\* The states the handlers patch are states of a subject, and only a failed destroy
\* is a failure of destroy.
LEMMA States ==
    /\ \A a \in Actions : Pending(a) \in SubjectStates /\ Running(a) \in SubjectStates
    /\ \A a \in Actions : Pending(a) \notin DestroyFailures /\ Running(a) \notin DestroyFailures
    /\ \A a \in Actions, f \in FailureStatuses : Failure(a, f) \in SubjectStates
    /\ \A a \in Actions \ {"destroy"}, f \in FailureStatuses : Failure(a, f) \notin DestroyFailures
    /\ {NoState, Started, Stopped, Queued, DestroyComplete} \subseteq SubjectStates
    /\ \A s \in {NoState, Started, Stopped, Queued, DestroyComplete} : s \notin DestroyFailures
BY DEF Pending, Running, Failure, SubjectStates, Actions, FailureStatuses, DestroyFailures,
       NoState, Started, Stopped, Queued, DestroyComplete

\* A patch that ends a job and moves the state.
LEMMA EndsType ==
    ASSUME NEW e, NEW J, NEW a \in Actions, NEW st \in SubjectStates \cup {KeepState}, st \in DestroyFailures => e
    PROVE  Ends(a, st) \in PatchesOf(e, J)
BY DEF Ends, NoPatch, PatchesOf, Patches

\* The error path of provision.
LEMMA handleProvisionErrorType ==
    ASSUME NEW u, NEW e, NEW J PROVE handleProvisionError \in Seq(Allowed(u, e, J))
<1>1. Failure("provision", "error") \in SubjectStates /\ Failure("provision", "error") \notin DestroyFailures
  BY States DEF Actions, FailureStatuses
<1>2. Ends("provision", Failure("provision", "error")) \in PatchesOf(e, J)
  BY <1>1, EndsType DEF Actions
<1> QED BY <1>2, PatchType, PostType, Concat DEF handleProvisionError

\* A launch with its recording.
LEMMA launchTowerJobType ==
    ASSUME NEW u, NEW e, NEW J, NEW a \in Actions, NEW f \in OnErrors,
           a = "provision" => "provision" \in J, a = "destroy" => "destroy" \in J
    PROVE  launchTowerJob(a, f) \in Seq(Allowed(u, e, J))
<1> DEFINE recorded == [NoPatch EXCEPT
            !.job = a,
            !.state = IF a = "status" THEN @ ELSE Running(a),
            !.css = IF a = "status" THEN "running" ELSE @]
<1>1. recorded \in PatchesOf(e, J)
  <2>1. recorded \in Patches
    BY States DEF NoPatch, Patches
  <2>2. /\ recorded.job = a
        /\ recorded.state = IF a = "status" THEN KeepState ELSE Running(a)
    BY DEF NoPatch
  <2>3. KeepState \notin DestroyFailures /\ Running(a) \notin DestroyFailures
    BY States DEF KeepState, DestroyFailures, Failure, FailureStatuses
  <2> HIDE DEF recorded
  <2> QED BY <2>1, <2>2, <2>3 DEF PatchesOf
<1>2. [Patch(recorded) EXCEPT !.onError = f] \in Allowed(u, e, J)
  BY <1>1, PatchErrorType
<1>3. Call("launch", a, f) \in Allowed(u, e, J)
  BY CallType DEF Ops
<1> HIDE DEF recorded
<1> QED BY <1>2, <1>3 DEF launchTowerJob, recorded

\* The launch of a provision.
LEMMA launchProvisionType ==
    ASSUME NEW u, NEW e, NEW J, "provision" \in J
    PROVE  launchProvision \in Seq(Allowed(u, e, J))
<1>1. completeProvisionNoDeployer \in Seq(Allowed(u, e, J))
  <2>1. [NoPatch EXCEPT !.state = Started] \in PatchesOf(e, J)
    BY States DEF NoPatch, PatchesOf, Patches
  <2> QED BY <2>1, PatchType, PostType, Concat DEF completeProvisionNoDeployer
<1> QED BY <1>1, launchTowerJobType, PostType, Concat DEF launchProvision, Actions, OnErrors

\* A provision looks at a placement only for a subject that may book one.
LEMMA runProvisionType ==
    ASSUME NEW s, NEW u, NEW e, NEW J, SandboxInUse /\ s.uuid => u, "provision" \in J
    PROVE  runProvision(s) \in Seq(Allowed(u, e, J))
<1>1. launchProvision \in Seq(Allowed(u, e, J))
  BY launchProvisionType
<1>2. [NoPatch EXCEPT !.starts = "provision"] \in PatchesOf(e, J)
  BY NoPatchType DEF PatchesOf, Patches, Actions
<1>3. <<Patch([NoPatch EXCEPT !.starts = "provision"])>> \in Seq(Allowed(u, e, J))
  BY <1>2, PatchType
<1>4. SandboxInUse /\ s.uuid => <<Call("get", "provision", "provisionError")>> \in Seq(Allowed(u, e, J))
  BY CallType DEF Ops, OnErrors, Actions
<1> QED BY <1>1, <1>3, <1>4, handleProvisionErrorType, Concat DEF runProvision

\* Starting and stopping the placement, and recording how it went.
LEMMA PowerType ==
    ASSUME NEW u, NEW e, NEW J, NEW a \in {"start", "stop"}, NEW f \in OnErrors, NEW async
    PROVE  /\ sandboxPower(a, f) \in Seq(Allowed(u, e, J))
           /\ requested(a, f, async) \in Seq(Allowed(u, e, J))
           /\ \A o \in {"successful", "error"} :
                 recordSandboxJobOutcome(a, o, f) \in Seq(Allowed(u, e, J))
           /\ recordSandboxActionFailure(a) \in Seq(Allowed(u, e, J))
<1>. a \in Actions
  BY DEF Actions
<1>1. \A c \in Allowed(u, e, J) : c.op \in {"power", "patch"} => Traced(c, a) \in Allowed(u, e, J)
  <2> SUFFICES ASSUME NEW c \in Allowed(u, e, J), c.op \in {"power", "patch"}
               PROVE  Traced(c, a) \in Allowed(u, e, J)
    OBVIOUS
  <2>1. Traced(c, a) \in Calls
    BY DEF Traced, Allowed, Calls
  <2>2. Traced(c, a).op = c.op /\ Traced(c, a).act = a /\ Traced(c, a).patch = c.patch
    BY DEF Traced, Allowed, Calls
  <2> QED BY <2>1, <2>2 DEF Allowed, Looks, Deleting, Actions
<1>2. sandboxPower(a, f) \in Seq(Allowed(u, e, J))
  <2>1. Call("power", a, f) \in Allowed(u, e, J) /\ Call("power", a, f).op = "power"
    BY CallType DEF Ops, Call
  <2> QED BY <1>1, <2>1, Singleton DEF sandboxPower
<1>3. requested(a, f, async) \in Seq(Allowed(u, e, J))
  <2>1. /\ [SkipPatch(NoPatch) EXCEPT !.onError = f] \in Allowed(u, e, J)
        /\ [SkipPatch(NoPatch) EXCEPT !.onError = f].op = "patch"
    BY NoPatchType, PatchErrorType DEF SkipPatch, Patch, Call
  <2>2. <<Traced([SkipPatch(NoPatch) EXCEPT !.onError = f], a)>> \in Seq(Allowed(u, e, J))
    BY <1>1, <2>1, Singleton
  <2>3. <<Call("await", a, f)>> \in Seq(Allowed(u, e, J))
    BY CallType DEF Ops
  <2> QED BY <2>2, <2>3, Concat DEF requested
<1>4. \A o \in {"successful", "error"}, g \in OnErrors :
        recordSandboxJobOutcome(a, o, g) \in Seq(Allowed(u, e, J))
  <2> SUFFICES ASSUME NEW o \in {"successful", "error"}, NEW g \in OnErrors
               PROVE  recordSandboxJobOutcome(a, o, g) \in Seq(Allowed(u, e, J))
    OBVIOUS
  <2>1. [NoPatch EXCEPT !.request = a, !.outcome = o] \in PatchesOf(e, J)
    BY NoPatchType DEF PatchesOf, Patches
  <2>2. [SkipPatch([NoPatch EXCEPT !.request = a, !.outcome = o]) EXCEPT !.onError = g] \in Allowed(u, e, J)
    BY <2>1, PatchErrorType
  <2> QED BY <2>2, Singleton DEF recordSandboxJobOutcome
<1>5. recordSandboxActionFailure(a) \in Seq(Allowed(u, e, J))
  BY <1>4 DEF recordSandboxActionFailure, OnErrors
<1> QED BY <1>2, <1>3, <1>4, <1>5

\* Recording the vars of the placement.
LEMMA SandboxVarsType ==
    ASSUME NEW u, NEW e, NEW J, NEW f \in OnErrors
    PROVE  updateSubjectSandboxVars(f) \in Seq(Allowed(u, e, J))
<1>1. [NoPatch EXCEPT !.vars = "same"] \in PatchesOf(e, J)
  BY NoPatchType DEF PatchesOf, Patches
<1>2. [SkipPatch([NoPatch EXCEPT !.vars = "same"]) EXCEPT !.onError = f] \in Allowed(u, e, J)
  BY <1>1, PatchErrorType
<1> QED BY <1>2, Singleton DEF updateSubjectSandboxVars

\* Polling a job.
LEMMA PollType ==
    ASSUME NEW u, NEW e, NEW J, NEW a \in Actions PROVE checkDeployerJob(a) \in Seq(Allowed(u, e, J))
BY CallType DEF checkDeployerJob, Ops, OnErrors

\* What provision does with the end of its job.
LEMMA ProvisionOutcomeType ==
    ASSUME NEW u, NEW e, NEW J
    PROVE  /\ handleProvisionFailed \in Seq(Allowed(u, e, J))
           /\ handleProvisionCanceled \in Seq(Allowed(u, e, J))
           /\ handleProvisionComplete \in Seq(Allowed(u, e, J))
           /\ transitionToQueued \in Seq(Allowed(u, e, J))
<1>1. handleProvisionFailed \in Seq(Allowed(u, e, J))
  <2>1. Failure("provision", "failed") \in SubjectStates /\ Failure("provision", "failed") \notin DestroyFailures
    BY States DEF Actions, FailureStatuses
  <2>2. Ends("provision", Failure("provision", "failed")) \in PatchesOf(e, J)
    BY <2>1, EndsType DEF Actions
  <2>3. [Ends("provision", Failure("provision", "failed")) EXCEPT !.vars = "forensics"] \in PatchesOf(e, J)
    BY <2>2 DEF PatchesOf, Patches
  <2> QED BY <2>3, PatchType, PostType, Concat DEF handleProvisionFailed
<1>2. handleProvisionCanceled \in Seq(Allowed(u, e, J))
  <2>1. Failure("provision", "canceled") \in SubjectStates /\ Failure("provision", "canceled") \notin DestroyFailures
    BY States DEF Actions, FailureStatuses
  <2>2. Ends("provision", Failure("provision", "canceled")) \in PatchesOf(e, J)
    BY <2>1, EndsType DEF Actions
  <2> QED BY <2>2, PatchType, PostType, Concat DEF handleProvisionCanceled
<1>3. handleProvisionComplete \in Seq(Allowed(u, e, J))
  <2>1. Ends("provision", Started) \in PatchesOf(e, J)
    BY States, EndsType DEF Actions
  <2> QED BY <2>1, PatchType, PostType, Concat DEF handleProvisionComplete
<1>4. transitionToQueued \in Seq(Allowed(u, e, J))
  <2>1. [NoPatch EXCEPT !.state = Queued] \in PatchesOf(e, J)
    BY States, NoPatchType DEF PatchesOf, Patches
  <2> QED BY <2>1, PatchType, PostType, Concat DEF transitionToQueued
<1> QED BY <1>1, <1>2, <1>3, <1>4

\* What provision does with an answer of the sandbox API.
LEMMA PlacementAnswerType ==
    ASSUME NEW u, NEW e, NEW J, NEW rest \in Seq(Allowed(u, e, J)), u, "provision" \in J,
           NEW st \in PlacementStatuses \cup {"invalid", "refused"}
    PROVE  /\ st \in PlacementStatuses => placedOrNot(st, rest) \in Seq(Allowed(u, e, J))
           /\ st \in PlacementStatuses => bookedAgain(st, rest) \in Seq(Allowed(u, e, J))
           /\ st # "absent" => booked(st, rest) \in Seq(Allowed(u, e, J))
<1>1. <<Call("book", "provision", "provisionError")>> \in Seq(Allowed(u, e, J))
  BY CallType DEF Ops, OnErrors, Actions
<1>2. <<Call("reget", "provision", "provisionError")>> \in Seq(Allowed(u, e, J))
  BY CallType DEF Ops, OnErrors, Actions
<1>3. updateSubjectSandboxVars("provisionError") \in Seq(Allowed(u, e, J))
  BY SandboxVarsType DEF OnErrors
<1>4. st \in PlacementStatuses => placedOrNot(st, rest) \in Seq(Allowed(u, e, J))
  BY <1>1, <1>3, ProvisionOutcomeType, handleProvisionErrorType, Concat
     DEF placedOrNot, PlacementStatuses, NotReady
<1>5. st # "absent" => booked(st, rest) \in Seq(Allowed(u, e, J))
  BY <1>2, ProvisionOutcomeType, handleProvisionErrorType, PostType, Concat
     DEF booked, PlacementStatuses, NotReady
<1> QED BY <1>4, <1>5 DEF bookedAgain

\* The provision handler, also from the queue.
LEMMA ProvisionType ==
    ASSUME NEW s, NEW u, NEW e, NEW J, SandboxInUse /\ s.uuid => u, "provision" \in J
    PROVE  /\ \A st \in PlacementStatuses : queueChecked(st, s) \in Seq(Allowed(u, e, J))
           /\ handleProvision(s) \in Seq(Allowed(u, e, J))
<1>1. ASSUME NEW st \in PlacementStatuses
      PROVE  queueChecked(st, s) \in Seq(Allowed(u, e, J))
  <2>1. [NoPatch EXCEPT !.state = Pending("provision"), !.vars = "same"] \in PatchesOf(e, J)
    BY States, NoPatchType DEF PatchesOf, Patches, Actions
  <2>2. <<SkipPatch(NoPatch)>> \o Post("continue") \in Seq(Allowed(u, e, J))
    BY NoPatchType, PatchType, PostType, Concat
  <2>3. <<SkipPatch([NoPatch EXCEPT !.state = Pending("provision"), !.vars = "same"])>>
            \o runProvision(s) \in Seq(Allowed(u, e, J))
    BY <2>1, PatchType, runProvisionType, Concat
  <2> QED BY <2>2, <2>3, handleProvisionErrorType DEF queueChecked, PlacementStatuses, NotReady
<1>2. checkProvisionQueue(s) \in Seq(Allowed(u, e, J))
  <2>1. <<Call("checkQueue", "provision", "provisionError")>> \in Seq(Allowed(u, e, J))
    BY CallType DEF Ops, OnErrors, Actions
  <2> QED BY <2>1, handleProvisionErrorType DEF checkProvisionQueue
<1>3. handleProvision(s) \in Seq(Allowed(u, e, J))
  BY <1>2, runProvisionType, PollType, PostType DEF handleProvision, Actions
<1> QED BY <1>1, <1>3

\* The start and stop handlers.
LEMMA StartStopType ==
    ASSUME NEW s, NEW u, NEW e, NEW J, SandboxInUse /\ s.uuid => u
    PROVE  /\ handleStart(s) \in Seq(Allowed(u, e, J))
           /\ handleStop(s) \in Seq(Allowed(u, e, J))
           /\ handleStartComplete \in Seq(Allowed(u, e, J))
           /\ handleStopComplete \in Seq(Allowed(u, e, J))
           /\ \A a \in Actions \ {"provision", "destroy"} : launchAndPoll(a, s) \in Seq(Allowed(u, e, J))
           /\ \A a \in Actions \ {"provision"} : sandboxGet(a, s) \in Seq(Allowed(u, e, J))
           /\ \A a \in Actions : Stamp(a) \in Seq(Allowed(u, e, J))
<1> DEFINE S == Seq(Allowed(u, e, J))
<1>1. \A a \in Actions : Stamp(a) \in S
  <2> SUFFICES ASSUME NEW a \in Actions PROVE Stamp(a) \in S
    OBVIOUS
  <2>1. [NoPatch EXCEPT !.starts = a] \in PatchesOf(e, J)
    BY NoPatchType DEF PatchesOf, Patches
  <2> QED BY <2>1, PatchType DEF Stamp
<1>2. \A a \in Actions \ {"provision"} : sandboxGet(a, s) \in S
  <2> SUFFICES ASSUME NEW a \in Actions \ {"provision"} PROVE sandboxGet(a, s) \in S
    OBVIOUS
  <2>1. CASE SandboxInUse /\ s.uuid /\ s.token
    BY <2>1, CallType DEF sandboxGet, Ops, OnErrors
  <2>2. CASE ~(SandboxInUse /\ s.uuid /\ s.token)
    BY <2>2 DEF sandboxGet
  <2> QED BY <2>1, <2>2
<1>3. \A a \in Actions \ {"provision", "destroy"} : launchAndPoll(a, s) \in S
  BY <1>2, launchTowerJobType, PostType, Concat DEF launchAndPoll, OnErrors
<1>4. \A a \in {"start", "stop"} : sandboxPower(a, "ignore") \in S /\ sandboxPower(a, "finish") \in S
  BY PowerType DEF OnErrors
<1>5. \A st \in {Started, Stopped} : <<SkipPatch([NoPatch EXCEPT !.state = st])>> \in S
                                  /\ <<Patch([NoPatch EXCEPT !.state = st])>> \in S
  <2> SUFFICES ASSUME NEW st \in {Started, Stopped}
               PROVE  <<SkipPatch([NoPatch EXCEPT !.state = st])>> \in S
                      /\ <<Patch([NoPatch EXCEPT !.state = st])>> \in S
    OBVIOUS
  <2>1. [NoPatch EXCEPT !.state = st] \in PatchesOf(e, J)
    BY States, NoPatchType DEF PatchesOf, Patches
  <2> QED BY <2>1, PatchType
<1>6. completeStartNoDeployer \in S /\ completeStopNoDeployer \in S
  BY <1>4, <1>5, PostType, Concat DEF completeStartNoDeployer, completeStopNoDeployer, Actions
<1>7. runStart(s) \in S
  <2>1. (IF powerOn THEN sandboxPower("start", "ignore") ELSE <<>>) \in S
    BY <1>4 DEF Actions
  <2>2. Stamp("start") \in S /\ launchAndPoll("start", s) \in S
    BY <1>1, <1>3 DEF Actions
  <2>3. sandboxPower("start", "finish") \in S
    BY <1>4 DEF Actions
  <2> QED BY <1>6, <2>1, <2>2, <2>3, PostType, Concat DEF runStart
<1>8. runStop(s) \in S
  <2>1. Stamp("stop") \in S /\ launchAndPoll("stop", s) \in S
    BY <1>1, <1>3 DEF Actions
  <2> QED BY <1>6, <2>1, PostType, Concat DEF runStop
<1>9. handleStart(s) \in S /\ handleStop(s) \in S
  BY <1>7, <1>8, PollType, PostType DEF handleStart, handleStop, Actions
<1>10. handleStartComplete \in S
  <2>1. Ends("start", Started) \in PatchesOf(e, J)
    BY States, EndsType DEF Actions
  <2> QED BY <2>1, PatchType, PostType, Concat DEF handleStartComplete
<1>11. handleStopComplete \in S
  <2>1. [NoPatch EXCEPT !.ends = "stop"] \in PatchesOf(e, J)
    BY NoPatchType DEF PatchesOf, Patches, Actions
  <2>2. <<Patch([NoPatch EXCEPT !.ends = "stop"])>> \in S
    BY <2>1, PatchType
  <2>3. (IF powerOff THEN sandboxPower("stop", "ignore") ELSE <<>>) \in S
    BY <1>4 DEF Actions
  <2>4. <<Patch([NoPatch EXCEPT !.state = Stopped])>> \in S
    BY <1>5
  <2> QED BY <2>2, <2>3, <2>4, PostType, Concat DEF handleStopComplete
<1> QED BY <1>1, <1>2, <1>3, <1>9, <1>10, <1>11

\* A patch that says that a job failed.
LEMMA FailurePatchType ==
    ASSUME NEW u, NEW e, NEW J, NEW a \in Actions, NEW status \in FailureStatuses, a = "destroy" => e,
           NEW v \in {"keep", "forensics"}
    PROVE  /\ <<SkipPatch(Ends(a, Failure(a, status)))>> \in Seq(Allowed(u, e, J))
           /\ <<SkipPatch([Ends(a, Failure(a, status)) EXCEPT !.vars = v])>> \in Seq(Allowed(u, e, J))
<1>1. Failure(a, status) \in SubjectStates /\ (Failure(a, status) \in DestroyFailures => e)
  BY States
<1>2. Ends(a, Failure(a, status)) \in PatchesOf(e, J)
  BY <1>1, EndsType
<1>3. [Ends(a, Failure(a, status)) EXCEPT !.vars = v] \in PatchesOf(e, J)
  BY <1>2 DEF PatchesOf, Patches
<1> QED BY <1>2, <1>3, PatchType

\* Scheduling an action.
LEMMA ScheduleType ==
    ASSUME NEW u, NEW e, NEW J, NEW a \in Actions, NEW C \in SUBSET Actions,
           a = "destroy" => "destroy" \in J
    PROVE  <<Schedule(a, C)>> \in Seq(Allowed(u, e, J))
<1>1. Call("schedule", a, "fail") \in Allowed(u, e, J)
  BY CallType DEF Ops, OnErrors
<1>2. Schedule(a, C) \in Allowed(u, e, J)
  BY <1>1 DEF Schedule, Allowed, Looks, Calls, Deleting
<1> QED BY <1>2, Singleton

\* What the handlers do with a job that failed.
LEMMA FailureType ==
    ASSUME NEW s, NEW u, NEW e, NEW J, NEW status \in FailureStatuses
    PROVE  /\ handleStartFailure(s, status) \in Seq(Allowed(u, e, J))
           /\ handleStopFailure(s, status) \in Seq(Allowed(u, e, J))
           /\ handleUpdateFailure(s, status) \in Seq(Allowed(u, e, J))
           /\ handleStatusFailure(status) \in Seq(Allowed(u, e, J))
           /\ e => handleDestroyFailure(status) \in Seq(Allowed(u, e, J))
<1> DEFINE S == Seq(Allowed(u, e, J))
<1>1. \A w, o : retryOrPivot(s, w, o, "stop") \in S /\ retryOrPivot(s, w, o, "start") \in S
  <2>1. <<Schedule("stop", {"start", "stop"})>> \in S /\ <<Schedule("start", {"start", "stop"})>> \in S
    BY ScheduleType DEF Actions
  <2> QED BY <2>1, PostType, Concat DEF retryOrPivot
<1>2. failedVars(status) \in {"keep", "forensics"}
  BY DEF failedVars
<1>3. handleStartFailure(s, status) \in S
  <2>1. <<SkipPatch([Ends("start", Failure("start", status)) EXCEPT !.vars = failedVars(status)])>> \in S
    BY <1>2, FailurePatchType DEF Actions
  <2> QED BY <1>1, <2>1, Concat DEF handleStartFailure
<1>4. handleStopFailure(s, status) \in S
  <2>1. <<SkipPatch([Ends("stop", Failure("stop", status)) EXCEPT !.vars = failedVars(status)])>> \in S
    BY <1>2, FailurePatchType DEF Actions
  <2>2. (IF powerOff /\ status # "canceled" THEN sandboxPower("stop", "ignore") ELSE <<>>) \in S
    BY PowerType DEF OnErrors, Actions
  <2> QED BY <1>1, <2>1, <2>2, Concat DEF handleStopFailure
<1>5. handleUpdateFailure(s, status) \in S
  <2>1. <<SkipPatch(Ends("update", Failure("update", status)))>> \in S
    BY FailurePatchType DEF Actions
  <2>2. Post(IF s.deleting THEN "finish" ELSE "continue") \in S
    BY PostType
  <2> QED BY <2>1, <2>2, Concat DEF handleUpdateFailure
<1>6. handleStatusFailure(status) \in S
  <2>1. [NoPatch EXCEPT !.ends = "status", !.css = status] \in PatchesOf(e, J)
    BY NoPatchType DEF PatchesOf, Patches, Actions
  <2> QED BY <2>1, PatchType, PostType, Concat DEF handleStatusFailure
<1>7. ASSUME e PROVE handleDestroyFailure(status) \in S
  <2>1. <<SkipPatch(Ends("destroy", Failure("destroy", status)))>> \in S
    BY <1>7, FailurePatchType DEF Actions
  <2> QED BY <2>1, PostType, Concat DEF handleDestroyFailure
<1> QED BY <1>3, <1>4, <1>5, <1>6, <1>7

\* The status and update handlers.
LEMMA StatusUpdateType ==
    ASSUME NEW s, NEW u, NEW e, NEW J, SandboxInUse /\ s.uuid => u
    PROVE  /\ handleStatus(s) \in Seq(Allowed(u, e, J))
           /\ handleUpdate(s) \in Seq(Allowed(u, e, J))
           /\ handleStatusComplete \in Seq(Allowed(u, e, J))
           /\ handleUpdateComplete \in Seq(Allowed(u, e, J))
<1> DEFINE S == Seq(Allowed(u, e, J))
<1>1. \A p \in PatchesOf(e, J) : statusSuccessful(p) \in S
  <2> SUFFICES ASSUME NEW p \in PatchesOf(e, J) PROVE statusSuccessful(p) \in S
    OBVIOUS
  <2>1. [p EXCEPT !.css = "successful"] \in PatchesOf(e, J)
    BY DEF PatchesOf, Patches
  <2> QED BY <2>1, PatchType, PostType, Concat DEF statusSuccessful
<1>2. statusSuccessful(NoPatch) \in S
  BY <1>1, NoPatchType
<1>3. Stamp("status") \in S /\ launchAndPoll("status", s) \in S /\ launchAndPoll("update", s) \in S
  BY StartStopType DEF Actions
<1>4. handleStatus(s) \in S
  BY <1>2, <1>3, PollType, PostType, Concat DEF handleStatus, runStatus, Actions
<1>5. handleUpdate(s) \in S
  BY <1>3, PollType DEF handleUpdate, Actions
<1>6. handleStatusComplete \in S
  <2>1. [NoPatch EXCEPT !.ends = "status"] \in PatchesOf(e, J)
    BY NoPatchType DEF PatchesOf, Patches, Actions
  <2> QED BY <1>1, <2>1 DEF handleStatusComplete
<1>7. handleUpdateComplete \in S
  <2>1. Ends("update", Started) \in PatchesOf(e, J)
    BY States, EndsType DEF Actions
  <2> QED BY <2>1, PatchType, PostType, Concat DEF handleUpdateComplete
<1> QED BY <1>4, <1>5, <1>6, <1>7

\* The handlers of events that leave the subject alive.
LEMMA EventType ==
    ASSUME NEW s, NEW u, NEW e, NEW J
    PROVE  /\ handleEventCreate(s) \in Seq(Allowed(u, e, J))
           /\ handleEventUpdate(s) \in Seq(Allowed(u, e, J))
           /\ "destroy" \in J => handleEventDeleteWithDestroy \in Seq(Allowed(u, e, J))
<1> DEFINE S == Seq(Allowed(u, e, J))
<1>1. handleEventCreate(s) \in S
  <2>1. [NoPatch EXCEPT !.state = Pending("provision"), !.uuid = TRUE] \in PatchesOf(e, J)
    BY States, NoPatchType DEF PatchesOf, Patches, Actions
  <2>2. <<SkipPatch([NoPatch EXCEPT !.state = Pending("provision"), !.uuid = TRUE])>> \in S
    BY <2>1, PatchType
  <2>3. <<Schedule("provision", {})>> \in S
    BY ScheduleType DEF Actions
  <2> QED BY <2>2, <2>3, PostType, Concat DEF handleEventCreate
<1>2. scheduleStatusCheck \in S
  <2>1. [NoPatch EXCEPT !.css = "pending"] \in PatchesOf(e, J)
    BY NoPatchType DEF PatchesOf, Patches
  <2>2. <<SkipPatch([NoPatch EXCEPT !.css = "pending"])>> \o <<Schedule("status", {})>> \in S
    BY <2>1, PatchType, ScheduleType, Concat DEF Actions
  <2> QED BY <2>2 DEF scheduleStatusCheck
<1>3. \A a \in Actions \ {"destroy"} : scheduleUpdateAction(a) \in S
  <2> SUFFICES ASSUME NEW a \in Actions \ {"destroy"} PROVE scheduleUpdateAction(a) \in S
    OBVIOUS
  <2>1. [NoPatch EXCEPT !.state = Pending(a)] \in PatchesOf(e, J)
    BY States, NoPatchType DEF PatchesOf, Patches
  <2>2. <<SkipPatch([NoPatch EXCEPT !.state = Pending(a)])>> \o <<Schedule(a, {"start", "stop"})>> \in S
    BY <2>1, PatchType, ScheduleType, Concat DEF Actions
  <2> QED BY <2>2 DEF scheduleUpdateAction
<1>4. handleEventUpdate(s) \in S
  <2> DEFINE a == determineUpdateAction(s)
             first == IF a \in GovActions THEN scheduleUpdateAction(a) ELSE <<>>
             second == IF "status" \in GovActions /\ shouldScheduleStatus(s)
                       THEN scheduleStatusCheck ELSE <<>>
  <2>1. first \in S
    BY <1>3, GovernorAssumption DEF determineUpdateAction
  <2>2. second \in S
    BY <1>2
  <2>3. handleEventUpdate(s) = first \o second \o Post("none")
    BY DEF handleEventUpdate
  <2> HIDE DEF first, second
  <2> QED BY <2>1, <2>2, <2>3, PostType, Concat
<1>5. ASSUME "destroy" \in J PROVE handleEventDeleteWithDestroy \in S
  <2>1. [NoPatch EXCEPT !.state = Pending("destroy"), !.desired = "destroyed"] \in PatchesOf(e, J)
    BY States, NoPatchType DEF PatchesOf, Patches, Actions
  <2>2. <<Schedule("destroy", {"start", "stop", "update"})>>
           \o <<Patch([NoPatch EXCEPT !.state = Pending("destroy"), !.desired = "destroyed"])>> \in S
    BY <1>5, <2>1, PatchType, ScheduleType, Concat DEF Actions
  <2> QED BY <2>2, PostType, Concat DEF handleEventDeleteWithDestroy
<1> QED BY <1>1, <1>4, <1>5

(***************************************************************************)
(* The calls that take leave of a subject.                                 *)
(***************************************************************************)
\* They record nothing new, and an error of one of them ends the run, but for the
\* canceling of jobs.
Parting == {c \in Calls : /\ c.op \in {"patch", "cancel", "release", "post"}
                          /\ c.patch.job = "keep"
                          /\ c.patch.state \notin DestroyFailures
                          /\ c.onError = IF c.op = "cancel" THEN "ignore" ELSE "fail"
                          /\ ~c.traced}

\* A release comes before the deletion is posted.
Released(s) ==
    \A i \in 1..Len(s) : Deleting(s[i]) => \E j \in 1..(i - 1) : s[j].op = "release"

\* A placement may be there: the service finds it by the uuid.
MayBook == SandboxInUse /\ subj.uuid

\* A destroy job is due and has not ended.
Undone ==
    /\ "destroy" \in GovActions \ Disabled
    /\ tower["provision"].job # "none"
    /\ ~tower["destroy"].ended

\* The governors that leave no placement behind.
Careful == (SandboxInUse => CatchAll) /\ ~TokenMayVanish

\* The rest of a handler that does not delete the subject.
Plain(s) == s \in Seq(Allowed(MayBook, tower["destroy"].ended, Actions))

\* The rest of a handler that does: nothing is left to destroy, and the placement is
\* gone or will be released first.
Farewell(s) ==
    /\ s \in Seq(Parting)
    /\ ~Undone
    /\ Careful => placement = "absent" \/ Released(s)

\* What IInv says of the calls that are left.
TodoOK(s) == Plain(s) \/ Farewell(s)

\* The same, where it is told apart what else the subject may be.
TodoFor(s, J) == s \in Seq(Allowed(MayBook, tower["destroy"].ended, J)) \/ Farewell(s)

\* The calls of the handlers that delete a subject.
LEMMA PartingCalls ==
    /\ Call("release", "none", "fail") \in Parting
    /\ Call("cancel", "all", "ignore") \in Parting
    /\ Post("delete") \in Seq(Parting)
    /\ Stamp("destroy") \in Seq(Parting)
    /\ <<SkipPatch(Ends("destroy", DestroyComplete))>> \in Seq(Parting)
    /\ <<Patch([NoPatch EXCEPT !.state = DestroyComplete, !.desired = "destroyed"])>> \in Seq(Parting)
<1>1. /\ Call("release", "none", "fail") \in Parting
      /\ Call("cancel", "all", "ignore") \in Parting
      /\ Call("post", "delete", "fail") \in Parting
  <2>1. NoPatch \in PatchesOf(FALSE, {}) /\ NoPatch.job = "keep"
    BY NoPatchType DEF NoPatch
  <2>2. NoPatch \in Patches /\ NoPatch.state \notin DestroyFailures
    BY <2>1 DEF PatchesOf
  <2> QED BY <2>1, <2>2 DEF Call, Parting, Calls
<1>2. Post("delete") \in Seq(Parting)
  BY <1>1, Singleton DEF Post
<1>3. ASSUME NEW p \in PatchesOf(FALSE, {}), p.job = "keep"
      PROVE  <<Patch(p)>> \in Seq(Parting) /\ <<SkipPatch(p)>> \in Seq(Parting)
  <2>1. [p EXCEPT !.skip = TRUE] \in PatchesOf(FALSE, {}) /\ [p EXCEPT !.skip = TRUE].job = "keep"
    BY <1>3, SkipType
  <2>2. \A q \in PatchesOf(FALSE, {}) : q.job = "keep" => Patch(q) \in Parting
    BY NoPatchType DEF Patch, Call, Parting, Calls, PatchesOf
  <2> QED BY <1>3, <2>1, <2>2, Singleton DEF SkipPatch
<1>4. Stamp("destroy") \in Seq(Parting)
  <2>1. [NoPatch EXCEPT !.starts = "destroy"] \in PatchesOf(FALSE, {})
    <3>1. \A e, J : [NoPatch EXCEPT !.starts = "destroy"] \in PatchesOf(e, J)
      BY NoPatchType DEF PatchesOf, Patches, Actions
    <3> QED BY <3>1
  <2>2. [NoPatch EXCEPT !.starts = "destroy"].job = "keep"
    BY DEF NoPatch
  <2> QED BY <1>3, <2>1, <2>2 DEF Stamp
<1>5. <<SkipPatch(Ends("destroy", DestroyComplete))>> \in Seq(Parting)
  <2>1. Ends("destroy", DestroyComplete) \in PatchesOf(FALSE, {})
    BY States, EndsType DEF Actions
  <2>2. Ends("destroy", DestroyComplete).job = "keep"
    BY DEF Ends, NoPatch
  <2> QED BY <1>3, <2>1, <2>2
<1>6. <<Patch([NoPatch EXCEPT !.state = DestroyComplete, !.desired = "destroyed"])>> \in Seq(Parting)
  <2>1. [NoPatch EXCEPT !.state = DestroyComplete, !.desired = "destroyed"] \in PatchesOf(FALSE, {})
    <3>1. \A e, J : [NoPatch EXCEPT !.state = DestroyComplete, !.desired = "destroyed"]
                        \in PatchesOf(e, J)
      BY States, NoPatchType DEF PatchesOf, Patches
    <3> QED BY <3>1
  <2>2. [NoPatch EXCEPT !.state = DestroyComplete, !.desired = "destroyed"].job = "keep"
    BY DEF NoPatch
  <2> QED BY <1>3, <2>1, <2>2
<1> QED BY <1>1, <1>2, <1>4, <1>5, <1>6

\* A release keeps its place before the post in a longer sequence.
LEMMA ReleasedConcat ==
    ASSUME NEW s \in Seq(Parting), NEW t \in Seq(Parting),
           \A i \in 1..Len(s) : ~Deleting(s[i])
    PROVE  /\ Released(t) => Released(s \o t)
           /\ (\E i \in 1..Len(s) : s[i].op = "release") => Released(s \o t)
<1> DEFINE r == s \o t
<1>1. /\ Len(r) = Len(s) + Len(t) /\ Len(s) \in Nat /\ Len(t) \in Nat
      /\ \A i \in 1..Len(s) : r[i] = s[i]
      /\ \A i \in 1..Len(t) : r[i + Len(s)] = t[i]
  OBVIOUS
<1>2. \A i \in 1..Len(r) : Deleting(r[i]) => i - Len(s) \in 1..Len(t) /\ r[i] = t[i - Len(s)]
  <2> SUFFICES ASSUME NEW i \in 1..Len(r), Deleting(r[i])
               PROVE  i - Len(s) \in 1..Len(t) /\ r[i] = t[i - Len(s)]
    OBVIOUS
  <2>1. i \notin 1..Len(s)
    BY <1>1
  <2>2. i - Len(s) \in 1..Len(t)
    BY <1>1, <2>1
  <2>3. r[(i - Len(s)) + Len(s)] = t[i - Len(s)]
    BY <1>1, <2>2
  <2> QED BY <1>1, <2>2, <2>3
<1> HIDE DEF r
<1>3. ASSUME Released(t) PROVE Released(r)
  <2> SUFFICES ASSUME NEW i \in 1..Len(r), Deleting(r[i])
               PROVE  \E j \in 1..(i - 1) : r[j].op = "release"
    BY DEF Released
  <2>1. PICK j \in 1..((i - Len(s)) - 1) : t[j].op = "release"
    BY <1>2, <1>3 DEF Released
  <2>2. j \in 1..Len(t) /\ j + Len(s) \in 1..(i - 1)
    BY <1>1, <1>2, <2>1
  <2> QED BY <1>1, <2>1, <2>2
<1>4. ASSUME NEW k \in 1..Len(s), s[k].op = "release" PROVE Released(r)
  <2> SUFFICES ASSUME NEW i \in 1..Len(r), Deleting(r[i])
               PROVE  \E j \in 1..(i - 1) : r[j].op = "release"
    BY DEF Released
  <2>1. k \in 1..(i - 1)
    BY <1>1, <1>2
  <2> QED BY <1>1, <1>4, <2>1
<1> QED BY <1>3, <1>4 DEF r

\* sandboxCleanup belongs to a farewell.
LEMMA CleanupType == \A s : sandboxCleanup(s) \in Seq(Parting)
BY PartingCalls, Singleton DEF sandboxCleanup

\* With the login token it releases.
LEMMA CleanupReleases ==
    ASSUME NEW s, NEW t \in Seq(Parting)
    PROVE  s.token => Released(sandboxCleanup(s) \o t)
<1>1. sandboxCleanup(s) \in Seq(Parting)
  BY CleanupType
<1>2. ASSUME s.token PROVE Released(sandboxCleanup(s) \o t)
  <2>1. sandboxCleanup(s) = <<Call("release", "none", "fail")>>
    BY <1>2 DEF sandboxCleanup
  <2>2. Call("release", "none", "fail").op = "release"
    BY DEF Call
  <2> DEFINE c == Call("release", "none", "fail")
  <2>3. /\ <<c>> \in Seq(Parting) /\ Len(<<c>>) = 1 /\ <<c>>[1] = c
        /\ \A i \in 1..Len(<<c>>) : ~Deleting(<<c>>[i])
    BY <1>1, <2>1, <2>2 DEF Deleting
  <2>4. \E i \in 1..Len(<<c>>) : <<c>>[i].op = "release"
    BY <2>2, <2>3
  <2> HIDE DEF c
  <2>5. Released(<<c>> \o t)
    BY <2>3, <2>4, ReleasedConcat
  <2> QED BY <2>1, <2>5 DEF c
<1> QED BY <1>1, <1>2

\* After a destroy job that was successful.
LEMMA DestroyCompleteOK ==
    ASSUME NEW s, tower["destroy"].ended, Careful => s.token, placement # "absent" => MayBook
    PROVE  Farewell(handleDestroyComplete(s))
<1> DEFINE first == IF SandboxInUse THEN sandboxCleanup(s) ELSE <<>>
           last == <<SkipPatch(Ends("destroy", DestroyComplete))>> \o Post("delete")
<1>1. last \in Seq(Parting)
  BY PartingCalls, Concat
<1>2. first \in Seq(Parting) /\ handleDestroyComplete(s) = first \o last
  <2> DEFINE patch == <<SkipPatch(Ends("destroy", DestroyComplete))>>
  <2>1. first \in Seq(Parting)
    BY CleanupType
  <2>2. patch \in Seq(Parting) /\ Post("delete") \in Seq(Parting)
    BY PartingCalls
  <2>3. handleDestroyComplete(s) = (first \o patch) \o Post("delete")
    BY DEF handleDestroyComplete
  <2> HIDE DEF first, patch
  <2>4. (first \o patch) \o Post("delete") = first \o (patch \o Post("delete"))
    BY <2>1, <2>2, ConcatAssociative
  <2> QED BY <2>1, <2>3, <2>4 DEF patch
<1>3. handleDestroyComplete(s) \in Seq(Parting)
  BY <1>1, <1>2, Concat
<1>4. Careful /\ SandboxInUse => Released(first \o last)
  BY <1>1, CleanupReleases
<1> QED BY <1>2, <1>3, <1>4 DEF Farewell, Undone, MayBook

\* After any job, known from a poll or from a callback.
LEMMA OutcomeOK ==
    ASSUME NEW s, NEW a \in Actions, NEW status \in JobStatuses,
           a = "destroy" => tower["destroy"].ended,
           Careful => s.token, placement # "absent" => MayBook, NEW J
    PROVE  /\ TodoFor(handleCallback(a, status, s), J)
           /\ a # "destroy" =>
                 handleCallback(a, status, s) \in Seq(Allowed(MayBook, tower["destroy"].ended, J))
<1> DEFINE u == MayBook
           e == tower["destroy"].ended
<1> HIDE DEF u, e
<1> USE DEF TodoFor
<1>1. CASE status = "successful"
  <2>1. a = "destroy" => Farewell(handleDeployerJobSuccess(a, s))
    BY DestroyCompleteOK DEF handleDeployerJobSuccess
  <2>2. a # "destroy" => handleDeployerJobSuccess(a, s) \in Seq(Allowed(u, e, J))
    <3>1. handleStartComplete \in Seq(Allowed(u, e, J)) /\ handleStopComplete \in Seq(Allowed(u, e, J))
      <4>1. LET none == [uuid |-> FALSE] IN SandboxInUse /\ none.uuid => u
        OBVIOUS
      <4> QED BY <4>1, StartStopType
    <3>2. handleStatusComplete \in Seq(Allowed(u, e, J)) /\ handleUpdateComplete \in Seq(Allowed(u, e, J))
      <4>1. LET none == [uuid |-> FALSE] IN SandboxInUse /\ none.uuid => u
        OBVIOUS
      <4> QED BY <4>1, StatusUpdateType
    <3> QED BY <3>1, <3>2, ProvisionOutcomeType DEF handleDeployerJobSuccess, Actions
  <2> QED BY <1>1, <2>1, <2>2 DEF handleCallback, u, e
<1>2. CASE status # "successful"
  <2>1. status \in FailureStatuses
    BY <1>2 DEF JobStatuses
  <2>2. handleDeployerJobFailure(a, status, s) \in Seq(Allowed(u, e, J))
    BY <2>1, FailureType, ProvisionOutcomeType, handleProvisionErrorType
       DEF handleDeployerJobFailure, Actions, FailureStatuses, e
  <2> QED BY <1>2, <2>2 DEF handleCallback, u, e
<1> QED BY <1>1, <1>2

\* handleDestroyCatchAll, where nothing is left to destroy.
LEMMA CatchAllOK ==
    ASSUME NEW s, NEW first \in Seq(Parting), \A i \in 1..Len(first) : ~Deleting(first[i]),
           ~Undone, Careful => s.token
    PROVE  Farewell(first \o handleDestroyCatchAll(s))
<1>1. handleDestroyCatchAll(s) \in Seq(Parting) /\ (s.token => Released(handleDestroyCatchAll(s)))
  BY PartingCalls, CleanupType, CleanupReleases, Concat DEF handleDestroyCatchAll
<1> QED BY <1>1, ReleasedConcat, Concat DEF Farewell

\* The destroy handler in whatever state.
LEMMA DestroyOK ==
    ASSUME NEW s, s.state \in DestroyFailures => tower["destroy"].ended,
           Careful => s.token, SandboxInUse /\ s.uuid => MayBook, NEW J, "destroy" \in J
    PROVE  TodoFor(handleDestroy(s), J)
<1> DEFINE failed == \E f \in FailureStatuses : s.state = Failure("destroy", f)
           disabled == "destroy" \in Disabled
           fresh == s.state = Pending("destroy") /\ "destroy" \notin s.started
           first == IF fresh THEN Stamp("destroy") ELSE <<>>
           S == Seq(Allowed(MayBook, tower["destroy"].ended, J))
<1>1. /\ first \in Seq(Parting)
      /\ \A i \in 1..Len(first) : ~Deleting(first[i])
      /\ first \in S
  <2>1. Stamp("destroy") \in S
    BY StartStopType DEF Actions
  <2>2. \A i \in 1..Len(Stamp("destroy")) : ~Deleting(Stamp("destroy")[i])
    BY <2>1 DEF Allowed
  <2>3. CASE fresh
    BY <2>1, <2>2, <2>3, PartingCalls
  <2>4. CASE ~fresh
    <3>1. first = <<>>
      BY <2>4
    <3> HIDE DEF first
    <3> QED BY <3>1
  <2> QED BY <2>3, <2>4
<1>2. CASE SandboxInUse /\ CatchAll /\ (failed \/ disabled)
  <2>1. ~Undone
    BY <1>2 DEF Undone, DestroyFailures
  <2>2. handleDestroy(s) = first \o handleDestroyCatchAll(s)
    BY <1>2 DEF handleDestroy
  <2> HIDE DEF first
  <2> QED BY <1>1, <2>1, <2>2, CatchAllOK DEF TodoFor
<1>3. CASE ~(SandboxInUse /\ CatchAll /\ (failed \/ disabled))
  <2> DEFINE rest == IF disabled THEN Post("none")
                     ELSE IF s.state = Running("destroy") THEN checkDeployerJob("destroy")
                     ELSE runDestroy(s)
  <2>1. handleDestroy(s) = first \o rest
    BY <1>3 DEF handleDestroy
  <2>2. runDestroy(s) \in S
    <3>1. sandboxGet("destroy", s) \in S
      BY StartStopType DEF Actions
    <3>2. <<Call("cancel", "provision", "ignore")>> \in S
      BY CallType DEF Ops, OnErrors, Actions
    <3>3. launchTowerJob("destroy", "fail") \in S
      BY launchTowerJobType DEF OnErrors, Actions
    <3> QED BY <3>1, <3>2, <3>3, PostType, Concat DEF runDestroy
  <2>3. rest \in S
    BY <2>2, PostType, PollType DEF Actions
  <2> HIDE DEF first, rest
  <2> QED BY <1>1, <2>1, <2>3, Concat DEF TodoFor
<1> QED BY <1>2, <1>3

\* The delete event: at once only if no provision job was recorded or the governor
\* has no destroy.
LEMMA DeleteEventOK ==
    ASSUME NEW s, Careful => s.token, placement # "absent" => SandboxInUse /\ s.uuid,
           tower["provision"].job # "none" => s.provisioned, NEW J, s.provisioned => "destroy" \in J
    PROVE  TodoFor(handleEventDelete(s), J)
<1> DEFINE c == Call("cancel", "all", "ignore")
           withDestroy == s.provisioned /\ "destroy" \in GovActions /\ "destroy" \notin Disabled
<1>1. CASE withDestroy
  <2>1. <<c>> \in Seq(Allowed(MayBook, tower["destroy"].ended, J))
    BY CallType DEF Ops, OnErrors
  <2>2. handleEventDelete(s) = <<c>> \o handleEventDeleteWithDestroy
    BY <1>1 DEF handleEventDelete
  <2> HIDE DEF c
  <2> QED BY <1>1, <2>1, <2>2, EventType, Concat DEF TodoFor
<1>2. CASE ~withDestroy
  <2> DEFINE catchAll == SandboxInUse /\ CatchAll /\ s.uuid
             cleanup == IF catchAll THEN sandboxCleanup(s) ELSE <<>>
             last == <<Patch([NoPatch EXCEPT !.state = DestroyComplete, !.desired = "destroyed"])>>
                         \o Post("delete")
  <2>1. ~Undone
    BY <1>2 DEF Undone
  <2>2. last \in Seq(Parting) /\ cleanup \in Seq(Parting)
    BY PartingCalls, CleanupType, Concat
  <2>3. /\ <<c>> \in Seq(Parting) /\ Len(<<c>>) = 1 /\ <<c>>[1] = c /\ c.op # "post"
    BY PartingCalls, Singleton DEF Call
  <2>4. handleEventDelete(s) = <<c>> \o (cleanup \o last)
    <3> DEFINE patch == <<Patch([NoPatch EXCEPT !.state = DestroyComplete, !.desired = "destroyed"])>>
    <3>1. handleEventDelete(s) = <<c>> \o ((cleanup \o patch) \o Post("delete"))
      BY <1>2 DEF handleEventDelete, handleEventDeleteWithoutDestroy
    <3>2. patch \in Seq(Parting) /\ Post("delete") \in Seq(Parting)
      BY PartingCalls
    <3> HIDE DEF c, patch, cleanup
    <3>3. (cleanup \o patch) \o Post("delete") = cleanup \o (patch \o Post("delete"))
      BY <2>2, <3>2, ConcatAssociative
    <3> QED BY <3>1, <3>3 DEF patch
  <2>5. catchAll /\ s.token => Released(cleanup \o last)
    BY <2>2, CleanupReleases
  <2> HIDE DEF c, last, cleanup
  <2>6. catchAll /\ s.token => Released(<<c>> \o (cleanup \o last))
    <3>1. \A i \in 1..Len(<<c>>) : ~Deleting(<<c>>[i])
      BY <2>3 DEF Deleting
    <3>2. cleanup \o last \in Seq(Parting)
      BY <2>2, Concat
    <3> QED BY <2>3, <2>5, <3>1, <3>2, ReleasedConcat
  <2>7. <<c>> \o (cleanup \o last) \in Seq(Parting)
    BY <2>2, <2>3, Concat
  <2> QED BY <2>1, <2>4, <2>6, <2>7 DEF TodoFor, Farewell, Careful
<1> QED BY <1>1, <1>2

\* The runs Anarchy dispatches.
EventRuns == [kind : {"event"}, name : {"create", "update", "delete"}, status : {"none"}]
ActionRuns == [kind : {"action"}, name : Actions, status : {"none"}]
CallbackRuns == [kind : {"callback"}, name : Actions, status : JobStatuses]

\* Every handler returns calls as IInv wants them, from a payload that is consistent
\* with the present state.
LEMMA DispatchOK ==
    ASSUME NEW r \in EventRuns \cup ActionRuns \cup CallbackRuns, NEW s,
           r.kind = "callback" /\ r.name = "destroy" => tower["destroy"].ended,
           s.state \in DestroyFailures => tower["destroy"].ended,
           Careful => s.token, SandboxInUse /\ s.uuid <=> MayBook,
           placement # "absent" => MayBook,
           tower["provision"].job # "none" => s.provisioned, NEW J,
           r.name = "destroy" => "destroy" \in J,
           r.name = "delete" /\ s.provisioned => "destroy" \in J,
           r.kind = "action" /\ r.name = "provision" => "provision" \in J
    PROVE  /\ TodoFor(Dispatch(r, s), J)
           /\ r.name \notin {"delete", "destroy"} =>
                 Dispatch(r, s) \in Seq(Allowed(MayBook, tower["destroy"].ended, J))
<1> DEFINE S == Seq(Allowed(MayBook, tower["destroy"].ended, J))
<1>1. CASE r \in EventRuns
  <2>1. handleEventCreate(s) \in S /\ handleEventUpdate(s) \in S
    BY EventType
  <2>2. r.name = "delete" => TodoFor(handleEventDelete(s), J)
    BY DeleteEventOK
  <2> QED BY <1>1, <2>1, <2>2 DEF Dispatch, EventRuns, TodoFor
<1>2. CASE r \in ActionRuns
  <2>1. /\ r.name = "provision" => handleProvision(s) \in S
        /\ handleStart(s) \in S /\ handleStop(s) \in S
        /\ handleStatus(s) \in S /\ handleUpdate(s) \in S
    <3>1. r.name = "provision" => "provision" \in J
      BY <1>2 DEF ActionRuns
    <3> QED BY <3>1, ProvisionType, StartStopType, StatusUpdateType
  <2>2. r.name = "destroy" => TodoFor(handleDestroy(s), J)
    BY DestroyOK
  <2> QED BY <1>2, <2>1, <2>2 DEF Dispatch, ActionRuns, Actions, TodoFor
<1>3. CASE r \in CallbackRuns
  <2>1. /\ TodoFor(handleCallback(r.name, r.status, s), J)
        /\ r.name # "destroy" => handleCallback(r.name, r.status, s) \in S
    BY <1>3, OutcomeOK DEF CallbackRuns
  <2>2. Dispatch(r, s) = handleCallback(r.name, r.status, s)
    BY <1>3 DEF Dispatch, CallbackRuns
  <2> QED BY <2>1, <2>2
<1> QED BY <1>1, <1>2, <1>3

(***************************************************************************)
(* The inductive invariant.                                                *)
(***************************************************************************)
\* TypeOK, with the types the other parts need.
Types ==
    /\ subj \in [state : SubjectStates, desired : {"started", "stopped", "destroyed"},
                 css : JobStatuses \cup {"none", "pending", "running"},
                 vars : [edit : 0..MaxRequests, forensics : BOOLEAN],
                 uuid : BOOLEAN, deleting : BOOLEAN, asked : Nat]
    /\ tower \in [Actions -> [job : JobStatuses \cup {"none", "running"}, complete : BOOLEAN,
                              started : BOOLEAN, request : {"none", "successful", "error"},
                              ended : BOOLEAN]]
    /\ acts \in [Actions -> 0..MaxQueued]
    /\ stuck \subseteq Actions
    /\ events \subseteq {"create", "update", "delete"}
    /\ callbacks \subseteq CallbackRuns
    /\ placement \in PlacementStatuses
    /\ power \in [on : BOOLEAN, requests : Seq({"start", "stop"}), ended : {"success", "failed"}]
    /\ token \in BOOLEAN
    /\ gone \in BOOLEAN
    /\ run \in EventRuns \cup ActionRuns \cup CallbackRuns \cup {NoRun}
    /\ used \in [fault : Nat, failure : Nat, request : 0..MaxRequests, callback : Nat, stray : Nat]
    /\ run = NoRun => todo = <<>>
    /\ subj.vars.edit <= used.request
    /\ snap.vars \in [edit : 0..MaxRequests, forensics : BOOLEAN]
    /\ snap.vars.edit <= used.request

\* What the parts of the state say about each other: a job with a status has ended,
\* a callback or a state about a destroy job comes after one, a payload is never
\* ahead of the subject, and only a subject that may book one has a placement.
Consistent ==
    /\ \A a \in Actions : tower[a].job \in JobStatuses => tower[a].ended
    /\ \A c \in callbacks \cup {run} : c.kind = "callback" /\ c.name = "destroy" => tower["destroy"].ended
    /\ subj.state \in DestroyFailures => tower["destroy"].ended
    /\ snap.uuid => subj.uuid
    /\ placement # "absent" => MayBook
    /\ Careful => token /\ (todo # <<>> => snap.token)

\* What holds of a subject that is gone.
Gone == gone => todo = <<>> /\ ~Undone /\ (Careful => placement = "absent")

\* The four together.
Sound == Types /\ Consistent /\ TodoOK(todo) /\ Gone

\* The jobs that run and are not recorded are counted, and a status that is still to be
\* recorded is one of a job that came to an end.
Counted ==
    /\ orphans \in [Actions -> [running : Nat, ended : JobStatuses \cup {"none"}]]
    /\ \A a \in Actions : orphans[a].ended # "none" => tower[a].ended

\* With what is known of the jobs that are not recorded.
IInv == Sound /\ Counted

\* The initial state.
LEMMA InitOK == Init => IInv
<1> SUFFICES ASSUME Init PROVE IInv
  OBVIOUS
<1>1. Types
  <2>1. MaxRequests \in Nat /\ MaxQueued \in Nat
    BY LifecycleAssumption
  <2>2. /\ subj \in [state : SubjectStates, desired : {"started", "stopped", "destroyed"},
                     css : JobStatuses \cup {"none", "pending", "running"},
                     vars : [edit : 0..MaxRequests, forensics : BOOLEAN],
                     uuid : BOOLEAN, deleting : BOOLEAN, asked : Nat]
        /\ subj.vars.edit = 0
    BY <2>1, States DEF Init, NewSubject, NoVars
  <2>3. tower \in [Actions -> [job : JobStatuses \cup {"none", "running"}, complete : BOOLEAN,
                              started : BOOLEAN, request : {"none", "successful", "error"},
                              ended : BOOLEAN]]
    BY DEF Init, NoJobs
  <2>4. acts \in [Actions -> 0..MaxQueued]
    BY <2>1 DEF Init
  <2>5. power \in [on : BOOLEAN, requests : Seq({"start", "stop"}), ended : {"success", "failed"}]
    BY DEF Init
  <2>6. /\ used \in [fault : Nat, failure : Nat, request : 0..MaxRequests, callback : Nat, stray : Nat]
        /\ used.request = 0
    BY <2>1 DEF Init
  <2>7. /\ snap.vars.edit = 0
        /\ snap.vars \in [edit : 0..MaxRequests, forensics : BOOLEAN]
    BY <2>1 DEF Init, NoPayload, PayloadOf, NewSubject, NoVars
  <2>8. /\ stuck \subseteq Actions /\ callbacks \subseteq CallbackRuns
        /\ events \subseteq {"create", "update", "delete"}
        /\ placement \in PlacementStatuses /\ token \in BOOLEAN /\ gone \in BOOLEAN
        /\ run = NoRun /\ todo = <<>> /\ snap = NoPayload
    BY DEF Init, PlacementStatuses
  <2> QED BY <2>1, <2>2, <2>3, <2>4, <2>5, <2>6, <2>7, <2>8 DEF Types
<1>2. Consistent
  BY States DEF Init, Consistent, NewSubject, NoJobs, JobStatuses, FailureStatuses, NoPayload, PayloadOf, NoRun, Careful
<1>3. <<>> \in Seq(Allowed(MayBook, tower["destroy"].ended, Actions))
  OBVIOUS
<1>4. TodoOK(todo) /\ Gone
  BY <1>3 DEF Init, TodoOK, Plain, Gone
<1>5. Counted
  <2>1. orphans = [a \in Actions |-> [running |-> 0, ended |-> "none"]]
    BY DEF Init
  <2> QED BY <2>1 DEF Counted
<1> QED BY <1>1, <1>2, <1>4, <1>5 DEF IInv, Sound

\* Sequences of allowed calls are sequences of calls.
LEMMA MoreCalls ==
    /\ \A u, e, J : Seq(Allowed(u, e, J)) \subseteq Seq(Calls)
    /\ Seq(Parting) \subseteq Seq(Calls)
<1>1. \A u, e, J : Allowed(u, e, J) \subseteq Calls
  BY DEF Allowed
<1>2. Parting \subseteq Calls
  BY DEF Parting
<1>3. \A S, T : S \subseteq T => Seq(S) \subseteq Seq(T)
  OBVIOUS
<1> QED BY <1>1, <1>2, <1>3

\* What is allowed stays allowed when more may be booked, has ended or may be done.
LEMMA MoreAllowed ==
    ASSUME NEW u, NEW e, NEW J, NEW u2, NEW e2, NEW K,
           u => u2, e => e2, J \subseteq K
    PROVE  /\ Allowed(u, e, J) \subseteq Allowed(u2, e2, K)
           /\ Seq(Allowed(u, e, J)) \subseteq Seq(Allowed(u2, e2, K))
<1>1. PatchesOf(e, J) \subseteq PatchesOf(e2, K)
  BY DEF PatchesOf
<1>2. Allowed(u, e, J) \subseteq Allowed(u2, e2, K)
  BY <1>1 DEF Allowed
<1>3. \A S, T : S \subseteq T => Seq(S) \subseteq Seq(T)
  OBVIOUS
<1> QED BY <1>2, <1>3

(***************************************************************************)
(* One call: made, failed, repeated or cut off.                            *)
(***************************************************************************)
\* The calls that are left stay right while the rest of the state moves on.
LEMMA TodoStable ==
    ASSUME TodoOK(todo'), MayBook => MayBook',
           tower["destroy"].ended => tower'["destroy"].ended,
           Undone' => Undone, placement = "absent" => placement' = "absent"
    PROVE  TodoOK(todo)'
<1>1. CASE Plain(todo')
  <2>1. todo' \in Seq(Allowed(MayBook, tower["destroy"].ended, Actions))
    BY <1>1 DEF Plain
  <2>2. todo' \in Seq(Allowed(MayBook', tower'["destroy"].ended, Actions))
    BY <2>1, MoreAllowed
  <2> QED BY <2>2 DEF TodoOK, Plain
<1>2. CASE Farewell(todo')
  BY <1>2 DEF TodoOK, Farewell
<1> QED BY <1>1, <1>2 DEF TodoOK

\* After a call that was made; after a release, only once it was carried out.
LEMMA TailOK ==
    ASSUME TodoOK(todo), todo # <<>>, Head(todo).op = "release" => placement = "absent"
    PROVE  TodoOK(Tail(todo))
<1>1. CASE Plain(todo)
  BY <1>1 DEF TodoOK, Plain
<1>2. CASE Farewell(todo)
  <2>1. Tail(todo) \in Seq(Parting)
    BY <1>2 DEF Farewell
  <2>2. ASSUME Released(todo), Head(todo).op # "release" PROVE Released(Tail(todo))
    <3> SUFFICES ASSUME NEW i \in 1..Len(Tail(todo)), Deleting(Tail(todo)[i])
                 PROVE  \E j \in 1..(i - 1) : Tail(todo)[j].op = "release"
      BY DEF Released
    <3>1. /\ Len(Tail(todo)) = Len(todo) - 1 /\ Len(todo) \in Nat
          /\ \A k \in 1..Len(Tail(todo)) : Tail(todo)[k] = todo[k + 1]
          /\ Head(todo) = todo[1]
      BY <1>2 DEF Farewell
    <3>2. i + 1 \in 1..Len(todo) /\ Deleting(todo[i + 1])
      BY <3>1
    <3>3. PICK j \in 1..((i + 1) - 1) : todo[j].op = "release"
      BY <2>2, <3>2 DEF Released
    <3>4. j # 1
      BY <2>2, <3>1, <3>3
    <3>5. j - 1 \in 1..(i - 1) /\ j - 1 \in 1..Len(Tail(todo))
      BY <3>1, <3>3, <3>4
    <3>6. Tail(todo)[j - 1] = todo[j]
      BY <3>1, <3>5
    <3> QED BY <3>3, <3>5, <3>6
  <2> QED BY <1>2, <2>1, <2>2 DEF TodoOK, Farewell
<1> QED BY <1>1, <1>2 DEF TodoOK

\* After a crash.
LEMMA EmptyOK == TodoOK(<<>>)
BY DEF TodoOK, Plain

\* After a call that failed, whatever the handler does about it.
LEMMA RecoveryOK ==
    ASSUME TodoOK(todo), todo # <<>>
    PROVE  /\ TodoOK(Recovery(Head(todo), Tail(todo)))
           /\ Plain(todo) => /\ Plain(Handled(Head(todo), Tail(todo)))
                             /\ Plain(Recovery(Head(todo), Tail(todo)))
<1> DEFINE S == Seq(Allowed(MayBook, tower["destroy"].ended, Actions))
           c == Head(todo)
           h == Handled(Head(todo), Tail(todo))
<1>1. CASE Plain(todo)
  <2>1. c \in Allowed(MayBook, tower["destroy"].ended, Actions) /\ Tail(todo) \in S
    BY <1>1 DEF Plain
  <2>2. c.onError \in OnErrors
    BY <2>1 DEF Allowed, Calls, OnErrors
  <2>3. h \in S
    <3>1. Post("continue") \in S /\ Post("finish") \in S /\ handleProvisionError \in S /\ <<>> \in S
      BY PostType, handleProvisionErrorType
    <3> HIDE DEF c, S
    <3> QED BY <2>1, <2>2, <3>1 DEF Handled, OnErrors, c
  <2>4. c.traced => recordSandboxActionFailure(c.act) \in S
    <3>1. c.traced => c.act \in {"start", "stop"}
      BY <2>1 DEF Allowed
    <3>2. \A a \in {"start", "stop"} : recordSandboxActionFailure(a) \in S
      BY PowerType DEF OnErrors
    <3> QED BY <3>1, <3>2
  <2>5. Recovery(c, Tail(todo)) \in S
    <3>1. (IF c.traced THEN recordSandboxActionFailure(c.act) ELSE <<>>) \in S
      <4>1. <<>> \in S
        OBVIOUS
      <4> HIDE DEF c, S
      <4> QED BY <2>4, <4>1
    <3>2. Recovery(c, Tail(todo)) = (IF c.traced THEN recordSandboxActionFailure(c.act) ELSE <<>>) \o h
      BY DEF Recovery
    <3> HIDE DEF c, h
    <3> QED BY <2>3, <3>1, <3>2, Concat
  <2> QED BY <2>3, <2>5 DEF TodoOK, Plain
<1>2. CASE Farewell(todo) /\ ~Plain(todo)
  <2>1. c \in Parting /\ Tail(todo) \in Seq(Parting)
    BY <1>2 DEF Farewell
  <2>3. h = IF c.op = "cancel" THEN Tail(todo) ELSE <<>>
    BY <2>1 DEF Parting, Handled
  <2>2. Recovery(c, Tail(todo)) = h
    <3>1. h \in Seq(Parting) /\ <<>> \o h = h
      <4>1. h \in Seq(Parting)
        <5> HIDE DEF c, h
        <5> QED BY <2>1, <2>3
      <4> HIDE DEF h
      <4> QED BY <4>1, ConcatEmptySeq
    <3>2. ~c.traced
      BY <2>1 DEF Parting
    <3>3. Recovery(c, Tail(todo)) = (IF c.traced THEN recordSandboxActionFailure(c.act) ELSE <<>>) \o h
      BY DEF Recovery
    <3> HIDE DEF c, h
    <3> QED BY <3>1, <3>2, <3>3
  <2> QED BY <1>2, <2>2, <2>3, TailOK, EmptyOK
<1> QED BY <1>1, <1>2 DEF TodoOK

\* Before a call that is made once more.
LEMMA RepeatedOK ==
    ASSUME TodoOK(todo), todo # <<>>
    PROVE  TodoOK(Repeated) /\ Repeated # <<>> /\ (Plain(todo) => Plain(Repeated))
<1> DEFINE c == [todo[1] EXCEPT !.patch.job = "keep"]
<1>1. ASSUME NEW S, todo \in Seq(S), c \in S
      PROVE  /\ Repeated \in Seq(S) /\ Repeated # <<>> /\ Len(Repeated) = Len(todo)
             /\ Repeated[1] = c /\ \A i \in 2..Len(todo) : Repeated[i] = todo[i]
  <2>1. Repeated = [todo EXCEPT ![1] = c]
    BY DEF Repeated
  <2>2. 1 \in 1..Len(todo)
    BY <1>1
  <2> HIDE DEF c
  <2> QED BY <1>1, <2>1, <2>2
<1>2. ASSUME Plain(todo) PROVE Plain(Repeated) /\ Repeated # <<>>
  <2>1. todo[1] \in Allowed(MayBook, tower["destroy"].ended, Actions)
    BY <1>2 DEF Plain
  <2>2. c \in Allowed(MayBook, tower["destroy"].ended, Actions)
    BY <2>1 DEF Allowed, Calls, Patches, Deleting, PatchesOf, Looks
  <2> QED BY <1>1, <1>2, <2>2 DEF Plain
<1>3. CASE Farewell(todo)
  <2>1. todo[1] \in Parting
    BY <1>3 DEF Farewell
  <2>2. c \in Parting /\ c.op = todo[1].op /\ c.act = todo[1].act
    BY <2>1 DEF Parting, Calls, Patches
  <2>3. /\ Repeated \in Seq(Parting) /\ Repeated # <<>> /\ Len(Repeated) = Len(todo)
        /\ \A i \in 1..Len(todo) : Repeated[i].op = todo[i].op /\ Repeated[i].act = todo[i].act
    <3>1. todo \in Seq(Parting)
      BY <1>3 DEF Farewell
    <3> HIDE DEF c
    <3> QED BY <1>1, <2>2, <3>1
  <2>4. Released(todo) => Released(Repeated)
    BY <1>3, <2>3 DEF Released, Deleting, Farewell
  <2> QED BY <1>2, <1>3, <2>3, <2>4 DEF TodoOK, Farewell
<1> QED BY <1>2, <1>3 DEF TodoOK

\* The counters that bound the model.
Counters == [fault : Nat, failure : Nat, request : 0..MaxRequests, callback : Nat, stray : Nat]

\* The payload of a run that is not in execution.
LEMMA NoPayloadFacts ==
    /\ NoPayload.vars \in [edit : 0..MaxRequests, forensics : BOOLEAN]
    /\ NoPayload.vars.edit = 0 /\ NoPayload.uuid = FALSE
BY LifecycleAssumption DEF NoPayload, PayloadOf, NewSubject, NoVars

\* A call that changes none of the state a subject is judged by.
LEMMA HandlerStepOK ==
    ASSUME IInv, todo # <<>>, TodoOK(todo'),
           snap' = IF todo' = <<>> THEN NoPayload ELSE snap,
           UNCHANGED <<subj, tower, events, callbacks, placement, token, gone, run>>,
           acts' \in [Actions -> 0..MaxQueued], stuck' \subseteq Actions,
           power' \in [on : BOOLEAN, requests : Seq({"start", "stop"}), ended : {"success", "failed"}],
           used' \in Counters, used'.request = used.request
    PROVE  Sound'
<1>1. ~gone /\ run # NoRun
  BY DEF IInv, Sound, Gone, Types
<1>2. /\ snap'.vars \in [edit : 0..MaxRequests, forensics : BOOLEAN]
      /\ snap'.vars.edit <= used'.request
  BY NoPayloadFacts DEF IInv, Sound, Types, Counters
<1>3. Types'
  BY <1>1, <1>2 DEF IInv, Sound, Types, Counters
<1>4. Consistent'
  <2>1. MayBook' = MayBook
    BY DEF MayBook
  <2>2. snap'.uuid => subj'.uuid
    BY NoPayloadFacts DEF IInv, Sound, Consistent
  <2>3. Careful' => Careful
    BY DEF Careful
  <2>4. Careful => token' /\ (todo' # <<>> => snap'.token)
    BY DEF IInv, Sound, Consistent
  <2> QED BY <2>1, <2>2, <2>3, <2>4 DEF IInv, Sound, Consistent
<1>5. TodoOK(todo)'
  BY TodoStable DEF MayBook, Undone
<1>6. Gone'
  BY <1>1 DEF Gone
<1> QED BY <1>3, <1>4, <1>5, <1>6 DEF IInv, Sound

\* A call that is in trouble.
LEMMA TroubleFacts ==
    ASSUME IInv, todo # <<>>, NEW again, TodoOK(again), again # <<>>, TroubleWith(again)
    PROVE  /\ TodoOK(todo')
           /\ snap' = IF todo' = <<>> THEN NoPayload ELSE snap
           /\ used' \in Counters /\ used'.request = used.request
<1>1. used' = [used EXCEPT !["fault"] = @ + 1]
  BY DEF TroubleWith, Spend
<1>2. used' \in Counters /\ used'.request = used.request
  <2>1. used \in Counters
    BY DEF IInv, Sound, Types, Counters
  <2>2. used' = [used EXCEPT !.fault = @ + 1]
    BY <1>1, <2>1 DEF Counters
  <2> QED BY <2>1, <2>2 DEF Counters
<1>3. TodoOK(Recovery(Head(todo), Tail(todo)))
  BY RecoveryOK DEF IInv, Sound
<1>4. \/ Continue(again)
      \/ Continue(Recovery(Head(todo), Tail(todo)))
  BY DEF TroubleWith
<1>5. /\ TodoOK(todo')
      /\ snap' = IF todo' = <<>> THEN NoPayload ELSE snap
  BY <1>3, <1>4 DEF Continue
<1> QED BY <1>2, <1>5

(***************************************************************************)
(* The actions, one by one.                                                *)
(***************************************************************************)
\* What is dispatched is a run.
LEMMA DispatchedRun ==
    ASSUME IInv, NEW r, DispatchRun(r) PROVE r \in EventRuns \cup ActionRuns \cup CallbackRuns
<1>1. r \in Waiting \/ (r = run /\ run # NoRun)
  BY DEF DispatchRun
<1>2. ASSUME NEW e \in events PROVE [kind |-> "event", name |-> e, status |-> "none"] \in EventRuns
  BY DEF IInv, Sound, Types, EventRuns
<1>3. ASSUME NEW a \in Actions PROVE [kind |-> "action", name |-> a, status |-> "none"] \in ActionRuns
  BY DEF ActionRuns
<1>4. r \in Waiting => r \in EventRuns \cup ActionRuns \cup CallbackRuns
  <2>1. callbacks \subseteq CallbackRuns
    BY DEF IInv, Sound, Types
  <2> HIDE DEF EventRuns, ActionRuns, CallbackRuns
  <2> QED BY <1>2, <1>3, <2>1 DEF Waiting
<1> QED BY <1>1, <1>4 DEF IInv, Sound, Types

\* A run is dispatched, or dispatched again.
LEMMA DispatchRunOK ==
    ASSUME IInv, NEW r, DispatchRun(r) PROVE Sound'
<1>1. r \in EventRuns \cup ActionRuns \cup CallbackRuns
  BY DispatchedRun
<1>2. r.kind = "callback" => r \in callbacks \cup {run}
  BY DEF DispatchRun, Waiting
<1>3. /\ Payload.state = subj.state /\ Payload.uuid = subj.uuid /\ Payload.token = token
      /\ Payload.vars = subj.vars
      /\ (tower["provision"].job # "none" => Payload.provisioned)
  BY DEF Payload, PayloadOf
<1>4. TodoOK(Dispatch(r, Payload))
  <2>1. TodoFor(Dispatch(r, Payload), Actions)
    <3>1. {"destroy", "provision"} \subseteq Actions
      BY DEF Actions
    <3> QED BY <1>1, <1>2, <1>3, <3>1, DispatchOK DEF IInv, Sound, Consistent, MayBook
  <2> QED BY <2>1 DEF TodoFor, TodoOK, Plain
<1>5. /\ run' = r /\ todo' = Dispatch(r, Payload) /\ snap' = Payload
      /\ events' \subseteq events /\ callbacks' \subseteq callbacks
      /\ UNCHANGED <<subj, tower, acts, stuck, placement, power, token, gone, used>>
      /\ ~gone
  BY DEF DispatchRun
<1>6. r # NoRun
  BY <1>1 DEF NoRun, EventRuns, ActionRuns, CallbackRuns
<1>7. Types'
  BY <1>1, <1>3, <1>5, <1>6 DEF IInv, Sound, Types
<1>8. Consistent'
  BY <1>2, <1>3, <1>5 DEF IInv, Sound, Consistent, MayBook, Careful
<1>9. TodoOK(todo)'
  BY <1>4, <1>5, TodoStable DEF MayBook, Undone
<1>10. Gone'
  BY <1>5 DEF Gone
<1> QED BY <1>7, <1>8, <1>9, <1>10 DEF IInv, Sound

\* What a call leaves of the handler, the payload and the counters.
Went ==
    /\ TodoOK(todo')
    /\ snap' = IF todo' = <<>> THEN NoPayload ELSE snap
    /\ used' \in Counters /\ used'.request = used.request

\* Going on with calls that are right.
LEMMA ContinueOK ==
    ASSUME IInv, NEW rest, TodoOK(rest), Continue(rest), used' = used PROVE Went
<1>1. used \in Counters
  BY DEF IInv, Sound, Types, Counters
<1> QED BY <1>1 DEF Went, Continue

\* A call that succeeds, or fails, or is repeated.
LEMMA DoesOK ==
    ASSUME IInv, todo # <<>>, Head(todo).op = "release" => placement = "absent",
           Succeeds \/ TroubleWith(Repeated) \/ Trouble
    PROVE  Went
<1>1. CASE Succeeds
  <2>1. TodoOK(Tail(todo))
    BY TailOK DEF IInv, Sound
  <2> QED BY <1>1, <2>1, ContinueOK DEF Succeeds
<1>2. CASE TroubleWith(Repeated)
  <2>1. TodoOK(Repeated) /\ Repeated # <<>>
    BY RepeatedOK DEF IInv, Sound
  <2> QED BY <1>2, <2>1, TroubleFacts DEF Went
<1>3. CASE Trouble
  <2>1. TodoOK(todo)
    BY DEF IInv, Sound
  <2> QED BY <1>3, <2>1, TroubleFacts DEF Went, Trouble
<1> QED BY <1>1, <1>2, <1>3

\* The first call has the type of a call, and all but the parting ones belong to a
\* handler that does not delete.
LEMMA HeadOK ==
    ASSUME IInv, todo # <<>>
    PROVE  /\ Head(todo) \in Calls
           /\ Head(todo).op \in {"schedule", "launch", "poll", "get", "reget", "checkQueue",
                                 "book", "power", "await"}
              => /\ Plain(todo)
                 /\ Head(todo) \in Allowed(MayBook, tower["destroy"].ended, Actions)
                 /\ Tail(todo) \in Seq(Allowed(MayBook, tower["destroy"].ended, Actions))
<1>1. CASE Plain(todo)
  BY <1>1 DEF Plain, Allowed
<1>2. CASE Farewell(todo)
  BY <1>2 DEF Farewell, Parting
<1> QED BY <1>1, <1>2 DEF IInv, Sound, TodoOK

\* The types of the variables that only these actions change.
LEMMA QuietTypes ==
    ASSUME IInv
    PROVE  /\ acts \in [Actions -> 0..MaxQueued] /\ stuck \subseteq Actions
           /\ power \in [on : BOOLEAN, requests : Seq({"start", "stop"}), ended : {"success", "failed"}]
BY DEF IInv, Sound, Types

\* Scheduling an action.
LEMMA ScheduleActionOK == ASSUME IInv, ScheduleAction PROVE Sound'
<1>1. todo # <<>> /\ Head(todo).op = "schedule"
  BY DEF ScheduleAction, At
<1>2. Went
  BY <1>1, DoesOK DEF ScheduleAction, Does
<1>3. acts' \in [Actions -> 0..MaxQueued] /\ stuck' \subseteq Actions
  <2>1. \/ acts' = Scheduled(Head(todo).act, Head(todo).cancel) /\ stuck' = stuck \ Head(todo).cancel
        \/ acts' = acts /\ stuck' = stuck
    BY DEF ScheduleAction, Does, anarchy
  <2>2. \A a, C : Scheduled(a, C) \in [Actions -> 0..MaxQueued]
    BY QuietTypes, LifecycleAssumption DEF Scheduled
  <2> QED BY <2>1, <2>2, QuietTypes
<1>4. UNCHANGED <<subj, tower, events, callbacks, placement, power, token, gone, run>>
  BY DEF ScheduleAction, subject, sandbox
<1> QED BY <1>1, <1>2, <1>3, <1>4, QuietTypes, HandlerStepOK DEF Went

\* Launching a job.
LEMMA LaunchJobOK == ASSUME IInv, LaunchJob PROVE Sound'
<1>1. todo # <<>> /\ Head(todo).op = "launch"
  BY DEF LaunchJob, At
<1>2. Went
  BY <1>1, DoesOK DEF LaunchJob, Does
<1>3. UNCHANGED <<subj, tower, acts, stuck, events, callbacks, placement, power, token, gone, run>>
  BY DEF LaunchJob, subject, anarchy, sandbox
<1> QED BY <1>1, <1>2, <1>3, QuietTypes, HandlerStepOK DEF Went

\* Polling a job; the handler of its end takes over.
LEMMA PollJobOK == ASSUME IInv, PollJob PROVE Sound'
<1>1. todo # <<>> /\ Head(todo).op = "poll"
  BY DEF PollJob, At
<1>2. Went
  <2>1. CASE Continue(jobPolled(Head(todo).act, tower[Head(todo).act].job, snap)) /\ used' = used
    <3> DEFINE a == Head(todo).act
    <3>1. a \in Actions
      BY <1>1, HeadOK DEF Allowed
    <3>2. /\ tower[a].job \in JobStatuses /\ a = "destroy" => tower["destroy"].ended
          /\ Careful => snap.token
          /\ placement # "absent" => MayBook
      BY <1>1, <3>1 DEF IInv, Sound, Consistent
    <3>3. TodoOK(Post("continue"))
      BY PostType DEF TodoOK, Plain
    <3>4. TodoOK(jobPolled(a, tower[a].job, snap))
      BY <3>1, <3>2, <3>3, OutcomeOK DEF jobPolled, TodoFor, TodoOK, Plain
    <3> QED BY <2>1, <3>4, ContinueOK
  <2>2. CASE Trouble
    BY <1>1, <2>2, DoesOK
  <2> QED BY <2>1, <2>2 DEF PollJob
<1>3. UNCHANGED <<subj, tower, acts, stuck, events, callbacks, placement, power, token, gone, run>>
  BY DEF PollJob, subject, anarchy, sandbox
<1> QED BY <1>1, <1>2, <1>3, QuietTypes, HandlerStepOK DEF Went

\* Looking at the placement.
LEMMA GetPlacementOK == ASSUME IInv, GetPlacement PROVE Sound'
<1>1. todo # <<>> /\ Head(todo).op = "get"
  BY DEF GetPlacement, At
<1>2. Went
  <2> DEFINE S == Seq(Allowed(MayBook, tower["destroy"].ended, Actions))
  <2>1. CASE Trouble
    BY <1>1, <2>1, DoesOK
  <2>2. /\ Tail(todo) \in S /\ MayBook /\ placement \in PlacementStatuses
    BY <1>1, HeadOK DEF Allowed, IInv, Sound, Types
  <2>3. /\ placedOrNot(placement, Tail(todo)) \in S
        /\ updateSubjectSandboxVars("ignore") \o Tail(todo) \in S
    BY ActionNames, <2>2, PlacementAnswerType, SandboxVarsType, Concat DEF OnErrors
  <2>4. CASE ~Trouble
    <3>1. PICK rest \in S : Continue(rest) /\ used' = used
      BY <2>2, <2>3, <2>4 DEF GetPlacement
    <3> QED BY <3>1, ContinueOK DEF TodoOK, Plain
  <2> QED BY <2>1, <2>4
<1>3. UNCHANGED <<subj, tower, acts, stuck, events, callbacks, placement, power, token, gone, run>>
  BY DEF GetPlacement, subject, anarchy, sandbox
<1> QED BY <1>1, <1>2, <1>3, QuietTypes, HandlerStepOK DEF Went

\* Looking at it again after booking.
LEMMA GetBookedOK == ASSUME IInv, GetBooked PROVE Sound'
<1>1. todo # <<>> /\ Head(todo).op = "reget"
  BY DEF GetBooked, At
<1>2. Went
  <2> DEFINE S == Seq(Allowed(MayBook, tower["destroy"].ended, Actions))
  <2>1. CASE Trouble
    BY <1>1, <2>1, DoesOK
  <2>2. /\ Tail(todo) \in S /\ MayBook
        /\ placement \in PlacementStatuses /\ "absent" \in PlacementStatuses
    BY <1>1, HeadOK DEF Allowed, IInv, Sound, Types, PlacementStatuses
  <2>3. bookedAgain(placement, Tail(todo)) \in S /\ bookedAgain("absent", Tail(todo)) \in S
    BY ActionNames, <2>2, PlacementAnswerType
  <2>4. CASE ~Trouble
    <3>1. PICK rest \in S : Continue(rest) /\ used' = used
      BY <2>3, <2>4 DEF GetBooked
    <3> QED BY <3>1, ContinueOK DEF TodoOK, Plain
  <2> QED BY <2>1, <2>4
<1>3. UNCHANGED <<subj, tower, acts, stuck, events, callbacks, placement, power, token, gone, run>>
  BY DEF GetBooked, subject, anarchy, sandbox
<1> QED BY <1>1, <1>2, <1>3, QuietTypes, HandlerStepOK DEF Went

\* Looking at it from the queue.
LEMMA CheckQueueOK == ASSUME IInv, CheckQueue PROVE Sound'
<1>1. todo # <<>> /\ Head(todo).op = "checkQueue"
  BY DEF CheckQueue, At
<1>2. Went
  <2> DEFINE S == Seq(Allowed(MayBook, tower["destroy"].ended, Actions))
  <2>1. CASE Trouble
    BY <1>1, <2>1, DoesOK
  <2>2. placement \in PlacementStatuses /\ (SandboxInUse /\ snap.uuid => MayBook)
    BY DEF IInv, Sound, Types, Consistent, MayBook
  <2>3. queueChecked(placement, snap) \in S
    BY ActionNames, <2>2, ProvisionType
  <2>4. CASE Continue(queueChecked(placement, snap)) /\ used' = used
    BY <2>3, <2>4, ContinueOK DEF TodoOK, Plain
  <2> QED BY <2>1, <2>4 DEF CheckQueue
<1>3. UNCHANGED <<subj, tower, acts, stuck, events, callbacks, placement, power, token, gone, run>>
  BY DEF CheckQueue, subject, anarchy, sandbox
<1> QED BY <1>1, <1>2, <1>3, QuietTypes, HandlerStepOK DEF Went

\* A handler that does not delete goes on not deleting.
LEMMA PlainStep ==
    ASSUME IInv, Plain(todo), todo # <<>>, Succeeds \/ TroubleWith(Repeated) \/ Trouble
    PROVE  Plain(todo')
<1>1. Plain(Tail(todo)) /\ Plain(Repeated) /\ Plain(Recovery(Head(todo), Tail(todo)))
  BY RecoveryOK, RepeatedOK DEF TodoOK, Plain
<1> QED BY <1>1 DEF Succeeds, Trouble, TroubleWith, Continue

\* The counters of the model bounds.
LEMMA SpendOK ==
    ASSUME IInv, NEW k \in {"fault", "failure", "callback"}, NEW n, Spend(k, n)
    PROVE  used' \in Counters /\ used'.request = used.request
<1>1. used \in Counters
  BY DEF IInv, Sound, Types, Counters
<1>2. used' = [used EXCEPT ![k] = @ + 1]
  BY DEF Spend
<1>3. \/ used' = [used EXCEPT !.fault = @ + 1]
      \/ used' = [used EXCEPT !.failure = @ + 1]
      \/ used' = [used EXCEPT !.callback = @ + 1]
  BY <1>1, <1>2 DEF Counters
<1> QED BY <1>1, <1>3 DEF Counters

\* Booking: a handler that books does not delete.
LEMMA BookPlacementOK == ASSUME IInv, BookPlacement PROVE Sound'
<1> DEFINE S == Seq(Allowed(MayBook, tower["destroy"].ended, Actions))
<1>1. todo # <<>> /\ Head(todo).op = "book"
  BY DEF BookPlacement, At
<1>2. Plain(todo) /\ Tail(todo) \in S /\ MayBook
  BY <1>1, HeadOK DEF Allowed
<1>3. /\ UNCHANGED <<subj, tower, acts, stuck, events, callbacks, power, token, gone, run>>
      /\ ~gone /\ run # NoRun
  BY <1>1 DEF BookPlacement, subject, anarchy, IInv, Sound, Gone, Types
<1>4. /\ placement' \in PlacementStatuses
      /\ Plain(todo')
      /\ snap' = IF todo' = <<>> THEN NoPayload ELSE snap
      /\ used' \in Counters /\ used'.request = used.request
  <2>1. CASE Trouble /\ placement' \in PlacementStatuses
    BY <1>1, <1>2, <2>1, DoesOK, PlainStep DEF Went
  <2>2. ASSUME NEW status \in NotReady \cup {"success", "error", "invalid", "refused"},
               Continue(booked(status, Tail(todo))),
               used' = used \/ Spend("failure", MaxFailures), placement' \in PlacementStatuses
        PROVE  <1>4!:
    <3>1. booked(status, Tail(todo)) \in S
      BY ActionNames, <1>2, PlacementAnswerType DEF PlacementStatuses, NotReady
    <3>2. used' \in Counters /\ used'.request = used.request
      BY <2>2, SpendOK DEF IInv, Sound, Types, Counters
    <3> QED BY <2>2, <3>1, <3>2 DEF Plain, Continue
  <2>3. /\ placement \in PlacementStatuses
        /\ {"absent", "success", "error"} \cup NotReady = PlacementStatuses
    BY DEF IInv, Sound, Types, PlacementStatuses, NotReady
  <2> QED BY <2>1, <2>2, <2>3 DEF BookPlacement, NotReady
<1>5. snap'.vars \in [edit : 0..MaxRequests, forensics : BOOLEAN] /\ snap'.vars.edit <= used'.request
  BY <1>4, NoPayloadFacts DEF IInv, Sound, Types, Counters
<1>6. Types'
  BY <1>3, <1>4, <1>5 DEF IInv, Sound, Types, Counters
<1>7. Consistent'
  <2>1. (snap'.uuid => subj'.uuid) /\ (Careful' => token' /\ (todo' # <<>> => snap'.token))
    BY <1>1, <1>3, <1>4, NoPayloadFacts DEF IInv, Sound, Consistent, Careful
  <2> QED BY <1>2, <1>3, <2>1 DEF IInv, Sound, Consistent, MayBook
<1>8. TodoOK(todo)'
  BY <1>3, <1>4 DEF TodoOK, Plain, MayBook
<1> QED BY <1>3, <1>6, <1>7, <1>8 DEF IInv, Sound, Gone

\* Asking the sandbox API to start or stop.
LEMMA PowerPlacementOK == ASSUME IInv, PowerPlacement PROVE Sound'
<1> DEFINE S == Seq(Allowed(MayBook, tower["destroy"].ended, Actions))
           call == Head(todo)
           Powers == [on : BOOLEAN, requests : Seq({"start", "stop"}), ended : {"success", "failed"}]
<1>1. todo # <<>> /\ call.op = "power"
  BY DEF PowerPlacement, At
<1>2. /\ Plain(todo) /\ Tail(todo) \in S
      /\ call.act \in {"start", "stop"} /\ call.onError \in OnErrors
  BY <1>1, HeadOK DEF Allowed, Calls, OnErrors
<1>3. power' \in Powers
  <2>1. power \in Powers
    BY QuietTypes
  <2>2. Append(power.requests, call.act) \in Seq({"start", "stop"})
    BY <1>2, <2>1
  <2>3. [power EXCEPT !.requests = Append(@, call.act)] \in Powers
        /\ [power EXCEPT !.on = (call.act = "start")] \in Powers
    BY <2>1, <2>2
  <2> HIDE DEF Powers
  <2> QED BY <2>1, <2>3 DEF PowerPlacement
<1>4. Went
  <2>1. CASE Trouble
    BY <1>1, <2>1, DoesOK
  <2>2. \A async : requested(call.act, call.onError, async) \o Tail(todo) \in S
    BY <1>2, PowerType, Concat
  <2>3. /\ TodoOK(Handled(call, Tail(todo))) /\ TodoOK(Recovery(call, Tail(todo)))
        /\ \A async : TodoOK(requested(call.act, call.onError, async) \o Tail(todo))
    BY <1>1, <1>2, <2>2, RecoveryOK DEF TodoOK, Plain
  <2>4. CASE ~Trouble
    <3>1. /\ used' = used
          /\ \/ Continue(Handled(call, Tail(todo)))
             \/ Continue(Recovery(call, Tail(todo)))
             \/ Continue(requested(call.act, call.onError, TRUE) \o Tail(todo))
             \/ Continue(requested(call.act, call.onError, FALSE) \o Tail(todo))
      BY <2>4 DEF PowerPlacement
    <3> HIDE DEF call
    <3> QED BY <2>3, <3>1, ContinueOK
  <2> QED BY <2>1, <2>4
<1>5. UNCHANGED <<subj, tower, acts, stuck, events, callbacks, placement, token, gone, run>>
  BY DEF PowerPlacement, subject, anarchy
<1> QED BY <1>1, <1>3, <1>4, <1>5, QuietTypes, HandlerStepOK DEF Went

\* Waiting for it.
LEMMA AwaitRequestOK == ASSUME IInv, AwaitRequest PROVE Sound'
<1> DEFINE S == Seq(Allowed(MayBook, tower["destroy"].ended, Actions))
           call == Head(todo)
           handled == Handled(call, Tail(todo))
<1>1. todo # <<>> /\ call.op = "await"
  BY DEF AwaitRequest, At
<1>2. /\ Plain(todo) /\ Tail(todo) \in S
      /\ call.act \in {"start", "stop"} /\ call.onError \in OnErrors
  BY <1>1, HeadOK DEF Allowed, Calls, OnErrors
<1>3. handled \in S
  BY <1>1, <1>2, RecoveryOK DEF TodoOK, Plain
<1>4. Went
  <2>1. CASE Continue(handled) /\ Spend("fault", MaxFaults)
    <3>1. used' \in Counters /\ used'.request = used.request
      BY <2>1, SpendOK
    <3> QED BY <1>3, <2>1, <3>1 DEF Went, TodoOK, Plain, Continue
  <2>2. CASE Continue(requestEnded(call, power.ended, Tail(todo), handled)) /\ used' = used
    <3>1. recordSandboxJobOutcome(call.act, "successful", call.onError) \in S
          /\ recordSandboxActionFailure(call.act) \in S
      BY <1>2, PowerType
    <3>2. requestEnded(call, power.ended, Tail(todo), handled) \in S
      <4> HIDE DEF handled, call
      <4> QED BY <1>2, <1>3, <3>1, Concat DEF requestEnded
    <3> QED BY <2>2, <3>2, ContinueOK DEF TodoOK, Plain
  <2> QED BY <2>1, <2>2 DEF AwaitRequest
<1>5. UNCHANGED <<subj, tower, acts, stuck, events, callbacks, placement, power, token, gone, run>>
  BY DEF AwaitRequest, subject, anarchy, sandbox
<1> QED BY <1>1, <1>4, <1>5, QuietTypes, HandlerStepOK DEF Went

\* A crash, or a result that is lost.
LEMMA AbandonOK == ASSUME IInv, Abandon PROVE Sound'
<1>1. todo # <<>> /\ todo' = <<>> /\ snap' = NoPayload
  BY DEF Abandon, Continue
<1>2. used' \in Counters /\ used'.request = used.request
  BY SpendOK DEF Abandon
<1>3. UNCHANGED <<subj, tower, acts, stuck, events, callbacks, placement, power, token, gone, run>>
  BY DEF Abandon, subject, anarchy, sandbox
<1> QED BY <1>1, <1>2, <1>3, EmptyOK, QuietTypes, HandlerStepOK

\* What every call of a handler keeps.
LEMMA StepFacts ==
    ASSUME IInv, todo # <<>>, Went
    PROVE  /\ ~gone /\ run # NoRun
           /\ snap'.vars \in [edit : 0..MaxRequests, forensics : BOOLEAN]
           /\ snap'.vars.edit <= used'.request
           /\ snap'.uuid => subj.uuid
           /\ Careful => token /\ (todo' # <<>> => snap'.token)
<1>1. ~gone /\ run # NoRun
  BY DEF IInv, Sound, Gone, Types
<1>2. /\ snap'.vars \in [edit : 0..MaxRequests, forensics : BOOLEAN]
      /\ snap'.vars.edit <= used'.request
  BY NoPayloadFacts DEF IInv, Sound, Types, Counters, Went
<1>3. /\ snap'.uuid => subj.uuid
      /\ Careful => token /\ (todo' # <<>> => snap'.token)
  BY NoPayloadFacts DEF IInv, Sound, Consistent, Went
<1> QED BY <1>1, <1>2, <1>3

\* The release: after it, no further one is needed.
LEMMA ReleasePlacementOK == ASSUME IInv, ReleasePlacement PROVE Sound'
<1>1. todo # <<>> /\ Head(todo).op = "release"
  BY DEF ReleasePlacement, At
<1>2. UNCHANGED <<subj, tower, acts, stuck, events, callbacks, power, token, gone, run>>
  BY DEF ReleasePlacement, subject, anarchy
<1>3. placement' \in {placement, "absent"}
  BY DEF ReleasePlacement, Does
<1>4. /\ TodoOK(todo)'
      /\ snap' = IF todo' = <<>> THEN NoPayload ELSE snap
      /\ used' \in Counters /\ used'.request = used.request
  <2>1. ASSUME Went PROVE <1>4!:
    BY <1>2, <1>3, <2>1, TodoStable DEF Went, MayBook, Undone
  <2>2. CASE TroubleWith(Repeated)
    <3>1. TodoOK(Repeated) /\ Repeated # <<>>
      BY <1>1, RepeatedOK DEF IInv, Sound
    <3>2. Went
      BY <1>1, <2>2, <3>1, TroubleFacts DEF Went
    <3> QED BY <2>1, <3>2
  <2>3. CASE Trouble
    <3>1. Went
      BY <1>1, <2>3, TroubleFacts DEF Went, Trouble, IInv, Sound
    <3> QED BY <2>1, <3>1
  <2>4. CASE Continue(<<>>) /\ used' = used
    <3>1. Went
      BY <2>4, EmptyOK, ContinueOK
    <3> QED BY <2>1, <3>1
  <2>5. CASE placement' = "absent" /\ Succeeds
    <3>1. todo' = Tail(todo) /\ used' = used /\ snap' = IF todo' = <<>> THEN NoPayload ELSE snap
      BY <2>5 DEF Succeeds, Continue
    <3>2. CASE Plain(todo)
      BY <1>1, <1>2, <3>1, <3>2 DEF TodoOK, Plain, MayBook, IInv, Sound, Types, Counters
    <3>3. CASE Farewell(todo)
      BY <1>1, <1>2, <2>5, <3>1, <3>3 DEF TodoOK, Farewell, Undone, Careful, IInv, Sound, Types, Counters
    <3> QED BY <3>2, <3>3 DEF IInv, Sound, TodoOK
  <2> QED BY <2>2, <2>3, <2>4, <2>5 DEF ReleasePlacement, Does
<1>5. /\ ~gone /\ run # NoRun
      /\ snap'.vars \in [edit : 0..MaxRequests, forensics : BOOLEAN]
      /\ snap'.vars.edit <= used'.request
      /\ snap'.uuid => subj.uuid
      /\ Careful => token /\ (todo' # <<>> => snap'.token)
  BY <1>1, <1>4, NoPayloadFacts DEF IInv, Sound, Gone, Types, Consistent, Counters
<1>6. Types'
  <2>1. placement' \in PlacementStatuses
    BY <1>3 DEF IInv, Sound, Types, PlacementStatuses
  <2> QED BY <1>2, <1>4, <1>5, <2>1 DEF IInv, Sound, Types, Counters
<1>7. Consistent'
  BY <1>2, <1>3, <1>5 DEF IInv, Sound, Consistent, MayBook, Careful
<1> QED BY <1>2, <1>4, <1>5, <1>6, <1>7 DEF IInv, Sound, Gone

\* Canceling jobs ends them.
LEMMA CancelJobsOK == ASSUME IInv, CancelJobs PROVE Sound'
<1>1. todo # <<>> /\ Head(todo).op = "cancel"
  BY DEF CancelJobs, At
<1>2. Went
  BY <1>1, DoesOK DEF CancelJobs, Does
<1>3. UNCHANGED <<subj, acts, stuck, events, callbacks, placement, power, token, gone, run>>
  BY DEF CancelJobs, anarchy, sandbox
<1> DEFINE Towers == [Actions -> [job : JobStatuses \cup {"none", "running"}, complete : BOOLEAN,
                                  started : BOOLEAN, request : {"none", "successful", "error"},
                                  ended : BOOLEAN]]
<1>4. /\ tower' \in Towers
      /\ \A a \in Actions : /\ tower[a].ended => tower'[a].ended
                            /\ tower'[a].job \in JobStatuses => tower'[a].ended
                            /\ tower'[a].job = "none" <=> tower[a].job = "none"
  <2>1. /\ tower \in Towers
        /\ \A a \in Actions : tower[a].job \in JobStatuses => tower[a].ended
    BY DEF IInv, Sound, Types, Consistent
  <2>2. tower' = tower \/ tower' = Canceled(Head(todo).act)
    BY DEF CancelJobs, Does
  <2>3. ASSUME NEW a
        PROVE  /\ Canceled(a) \in Towers
               /\ \A b \in Actions : /\ tower[b].ended => Canceled(a)[b].ended
                                     /\ Canceled(a)[b].job \in JobStatuses => Canceled(a)[b].ended
                                     /\ Canceled(a)[b].job = "none" <=> tower[b].job = "none"
    <3> DEFINE Tower == [job : JobStatuses \cup {"none", "running"}, complete : BOOLEAN,
                         started : BOOLEAN, request : {"none", "successful", "error"},
                         ended : BOOLEAN]
    <3>1. ASSUME NEW b \in Actions
          PROVE  /\ Canceled(a)[b] \in Tower
                 /\ tower[b].ended => Canceled(a)[b].ended
                 /\ Canceled(a)[b].job \in JobStatuses => Canceled(a)[b].ended
                 /\ Canceled(a)[b].job = "none" <=> tower[b].job = "none"
      <4> DEFINE canceled == [tower[b] EXCEPT !.job = "canceled", !.ended = TRUE]
                 Cancels == /\ a \in {b, "all"} /\ ~tower[b].complete
                            /\ tower[b].job = "running"
      <4>1. Canceled(a)[b] = IF Cancels THEN canceled ELSE tower[b]
        BY DEF Canceled
      <4>2. tower[b] \in Tower /\ (tower[b].job \in JobStatuses => tower[b].ended)
        BY <2>1
      <4>3. /\ canceled \in Tower /\ canceled.ended /\ canceled.job # "none"
        BY <4>2 DEF JobStatuses, FailureStatuses
      <4> HIDE DEF Tower, canceled
      <4>4. CASE Cancels
        BY <4>1, <4>3, <4>4
      <4>5. CASE ~Cancels
        <5> HIDE DEF Cancels
        <5> QED BY <4>1, <4>2, <4>5
      <4> QED BY <4>4, <4>5
    <3>2. Canceled(a) \in [Actions -> Tower]
      <4> HIDE DEF Tower
      <4>1. Canceled(a) = [b \in Actions |-> Canceled(a)[b]]
        BY DEF Canceled
      <4> QED BY <3>1, <4>1
    <3> QED BY <3>1, <3>2
  <2> QED BY <2>1, <2>2, <2>3
<1>5. "destroy" \in Actions /\ "provision" \in Actions
  BY DEF Actions
<1>6. Types'
  BY <1>1, <1>2, <1>3, <1>4, StepFacts DEF IInv, Sound, Types, Went, Counters
<1>7. Consistent'
  BY <1>1, <1>2, <1>3, <1>4, <1>5, StepFacts DEF IInv, Sound, Consistent, MayBook, Careful
<1>8. TodoOK(todo)'
  BY <1>2, <1>3, <1>4, <1>5, TodoStable DEF Went, MayBook, Undone
<1> QED BY <1>1, <1>2, <1>3, <1>6, <1>7, <1>8, StepFacts DEF IInv, Sound, Gone

\* The result: a deletion that is posted has its release behind it.
LEMMA PostResultOK == ASSUME IInv, PostResult PROVE Sound'
<1>1. todo # <<>> /\ Head(todo).op = "post" /\ todo' = <<>> /\ snap' = NoPayload /\ run' = NoRun
  BY DEF PostResult, At, Continue
<1>2. UNCHANGED <<subj, tower, events, callbacks, placement, power, token, used>>
  BY DEF PostResult, sandbox
<1>3. gone' => ~Undone /\ (Careful => placement = "absent")
  <2> SUFFICES ASSUME gone' PROVE ~Undone /\ (Careful => placement = "absent")
    OBVIOUS
  <2>1. Deleting(Head(todo))
    BY <1>1 DEF PostResult, Deleting
  <2>2. ~Plain(todo)
    BY <1>1, <2>1 DEF Plain, Allowed
  <2>3. Farewell(todo)
    BY <2>2 DEF IInv, Sound, TodoOK
  <2>4. ~Released(todo)
    <3>1. 1 \in 1..Len(todo) /\ Deleting(todo[1]) /\ 1..(1 - 1) = {}
      BY <1>1, <2>1, <2>3 DEF Farewell
    <3> QED BY <3>1 DEF Released
  <2> QED BY <2>3, <2>4 DEF Farewell
<1>4. acts' \in [Actions -> 0..MaxQueued] /\ stuck' \subseteq Actions
  <2>1. acts \in [Actions -> 0..MaxQueued] /\ stuck \subseteq Actions /\ MaxQueued \in Nat
    BY LifecycleAssumption DEF IInv, Sound, Types
  <2>2. run.kind = "action" => run.name \in Actions
    BY DEF IInv, Sound, Types, EventRuns, ActionRuns, CallbackRuns, NoRun
  <2>3. \A a \in Actions : Ended(a) \in [Actions -> 0..MaxQueued]
    BY <2>1 DEF Ended
  <2>4. acts' = acts \/ \E a \in Actions : acts' = Ended(a)
    BY <2>2 DEF PostResult
  <2>5. stuck' \subseteq Actions
    BY <2>1, <2>2 DEF PostResult
  <2> QED BY <2>1, <2>3, <2>4, <2>5
<1>5. gone' \in BOOLEAN
  BY DEF PostResult
<1>6. Types'
  BY <1>1, <1>2, <1>4, <1>5, NoPayloadFacts DEF IInv, Sound, Types
<1>7. Consistent'
  BY <1>1, <1>2, NoPayloadFacts DEF IInv, Sound, Consistent, MayBook, Careful, NoRun
<1>8. TodoOK(todo)'
  <2>1. TodoOK(todo')
    BY <1>1, EmptyOK
  <2> QED BY <1>2, <2>1, TodoStable DEF MayBook, Undone
<1>9. Gone'
  BY <1>1, <1>2, <1>3 DEF Gone, Undone, Careful
<1> QED BY <1>6, <1>7, <1>8, <1>9 DEF IInv, Sound

\* The recorded jobs and the subject.
Towers == [Actions -> [job : JobStatuses \cup {"none", "running"}, complete : BOOLEAN,
                       started : BOOLEAN, request : {"none", "successful", "error"},
                       ended : BOOLEAN]]

Subjects == [state : SubjectStates, desired : {"started", "stopped", "destroyed"},
             css : JobStatuses \cup {"none", "pending", "running"},
             vars : [edit : 0..MaxRequests, forensics : BOOLEAN],
             uuid : BOOLEAN, deleting : BOOLEAN, asked : Nat]

\* A job that is recorded runs, or has ended.
LEMMA LaunchedType ==
    ASSUME IInv, NEW a \in Actions
    PROVE  /\ Launched(a) \in JobStatuses \cup {"running"}
           /\ Launched(a) \in JobStatuses => tower[a].ended
BY DEF IInv, Counted, Launched, JobStatuses, FailureStatuses

\* A patch ends no job, and records at most one.
LEMMA ApplyTower ==
    ASSUME IInv, NEW p \in Patches, Apply(p)
    PROVE  /\ tower' \in Towers
           /\ \A a \in Actions : /\ tower'[a].ended = tower[a].ended
                                 /\ tower'[a].job = IF a = p.job THEN Launched(a) ELSE tower[a].job
<1> DEFINE Tower == [job : JobStatuses \cup {"none", "running"}, complete : BOOLEAN,
                     started : BOOLEAN, request : {"none", "successful", "error"},
                     ended : BOOLEAN]
           moved(a) == [tower[a] EXCEPT !.job = IF a = p.job THEN Launched(a) ELSE @,
                                        !.complete = a # p.job /\ (@ \/ a = p.ends),
                                        !.started = @ \/ a = p.starts,
                                        !.request = IF a = p.request THEN p.outcome ELSE @]
<1>1. tower' = [a \in Actions |-> moved(a)]
  BY DEF Apply
<1>2. ASSUME NEW a \in Actions
      PROVE  /\ moved(a) \in Tower /\ moved(a).ended = tower[a].ended
             /\ moved(a).job = IF a = p.job THEN Launched(a) ELSE tower[a].job
  <2> DEFINE j == IF a = p.job THEN Launched(a) ELSE tower[a].job
             c == a # p.job /\ (tower[a].complete \/ a = p.ends)
             s == tower[a].started \/ a = p.starts
             r == IF a = p.request THEN p.outcome ELSE tower[a].request
  <2>1. tower[a] \in Tower
    BY DEF IInv, Sound, Types
  <2>2. j \in JobStatuses \cup {"none", "running"} /\ c \in BOOLEAN /\ s \in BOOLEAN
        /\ r \in {"none", "successful", "error"}
    BY <2>1, LaunchedType DEF Patches
  <2>3. moved(a) = [tower[a] EXCEPT !.job = j, !.complete = c, !.started = s, !.request = r]
    BY <2>1
  <2> HIDE DEF j, c, s, r, moved
  <2>4. moved(a) \in Tower /\ moved(a).ended = tower[a].ended /\ moved(a).job = j
    BY <2>1, <2>2, <2>3
  <2> QED BY <2>4 DEF j
<1> HIDE DEF moved, Tower
<1> QED BY <1>1, <1>2 DEF Towers, Tower

\* A patch merged into the subject.
LEMMA MergedType ==
    ASSUME IInv, NEW p \in Patches
    PROVE  /\ Merged(p) \in Subjects
           /\ Merged(p).state = IF p.state = KeepState THEN subj.state ELSE p.state
           /\ Merged(p).vars.edit <= used.request
           /\ subj.uuid => Merged(p).uuid
<1>1. subj \in Subjects /\ subj.vars.edit <= used.request
  BY DEF IInv, Sound, Types, Subjects
<1>2. /\ snap.vars \in [edit : 0..MaxRequests, forensics : BOOLEAN]
      /\ snap.vars.edit <= used.request
  BY DEF IInv, Sound, Types
<1> DEFINE v == IF p.vars = "keep" THEN subj.vars
                ELSE [edit |-> snap.vars.edit, forensics |-> subj.vars.forensics \/ p.vars = "forensics"]
<1>3. v \in [edit : 0..MaxRequests, forensics : BOOLEAN] /\ v.edit <= used.request
  BY <1>1, <1>2 DEF Subjects
<1>4. Merged(p).vars = v
  BY <1>1 DEF Merged, Subjects
<1>5. /\ Merged(p).state = IF p.state = KeepState THEN subj.state ELSE p.state
      /\ Merged(p).state \in SubjectStates
  BY <1>1 DEF Merged, Subjects, Patches
<1>7. Merged(p).uuid \in BOOLEAN /\ (subj.uuid => Merged(p).uuid)
  BY <1>1 DEF Merged, Subjects, Patches
<1>10. Merged(p) \in Subjects
  <2> DEFINE st == IF p.state = KeepState THEN subj.state ELSE p.state
             de == IF p.desired = "keep" THEN subj.desired ELSE p.desired
             cs == IF p.css = "keep" THEN subj.css ELSE p.css
             uu == subj.uuid \/ p.uuid
  <2>1. st \in SubjectStates /\ uu \in BOOLEAN
    BY <1>1 DEF Subjects, Patches
  <2>2. de \in {"started", "stopped", "destroyed"} /\ cs \in JobStatuses \cup {"none", "pending", "running"}
    BY <1>1 DEF Subjects, Patches, JobStatuses
  <2>3. Merged(p) = [subj EXCEPT !.state = st, !.desired = de, !.css = cs, !.vars = v, !.uuid = uu]
    BY <1>1 DEF Merged, Subjects
  <2> HIDE DEF st, de, cs, uu, v
  <2> QED BY <1>1, <1>3, <2>1, <2>2, <2>3 DEF Subjects
<1> HIDE DEF v
<1> QED BY <1>3, <1>4, <1>5, <1>7, <1>10

\* A patch.  The first recorded provision job makes a destroy job due, but no farewell
\* records one.
LEMMA SubjectUpdateOK == ASSUME IInv, SubjectUpdate PROVE Sound'
<1> DEFINE p == Head(todo).patch
<1>1. todo # <<>> /\ Head(todo).op = "patch" /\ p \in Patches
  BY HeadOK DEF SubjectUpdate, At, Calls
<1>2. Went
  BY <1>1, DoesOK DEF SubjectUpdate, Does
<1>3. UNCHANGED <<acts, stuck, callbacks, placement, power, token, gone, run>>
  BY DEF SubjectUpdate, anarchy, sandbox
<1>4. /\ Plain(todo) => (p.state \in DestroyFailures => tower["destroy"].ended)
      /\ Plain(todo) => Plain(todo')
      /\ ~Plain(todo) => p.job = "keep" /\ p.state \notin DestroyFailures
  <2>1. Plain(todo) => (p.state \in DestroyFailures => tower["destroy"].ended)
    BY <1>1 DEF Plain, Allowed, PatchesOf
  <2>2. ~Plain(todo) => p.job = "keep" /\ p.state \notin DestroyFailures
    BY <1>1 DEF IInv, Sound, TodoOK, Farewell, Parting
  <2> QED BY <1>1, <2>1, <2>2, PlainStep DEF SubjectUpdate, Does
<1>5. KeepState \notin DestroyFailures /\ "keep" \notin Actions
      /\ "destroy" \in Actions /\ "provision" \in Actions
  BY DEF KeepState, DestroyFailures, Failure, FailureStatuses, Actions
<1>6. ASSUME Apply(p) PROVE Sound'
  <2>1. /\ tower' \in Towers
        /\ \A a \in Actions : /\ tower'[a].ended = tower[a].ended
                              /\ tower'[a].job = IF a = p.job THEN Launched(a) ELSE tower[a].job
    BY <1>1, <1>6, ApplyTower
  <2>2. /\ subj' \in Subjects /\ subj'.vars.edit <= used.request
        /\ subj'.state = IF p.state = KeepState THEN subj.state ELSE p.state
        /\ subj.uuid => subj'.uuid
    BY <1>1, <1>6, MergedType DEF Apply
  <2>3. events' \subseteq {"create", "update", "delete"}
    BY <1>6 DEF Apply, IInv, Sound, Types
  <2>4. Types'
    BY <1>1, <1>2, <1>3, <2>1, <2>2, <2>3, StepFacts
       DEF IInv, Sound, Types, Towers, Subjects, Went, Counters
  <2>5. Consistent'
    <3>1. \A a \in Actions : tower'[a].job \in JobStatuses => tower'[a].ended
      BY <2>1, LaunchedType DEF IInv, Sound, Consistent
    <3>2. subj'.state \in DestroyFailures => tower'["destroy"].ended
      BY <1>4, <1>5, <2>1, <2>2 DEF IInv, Sound, Consistent
    <3> QED BY <1>1, <1>2, <1>3, <1>5, <2>1, <2>2, <3>1, <3>2, StepFacts
            DEF IInv, Sound, Consistent, MayBook, Careful
  <2>6. TodoOK(todo)'
    <3>1. MayBook => MayBook'
      BY <2>2 DEF MayBook
    <3>2. CASE Plain(todo)
      <4>1. todo' \in Seq(Allowed(MayBook, tower["destroy"].ended, Actions))
        BY <1>4, <3>2 DEF Plain
      <4>2. todo' \in Seq(Allowed(MayBook', tower'["destroy"].ended, Actions))
        BY <1>5, <2>1, <3>1, <4>1, MoreAllowed
      <4> QED BY <4>2 DEF TodoOK, Plain
    <3>3. CASE ~Plain(todo)
      <4>1. Undone' => Undone
        BY <1>4, <1>5, <2>1, <3>3 DEF Undone
      <4> QED BY <1>2, <1>3, <1>5, <2>1, <3>1, <4>1, TodoStable DEF Went
    <3> QED BY <3>2, <3>3
  <2> QED BY <1>1, <1>2, <1>3, <2>4, <2>5, <2>6, StepFacts DEF IInv, Sound, Gone
<1>7. CASE UNCHANGED <<subject, orphans>>
  <2>1. UNCHANGED <<subj, tower, events>>
    BY <1>7 DEF subject
  <2> QED BY <1>1, <1>2, <1>3, <2>1, QuietTypes, HandlerStepOK DEF Went
<1> QED BY <1>6, <1>7 DEF SubjectUpdate, Does

\* Every call of a handler.
LEMMA HandlerOK == ASSUME IInv, HandlerStep PROVE Sound'
BY SubjectUpdateOK, ScheduleActionOK, LaunchJobOK, CancelJobsOK, PollJobOK, GetPlacementOK,
   GetBookedOK, CheckQueueOK, BookPlacementOK, PowerPlacementOK, AwaitRequestOK,
   ReleasePlacementOK, PostResultOK
   DEF HandlerStep

\* A step beside the runner.
LEMMA EnvironmentOK ==
    ASSUME IInv, ~gone, UNCHANGED <<gone, run, snap, todo>>, Types', Consistent',
           MayBook => MayBook', tower["destroy"].ended => tower'["destroy"].ended,
           Undone' => Undone, placement = "absent" => placement' = "absent"
    PROVE  Sound'
<1>1. TodoOK(todo)'
  BY TodoStable DEF IInv, Sound
<1> QED BY <1>1 DEF IInv, Sound, Gone

\* A job that ends and is not recorded is one fewer of them.
LEMMA OrphanEndFacts ==
    ASSUME IInv, NEW a \in Actions, OrphanEnds(a)
    PROVE  /\ orphans[a].running > 0 /\ orphans'[a].running = orphans[a].running - 1
           /\ orphans' \in [Actions -> [running : Nat, ended : JobStatuses \cup {"none"}]]
           /\ \A b \in Actions \ {a} : orphans'[b] = orphans[b]
           /\ orphans'[a].ended # orphans[a].ended =>
                 InHand(a) /\ orphans'[a].ended \in JobStatuses
<1> DEFINE Orphan == [running : Nat, ended : JobStatuses \cup {"none"}]
<1>0. orphans \in [Actions -> Orphan] /\ orphans[a] \in Orphan
  BY DEF IInv, Counted
<1>1. orphans[a].ended \in JobStatuses \cup {"none"} /\ orphans[a].running \in Nat
  BY <1>0
<1>2. PICK status \in JobStatuses, inHand \in BOOLEAN :
        /\ orphans[a].running > IF InHand(a) /\ ~inHand THEN 1 ELSE 0
        /\ inHand => InHand(a)
        /\ orphans' = [orphans EXCEPT
               ![a] = [running |-> orphans[a].running - 1,
                       ended |-> IF inHand THEN status ELSE orphans[a].ended]]
  BY DEF OrphanEnds
<1> DEFINE e == IF inHand THEN status ELSE orphans[a].ended
           o == [running |-> orphans[a].running - 1, ended |-> e]
<1>3. /\ e \in JobStatuses \cup {"none"} /\ orphans[a].running > 0
      /\ e # orphans[a].ended => InHand(a) /\ e \in JobStatuses
  BY <1>1, <1>2
<1>4. orphans' = [orphans EXCEPT ![a] = o]
  BY <1>2
<1> HIDE DEF e
<1>5. o \in Orphan /\ o.running = orphans[a].running - 1 /\ o.ended = e
  BY <1>1, <1>3
<1> HIDE DEF o, Orphan
<1>6. orphans' \in [Actions -> Orphan] /\ \A b \in Actions \ {a} : orphans'[b] = orphans[b]
  BY <1>0, <1>4, <1>5
<1>7. orphans'[a] = o
  BY <1>0, <1>4
<1> QED BY <1>3, <1>5, <1>6, <1>7 DEF Orphan

\* What the end of a job leaves: the job ended, and it is the recorded one or another.
LEMMA EndFacts ==
    ASSUME IInv, NEW a \in Actions, JobEnds(a) \/ OrphanEnds(a)
    PROVE  /\ ~gone
           /\ UNCHANGED <<subj, prev, events, acts, stuck, placement, power, token, gone, run, snap, todo>>
           /\ tower' \in Towers /\ tower'[a].ended
           /\ \A b \in Actions \ {a} : tower'[b] = tower[b]
           /\ /\ tower'[a].complete = tower[a].complete
              /\ tower'[a].started = tower[a].started
              /\ tower'[a].request = tower[a].request
           /\ JobEnds(a) => tower[a].job = "running" /\ tower'[a].job \in JobStatuses /\ orphans' = orphans
           /\ OrphanEnds(a) => tower'[a].job = tower[a].job
           /\ used' \in Counters
           /\ used'.request = used.request /\ used'.fault = used.fault
           /\ used'.failure >= used.failure /\ used'.stray >= used.stray
           /\ \/ callbacks' = callbacks /\ used'.callback = used.callback
              \/ \E status \in JobStatuses :
                    /\ callbacks' = callbacks \cup {Callback(a, status)}
                    /\ acts[a] > 0
                    /\ used'.callback = used.callback + 1
                    /\ status # "successful" => used'.failure > used.failure
                    /\ JobEnds(a) => tower'[a].job = status
                    /\ OrphanEnds(a) => used'.stray > used.stray
           /\ tower'[a].job # tower[a].job /\ tower'[a].job # "successful" => used'.failure > used.failure
<1>1. PICK status \in JobStatuses, called \in BOOLEAN, stray \in BOOLEAN :
        /\ JobEnded(a, status, called)
        /\ used' = Used(status, called, stray)
        /\ JobEnds(a) => /\ tower[a].job = "running" /\ orphans' = orphans
                         /\ tower' = [tower EXCEPT ![a].job = status, ![a].ended = TRUE]
        /\ OrphanEnds(a) => stray /\ tower' = [tower EXCEPT ![a].ended = TRUE]
  <2>1. CASE JobEnds(a) /\ ~OrphanEnds(a)
    BY <2>1 DEF JobEnds
  <2>2. CASE OrphanEnds(a) /\ ~JobEnds(a)
    BY <2>2 DEF OrphanEnds
  <2>3. ~(JobEnds(a) /\ OrphanEnds(a))
    <3>1. JobEnds(a) => orphans' = orphans
      BY DEF JobEnds
    <3>2. OrphanEnds(a) => orphans'[a].running = orphans[a].running - 1 /\ orphans[a].running \in Nat
      BY OrphanEndFacts DEF IInv, Counted
    <3> QED BY <3>1, <3>2
  <2> QED BY <2>1, <2>2, <2>3
<1>2. /\ UNCHANGED <<subj, prev, events, acts, stuck, placement, power, token, gone, run, snap, todo>>
      /\ ~gone /\ (called => acts[a] > 0)
      /\ callbacks' = IF called THEN callbacks \cup {Callback(a, status)} ELSE callbacks
  BY <1>1 DEF JobEnded, anarchy, sandbox, runner
<1>3. tower \in Towers
  BY DEF IInv, Sound, Types, Towers
<1>4. /\ tower' \in Towers /\ tower'[a].ended
      /\ \A b \in Actions \ {a} : tower'[b] = tower[b]
      /\ JobEnds(a) => tower'[a].job = status
      /\ OrphanEnds(a) => tower'[a].job = tower[a].job
      /\ tower'[a].complete = tower[a].complete
      /\ tower'[a].started = tower[a].started /\ tower'[a].request = tower[a].request
  <2> DEFINE Records == [job : JobStatuses \cup {"none", "running"}, complete : BOOLEAN,
                        started : BOOLEAN, request : {"none", "successful", "error"},
                        ended : BOOLEAN]
             j == IF JobEnds(a) THEN status ELSE tower[a].job
             ended == [tower[a] EXCEPT !.job = j, !.ended = TRUE]
  <2>1. /\ tower' \in Towers /\ tower'[a] = ended
        /\ \A b \in Actions \ {a} : tower'[b] = tower[b]
    <3>1. tower' = [tower EXCEPT ![a] = ended]
      BY <1>1, <1>3 DEF Towers
    <3>2. tower[a] \in Records
      BY <1>3 DEF Towers
    <3>3. ended \in Records
      BY <3>2
    <3>4. tower \in [Actions -> Records] /\ Towers = [Actions -> Records]
      BY <1>3 DEF Towers
    <3> HIDE DEF ended, Records
    <3> QED BY <3>1, <3>3, <3>4
  <2>2. /\ ended.ended = TRUE /\ ended.job = j /\ ended.complete = tower[a].complete
        /\ ended.started = tower[a].started /\ ended.request = tower[a].request
    BY <1>3 DEF Towers
  <2>3. OrphanEnds(a) => ~JobEnds(a) \/ j = tower[a].job
    <3>1. tower' = [tower EXCEPT ![a] = ended] /\ tower[a] \in Records
      BY <1>1, <1>3 DEF Towers
    <3>2. OrphanEnds(a) => tower'[a] = [tower[a] EXCEPT !.ended = TRUE]
      BY <1>1, <1>3 DEF Towers
    <3>3. OrphanEnds(a) => tower'[a].job = tower[a].job
      <4>1. [tower[a] EXCEPT !.ended = TRUE].job = tower[a].job
        BY <1>3 DEF Towers
      <4> HIDE DEF ended, j, Records
      <4> QED BY <3>2, <4>1
    <3> HIDE DEF ended, j
    <3> QED BY <2>1, <2>2, <3>3
  <2> HIDE DEF ended
  <2> QED BY <2>1, <2>2, <2>3
<1>5. /\ used' \in Counters
      /\ used'.request = used.request /\ used'.fault = used.fault
      /\ used'.callback = IF called THEN used.callback + 1 ELSE used.callback
      /\ used'.stray = IF called /\ stray THEN used.stray + 1 ELSE used.stray
      /\ used'.failure = IF status = "successful" THEN used.failure ELSE used.failure + 1
      /\ used.callback \in Nat /\ used.stray \in Nat /\ used.failure \in Nat
  <2>1. used \in Counters
    BY DEF IInv, Sound, Types, Counters
  <2> DEFINE m == IF called THEN used.callback + 1 ELSE used.callback
             k == IF called /\ stray THEN used.stray + 1 ELSE used.stray
             n == IF status = "successful" THEN used.failure ELSE used.failure + 1
  <2>2. m \in Nat /\ n \in Nat /\ k \in Nat
    BY <2>1 DEF Counters
  <2>3. used' = [used EXCEPT !.callback = m, !.stray = k, !.failure = n]
    BY <1>1, <2>1 DEF Counters, Used
  <2>4. /\ used' \in Counters
        /\ used'.request = used.request /\ used'.fault = used.fault
        /\ used'.callback = m /\ used'.stray = k /\ used'.failure = n
    <3> HIDE DEF m, n, k
    <3> QED BY <2>1, <2>2, <2>3 DEF Counters
  <2> QED BY <2>1, <2>4 DEF Counters
<1>6. /\ JobEnds(a) => tower[a].job = "running" /\ tower'[a].job \in JobStatuses /\ orphans' = orphans
      /\ tower'[a].job # tower[a].job /\ tower'[a].job # "successful" => used'.failure > used.failure
  BY <1>1, <1>4, <1>5
<1>7. /\ used'.failure >= used.failure /\ used'.stray >= used.stray
      /\ status # "successful" => used'.failure > used.failure
      /\ called => used'.callback = used.callback + 1
      /\ called /\ stray => used'.stray > used.stray
  BY <1>5
<1> QED BY <1>1, <1>2, <1>4, <1>5, <1>6, <1>7

\* A job ends, and calls back.
LEMMA JobEndsOK ==
    ASSUME IInv, NEW a \in Actions, JobEnds(a) \/ OrphanEnds(a) PROVE Sound'
<1>1. /\ UNCHANGED <<subj, events, acts, stuck, placement, power, token, gone, run, snap, todo>>
      /\ ~gone /\ tower' \in Towers /\ tower'[a].ended
      /\ \A b \in Actions \ {a} : tower'[b] = tower[b]
      /\ tower'[a].job = "none" => tower[a].job = "none"
      /\ used' \in Counters /\ used'.request = used.request
  <2>1. "none" \notin JobStatuses
    BY DEF JobStatuses, FailureStatuses
  <2> QED BY <2>1, EndFacts
<1>2. callbacks' = callbacks \/ \E status \in JobStatuses : callbacks' = callbacks \cup {Callback(a, status)}
  BY EndFacts
<1>6. callbacks' \subseteq CallbackRuns /\ \A c \in callbacks' : c \in callbacks \/ c.name = a
  <2>1. \A status \in JobStatuses : Callback(a, status) \in CallbackRuns /\ Callback(a, status).name = a
    BY DEF CallbackRuns, Callback
  <2> QED BY <1>2, <2>1 DEF IInv, Sound, Types
<1>7. Types'
  BY <1>1, <1>6 DEF IInv, Sound, Types, Towers, Counters
<1>8. /\ "destroy" \in Actions /\ "provision" \in Actions
      /\ tower["destroy"].ended => tower'["destroy"].ended
      /\ tower["provision"].job = "none" <=> tower'["provision"].job = "none"
  <2>1. JobEnds(a) => tower[a].job = "running"
    BY DEF JobEnds
  <2>2. OrphanEnds(a) => tower'[a].job = tower[a].job
    BY EndFacts
  <2> QED BY <1>1, <2>1, <2>2 DEF Actions
<1>9. Consistent'
  <2>1. \A b \in Actions : tower'[b].job \in JobStatuses => tower'[b].ended
    BY <1>1 DEF IInv, Sound, Consistent
  <2>3. \A c \in callbacks' \cup {run'} :
           c.kind = "callback" /\ c.name = "destroy" => tower'["destroy"].ended
    BY <1>1, <1>6, <1>8 DEF IInv, Sound, Consistent
  <2> QED BY <1>1, <1>8, <2>1, <2>3 DEF IInv, Sound, Consistent, MayBook, Careful
<1>10. Undone' => Undone
  BY <1>1, <1>8 DEF Undone
<1> QED BY <1>1, <1>7, <1>8, <1>9, <1>10, EnvironmentOK DEF MayBook

\* The placement moves on, or a request of it ends.
LEMMA SandboxMovesOK == ASSUME IInv, PlacementMoves \/ RequestEnds PROVE Sound'
<1>1. /\ UNCHANGED <<subj, tower, acts, stuck, events, callbacks, token, gone, run, snap, todo>>
      /\ ~gone
  BY DEF PlacementMoves, RequestEnds, subject, anarchy, runner
<1>2. /\ placement' \in PlacementStatuses
      /\ placement' = "absent" <=> placement = "absent"
  BY DEF PlacementMoves, RequestEnds, PlacementStatuses, NotReady, IInv, Sound, Types
<1>3. power' \in [on : BOOLEAN, requests : Seq({"start", "stop"}), ended : {"success", "failed"}]
  <2>1. power \in [on : BOOLEAN, requests : Seq({"start", "stop"}), ended : {"success", "failed"}]
    BY QuietTypes
  <2>2. ASSUME power.requests # <<>> PROVE Tail(power.requests) \in Seq({"start", "stop"})
    BY <2>1, <2>2
  <2> DEFINE on == Head(power.requests) = "start"
  <2>3. on \in BOOLEAN
    OBVIOUS
  <2>4. \/ power' = power
        \/ /\ power.requests # <<>>
           /\ \E b \in {on, power.on}, e \in {"success", "failed"} :
                 power' = [on |-> b, ended |-> e, requests |-> Tail(power.requests)]
    <3> HIDE DEF on
    <3> QED BY DEF PlacementMoves, RequestEnds, on
  <2> HIDE DEF on
  <2> QED BY <2>1, <2>2, <2>3, <2>4
<1>4. used' \in Counters /\ used'.request = used.request
  <2>1. used \in Counters
    BY DEF IInv, Sound, Types, Counters
  <2>2. used' = used \/ Spend("failure", MaxFailures)
    BY DEF PlacementMoves, RequestEnds
  <2> QED BY <2>1, <2>2, SpendOK
<1>5. Types'
  BY <1>1, <1>2, <1>3, <1>4 DEF IInv, Sound, Types, Counters
<1>6. Consistent'
  BY <1>1, <1>2 DEF IInv, Sound, Consistent, MayBook, Careful
<1> QED BY <1>1, <1>2, <1>5, <1>6, EnvironmentOK DEF MayBook, Undone

\* The login token goes, which Careful rules out.
LEMMA TokenVanishesOK == ASSUME IInv, TokenVanishes PROVE Sound'
<1>1. /\ UNCHANGED <<subj, tower, acts, stuck, events, callbacks, placement, power, gone, run,
                     snap, todo, used>>
      /\ ~gone /\ token' = FALSE /\ TokenMayVanish
  BY DEF TokenVanishes, subject, anarchy, sandbox, runner
<1>2. Types'
  <2>1. token' \in BOOLEAN
    BY <1>1
  <2> QED BY <1>1, <2>1 DEF IInv, Sound, Types
<1>3. Consistent'
  BY <1>1 DEF IInv, Sound, Consistent, MayBook, Careful
<1> QED BY <1>1, <1>2, <1>3, EnvironmentOK DEF MayBook, Undone

\* A request of the user.
LEMMA RequestOK ==
    ASSUME IInv, NEW new, Request(new), new \in [state : SubjectStates,
                 desired : {"started", "stopped", "destroyed"},
                 css : JobStatuses \cup {"none", "pending", "running"},
                 vars : [edit : Nat, forensics : BOOLEAN],
                 uuid : BOOLEAN, deleting : BOOLEAN, asked : Nat],
           new.vars.edit <= used.request + 1, new.state = subj.state, new.uuid = subj.uuid
    PROVE  Sound'
<1>1. /\ UNCHANGED <<tower, acts, stuck, callbacks, placement, power, token, gone, run, snap, todo>>
      /\ ~gone /\ subj' = new /\ events' = events \cup {"update"}
  BY DEF Request, anarchy, sandbox, runner
<1>2. used' \in Counters /\ used'.request = used.request + 1
  <2>1. used \in Counters
    BY DEF IInv, Sound, Types, Counters
  <2>2. used' = [used EXCEPT !.request = @ + 1] /\ used.request < MaxRequests
    BY <2>1 DEF Request, Spend, Counters
  <2> QED BY <2>1, <2>2, LifecycleAssumption DEF Counters
<1>3. subj' \in Subjects /\ subj'.vars.edit <= used'.request
  <2>1. new.vars.edit \in 0..MaxRequests
    BY <1>2, LifecycleAssumption DEF Counters
  <2>2. new.vars \in [edit : 0..MaxRequests, forensics : BOOLEAN]
    BY <2>1
  <2> QED BY <1>1, <1>2, <2>2 DEF Subjects
<1>4. snap'.vars.edit <= used'.request
  <2>1. snap.vars.edit <= used.request /\ snap' = snap
    BY <1>1 DEF IInv, Sound, Types
  <2>2. snap.vars.edit \in Nat /\ used.request \in Nat
    BY LifecycleAssumption DEF IInv, Sound, Types, Subjects, Counters
  <2> QED BY <1>2, <2>1, <2>2
<1>5. Types'
  BY <1>1, <1>2, <1>3, <1>4 DEF IInv, Sound, Types, Subjects, Counters
<1>6. Consistent'
  BY <1>1 DEF IInv, Sound, Consistent, MayBook, Careful
<1> QED BY <1>1, <1>5, <1>6, EnvironmentOK DEF MayBook, Undone

\* The user edits, starts, stops, asks or deletes.
LEMMA UserOK ==
    ASSUME IInv, EditJobVars \/ SetDesiredState \/ AskStatus \/ DeleteSubject PROVE Sound'
<1>1. /\ subj \in Subjects /\ subj.vars.edit <= used.request
      /\ used.request \in Nat /\ 0..MaxRequests \subseteq Nat
  BY LifecycleAssumption DEF IInv, Sound, Types, Subjects
<1>2. CASE EditJobVars
  <2>1. Request([subj EXCEPT !.vars.edit = @ + 1])
    BY <1>2 DEF EditJobVars
  <2> QED BY <1>1, <2>1, RequestOK DEF Subjects
<1>3. CASE SetDesiredState
  <2>1. PICK want \in {"started", "stopped"} : Request([subj EXCEPT !.desired = want])
    BY <1>3 DEF SetDesiredState
  <2> QED BY <1>1, <2>1, RequestOK DEF Subjects
<1>4. CASE AskStatus
  <2>1. Request([subj EXCEPT !.asked = @ + 1])
    BY <1>4 DEF AskStatus
  <2> QED BY <1>1, <2>1, RequestOK DEF Subjects
<1>5. CASE DeleteSubject
  <2>1. /\ UNCHANGED <<tower, acts, stuck, callbacks, placement, power, token, gone, run, snap,
                       todo, used>>
        /\ ~gone /\ subj' = [subj EXCEPT !.deleting = TRUE] /\ events' = events \cup {"delete"}
    BY <1>5 DEF DeleteSubject, anarchy, sandbox, runner
  <2>2. /\ subj' \in Subjects /\ subj'.vars = subj.vars
        /\ subj'.state = subj.state /\ subj'.uuid = subj.uuid
    BY <1>1, <2>1 DEF Subjects
  <2>3. Types'
    BY <2>1, <2>2 DEF IInv, Sound, Types, Subjects
  <2>4. Consistent'
    BY <2>1, <2>2 DEF IInv, Sound, Consistent, MayBook, Careful
  <2> QED BY <2>1, <2>2, <2>3, <2>4, EnvironmentOK DEF MayBook, Undone
<1> QED BY <1>2, <1>3, <1>4, <1>5

\* The jobs that are not recorded stay counted, and only a launch makes them more
\* without a record.
LEMMA OrphanSteps ==
    ASSUME IInv, [Next]_vars
    PROVE  /\ Counted'
           /\ \A a \in Actions : Launches(a) => LaunchJob /\ Head(todo).act = a
<1> DEFINE Orphan == [running : Nat, ended : JobStatuses \cup {"none"}]
<1>0. orphans \in [Actions -> Orphan] /\ \A a \in Actions : orphans[a].ended # "none" => tower[a].ended
  BY DEF IInv, Counted
<1>1. ASSUME orphans' = orphans, \A a \in Actions : tower[a].ended => tower'[a].ended
      PROVE  Counted' /\ \A a \in Actions : ~Launches(a)
  BY <1>0, <1>1 DEF Counted, Launches
<1>2. CASE LaunchJob
  <2> DEFINE b == Head(todo).act
             o == [running |-> orphans[b].running + 1, ended |-> "none"]
  <2>1. (orphans' = [orphans EXCEPT ![b] = o] \/ orphans' = orphans) /\ tower' = tower
    BY <1>2 DEF LaunchJob, Does, subject
  <2>2. CASE orphans' = [orphans EXCEPT ![b] = o]
    <3>1. o \in Orphan \/ b \notin Actions
      BY <1>0
    <3> HIDE DEF b, o, Orphan
    <3>2. \A a \in Actions : orphans'[a] = IF a = b THEN o ELSE orphans[a]
      BY <1>0, <2>2
    <3>3. orphans' \in [Actions -> Orphan]
      BY <1>0, <2>2, <3>1
    <3>4. \A a \in Actions : orphans'[a].ended # "none" => tower'[a].ended
      <4>1. o.ended = "none"
        BY DEF o
      <4> QED BY <1>0, <2>1, <3>2, <4>1
    <3>5. \A a \in Actions : Launches(a) => a = b
      BY <1>0, <3>2 DEF Launches, Orphan
    <3> QED BY <1>2, <3>3, <3>4, <3>5 DEF Counted, Orphan, b
  <2> QED BY <1>1, <2>1, <2>2
<1>3. CASE SubjectUpdate
  <2> DEFINE p == Head(todo).patch
  <2>1. Apply(p) \/ UNCHANGED <<subject, orphans>>
    BY <1>3 DEF SubjectUpdate, Does
  <2>2. CASE Apply(p)
    <3>1. p \in Patches
      BY <1>3, HeadOK DEF SubjectUpdate, At, Calls
    <3>2. /\ \A a \in Actions : /\ tower'[a].ended = tower[a].ended
                                 /\ tower'[a].job = IF a = p.job THEN Launched(a) ELSE tower[a].job
          /\ tower \in Towers
      BY <2>2, <3>1, ApplyTower DEF IInv, Sound, Types, Towers
    <3>3. orphans' = [a \in Actions |-> IF a = p.job THEN Recorded(a) ELSE orphans[a]]
      BY <2>2 DEF Apply
    <3>4. \A a \in Actions : Recorded(a) \in Orphan /\ Recorded(a).ended = "none"
      BY <1>0 DEF Recorded
    <3>5. Counted'
      <4> HIDE DEF p
      <4> QED BY <1>0, <3>2, <3>3, <3>4 DEF Counted
    <3>6. ASSUME NEW a \in Actions PROVE ~Launches(a)
      <4> SUFFICES ASSUME tower' = tower, a = p.job PROVE ~(orphans'[a].running > orphans[a].running)
        BY <1>0, <3>3 DEF Launches, subject
      <4>1. tower[a].job = Launched(a)
        BY <3>2
      <4>2. tower[a].job = "running" => orphans[a].ended = "none"
        BY <1>0, <4>1 DEF Launched, JobStatuses, FailureStatuses
      <4>3. Recorded(a).running = orphans[a].running
        BY <1>0, <4>1, <4>2 DEF Recorded, Launched
      <4> QED BY <1>0, <3>3, <4>3
    <3> QED BY <3>5, <3>6
  <2> QED BY <1>1, <2>1, <2>2 DEF subject
<1>4. CASE HandlerStep /\ ~LaunchJob /\ ~SubjectUpdate
  <2>1. orphans' = orphans
    BY <1>4 DEF HandlerStep, ScheduleAction, CancelJobs, PollJob, GetPlacement, GetBooked,
       CheckQueue, BookPlacement, PowerPlacement, AwaitRequest, ReleasePlacement, PostResult
  <2>2. CASE CancelJobs
    <3>1. tower' = tower \/ tower' = Canceled(Head(todo).act)
      BY <2>2 DEF CancelJobs, Does
    <3>2. \A a, b : b \in Actions /\ tower[b].ended => Canceled(a)[b].ended
      <4> SUFFICES ASSUME NEW a, NEW b \in Actions, tower[b].ended PROVE Canceled(a)[b].ended
        OBVIOUS
      <4>1. tower[b] \in [job : JobStatuses \cup {"none", "running"}, complete : BOOLEAN,
                          started : BOOLEAN, request : {"none", "successful", "error"}, ended : BOOLEAN]
        BY DEF IInv, Sound, Types
      <4>2. [tower[b] EXCEPT !.job = "canceled", !.ended = TRUE].ended = TRUE
        BY <4>1
      <4> QED BY <4>2 DEF Canceled
    <3> QED BY <1>1, <2>1, <3>1, <3>2
  <2>3. CASE ~CancelJobs
    <3>1. tower' = tower
      BY <1>4, <2>3 DEF HandlerStep, ScheduleAction, PollJob, GetPlacement, GetBooked,
         CheckQueue, BookPlacement, PowerPlacement, AwaitRequest, ReleasePlacement, PostResult, subject
    <3> QED BY <1>1, <2>1, <3>1
  <2> QED BY <2>2, <2>3
<1>5. CASE DispatchNext \/ Abandon \/ UNCHANGED vars
  <2>1. orphans' = orphans /\ tower' = tower
    BY <1>5 DEF DispatchNext, DispatchRun, Abandon, vars, subject
  <2> QED BY <1>1, <2>1
<1>6. CASE Environment
  <2>1. ASSUME NEW a \in Actions, JobEnds(a) \/ OrphanEnds(a)
        PROVE  Counted' /\ \A b \in Actions : ~Launches(b)
    <3>1. tower'[a].ended /\ \A b \in Actions \ {a} : tower'[b] = tower[b]
      BY <2>1, EndFacts
    <3>2. CASE JobEnds(a)
      <4>1. orphans' = orphans
        BY <3>2 DEF JobEnds
      <4> QED BY <1>1, <3>1, <4>1
    <3>3. CASE OrphanEnds(a)
      <4>1. /\ orphans' \in [Actions -> Orphan] /\ orphans'[a].running < orphans[a].running
            /\ \A b \in Actions \ {a} : orphans'[b] = orphans[b]
        <5>1. orphans[a].running \in Nat
          BY <1>0
        <5> QED BY <3>3, <5>1, OrphanEndFacts
      <4>2. ASSUME NEW b \in Actions PROVE ~Launches(b)
        <5> HIDE DEF Orphan
        <5>1. orphans'[b].running \in Nat /\ orphans[b].running \in Nat
          BY <1>0, <4>1 DEF Orphan
        <5>2. CASE b = a
          BY <4>1, <5>1, <5>2 DEF Launches
        <5>3. CASE b # a
          BY <4>1, <5>1, <5>3 DEF Launches
        <5> QED BY <5>2, <5>3
      <4> HIDE DEF Orphan
      <4> QED BY <1>0, <3>1, <4>1, <4>2 DEF Counted, Orphan
    <3> QED BY <2>1, <3>2, <3>3
  <2>2. CASE ~\E a \in Actions : JobEnds(a) \/ OrphanEnds(a)
    <3>1. orphans' = orphans /\ tower' = tower
      BY <1>6, <2>2 DEF Environment, PlacementMoves, RequestEnds, TokenVanishes, EditJobVars,
         SetDesiredState, AskStatus, Request, DeleteSubject, subject
    <3> QED BY <1>1, <3>1
  <2> QED BY <2>1, <2>2
<1> QED BY <1>2, <1>3, <1>4, <1>5, <1>6 DEF Next

\* Every step keeps IInv.
LEMMA NextOK == IInv /\ [Next]_vars => IInv'
<1> SUFFICES ASSUME IInv, [Next]_vars PROVE Sound'
  BY OrphanSteps DEF IInv
<1>1. CASE Next
  BY <1>1, DispatchRunOK, HandlerOK, AbandonOK, JobEndsOK, SandboxMovesOK, TokenVanishesOK, UserOK
     DEF Next, DispatchNext, Environment
<1>2. CASE UNCHANGED vars
  <2>1. UNCHANGED <<subj, tower, acts, stuck, events, callbacks, placement, power, token, gone,
                    run, snap, todo, used>>
    BY <1>2 DEF vars
  <2>2. Types' /\ Consistent'
    BY <2>1 DEF IInv, Sound, Types, Consistent, MayBook, Careful
  <2>3. TodoOK(todo)'
    BY <2>1, TodoStable DEF IInv, Sound, MayBook, Undone
  <2> QED BY <2>1, <2>2, <2>3 DEF IInv, Sound, Gone, Undone, Careful
<1> QED BY <1>1, <1>2

\* IInv is an invariant.
THEOREM Invariance == Spec => []IInv
BY InitOK, NextOK, PTL DEF Spec

(***************************************************************************)
(* The theorems.                                                           *)
(***************************************************************************)

\* The subject, the jobs, the queues and the calls of a handler stay within their
\* types, whatever the governor, the faults and the user's requests.
THEOREM TypeCorrect == Spec => []TypeOK
<1>1. IInv => TypeOK
  <2> SUFFICES ASSUME IInv PROVE TypeOK
    OBVIOUS
  <2>1. \A i \in DOMAIN todo : todo[i] \in Calls
    <3>1. todo \in Seq(Calls)
      BY MoreCalls DEF IInv, Sound, TodoOK, Plain, Farewell
    <3> QED BY <3>1
  <2>2. power.on \in BOOLEAN /\ \A i \in DOMAIN power.requests : power.requests[i] \in {"start", "stop"}
    BY QuietTypes
  <2> QED BY <2>1, <2>2 DEF IInv, Sound, Types, TypeOK
<1> QED BY <1>1, Invariance, PTL

\* A deleted subject leaves no placement behind, for every governor that releases
\* placements (sandboxDestroyCatchAll) and keeps its login token: every handler
\* that posts the directive to delete releases before, and whatever is repeated or
\* cut off in between, the post is not reached without the release.
THEOREM NothingLeaks ==
    ASSUME SandboxInUse => CatchAll, ~TokenMayVanish
    PROVE  Spec => []NoPlacementLeak
<1>1. Careful
  BY DEF Careful
<1>2. IInv => NoPlacementLeak
  BY <1>1 DEF IInv, Sound, Gone, NoPlacementLeak
<1> QED BY <1>2, Invariance, PTL

\* A subject with a recorded provision job is not deleted before a destroy job of it
\* came to an end, for every governor with an enabled destroy action.
THEOREM DestroyJobFirst == Spec => []DestroyedFirst
<1>1. IInv => DestroyedFirst
  BY DEF IInv, Sound, Gone, Undone, DestroyedFirst
<1> QED BY <1>1, Invariance, PTL

(***************************************************************************)
(* Facts about calls and steps that the proofs about Lifecycle share.      *)
(***************************************************************************)
\* The empty patch.
LEMMA NoPatchIs ==
    /\ NoPatch \in Patches /\ NoPatch.state = KeepState /\ NoPatch.job = "keep"
    /\ NoPatch.request = "keep" /\ NoPatch.css = "keep" /\ NoPatch.uuid = FALSE
BY DEF NoPatch, Patches, KeepState

\* A call without a patch, and one with it.
LEMMA CallIs ==
    ASSUME NEW op \in Ops, NEW a \in Actions \cup {"none", "all", "finish", "continue", "delete"},
           NEW f \in OnErrors
    PROVE  /\ Call(op, a, f) \in Calls
           /\ Call(op, a, f).op = op /\ Call(op, a, f).act = a /\ Call(op, a, f).onError = f
           /\ Call(op, a, f).patch = NoPatch /\ Call(op, a, f).cancel = {} /\ ~Call(op, a, f).traced
BY NoPatchIs DEF Call, Calls, Ops, OnErrors

\* A call with a patch.
LEMMA PatchIs ==
    ASSUME NEW p \in Patches
    PROVE  /\ Patch(p) \in Calls /\ Patch(p).op = "patch" /\ Patch(p).patch = p
           /\ Patch(p).onError = "fail" /\ ~Patch(p).traced
BY NoPatchIs DEF Patch, Call, Calls, Actions

\* A patch marked to be exempt from update processing says the same as without the mark.
LEMMA SkipIs ==
    ASSUME NEW p \in Patches
    PROVE  /\ [p EXCEPT !.skip = TRUE] \in Patches
           /\ [p EXCEPT !.skip = TRUE].state = p.state /\ [p EXCEPT !.skip = TRUE].job = p.job
           /\ [p EXCEPT !.skip = TRUE].request = p.request
           /\ [p EXCEPT !.skip = TRUE].outcome = p.outcome
BY DEF Patches

\* A patch that is exempt from update processing.
LEMMA SkipPatchIs ==
    ASSUME NEW p \in Patches
    PROVE  /\ SkipPatch(p) \in Calls /\ SkipPatch(p).op = "patch" /\ ~SkipPatch(p).traced
           /\ SkipPatch(p).onError = "fail"
           /\ SkipPatch(p).patch.state = p.state /\ SkipPatch(p).patch.job = p.job
           /\ SkipPatch(p).patch.request = p.request /\ SkipPatch(p).patch.outcome = p.outcome
<1> DEFINE q == [p EXCEPT !.skip = TRUE]
           d == Patch(q)
<1>1. q \in Patches /\ q.state = p.state /\ q.job = p.job /\ q.request = p.request /\ q.outcome = p.outcome
  BY SkipIs
<1> HIDE DEF q
<1>2. d \in Calls /\ d.op = "patch" /\ d.patch = q /\ d.onError = "fail" /\ ~d.traced
  BY <1>1, PatchIs
<1>3. d = SkipPatch(p)
  BY DEF SkipPatch, q
<1> HIDE DEF d
<1> QED BY <1>1, <1>2, <1>3

\* A call that does something else about an error.
LEMMA OnErrorIs ==
    ASSUME NEW d \in Calls, NEW f \in OnErrors
    PROVE  LET c == [d EXCEPT !.onError = f]
           IN  /\ c \in Calls /\ c.op = d.op /\ c.traced = d.traced /\ c.patch = d.patch
               /\ c.act = d.act /\ c.onError = f
BY DEF Calls, OnErrors

\* A call that records no job is repeated as it is.
LEMMA RepeatedSame ==
    ASSUME todo \in Seq(Calls), todo # <<>>, todo[1].patch.job = "keep" PROVE Repeated = todo
<1> DEFINE c == [todo[1] EXCEPT !.patch.job = "keep"]
<1>1. todo[1] \in Calls
  OBVIOUS
<1>2. c = todo[1]
  BY <1>1 DEF Calls, Patches
<1>3. Repeated = [todo EXCEPT ![1] = c]
  BY DEF Repeated
<1> HIDE DEF c
<1> QED BY <1>2, <1>3

\* What is left after a call, and how it is known that none failed.
LEMMA Moves ==
    ASSUME IInv, todo # <<>>, Succeeds \/ TroubleWith(Repeated) \/ Trouble
    PROVE  /\ todo' \in {Tail(todo), Repeated, todo, Recovery(Head(todo), Tail(todo))}
           /\ used'.fault = 0 => todo' = Tail(todo) /\ used.fault = 0
           /\ todo' # <<>> => snap' = snap
<1>1. used.fault \in Nat
  BY DEF IInv, Sound, Types
<1>2. CASE Succeeds
  BY <1>2 DEF Succeeds, Continue
<1>3. ASSUME NEW again \in {todo, Repeated}, TroubleWith(again)
      PROVE  /\ todo' \in {again, Recovery(Head(todo), Tail(todo))}
             /\ used'.fault # 0 /\ (todo' # <<>> => snap' = snap)
  <2>1. used'.fault = used.fault + 1
    BY <1>3 DEF TroubleWith, Spend, IInv, Sound, Types
  <2> QED BY <1>1, <1>3, <2>1 DEF TroubleWith, Continue
<1> QED BY <1>2, <1>3 DEF Trouble

\* Trouble is a fault.
LEMMA NoFault ==
    ASSUME IInv, used'.fault = 0
    PROVE  ~Trouble /\ ~TroubleWith(Repeated) /\ ~Spend("fault", MaxFaults)
<1>1. used.fault \in Nat /\ (Spend("fault", MaxFaults) => used'.fault = used.fault + 1)
  BY DEF Spend, IInv, Sound, Types
<1> QED BY <1>1 DEF Trouble, TroubleWith

\* A fault is never taken back.
LEMMA FaultsStay == ASSUME IInv, [Next]_vars, used'.fault = 0 PROVE used.fault = 0
<1> DEFINE f == used.fault
<1>1. f \in Nat /\ \A what, limit : Spend(what, limit) => used'.fault \in {f, f + 1}
  BY DEF Spend, IInv, Sound, Types
<1>2. \A again : TroubleWith(again) => used'.fault \in {f, f + 1}
  BY <1>1 DEF TroubleWith
<1> SUFFICES used'.fault \in {f, f + 1}
  BY <1>1
<1>3. CASE HandlerStep \/ Abandon
  BY <1>1, <1>2, <1>3 DEF HandlerStep, SubjectUpdate, ScheduleAction, LaunchJob, CancelJobs, PollJob,
     GetPlacement, GetBooked, CheckQueue, BookPlacement, PowerPlacement, AwaitRequest,
     ReleasePlacement, PostResult, Abandon, Does, Succeeds, Trouble
<1>4. CASE DispatchNext
  BY <1>4 DEF DispatchNext, DispatchRun
<1>5. CASE Environment
  <2>1. \A a \in Actions : JobEnds(a) \/ OrphanEnds(a) => used'.fault = f
    BY EndFacts
  <2>2. \A new : Request(new) => used'.fault \in {f, f + 1}
    BY <1>1 DEF Request
  <2> QED BY <1>1, <1>5, <2>1, <2>2 DEF Environment, PlacementMoves, RequestEnds, TokenVanishes,
             EditJobVars, SetDesiredState, AskStatus, DeleteSubject
<1> QED BY <1>3, <1>4, <1>5 DEF Next, vars

\* What a patch says of a request to the sandbox API is recorded.
LEMMA ApplyRequest ==
    ASSUME IInv, NEW p \in Patches, Apply(p)
    PROVE  \A a \in Actions :
              tower'[a].request = IF a = p.request THEN p.outcome ELSE tower[a].request
<1> SUFFICES ASSUME NEW a \in Actions
             PROVE  tower'[a].request = IF a = p.request THEN p.outcome ELSE tower[a].request
  OBVIOUS
<1>1. tower[a] \in [job : JobStatuses \cup {"none", "running"}, complete : BOOLEAN, started : BOOLEAN,
                    request : {"none", "successful", "error"}, ended : BOOLEAN]
  BY DEF IInv, Sound, Types, Towers
<1>2. \A job, complete, started, request :
         [tower[a] EXCEPT !.job = job, !.complete = complete, !.started = started,
                          !.request = request].request = request
  BY <1>1
<1>3. tower'[a] = [tower[a] EXCEPT !.job = IF a = p.job THEN Launched(a) ELSE @,
                                   !.complete = a # p.job /\ (@ \/ a = p.ends),
                                   !.started = @ \/ a = p.starts,
                                   !.request = IF a = p.request THEN p.outcome ELSE @]
  BY DEF Apply
<1> QED BY <1>1, <1>2, <1>3

\* The user and the placement leave actions and runs alone.
LEMMA UserKeeps ==
    ASSUME IInv,
           PlacementMoves \/ TokenVanishes \/ EditJobVars \/ SetDesiredState \/ AskStatus \/ DeleteSubject
    PROVE  UNCHANGED <<acts, run, todo, power, callbacks, tower>> /\ subj'.state = subj.state
<1>1. subj \in Subjects
  BY DEF IInv, Sound, Types, Subjects
<1>2. CASE PlacementMoves \/ TokenVanishes
  BY <1>2 DEF PlacementMoves, TokenVanishes, subject, anarchy, sandbox, runner
<1>3. CASE EditJobVars \/ SetDesiredState \/ AskStatus
  <2>1. \E new : Request(new) /\ new.state = subj.state
    <3>1. CASE EditJobVars
      BY <1>1, <3>1 DEF EditJobVars, Subjects
    <3>2. CASE AskStatus
      BY <1>1, <3>2 DEF AskStatus, Subjects
    <3>3. CASE SetDesiredState
      <4>1. PICK want : Request([subj EXCEPT !.desired = want])
        BY <3>3 DEF SetDesiredState
      <4> QED BY <1>1, <4>1 DEF Subjects
    <3> QED BY <1>3, <3>1, <3>2, <3>3
  <2> QED BY <2>1 DEF Request, anarchy, sandbox, runner
<1>4. CASE DeleteSubject
  BY <1>1, <1>4 DEF DeleteSubject, anarchy, sandbox, runner, Subjects
<1> QED BY <1>2, <1>3, <1>4

\* A call that is in trouble, and one that is not, keep the payload while calls are left.
LEMMA SnapKept ==
    ASSUME HandlerStep \/ Abandon
    PROVE  todo # <<>> /\ token' = token /\ (todo' # <<>> => snap' = snap)
<1>1. ASSUME Succeeds \/ TroubleWith(Repeated) \/ Trouble PROVE todo' # <<>> => snap' = snap
  <2>1. \E rest : Continue(rest)
    BY <1>1 DEF Succeeds, Trouble, TroubleWith
  <2> QED BY <2>1 DEF Continue
<1>2. CASE SubjectUpdate \/ ScheduleAction \/ LaunchJob \/ CancelJobs
  <2>1. Succeeds \/ TroubleWith(Repeated) \/ Trouble
    BY <1>2 DEF SubjectUpdate, ScheduleAction, LaunchJob, CancelJobs, Does
  <2> QED BY <1>1, <1>2, <2>1 DEF SubjectUpdate, ScheduleAction, LaunchJob, CancelJobs, At
<1>3. CASE PollJob \/ GetPlacement \/ GetBooked \/ CheckQueue
  <2>1. Trouble \/ \E rest : Continue(rest)
    BY <1>3 DEF PollJob, GetPlacement, GetBooked, CheckQueue
  <2> QED BY <1>1, <1>3, <2>1 DEF PollJob, GetPlacement, GetBooked, CheckQueue, At, Continue
<1>4. CASE BookPlacement \/ PowerPlacement \/ AwaitRequest
  <2>1. Trouble \/ \E rest : Continue(rest)
    BY <1>4 DEF BookPlacement, PowerPlacement, AwaitRequest
  <2> QED BY <1>1, <1>4, <2>1 DEF BookPlacement, PowerPlacement, AwaitRequest, At, Continue
<1>5. CASE ReleasePlacement \/ PostResult \/ Abandon
  <2>1. Succeeds \/ TroubleWith(Repeated) \/ Trouble \/ \E rest : Continue(rest)
    BY <1>5 DEF ReleasePlacement, PostResult, Abandon, Does
  <2> QED BY <1>1, <1>5, <2>1 DEF ReleasePlacement, PostResult, Abandon, At, Continue
<1> QED BY <1>2, <1>3, <1>4, <1>5 DEF HandlerStep

\* Sequences of a few elements, put together.
LEMMA Tuple2 == ASSUME NEW a, NEW b PROVE <<a>> \o <<b>> = <<a, b>>
<1> DEFINE s == <<a>> \o <<b>>
           t == <<a, b>>
           S == {a, b}
<1>1. <<a>> \in Seq(S) /\ <<b>> \in Seq(S) /\ t \in Seq(S)
  OBVIOUS
<1>2. s \in Seq(S) /\ Len(s) = 2 /\ Len(t) = 2 /\ s[1] = t[1] /\ s[2] = t[2]
  BY <1>1
<1>3. \A i \in 1..2 : i = 1 \/ i = 2
  OBVIOUS
<1> HIDE DEF s, t, S
<1> QED BY <1>1, <1>2, <1>3, SeqEqual DEF s, t

\* An element ahead of two.
LEMMA Tuple3 == ASSUME NEW a, NEW b, NEW c PROVE <<a>> \o <<b, c>> = <<a, b, c>>
<1> DEFINE s == <<a>> \o <<b, c>>
           t == <<a, b, c>>
           S == {a, b, c}
<1>1. <<a>> \in Seq(S) /\ <<b, c>> \in Seq(S) /\ t \in Seq(S)
  OBVIOUS
<1>2. /\ s \in Seq(S) /\ Len(s) = 3 /\ Len(t) = 3
      /\ s[1] = t[1] /\ s[2] = t[2] /\ s[3] = t[3]
  BY <1>1
<1>3. \A i \in 1..3 : i = 1 \/ i = 2 \/ i = 3
  OBVIOUS
<1> HIDE DEF s, t, S
<1> QED BY <1>1, <1>2, <1>3, SeqEqual DEF s, t

\* An element ahead of three.
LEMMA Tuple4 == ASSUME NEW a, NEW b, NEW c, NEW d PROVE <<a>> \o <<b, c, d>> = <<a, b, c, d>>
<1> DEFINE s == <<a>> \o <<b, c, d>>
           t == <<a, b, c, d>>
           S == {a, b, c, d}
<1>1. <<a>> \in Seq(S) /\ <<b, c, d>> \in Seq(S) /\ t \in Seq(S)
  OBVIOUS
<1>2. /\ s \in Seq(S) /\ Len(s) = 4 /\ Len(t) = 4
      /\ s[1] = t[1] /\ s[2] = t[2] /\ s[3] = t[3] /\ s[4] = t[4]
  BY <1>1
<1>3. \A i \in 1..4 : i = 1 \/ i = 2 \/ i = 3 \/ i = 4
  OBVIOUS
<1> HIDE DEF s, t, S
<1> QED BY <1>1, <1>2, <1>3, SeqEqual DEF s, t

\* Two elements ahead of others.
LEMMA Tuple22 ==
    ASSUME NEW a, NEW b, NEW c, NEW d PROVE <<a, b>> \o <<c, d>> = <<a, b, c, d>>
<1> DEFINE s == <<a, b>> \o <<c, d>>
           t == <<a, b, c, d>>
           S == {a, b, c, d}
<1>1. <<a, b>> \in Seq(S) /\ <<c, d>> \in Seq(S) /\ t \in Seq(S)
  OBVIOUS
<1>2. /\ s \in Seq(S) /\ Len(s) = 4 /\ Len(t) = 4
      /\ s[1] = t[1] /\ s[2] = t[2] /\ s[3] = t[3] /\ s[4] = t[4]
  BY <1>1
<1>3. \A i \in 1..4 : i = 1 \/ i = 2 \/ i = 3 \/ i = 4
  OBVIOUS
<1> HIDE DEF s, t, S
<1> QED BY <1>1, <1>2, <1>3, SeqEqual DEF s, t

(***************************************************************************)
(* The refinement, and where provision jobs are launched.                  *)
(*                                                                         *)
(* Lifecycle implements SubjectLife, for every governor with sandboxes     *)
(* that destroys what it provisioned and releases the placement, and for   *)
(* every number of faults, of requests and of queued actions.  And a       *)
(* provision job is launched on a placement that is ready, for every       *)
(* governor with sandboxes, if look-ups show what was just booked.         *)
(*                                                                         *)
(* IInv says which calls a handler may have left.  It does not say that a  *)
(* placement is held when a provision job is recorded, nor that the user   *)
(* wants the subject deleted when a destroy job is, or when the placement  *)
(* is released.  RInv adds that: a handler that would launch or record a   *)
(* provision job either has a placement already or is still to look for it *)
(* (Working), and the ones that take leave (Leaving), and all that leads   *)
(* to them, belong to a subject that is being deleted (Known).             *)
(***************************************************************************)

\* There is something to destroy, and the user wants it destroyed.
Due == subj.deleting /\ tower["provision"].job # "none"

\* Of destroy and provision, the actions that may be launched in this state: provision
\* on a placement, one that is ready if look-ups are not stale.  With a placement it
\* may be looked up once more.  MayOnce: the same once the subject has its placement.
May == {a \in Actions \cup {"reget"} :
          /\ a = "destroy" => Due
          /\ a \in {"provision", "reget"} => placement # "absent"
          /\ a = "provision" /\ ~StaleLookups => placement = "success"}
MayOnce == May \cup {"provision"}

\* The calls of a handler with the jobs of J.
Ours(J) == Allowed(MayBook, tower["destroy"].ended, J)

\* The rest of a handler that does not delete: a provision job is recorded only
\* where there is a placement, or after it was looked for.
Working(s) ==
    /\ s \in Seq(Ours(MayOnce))
    /\ \/ s \in Seq(Ours(May))
       \/ \E n \in 1..Len(s) : Looks(s[n]) /\ \A j \in 1..n : s[j] \in Ours(May)

\* The rest of a handler that deletes.
Leaving(s) == s \in Seq(Parting) /\ ~Undone /\ subj.deleting

\* What leads to the deletion of a subject comes of the user's wish.
Known ==
    /\ "delete" \in events => subj.deleting
    /\ run.name = "delete" => subj.deleting
    /\ acts["destroy"] > 0 => Due
    /\ \A c \in callbacks \cup {run} : c.name = "destroy" => Due
    /\ tower["destroy"].job # "none" => Due
    /\ orphans["destroy"].running > 0 => Due

\* The invariant that goes with IInv.
RInv == Known /\ (Working(todo) \/ Leaving(todo))

(***************************************************************************)
(* The calls that are left.                                                *)
(***************************************************************************)
\* What may be done may be done with a placement.
LEMMA OursMore ==
    /\ May \subseteq MayOnce
    /\ Ours(May) \subseteq Ours(MayOnce) /\ Seq(Ours(May)) \subseteq Seq(Ours(MayOnce))
    /\ "provision" \in May => MayOnce = May
<1>1. May \subseteq MayOnce /\ ("provision" \in May => MayOnce = May)
  BY ActionNames DEF May, MayOnce
<1> QED BY <1>1, MoreAllowed DEF Ours

\* What may be done at once may be done.
LEMMA SeqWorks == ASSUME NEW s \in Seq(Ours(May)) PROVE Working(s)
BY OursMore DEF Working

\* After a look.
LEMMA LookWorks ==
    ASSUME NEW c \in Ours(May), Looks(c), NEW s \in Seq(Ours(MayOnce)) PROVE Working(<<c>> \o s)
<1> DEFINE r == <<c>> \o s
<1>1. r \in Seq(Ours(MayOnce)) /\ 1 \in 1..Len(r) /\ r[1] = c
  BY OursMore
<1> HIDE DEF r
<1>2. \A j \in 1..1 : r[j] \in Ours(May)
  BY <1>1
<1> QED BY <1>1, <1>2 DEF Working, r

\* After what may be done at once.
LEMMA ConcatWorks ==
    ASSUME NEW t \in Seq(Ours(May)), NEW s, Working(s) PROVE Working(t \o s)
<1> DEFINE r == t \o s
<1>1. s \in Seq(Ours(MayOnce)) /\ t \in Seq(Ours(MayOnce))
  BY OursMore DEF Working
<1>2. /\ r \in Seq(Ours(MayOnce)) /\ Len(r) = Len(t) + Len(s)
      /\ Len(t) \in Nat /\ Len(s) \in Nat
      /\ \A i \in 1..Len(t) : r[i] = t[i]
      /\ \A i \in 1..Len(s) : r[i + Len(t)] = s[i]
  BY <1>1
<1>3. CASE s \in Seq(Ours(May))
  BY <1>3, SeqWorks, Concat
<1>4. ASSUME NEW n \in 1..Len(s), Looks(s[n]), \A j \in 1..n : s[j] \in Ours(May)
      PROVE  Working(r)
  <2>1. n + Len(t) \in 1..Len(r) /\ Looks(r[n + Len(t)])
    BY <1>2, <1>4
  <2>2. ASSUME NEW j \in 1..(n + Len(t)) PROVE r[j] \in Ours(May)
    <3>1. CASE j <= Len(t)
      BY <1>2, <3>1
    <3>2. CASE j > Len(t)
      <4>1. j - Len(t) \in 1..n /\ (j - Len(t)) \in 1..Len(s) /\ (j - Len(t)) + Len(t) = j
        BY <1>2, <3>2
      <4>2. r[(j - Len(t)) + Len(t)] = s[j - Len(t)]
        BY <1>2, <4>1
      <4> QED BY <1>4, <4>1, <4>2
    <3> QED BY <1>2, <3>1, <3>2
  <2> HIDE DEF r
  <2> QED BY <1>2, <2>1, <2>2 DEF Working
<1> QED BY <1>3, <1>4 DEF Working

\* The first call may be made at once.
LEMMA HeadWorks ==
    ASSUME NEW s, Working(s), s # <<>>
    PROVE  Head(s) \in Ours(May) /\ Tail(s) \in Seq(Ours(MayOnce))
<1>1. s \in Seq(Ours(MayOnce)) /\ 1 \in 1..Len(s) /\ Head(s) = s[1]
  BY DEF Working
<1>2. s[1] \in Ours(May)
  BY <1>1 DEF Working
<1> QED BY <1>1, <1>2

\* The others once provision may be launched, or when the first was no look.
LEMMA TailWorks ==
    ASSUME NEW s, Working(s), s # <<>>, "provision" \in May \/ ~Looks(Head(s))
    PROVE  Working(Tail(s))
<1>1. /\ s \in Seq(Ours(MayOnce)) /\ Tail(s) \in Seq(Ours(MayOnce))
      /\ Len(Tail(s)) = Len(s) - 1 /\ Len(s) \in Nat
      /\ \A i \in 1..Len(Tail(s)) : Tail(s)[i] = s[i + 1]
      /\ Head(s) = s[1]
  BY DEF Working
<1>2. CASE "provision" \in May \/ s \in Seq(Ours(May))
  <2>1. Tail(s) \in Seq(Ours(May))
    BY <1>1, <1>2, OursMore
  <2> QED BY <2>1, SeqWorks
<1>3. ASSUME ~Looks(Head(s)), NEW n \in 1..Len(s), Looks(s[n]), \A j \in 1..n : s[j] \in Ours(May)
      PROVE  Working(Tail(s))
  <2>1. n - 1 \in 1..Len(Tail(s)) /\ Tail(s)[n - 1] = s[n]
    BY <1>1, <1>3
  <2>2. ASSUME NEW j \in 1..(n - 1) PROVE Tail(s)[j] \in Ours(May)
    BY <1>1, <1>3
  <2> QED BY <1>1, <1>3, <2>1, <2>2 DEF Working
<1> QED BY <1>2, <1>3 DEF Working

\* After a call that failed.
LEMMA RecoveryWorks ==
    ASSUME Working(todo), todo # <<>>
    PROVE  /\ Working(Handled(Head(todo), Tail(todo)))
           /\ Working(Recovery(Head(todo), Tail(todo)))
<1> DEFINE c == Head(todo)
           h == Handled(Head(todo), Tail(todo))
           S == Seq(Ours(May))
<1>1. c \in Ours(May)
  BY HeadWorks
<1>2. c.onError \in OnErrors /\ (Looks(c) => c.onError = "provisionError" /\ ~c.traced)
  BY <1>1 DEF Ours, Allowed, Calls, OnErrors
<1>3. Post("continue") \in S /\ Post("finish") \in S /\ handleProvisionError \in S /\ <<>> \in S
  BY PostType, handleProvisionErrorType DEF Ours
<1>4. ~Looks(c) => Working(Tail(todo))
  BY TailWorks
<1>5. Working(h)
  <2>1. \A s \in S : Working(s)
    BY SeqWorks
  <2> HIDE DEF c, S
  <2> QED BY <1>2, <1>3, <1>4, <2>1 DEF Handled, OnErrors, c
<1>6. c.traced => recordSandboxActionFailure(c.act) \in S
  <2>1. c.traced => c.act \in {"start", "stop"}
    BY <1>1 DEF Ours, Allowed
  <2>2. \A a \in {"start", "stop"} : recordSandboxActionFailure(a) \in S
    BY PowerType DEF OnErrors, Ours
  <2> QED BY <2>1, <2>2
<1>7. Working(Recovery(c, Tail(todo)))
  <2>1. (IF c.traced THEN recordSandboxActionFailure(c.act) ELSE <<>>) \in S
    <3> HIDE DEF c, S
    <3> QED BY <1>3, <1>6
  <2>2. Recovery(c, Tail(todo)) = (IF c.traced THEN recordSandboxActionFailure(c.act) ELSE <<>>) \o h
    BY DEF Recovery
  <2> HIDE DEF c, h
  <2> QED BY <1>5, <2>1, <2>2, ConcatWorks
<1> QED BY <1>5, <1>7

\* Before a call that is made once more.
LEMMA RepeatedWorks == ASSUME Working(todo), todo # <<>> PROVE Working(Repeated)
<1> DEFINE c == [todo[1] EXCEPT !.patch.job = "keep"]
<1>1. \A J : todo[1] \in Ours(J) => c \in Ours(J)
  BY DEF Ours, Allowed, Calls, Patches, Deleting, PatchesOf, Looks
<1>2. /\ todo \in Seq(Ours(MayOnce)) /\ 1 \in 1..Len(todo) /\ Head(todo) = todo[1]
      /\ Head(todo) \in Ours(May) /\ todo[1] \in Ours(MayOnce)
  BY HeadWorks, OursMore DEF Working
<1>3. Looks(todo[1]) => Looks(c)
  BY <1>2 DEF Ours, Allowed, Calls, Looks
<1>4. Repeated = [todo EXCEPT ![1] = c]
  BY DEF Repeated
<1> HIDE DEF c
<1>5. /\ Repeated \in Seq(Ours(MayOnce)) /\ Len(Repeated) = Len(todo)
      /\ Repeated[1] = c /\ \A i \in 2..Len(todo) : Repeated[i] = todo[i]
      /\ todo \in Seq(Ours(May)) => Repeated \in Seq(Ours(May))
  BY <1>1, <1>2, <1>4
<1>6. ASSUME NEW n \in 1..Len(todo), Looks(todo[n]), \A j \in 1..n : todo[j] \in Ours(May)
      PROVE  Looks(Repeated[n]) /\ \A j \in 1..n : Repeated[j] \in Ours(May)
  <2>1. c \in Ours(May)
    BY <1>1, <1>2
  <2>2. \A j \in 1..n : j = 1 \/ j \in 2..Len(todo)
    BY <1>2
  <2> QED BY <1>3, <1>5, <1>6, <2>1, <2>2
<1> QED BY <1>5, <1>6 DEF Working

\* A handler that takes leave does so whatever becomes of its calls.
LEMMA LeavingWorks ==
    ASSUME Leaving(todo), todo # <<>>
    PROVE  /\ Head(todo) \in Parting
           /\ Leaving(Tail(todo)) /\ Leaving(Repeated) /\ Leaving(<<>>)
           /\ Leaving(Recovery(Head(todo), Tail(todo)))
<1>1. todo \in Seq(Parting) /\ Head(todo) \in Parting /\ Tail(todo) \in Seq(Parting)
  BY DEF Leaving
<1>2. Repeated \in Seq(Parting)
  <2> DEFINE c == [todo[1] EXCEPT !.patch.job = "keep"]
  <2>1. c \in Parting
    <3>1. todo[1] \in Parting
      BY <1>1
    <3> QED BY <3>1 DEF Parting, Calls, Patches
  <2>2. Repeated = [todo EXCEPT ![1] = c]
    BY DEF Repeated
  <2> HIDE DEF c
  <2> QED BY <1>1, <2>1, <2>2
<1>3. Recovery(Head(todo), Tail(todo)) \in {Tail(todo), <<>>}
  <2> DEFINE c == Head(todo)
             h == Handled(c, Tail(todo))
  <2>1. h = IF c.op = "cancel" THEN Tail(todo) ELSE <<>>
    BY <1>1 DEF Handled, Parting
  <2>2. Recovery(c, Tail(todo)) = <<>> \o h
    <3>1. ~c.traced
      BY <1>1 DEF Parting
    <3> HIDE DEF c
    <3> QED BY <3>1 DEF Recovery, c
  <2>3. h \in Seq(Parting)
    <3> HIDE DEF h
    <3> QED BY <1>1, <2>1
  <2> HIDE DEF c, h
  <2>4. <<>> \o h = h
    BY <2>3, ConcatEmptySeq
  <2> QED BY <2>1, <2>2, <2>4 DEF c
<1>4. <<>> \in Seq(Parting)
  OBVIOUS
<1> QED BY <1>1, <1>2, <1>3, <1>4 DEF Leaving

\* Nothing left to do.
LEMMA EmptyWorks == Working(<<>>)
<1>1. \A S : <<>> \in Seq(S)
  OBVIOUS
<1> QED BY <1>1, SeqWorks

\* What RInv says of the calls that are left.
Right(s) == Working(s) \/ Leaving(s)

\* After a call in trouble, and after one that is no look and was made or repeated.
LEMMA DoesWorks ==
    ASSUME Right(todo), todo # <<>>,
           \/ Trouble
           \/ ~Looks(Head(todo)) /\ (Succeeds \/ TroubleWith(Repeated))
    PROVE  Right(todo') /\ (Working(todo) => Working(todo'))
<1>1. Working(todo) => /\ Working(Recovery(Head(todo), Tail(todo))) /\ Working(Repeated)
                       /\ ~Looks(Head(todo)) => Working(Tail(todo))
  BY RecoveryWorks, RepeatedWorks, TailWorks
<1>2. Leaving(todo) => /\ Leaving(Recovery(Head(todo), Tail(todo))) /\ Leaving(Repeated)
                       /\ Leaving(Tail(todo))
  BY LeavingWorks
<1>3. \/ todo' = todo \/ todo' = Repeated \/ todo' = Recovery(Head(todo), Tail(todo))
      \/ todo' = Tail(todo) /\ ~Looks(Head(todo))
  BY DEF Trouble, TroubleWith, Succeeds, Continue
<1> QED BY <1>1, <1>2, <1>3 DEF Right

\* What is left stays right while the rest of the state moves on.
LEMMA WorkingStable ==
    ASSUME Working(todo'), MayBook => MayBook', May \subseteq May',
           tower["destroy"].ended => tower'["destroy"].ended
    PROVE  Working(todo)'
<1>1. MayOnce \subseteq MayOnce'
  BY DEF MayOnce
<1>2. /\ Ours(May) \subseteq Ours(May)'
      /\ Seq(Ours(May)) \subseteq Seq(Ours(May)')
      /\ Seq(Ours(MayOnce)) \subseteq Seq(Ours(MayOnce)')
  BY <1>1, MoreAllowed DEF Ours
<1> QED BY <1>2 DEF Working

(***************************************************************************)
(* The handlers.                                                           *)
(***************************************************************************)
\* Provision looks for its placement.
LEMMA ProvisionWorks ==
    ASSUME SandboxInUse, NEW s, s.uuid => MayBook
    PROVE  /\ \A st \in PlacementStatuses : Working(queueChecked(st, s))
           /\ Working(handleProvision(s))
<1> DEFINE S == Seq(Ours(May))
<1>1. Working(runProvision(s))
  <2> DEFINE first == IF "provision" \in s.started THEN <<>>
                      ELSE <<Patch([NoPatch EXCEPT !.starts = "provision"])>>
             get == Call("get", "provision", "provisionError")
             rest == IF s.uuid /\ s.token THEN <<get>> \o launchProvision ELSE handleProvisionError
  <2>1. [NoPatch EXCEPT !.starts = "provision"] \in PatchesOf(tower["destroy"].ended, May)
    BY NoPatchType DEF PatchesOf, Patches, Actions
  <2>2. first \in S
    <3>1. <<Patch([NoPatch EXCEPT !.starts = "provision"])>> \in S
      BY <2>1, PatchType DEF Ours
    <3> QED BY <3>1
  <2>3. launchProvision \in Seq(Ours(MayOnce))
    BY launchProvisionType DEF Ours, MayOnce
  <2>4. s.uuid => get \in Ours(May) /\ Looks(get)
    <3>1. s.uuid => get \in Ours(May)
      BY CallType, ActionNames DEF Ours, Ops, OnErrors
    <3> QED BY <3>1 DEF Call, Looks
  <2>5. handleProvisionError \in S
    BY handleProvisionErrorType DEF Ours
  <2>6. Working(rest)
    <3> HIDE DEF get
    <3> QED BY <2>3, <2>4, <2>5, LookWorks, SeqWorks
  <2>7. runProvision(s) = first \o rest
    BY DEF runProvision
  <2> HIDE DEF first, rest
  <2> QED BY <2>2, <2>6, <2>7, ConcatWorks
<1>2. handleProvisionError \in S /\ Post("continue") \in S /\ Post("none") \in S
      /\ checkDeployerJob("provision") \in S
  BY handleProvisionErrorType, PostType, PollType, ActionNames DEF Ours
<1>3. ASSUME NEW st \in PlacementStatuses PROVE Working(queueChecked(st, s))
  <2> DEFINE p == [NoPatch EXCEPT !.state = Pending("provision"), !.vars = "same"]
  <2>1. p \in PatchesOf(tower["destroy"].ended, May)
    BY States, NoPatchType DEF PatchesOf, Patches, Actions
  <2> HIDE DEF p
  <2>2. <<SkipPatch(NoPatch)>> \o Post("continue") \in S
    BY <1>2, NoPatchType, PatchType, Concat DEF Ours
  <2>3. <<SkipPatch(p)>> \in S
    BY <2>1, PatchType DEF Ours
  <2>4. Working(<<SkipPatch(p)>> \o runProvision(s))
    BY <1>1, <2>3, ConcatWorks
  <2>5. Working(handleProvisionError) /\ Working(<<SkipPatch(NoPatch)>> \o Post("continue"))
    BY <1>2, <2>2, SeqWorks
  <2> QED BY <2>4, <2>5 DEF queueChecked, PlacementStatuses, NotReady, p
<1>4. Working(checkProvisionQueue(s))
  <2>1. <<Call("checkQueue", "provision", "provisionError")>> \in S
    BY CallType, ActionNames DEF Ours, Ops, OnErrors
  <2> QED BY <1>2, <2>1, SeqWorks DEF checkProvisionQueue
<1>5. Working(handleProvision(s))
  <2>1. Working(Post("none")) /\ Working(checkDeployerJob("provision"))
    BY <1>2, SeqWorks
  <2> QED BY <1>1, <1>4, <2>1 DEF handleProvision
<1> QED BY <1>3, <1>5

\* What it makes of the answer: without a placement it books one, and with one that is
\* not ready it launches nothing.
LEMMA AnswerWorks ==
    ASSUME MayBook, NEW rest \in Seq(Ours(MayOnce)), placement \in PlacementStatuses
    PROVE  Working(placedOrNot(placement, rest))
<1>1. CASE placement = "absent"
  <2> DEFINE book == Call("book", "provision", "provisionError")
  <2>1. book \in Ours(May) /\ Looks(book)
    <3>1. \A u, e : u => book \in Allowed(u, e, May)
      BY CallType, ActionNames DEF Ops, OnErrors
    <3> QED BY <3>1 DEF Call, Looks, Ours
  <2>2. placedOrNot(placement, rest) = <<book>> \o rest
    BY <1>1 DEF placedOrNot, NotReady
  <2> HIDE DEF book
  <2> QED BY <2>1, <2>2, LookWorks
<1>2. CASE placement = "success"
  <2>1. MayOnce = May /\ "provision" \in MayOnce
    BY <1>2, ActionNames, OursMore DEF May, MayOnce
  <2>2. placedOrNot(placement, rest) \in Seq(Ours(May))
    BY <2>1, PlacementAnswerType DEF Ours
  <2> QED BY <2>2, SeqWorks
<1>3. CASE placement \in NotReady \cup {"error"}
  <2>1. transitionToQueued \in Seq(Ours(May)) /\ handleProvisionError \in Seq(Ours(May))
    BY ProvisionOutcomeType, handleProvisionErrorType DEF Ours
  <2>2. placedOrNot(placement, rest) \in {transitionToQueued, handleProvisionError}
    BY <1>3 DEF placedOrNot, NotReady
  <2> QED BY <2>1, <2>2, SeqWorks
<1> QED BY <1>1, <1>2, <1>3 DEF PlacementStatuses

\* The end of a job; a destroy job is one of a subject that is being deleted.
LEMMA OutcomeWorks ==
    ASSUME NEW s, NEW a \in Actions, NEW status \in JobStatuses,
           a = "destroy" => tower["destroy"].ended /\ subj.deleting,
           Careful => s.token, placement # "absent" => MayBook
    PROVE  Right(handleCallback(a, status, s))
<1> DEFINE calls == handleCallback(a, status, s)
<1>1. /\ calls \in Seq(Ours(May)) \/ Farewell(calls)
      /\ a # "destroy" => calls \in Seq(Ours(May))
  BY OutcomeOK DEF TodoFor, Ours
<1> HIDE DEF calls
<1>2. CASE calls \in Seq(Ours(May))
  BY <1>2, SeqWorks DEF Right, calls
<1>3. CASE a = "destroy" /\ Farewell(calls)
  BY <1>3 DEF Right, Leaving, Farewell, calls
<1> QED BY <1>1, <1>2, <1>3

\* A run that leads to the deletion is dispatched for a subject being deleted.
LEMMA DispatchKnown ==
    ASSUME IInv, RInv, NEW r, DispatchRun(r)
    PROVE  /\ r.kind = "callback" => r \in callbacks \cup {run}
           /\ r.name = "delete" => subj.deleting
           /\ r.name = "destroy" => Due
<1>1. events \subseteq {"create", "update", "delete"} /\ callbacks \subseteq CallbackRuns
  BY DEF IInv, Sound, Types
<1>2. \/ \E e \in events : r.name = e /\ r.kind = "event"
      \/ \E a \in Actions : r.name = a /\ acts[a] > 0 /\ r.kind = "action"
      \/ r \in callbacks
      \/ r = run
  BY DEF DispatchRun, Waiting
<1>3. r \in callbacks => r.name \in Actions
  BY <1>1 DEF CallbackRuns
<1>4. r \in EventRuns \cup ActionRuns \cup CallbackRuns
  BY DispatchedRun
<1> QED BY <1>1, <1>2, <1>3, <1>4 DEF RInv, Known, Actions, EventRuns, ActionRuns

\* A handler that is dispatched.
LEMMA DispatchWorks ==
    ASSUME IInv, RInv, SandboxInUse, NEW r, DispatchRun(r) PROVE Right(todo')
<1>1. todo' = Dispatch(r, Payload) /\ r \in EventRuns \cup ActionRuns \cup CallbackRuns
  BY DispatchedRun DEF DispatchRun
<1>2. /\ r.kind = "callback" => r \in callbacks \cup {run}
      /\ r.name = "delete" => subj.deleting
      /\ r.name = "destroy" => Due
  BY DispatchKnown
<1>3. /\ Payload.state = subj.state /\ Payload.uuid = subj.uuid /\ Payload.token = token
      /\ Payload.provisioned <=> tower["provision"].job # "none"
  BY DEF Payload, PayloadOf
<1>4. CASE r.kind = "action" /\ r.name = "provision"
  <2>1. Dispatch(r, Payload) = handleProvision(Payload)
    BY <1>4 DEF Dispatch
  <2> QED BY <1>1, <1>3, <2>1, ProvisionWorks DEF Right, MayBook
<1>5. CASE ~(r.kind = "action" /\ r.name = "provision")
  <2>1. /\ r.name = "destroy" => "destroy" \in May
        /\ r.name = "delete" /\ Payload.provisioned => "destroy" \in May
    BY <1>2, <1>3, ActionNames DEF May, Due
  <2>2. /\ TodoFor(Dispatch(r, Payload), May)
        /\ r.name \notin {"delete", "destroy"} => Dispatch(r, Payload) \in Seq(Ours(May))
    BY <1>1, <1>2, <1>3, <1>5, <2>1, DispatchOK DEF IInv, Sound, Consistent, MayBook, Ours
  <2>3. Dispatch(r, Payload) \in Seq(Ours(May)) \/ (Farewell(Dispatch(r, Payload)) /\ subj.deleting)
    BY <1>2, <2>2 DEF TodoFor, Ours, Due
  <2> QED BY <1>1, <2>3, SeqWorks DEF Right, Leaving, Farewell
<1> QED BY <1>4, <1>5

(***************************************************************************)
(* The actions: each keeps RInv and is a step of SubjectLife or none.      *)
(***************************************************************************)
\* A step of SubjectLife, or none.
Implements == [Life!Next]_(Life!vars)

\* A destroy job runs, recorded or not.
Destroying == tower["destroy"].job = "running" \/ orphans["destroy"].running > 0

\* What SubjectLife does not see.
LEMMA Unseen ==
    ASSUME gone' = gone, subj'.deleting = subj.deleting,
           (placement' # "absent") = (placement # "absent"),
           (tower'["provision"].job # "none") = (tower["provision"].job # "none"),
           Destroying' = Destroying, tower'["destroy"].ended = tower["destroy"].ended
    PROVE  Implements
BY DEF Implements, Life!vars, Destroying

\* What leads to the deletion stays known.
LEMMA KnownStable ==
    ASSUME Known, subj.deleting => subj'.deleting, Due => Due', run' \in {run, NoRun},
           "delete" \in events' => "delete" \in events \/ subj'.deleting,
           acts'["destroy"] > 0 => acts["destroy"] > 0 \/ Due',
           \A c \in callbacks' : c \in callbacks \/ (c.name = "destroy" => Due'),
           tower'["destroy"].job # "none" => tower["destroy"].job # "none" \/ Due',
           orphans'["destroy"].running > 0 => orphans["destroy"].running > 0 \/ Due'
    PROVE  Known'
BY DEF Known, NoRun

\* A call that changes nothing of this.
LEMMA UnseenStep ==
    ASSUME RInv, Right(todo'), UNCHANGED <<subj, tower, events, callbacks, placement, gone, run>>,
           orphans'["destroy"].running = orphans["destroy"].running,
           acts'["destroy"] > 0 => acts["destroy"] > 0 \/ Due
    PROVE  RInv' /\ Implements
<1>1. Implements
  BY Unseen DEF Destroying
<1>2. May' = May /\ MayBook' = MayBook /\ Due' = Due /\ Undone' = Undone
  BY DEF May, MayBook, Due, Undone
<1>3. Known'
  BY <1>2, KnownStable DEF RInv
<1>4. Working(todo') => Working(todo)'
  BY <1>2, WorkingStable
<1>5. Leaving(todo') => Leaving(todo)'
  BY <1>2 DEF Leaving
<1> QED BY <1>1, <1>3, <1>4, <1>5 DEF RInv, Right

\* A handler that makes one of these calls does not delete.
LEMMA HeadIs ==
    ASSUME RInv, todo # <<>>, Head(todo).op \notin {"patch", "cancel", "release", "post"}
    PROVE  /\ Right(todo) /\ Working(todo)
           /\ Head(todo) \in Ours(May) /\ Tail(todo) \in Seq(Ours(MayOnce))
           /\ Head(todo).act \in {"start", "stop"} /\ Head(todo).op \in {"power", "await"}
              => ~Looks(Head(todo))
<1>1. ~Leaving(todo)
  BY LeavingWorks DEF Parting
<1>2. Working(todo)
  BY <1>1 DEF RInv
<1> QED BY <1>2, HeadWorks DEF Right, Looks

\* A run is dispatched.
LEMMA DispatchRefines ==
    ASSUME IInv, RInv, SandboxInUse, NEW r, DispatchRun(r) PROVE RInv' /\ Implements
<1>1. /\ Right(todo')
      /\ r.name = "delete" => subj.deleting
      /\ r.name = "destroy" => Due
  BY DispatchWorks, DispatchKnown
<1>2. /\ run' = r /\ events' \subseteq events /\ callbacks' \subseteq callbacks
      /\ UNCHANGED <<subj, tower, acts, placement, gone, orphans>>
  BY DEF DispatchRun
<1>3. May' = May /\ MayBook' = MayBook /\ Due' = Due /\ Undone' = Undone
  BY <1>2 DEF May, MayBook, Due, Undone
<1>4. Known'
  BY <1>1, <1>2, <1>3 DEF RInv, Known
<1>5. Working(todo') => Working(todo)'
  BY <1>2, <1>3, WorkingStable
<1>6. Leaving(todo') => Leaving(todo)'
  BY <1>2, <1>3 DEF Leaving
<1>7. Implements
  BY <1>2, Unseen DEF Destroying
<1> QED BY <1>1, <1>4, <1>5, <1>6, <1>7 DEF RInv, Right

\* An action is scheduled: destroy only where it is due.
LEMMA ScheduleRefines == ASSUME IInv, RInv, ScheduleAction PROVE RInv' /\ Implements
<1>1. todo # <<>> /\ Head(todo).op = "schedule"
  BY DEF ScheduleAction, At
<1>2. Right(todo')
  <2>1. ~Looks(Head(todo))
    BY <1>1 DEF Looks
  <2> QED BY <1>1, <2>1, HeadIs, DoesWorks DEF ScheduleAction, Does
<1>3. acts'["destroy"] > 0 => acts["destroy"] > 0 \/ Due
  <2>1. Head(todo).act = "destroy" => Due
    <3>1. Head(todo) \in Ours(May)
      BY <1>1, HeadIs
    <3> QED BY <1>1, <3>1 DEF Ours, Allowed, May
  <2>2. \/ acts' = Scheduled(Head(todo).act, Head(todo).cancel)
        \/ acts' = acts
    BY DEF ScheduleAction, Does, anarchy
  <2>3. \A a, C : a # "destroy" /\ Scheduled(a, C)["destroy"] > 0 => acts["destroy"] > 0
    BY ActionNames DEF Scheduled
  <2> QED BY <2>1, <2>2, <2>3
<1>4. UNCHANGED <<subj, tower, events, callbacks, placement, gone, run, orphans>>
  BY DEF ScheduleAction, subject, sandbox
<1> QED BY <1>2, <1>3, <1>4, UnseenStep

\* RInv while jobs, placement and subject move on and the calls stay right.
LEMMA RStable ==
    ASSUME Right(todo'), Known', MayBook => MayBook', May \subseteq May',
           tower["destroy"].ended => tower'["destroy"].ended,
           Leaving(todo') => (Undone' => Undone) /\ subj'.deleting
    PROVE  RInv'
<1>1. Working(todo') => Working(todo)'
  BY WorkingStable
<1>2. Leaving(todo') => Leaving(todo)'
  BY DEF Leaving
<1> QED BY <1>1, <1>2 DEF RInv, Right

\* A job is launched.
LEMMA LaunchRefines == ASSUME IInv, RInv, LaunchJob PROVE RInv' /\ Implements
<1>1. todo # <<>> /\ Head(todo).op = "launch"
  BY DEF LaunchJob, At
<1>2. Right(todo')
  <2>1. ~Looks(Head(todo))
    BY <1>1 DEF Looks
  <2> QED BY <1>1, <2>1, HeadIs, DoesWorks DEF LaunchJob, Does
<1>3. UNCHANGED <<subj, tower, acts, events, callbacks, placement, gone, run>> /\ ~gone
  BY <1>1 DEF LaunchJob, subject, anarchy, sandbox, IInv, Sound, Gone
<1> DEFINE b == Head(todo).act
<1>4. /\ orphans'["destroy"].running # orphans["destroy"].running => b = "destroy"
      /\ orphans'["destroy"].running >= orphans["destroy"].running
      /\ orphans["destroy"].running \in Nat /\ orphans'["destroy"].running \in Nat
  <2>1. \/ orphans' = [orphans EXCEPT ![b] = [running |-> orphans[b].running + 1, ended |-> "none"]]
        \/ orphans' = orphans
    BY DEF LaunchJob, Does
  <2> HIDE DEF b
  <2> QED BY <2>1, ActionNames DEF IInv, Counted
<1>5. CASE orphans'["destroy"].running = orphans["destroy"].running
  BY <1>2, <1>3, <1>5, UnseenStep
<1>6. CASE orphans'["destroy"].running # orphans["destroy"].running
  <2>1. Due
    <3>1. Head(todo) \in Ours(May)
      BY <1>1, HeadIs
    <3> QED BY <1>1, <1>4, <1>6, <3>1 DEF Ours, Allowed, May
  <2>2. May' = May /\ MayBook' = MayBook /\ Due' = Due /\ Undone' = Undone
    BY <1>3 DEF May, MayBook, Due, Undone
  <2>3. Known'
    BY <1>3, <2>1, <2>2, KnownStable DEF RInv
  <2>4. RInv'
    BY <1>2, <1>3, <2>1, <2>2, <2>3, RStable DEF Due
  <2>5. Life!Destroy
    BY <1>3, <1>4, <1>6, <2>1 DEF Life!Destroy, Due
  <2> QED BY <2>4, <2>5 DEF Implements, Life!Next
<1> QED BY <1>5, <1>6

\* A job is polled.
LEMMA PollRefines == ASSUME IInv, RInv, PollJob PROVE RInv' /\ Implements
<1>1. todo # <<>> /\ Head(todo).op = "poll"
  BY DEF PollJob, At
<1>2. Right(todo')
  <2>1. CASE Continue(jobPolled(Head(todo).act, tower[Head(todo).act].job, snap))
    <3> DEFINE a == Head(todo).act
    <3>1. a \in Actions
      BY <1>1, HeadIs DEF Ours, Allowed
    <3>2. /\ tower[a].job \in JobStatuses /\ a = "destroy" => tower["destroy"].ended /\ subj.deleting
          /\ Careful => snap.token
          /\ placement # "absent" => MayBook
      BY <1>1, <3>1 DEF IInv, Sound, Consistent, RInv, Known, Due, JobStatuses, FailureStatuses
    <3>3. Right(Post("continue"))
      <4>1. Post("continue") \in Seq(Ours(May))
        BY PostType DEF Ours
      <4> QED BY <4>1, SeqWorks DEF Right
    <3>4. Right(jobPolled(a, tower[a].job, snap))
      BY <3>1, <3>2, <3>3, OutcomeWorks DEF jobPolled
    <3> QED BY <2>1, <3>4 DEF Continue
  <2>2. CASE Trouble
    BY <1>1, <2>2, HeadIs, DoesWorks
  <2> QED BY <2>1, <2>2 DEF PollJob
<1>3. UNCHANGED <<subj, tower, acts, events, callbacks, placement, gone, run, orphans>>
  BY DEF PollJob, subject, anarchy, sandbox
<1> QED BY <1>2, <1>3, UnseenStep

\* The placement is looked at.
LEMMA GetRefines == ASSUME IInv, RInv, GetPlacement PROVE RInv' /\ Implements
<1>1. todo # <<>> /\ Head(todo).op = "get"
  BY DEF GetPlacement, At
<1>2. Right(todo')
  <2>1. CASE Trouble
    BY <1>1, <2>1, HeadIs, DoesWorks
  <2>2. /\ Working(todo) /\ Tail(todo) \in Seq(Ours(MayOnce)) /\ MayBook
        /\ placement \in PlacementStatuses
    BY <1>1, HeadIs DEF Ours, Allowed, IInv, Sound, Types
  <2>3. CASE Head(todo).act = "provision" /\ Continue(placedOrNot(placement, Tail(todo)))
    BY <2>2, <2>3, AnswerWorks DEF Right, Continue
  <2>4. CASE Head(todo).act # "provision" /\ ~Trouble
    <3>1. ~Looks(Head(todo))
      BY <1>1, <2>4 DEF Looks
    <3>2. Working(Tail(todo))
      BY <1>1, <2>2, <3>1, TailWorks
    <3>3. updateSubjectSandboxVars("ignore") \in Seq(Ours(May))
      BY SandboxVarsType DEF Ours, OnErrors
    <3>4. Working(updateSubjectSandboxVars("ignore") \o Tail(todo))
      BY <3>2, <3>3, ConcatWorks
    <3>5. \/ todo' = Tail(todo)
          \/ todo' = updateSubjectSandboxVars("ignore") \o Tail(todo)
      BY <2>4 DEF GetPlacement, Continue
    <3> QED BY <3>2, <3>4, <3>5 DEF Right
  <2> QED BY <2>1, <2>3, <2>4 DEF GetPlacement
<1>3. UNCHANGED <<subj, tower, acts, events, callbacks, placement, gone, run, orphans>>
  BY DEF GetPlacement, subject, anarchy, sandbox
<1> QED BY <1>2, <1>3, UnseenStep

\* It is looked at again after it was booked, so it is there.
LEMMA GetBookedRefines == ASSUME IInv, RInv, GetBooked PROVE RInv' /\ Implements
<1>1. todo # <<>> /\ Head(todo).op = "reget"
  BY DEF GetBooked, At
<1>2. Right(todo')
  <2>1. CASE Trouble
    BY <1>1, <2>1, HeadIs, DoesWorks
  <2>2. /\ Tail(todo) \in Seq(Ours(MayOnce)) /\ MayBook /\ placement \in PlacementStatuses
        /\ placement # "absent"
    BY <1>1, HeadIs DEF Ours, Allowed, May, IInv, Sound, Types
  <2>3. CASE Continue(bookedAgain(placement, Tail(todo)))
    BY <2>2, <2>3, AnswerWorks DEF bookedAgain, Right, Continue
  <2>4. CASE StaleLookups /\ Continue(bookedAgain("absent", Tail(todo)))
    <3>1. "provision" \in May
      BY <2>2, <2>4, ActionNames DEF May
    <3>2. Tail(todo) \in Seq(Ours(May))
      BY <2>2, <3>1, OursMore
    <3> QED BY <2>4, <3>2, SeqWorks DEF bookedAgain, Right, Continue
  <2> QED BY <2>1, <2>3, <2>4 DEF GetBooked
<1>3. UNCHANGED <<subj, tower, acts, events, callbacks, placement, gone, run, orphans>>
  BY DEF GetBooked, subject, anarchy, sandbox
<1> QED BY <1>2, <1>3, UnseenStep

\* It is looked at from the queue.
LEMMA CheckQueueRefines ==
    ASSUME IInv, RInv, SandboxInUse, CheckQueue PROVE RInv' /\ Implements
<1>1. todo # <<>> /\ Head(todo).op = "checkQueue"
  BY DEF CheckQueue, At
<1>2. Right(todo')
  <2>1. CASE Trouble
    BY <1>1, <2>1, HeadIs, DoesWorks
  <2>2. CASE Continue(queueChecked(placement, snap))
    <3>1. placement \in PlacementStatuses /\ (snap.uuid => MayBook)
      BY DEF IInv, Sound, Types, Consistent, MayBook
    <3> QED BY <2>2, <3>1, ProvisionWorks DEF Right, Continue
  <2> QED BY <2>1, <2>2 DEF CheckQueue
<1>3. UNCHANGED <<subj, tower, acts, events, callbacks, placement, gone, run, orphans>>
  BY DEF CheckQueue, subject, anarchy, sandbox
<1> QED BY <1>2, <1>3, UnseenStep

\* It is asked to start or stop.
LEMMA PowerRefines == ASSUME IInv, RInv, PowerPlacement PROVE RInv' /\ Implements
<1> DEFINE call == Head(todo)
<1>1. todo # <<>> /\ call.op = "power"
  BY DEF PowerPlacement, At
<1>2. Right(todo')
  <2>1. CASE Trouble
    BY <1>1, <2>1, HeadIs, DoesWorks
  <2>2. /\ Working(todo) /\ ~Looks(call)
        /\ call.act \in {"start", "stop"} /\ call.onError \in OnErrors
    BY <1>1, HeadIs DEF Ours, Allowed, Calls, OnErrors, Looks
  <2>3. Working(Handled(call, Tail(todo))) /\ Working(Recovery(call, Tail(todo)))
    BY <1>1, <2>2, RecoveryWorks
  <2>4. ASSUME NEW async PROVE Working(requested(call.act, call.onError, async) \o Tail(todo))
    <3>1. requested(call.act, call.onError, async) \in Seq(Ours(May))
      BY <2>2, PowerType DEF Ours
    <3>2. Working(Tail(todo))
      BY <1>1, <2>2, TailWorks
    <3> QED BY <3>1, <3>2, ConcatWorks
  <2>5. CASE ~Trouble
    <3>1. \/ todo' = Handled(call, Tail(todo))
          \/ todo' = Recovery(call, Tail(todo))
          \/ todo' = requested(call.act, call.onError, TRUE) \o Tail(todo)
          \/ todo' = requested(call.act, call.onError, FALSE) \o Tail(todo)
      BY <2>5 DEF PowerPlacement, Continue
    <3> HIDE DEF call
    <3> QED BY <2>3, <2>4, <3>1 DEF Right
  <2> QED BY <2>1, <2>5
<1>3. UNCHANGED <<subj, tower, acts, events, callbacks, placement, gone, run, orphans>>
  BY DEF PowerPlacement, subject, anarchy
<1> QED BY <1>2, <1>3, UnseenStep

\* Its answer is waited for.
LEMMA AwaitRefines == ASSUME IInv, RInv, AwaitRequest PROVE RInv' /\ Implements
<1> DEFINE call == Head(todo)
           handled == Handled(call, Tail(todo))
<1>1. todo # <<>> /\ call.op = "await"
  BY DEF AwaitRequest, At
<1>2. Right(todo')
  <2>1. /\ Working(todo) /\ ~Looks(call)
        /\ call.act \in {"start", "stop"} /\ call.onError \in OnErrors
    BY <1>1, HeadIs DEF Ours, Allowed, Calls, OnErrors, Looks
  <2>2. Working(handled) /\ Working(Tail(todo))
    BY <1>1, <2>1, RecoveryWorks, TailWorks
  <2>3. /\ recordSandboxJobOutcome(call.act, "successful", call.onError) \in Seq(Ours(May))
        /\ recordSandboxActionFailure(call.act) \in Seq(Ours(May))
    BY <2>1, PowerType DEF Ours
  <2>4. Working(requestEnded(call, power.ended, Tail(todo), handled))
    <3> HIDE DEF call, handled
    <3> QED BY <2>2, <2>3, ConcatWorks DEF requestEnded
  <2>5. \/ todo' = handled
        \/ todo' = requestEnded(call, power.ended, Tail(todo), handled)
    BY DEF AwaitRequest, Continue
  <2> HIDE DEF call, handled
  <2> QED BY <2>2, <2>4, <2>5 DEF Right
<1>3. UNCHANGED <<subj, tower, acts, events, callbacks, placement, gone, run, orphans>>
  BY DEF AwaitRequest, subject, anarchy, sandbox
<1> QED BY <1>2, <1>3, UnseenStep

\* A crash, or a result that is lost.
LEMMA AbandonRefines == ASSUME IInv, RInv, Abandon PROVE RInv' /\ Implements
<1>1. Right(todo')
  BY EmptyWorks DEF Abandon, Continue, Right
<1>2. UNCHANGED <<subj, tower, acts, events, callbacks, placement, gone, run, orphans>>
  BY DEF Abandon, subject, anarchy, sandbox
<1> QED BY <1>1, <1>2, UnseenStep

\* A patch: a provision job is recorded for a subject with a placement, a destroy job
\* for one that is being deleted.
LEMMA PatchRefines == ASSUME IInv, RInv, SubjectUpdate PROVE RInv' /\ Implements
<1> DEFINE p == Head(todo).patch
<1>1. todo # <<>> /\ Head(todo).op = "patch" /\ p \in Patches
  BY HeadOK DEF SubjectUpdate, At, Calls
<1>2. Right(todo') /\ (Working(todo) => Working(todo'))
  <2>1. ~Looks(Head(todo)) /\ Right(todo)
    BY <1>1 DEF Looks, RInv, Right
  <2> QED BY <1>1, <2>1, DoesWorks DEF SubjectUpdate, Does
<1>3. UNCHANGED <<acts, callbacks, placement, gone, run>>
  BY DEF SubjectUpdate, anarchy, sandbox
<1>4. /\ p.job = "destroy" => Due
      /\ p.job = "provision" => placement # "absent"
      /\ ~Working(todo) => p.job = "keep"
  <2>1. CASE Working(todo)
    <3>1. p \in PatchesOf(tower["destroy"].ended, May)
      BY <1>1, <2>1, HeadWorks DEF Ours, Allowed
    <3> QED BY <2>1, <3>1 DEF PatchesOf, May
  <2>2. CASE ~Working(todo)
    <3>1. p.job = "keep"
      BY <1>1, <2>2, LeavingWorks DEF RInv, Parting
    <3> QED BY <3>1
  <2> QED BY <2>1, <2>2
<1>5. ASSUME Apply(p) PROVE RInv' /\ Implements
  <2>1. \A a \in Actions : /\ tower'[a].ended = tower[a].ended
                           /\ tower'[a].job = IF a = p.job THEN Launched(a) ELSE tower[a].job
                           /\ Launched(a) # "none"
    BY <1>1, <1>5, ApplyTower, LaunchedType DEF JobStatuses, FailureStatuses
  <2>9. orphans'["destroy"] = IF p.job = "destroy" THEN Recorded("destroy") ELSE orphans["destroy"]
    BY <1>5, ActionNames DEF Apply
  <2>2. subj'.deleting = subj.deleting /\ (subj.uuid => subj'.uuid)
    <3>1. subj \in Subjects
      BY DEF IInv, Sound, Types, Subjects
    <3>2. Merged(p).deleting = subj.deleting
      BY <3>1 DEF Merged, Subjects
    <3> QED BY <1>1, <1>5, <3>2, MergedType DEF Apply
  <2>3. Due => Due'
    BY <2>1, <2>2, ActionNames DEF Due
  <2>4. May \subseteq May' /\ (MayBook => MayBook')
    BY <1>3, <2>2, <2>3 DEF May, MayBook
  <2>5. Known'
    <3>1. events' \subseteq events \cup {"update"}
      BY <1>5 DEF Apply
    <3> QED BY <1>3, <1>4, <2>1, <2>2, <2>3, <2>9, <3>1, ActionNames, KnownStable DEF RInv
  <2>6. ~Working(todo) => (Undone' => Undone)
    BY <1>4, <2>1, ActionNames DEF Undone
  <2>7. RInv'
    <3>1. CASE Working(todo)
      <4>1. Working(todo)'
        BY <1>2, <2>1, <2>4, <3>1, ActionNames, WorkingStable
      <4> QED BY <2>5, <4>1 DEF RInv
    <3>2. CASE ~Working(todo)
      BY <1>2, <2>1, <2>2, <2>4, <2>5, <2>6, <3>2, ActionNames, RStable DEF Leaving
    <3> QED BY <3>1, <3>2
  <2>8. Implements
    <3>1. CASE p.job = "provision"
      <4>1. ~gone /\ placement # "absent"
        BY <1>1, <1>4, <3>1 DEF IInv, Sound, Gone
      <4>2. Life!Provision
        BY <1>3, <2>1, <2>2, <2>9, <3>1, <4>1, ActionNames DEF Life!Provision
      <4> QED BY <4>2 DEF Implements, Life!Next
    <3>2. CASE p.job = "destroy"
      <4>1. ~gone /\ Due
        BY <1>1, <1>4, <3>2 DEF IInv, Sound, Gone
      <4>2. CASE Launched("destroy") = "running"
        <5>1. Life!Destroy
          BY <1>3, <2>1, <2>2, <3>2, <4>1, <4>2, ActionNames DEF Life!Destroy, Due
        <5> QED BY <5>1 DEF Implements, Life!Next
      <4>3. CASE Launched("destroy") # "running"
        <5>1. orphans["destroy"].ended # "none" /\ orphans["destroy"].running \in Nat
          BY <4>3, ActionNames DEF IInv, Counted, Launched
        <5>2. Recorded("destroy").running =
                orphans["destroy"].running + (IF tower["destroy"].job = "running" THEN 1 ELSE 0)
          BY <5>1 DEF Recorded
        <5>3. Destroying' = Destroying
          BY <2>1, <2>9, <3>2, <4>3, <5>1, <5>2, ActionNames DEF Destroying
        <5> QED BY <1>3, <2>1, <2>2, <3>2, <5>3, ActionNames, Unseen DEF Due
      <4> QED BY <4>2, <4>3
    <3>3. CASE p.job \notin {"provision", "destroy"}
      BY <1>3, <2>1, <2>2, <2>9, <3>3, ActionNames, Unseen DEF Destroying
    <3> QED BY <3>1, <3>2, <3>3
  <2> QED BY <2>7, <2>8
<1>6. CASE UNCHANGED <<subject, orphans>>
  <2>1. UNCHANGED <<subj, tower, events, orphans>>
    BY <1>6 DEF subject
  <2> QED BY <1>2, <1>3, <2>1, UnseenStep
<1> QED BY <1>5, <1>6 DEF SubjectUpdate, Does

\* Jobs are canceled: with the recorded destroy job, it has come to an end.
LEMMA CancelRefines == ASSUME IInv, RInv, CancelJobs PROVE RInv' /\ Implements
<1>1. todo # <<>> /\ Head(todo).op = "cancel"
  BY DEF CancelJobs, At
<1>2. Right(todo')
  <2>1. ~Looks(Head(todo)) /\ Right(todo)
    BY <1>1 DEF Looks, RInv, Right
  <2> QED BY <1>1, <2>1, DoesWorks DEF CancelJobs, Does
<1>3. UNCHANGED <<subj, acts, events, callbacks, placement, gone, run, orphans>>
  BY DEF CancelJobs, anarchy, sandbox
<1>4. \A b \in Actions :
        \/ tower'[b] = tower[b]
        \/ tower[b].job = "running" /\ tower'[b].job = "canceled" /\ tower'[b].ended = TRUE
  <2>1. ASSUME NEW a, NEW b \in Actions
        PROVE  \/ Canceled(a)[b] = tower[b]
               \/ /\ tower[b].job = "running"
                  /\ Canceled(a)[b].job = "canceled" /\ Canceled(a)[b].ended = TRUE
    <3> DEFINE canceled == [tower[b] EXCEPT !.job = "canceled", !.ended = TRUE]
    <3>1. canceled.job = "canceled" /\ canceled.ended = TRUE
      BY DEF IInv, Sound, Types
    <3>2. \/ Canceled(a)[b] = tower[b]
          \/ tower[b].job = "running" /\ Canceled(a)[b] = canceled
      BY DEF Canceled
    <3> HIDE DEF canceled
    <3> QED BY <3>1, <3>2
  <2>2. tower' = tower \/ tower' = Canceled(Head(todo).act)
    BY DEF CancelJobs, Does
  <2>3. CASE tower' = tower
    BY <2>3
  <2>4. CASE tower' = Canceled(Head(todo).act)
    <3> DEFINE a == Head(todo).act
               t == Canceled(a)
    <3>1. \A b \in Actions :
            \/ t[b] = tower[b]
            \/ tower[b].job = "running" /\ t[b].job = "canceled" /\ t[b].ended = TRUE
      BY <2>1
    <3>2. tower' = t
      BY <2>4
    <3> HIDE DEF t
    <3> QED BY <3>1, <3>2
  <2> QED BY <2>2, <2>3, <2>4
<1>5. /\ Due' = Due /\ May' = May /\ MayBook' = MayBook
      /\ tower["destroy"].ended => tower'["destroy"].ended
      /\ Undone' => Undone
  <2>1. (tower'["provision"].job # "none") = (tower["provision"].job # "none")
    BY <1>4, ActionNames
  <2>2. Due' = Due
    BY <1>3, <2>1 DEF Due
  <2> QED BY <1>3, <1>4, <2>1, <2>2, ActionNames DEF May, MayBook, Undone
<1>6. RInv'
  <2>1. Known'
    BY <1>3, <1>4, <1>5, ActionNames, KnownStable DEF RInv
  <2> QED BY <1>2, <1>3, <1>5, <2>1, RStable DEF Leaving
<1>7. Implements
  <2>1. CASE tower'["destroy"] = tower["destroy"]
    BY <1>3, <1>4, <2>1, ActionNames, Unseen DEF Destroying
  <2>2. CASE tower'["destroy"] # tower["destroy"]
    <3>1. Life!DestroyEnds
      BY <1>3, <1>4, <2>2, ActionNames DEF Life!DestroyEnds
    <3> QED BY <3>1 DEF Implements, Life!Next
  <2> QED BY <2>1, <2>2
<1> QED BY <1>6, <1>7

\* A placement is booked.
LEMMA BookRefines == ASSUME IInv, RInv, BookPlacement PROVE RInv' /\ Implements
<1>1. todo # <<>> /\ Head(todo).op = "book"
  BY DEF BookPlacement, At
<1>2. /\ Right(todo) /\ Working(todo) /\ Tail(todo) \in Seq(Ours(MayOnce)) /\ MayBook
      /\ ~gone /\ placement \in PlacementStatuses
  BY <1>1, HeadIs DEF Ours, Allowed, IInv, Sound, Gone, Types
<1>3. UNCHANGED <<subj, tower, acts, events, callbacks, gone, run, orphans>>
  BY DEF BookPlacement, subject, anarchy
<1>4. /\ placement # "absent" => placement' = placement
      /\ Working(todo)'
  <2>1. ASSUME Working(todo'), placement # "absent" => placement' = placement
        PROVE  Working(todo)'
    <3>1. May \subseteq May' /\ MayBook' = MayBook
      BY <1>3, <2>1 DEF May, Due, MayBook
    <3> QED BY <1>3, <2>1, <3>1, WorkingStable
  <2>2. CASE Trouble /\ (placement # "absent" => placement' = placement)
    BY <1>1, <1>2, <2>1, <2>2, DoesWorks
  <2>3. ASSUME placement' = "success", Continue(booked("success", Tail(todo)))
        PROVE  Working(todo)'
    <3>1. todo' \in Seq(Ours(MayOnce))
      BY <1>2, <2>3 DEF booked, Continue, NotReady
    <3>2. MayOnce \subseteq May'
      BY <1>3, <2>3 DEF May, MayOnce, Due, Actions
    <3>3. Seq(Ours(MayOnce)) \subseteq Seq(Ours(May)')
      BY <1>3, <3>2, MoreAllowed DEF Ours, MayBook
    <3>4. Ours(May)' \subseteq Ours(MayOnce)' /\ Seq(Ours(May)') \subseteq Seq(Ours(MayOnce)')
      <4>1. May' \subseteq MayOnce'
        BY DEF MayOnce
      <4> QED BY <4>1, MoreAllowed DEF Ours
    <3> QED BY <3>1, <3>3, <3>4 DEF Working
  <2>4. placement # "absent" => placement' = placement
    BY DEF BookPlacement
  <2>5. ASSUME NEW status \in {"initializing", "error"}, placement' = status,
               Continue(booked(status, Tail(todo)))
        PROVE  Working(todo)'
    <3> DEFINE again == Call("reget", "provision", "provisionError")
    <3>1. todo' = <<again>> \o Tail(todo)
      BY <2>5 DEF booked, Continue, NotReady
    <3>2. Looks(again) /\ again \in Ours(May)'
      <4>1. "reget" \in May'
        BY <2>5 DEF May
      <4>2. \A u, e, J : u /\ "reget" \in J => again \in Allowed(u, e, J)
        BY CallType, ActionNames DEF Ops, OnErrors
      <4>3. MayBook'
        BY <1>2, <1>3 DEF MayBook
      <4> QED BY <4>1, <4>2, <4>3 DEF Ours, Looks, Call
    <3>3. Tail(todo) \in Seq(Ours(MayOnce)')
      <4>1. MayOnce \subseteq MayOnce'
        <5>1. May \subseteq May'
          BY <1>3, <2>5, <2>4 DEF May, Due
        <5> QED BY <5>1 DEF MayOnce
      <4> QED BY <1>2, <1>3, <4>1, MoreAllowed DEF Ours, MayBook
    <3> HIDE DEF again
    <3>4. /\ <<again>> \o Tail(todo) \in Seq(Ours(MayOnce)')
          /\ (<<again>> \o Tail(todo))[1] = again /\ 1 \in 1..Len(<<again>> \o Tail(todo))
      <4>1. again \in Ours(MayOnce)'
        <5>1. May' \subseteq MayOnce'
          BY DEF MayOnce
        <5> QED BY <3>2, <5>1, MoreAllowed DEF Ours
      <4> QED BY <3>3, <4>1
    <3>5. \A j \in 1..1 : (<<again>> \o Tail(todo))[j] \in Ours(May)'
      BY <3>2, <3>4
    <3> QED BY <3>1, <3>2, <3>4, <3>5 DEF Working, Looks
  <2>6. ASSUME placement = "absent", NEW status \in {"invalid", "refused"},
               Continue(booked(status, Tail(todo)))
        PROVE  Working(todo)'
    <3>1. Post("finish") \in Seq(Ours(May)) /\ handleProvisionError \in Seq(Ours(May))
      BY PostType, handleProvisionErrorType DEF Ours
    <3>2. booked(status, Tail(todo)) \in {Post("finish"), handleProvisionError}
      BY DEF booked
    <3>3. Working(todo')
      BY <2>6, <3>1, <3>2, SeqWorks DEF Continue
    <3> QED BY <2>1, <2>6, <3>3
  <2>7. ASSUME placement # "absent" => placement' = placement, placement' = "queued",
               Continue(booked("queued", Tail(todo)))
        PROVE  Working(todo)'
    <3>1. todo' = transitionToQueued
      BY <2>7 DEF booked, Continue, NotReady
    <3>2. transitionToQueued \in Seq(Ours(May))
      BY ProvisionOutcomeType DEF Ours
    <3> QED BY <2>1, <2>7, <3>1, <3>2, SeqWorks
  <2>8. \/ Trouble
        \/ \E status \in NotReady \cup {"success", "error"} :
              placement' = status /\ Continue(booked(status, Tail(todo)))
        \/ /\ placement = "absent" /\ placement' = "absent"
           /\ \E status \in {"invalid", "refused"} : Continue(booked(status, Tail(todo)))
    BY <1>2 DEF BookPlacement, NotReady, PlacementStatuses
  <2> QED BY <2>2, <2>3, <2>6, <2>8, <2>5, <2>7, <2>4 DEF NotReady
<1>5. RInv'
  <2>1. Due' = Due
    BY <1>3 DEF Due
  <2>2. Known'
    BY <1>3, <2>1, KnownStable DEF RInv
  <2> QED BY <1>4, <2>2 DEF RInv
<1>6. Implements
  <2>1. CASE (placement' # "absent") = (placement # "absent")
    BY <1>3, <2>1, Unseen DEF Destroying
  <2>2. CASE placement' # "absent" /\ placement = "absent"
    <3>1. Life!Book
      BY <1>2, <1>3, <2>2 DEF Life!Book
    <3> QED BY <3>1 DEF Implements, Life!Next
  <2> QED BY <1>4, <2>1, <2>2
<1> QED BY <1>5, <1>6

\* It is released: by a handler that takes leave.
LEMMA ReleaseRefines ==
    ASSUME IInv, RInv, ReleasePlacement
    PROVE  RInv' /\ ("destroy" \in GovActions \ Disabled => Implements)
<1>1. todo # <<>> /\ Head(todo).op = "release"
  BY DEF ReleasePlacement, At
<1>2. Leaving(todo) /\ ~gone
  <2>1. ~Working(todo)
    BY <1>1, HeadWorks DEF Ours, Allowed
  <2> QED BY <1>1, <2>1 DEF RInv, IInv, Sound, Gone
<1>3. UNCHANGED <<subj, tower, acts, events, callbacks, gone, run, orphans>>
  BY DEF ReleasePlacement, subject, anarchy
<1>4. placement' \in {placement, "absent"}
  BY DEF ReleasePlacement, Does
<1>5. Leaving(todo')
  <2>1. \/ todo' \in {<<>>, todo, Tail(todo), Repeated}
        \/ todo' = Recovery(Head(todo), Tail(todo))
    BY DEF ReleasePlacement, Does, Succeeds, Trouble, TroubleWith, Continue
  <2> QED BY <1>1, <1>2, <2>1, LeavingWorks
<1>6. RInv'
  <2>1. Due' = Due /\ Undone' = Undone
    BY <1>3 DEF Due, Undone
  <2>2. Known'
    BY <1>3, <2>1, KnownStable DEF RInv
  <2>3. Leaving(todo)'
    BY <1>3, <1>5, <2>1 DEF Leaving
  <2> QED BY <2>2, <2>3 DEF RInv
<1>7. ASSUME "destroy" \in GovActions \ Disabled PROVE Implements
  <2>1. CASE placement' = placement
    BY <1>3, <2>1, Unseen DEF Destroying
  <2>2. CASE placement' = "absent"
    <3>1. Life!Release
      BY <1>2, <1>3, <1>7, <2>2 DEF Life!Release, Leaving, Undone
    <3> QED BY <3>1 DEF Implements, Life!Next
  <2> QED BY <1>4, <2>1, <2>2
<1> QED BY <1>6, <1>7

\* The result: a deletion is posted for a subject that is being deleted, with the
\* release behind it.
LEMMA PostRefines ==
    ASSUME IInv, RInv, PostResult
    PROVE  RInv' /\ (Careful /\ "destroy" \in GovActions \ Disabled => Implements)
<1>1. todo # <<>> /\ Head(todo).op = "post" /\ todo' = <<>> /\ run' = NoRun
  BY DEF PostResult, At, Continue
<1>2. UNCHANGED <<subj, tower, events, callbacks, placement, orphans>> /\ ~gone
  BY <1>1 DEF PostResult, sandbox, IInv, Sound, Gone
<1>3. acts'["destroy"] > 0 => acts["destroy"] > 0
  <2>1. \A a : Ended(a)["destroy"] > 0 => acts["destroy"] > 0
    <3>1. acts \in [Actions -> Nat]
      BY LifecycleAssumption DEF IInv, Sound, Types
    <3> QED BY <3>1, ActionNames DEF Ended
  <2> QED BY <2>1 DEF PostResult
<1>4. RInv'
  <2>1. Due' = Due /\ May' = May /\ MayBook' = MayBook
    BY <1>2 DEF Due, May, MayBook
  <2>2. Known'
    BY <1>1, <1>2, <1>3, <2>1, KnownStable DEF RInv
  <2>3. Working(todo)'
    BY <1>1, <1>2, <2>1, EmptyWorks, WorkingStable
  <2> QED BY <2>2, <2>3 DEF RInv
<1>5. ASSUME Careful, "destroy" \in GovActions \ Disabled PROVE Implements
  <2>1. CASE gone'
    <3>1. Deleting(Head(todo))
      BY <1>1, <2>1 DEF PostResult, Deleting
    <3>2. Leaving(todo)
      <4>1. ~Working(todo)
        BY <1>1, <3>1, HeadWorks DEF Ours, Allowed
      <4> QED BY <4>1 DEF RInv
    <3>3. placement' = "absent" /\ ~Undone
      BY <1>5, <2>1, <3>2, PostResultOK DEF IInv, Sound, Gone, Careful, Leaving
    <3>4. Life!Vanish
      BY <1>2, <1>5, <2>1, <3>2, <3>3 DEF Life!Vanish, Leaving, Undone
    <3> QED BY <3>4 DEF Implements, Life!Next
  <2>2. CASE ~gone'
    <3>1. gone' = gone
      BY <1>2, <2>2, PostResultOK DEF IInv, Sound, Types
    <3> QED BY <1>2, <3>1, Unseen DEF Destroying
  <2> QED BY <2>1, <2>2
<1> QED BY <1>4, <1>5

\* A step beside the runner.
LEMMA BesideRunner ==
    ASSUME RInv, todo' = todo, Known', MayBook => MayBook', May \subseteq May',
           tower["destroy"].ended => tower'["destroy"].ended,
           Undone' => Undone, subj.deleting => subj'.deleting
    PROVE  RInv'
<1>1. Right(todo')
  BY DEF RInv, Right
<1> QED BY <1>1, RStable DEF Leaving

\* A job ends: one destroy job is then over.
LEMMA JobEndsRefines ==
    ASSUME IInv, RInv, NEW a \in Actions, JobEnds(a) \/ OrphanEnds(a) PROVE RInv' /\ Implements
<1>1. \A c \in callbacks' : c \in callbacks \/ c.name = a
  BY EndFacts DEF Callback
<1>2. /\ UNCHANGED <<subj, events, acts, placement, gone, run, todo>> /\ ~gone
      /\ tower'[a].ended = TRUE
      /\ \A b \in Actions \ {a} : tower'[b] = tower[b]
  BY EndFacts DEF Towers
<1>3. \/ tower[a].job = "running" /\ tower'[a].job \in JobStatuses /\ orphans' = orphans
      \/ /\ tower'[a].job = tower[a].job /\ orphans[a].running > 0
         /\ orphans'[a].running = orphans[a].running - 1
         /\ \A b \in Actions \ {a} : orphans'[b] = orphans[b]
  <2>1. CASE JobEnds(a)
    BY <2>1, EndFacts
  <2>2. CASE OrphanEnds(a)
    BY <2>2, EndFacts, OrphanEndFacts
  <2> QED BY <2>1, <2>2
<1>4. "none" \notin JobStatuses /\ "running" \notin JobStatuses /\ orphans[a].running \in Nat
  BY DEF JobStatuses, FailureStatuses, IInv, Counted
<1>5. /\ Due' = Due /\ May' = May /\ MayBook' = MayBook
      /\ tower["destroy"].ended => tower'["destroy"].ended
      /\ Undone' => Undone
  <2>1. (tower'["provision"].job # "none") = (tower["provision"].job # "none")
    BY <1>2, <1>3, <1>4, ActionNames
  <2>2. Due' = Due
    BY <1>2, <2>1 DEF Due
  <2> QED BY <1>2, <1>3, <2>1, <2>2, ActionNames DEF May, MayBook, Undone
<1>6. Known'
  <2>1. a = "destroy" => Due'
    BY <1>3, <1>5 DEF RInv, Known
  <2>2. orphans'["destroy"].running > 0 => orphans["destroy"].running > 0
    BY <1>3, <1>4, ActionNames
  <2>3. tower'["destroy"].job # "none" => tower["destroy"].job # "none"
    BY <1>2, <1>3, ActionNames
  <2> QED BY <1>1, <1>2, <1>5, <2>1, <2>2, <2>3, ActionNames, KnownStable DEF RInv
<1>7. RInv'
  BY <1>2, <1>5, <1>6, BesideRunner
<1>8. Implements
  <2>1. CASE a = "destroy"
    <3>1. Life!DestroyEnds
      BY <1>2, <1>3, <1>4, <2>1, ActionNames DEF Life!DestroyEnds
    <3> QED BY <3>1 DEF Implements, Life!Next
  <2>2. CASE a # "destroy"
    BY <1>2, <1>3, <1>4, <2>2, ActionNames, Unseen DEF Destroying
  <2> QED BY <2>1, <2>2
<1> QED BY <1>7, <1>8

\* The placement moves on, a request of it ends, or the login token goes.
LEMMA SandboxRefines ==
    ASSUME IInv, RInv, PlacementMoves \/ RequestEnds \/ TokenVanishes PROVE RInv' /\ Implements
<1>1. /\ UNCHANGED <<subj, tower, acts, events, callbacks, gone, run, todo, orphans>>
      /\ (placement' # "absent") = (placement # "absent")
      /\ placement = "success" => placement' = "success"
  BY DEF PlacementMoves, RequestEnds, TokenVanishes, subject, anarchy, sandbox, runner, NotReady
<1>2. May \subseteq May' /\ MayBook' = MayBook /\ Due' = Due /\ Undone' = Undone
  BY <1>1 DEF May, MayBook, Due, Undone
<1>3. Known'
  BY <1>1, <1>2, KnownStable DEF RInv
<1> QED BY <1>1, <1>2, <1>3, BesideRunner, Unseen DEF Destroying

\* The user edits, starts, stops, asks or deletes.
LEMMA UserRefines ==
    ASSUME IInv, RInv, EditJobVars \/ SetDesiredState \/ AskStatus \/ DeleteSubject
    PROVE  RInv' /\ Implements
<1>1. subj \in Subjects
  BY DEF IInv, Sound, Types, Subjects
<1>2. ASSUME NEW new, Request(new), new.deleting = subj.deleting, new.uuid = subj.uuid
      PROVE  RInv' /\ Implements
  <2>1. /\ UNCHANGED <<tower, acts, callbacks, placement, gone, run, todo, orphans>>
        /\ subj' = new /\ events' = events \cup {"update"}
    BY <1>2 DEF Request, anarchy, sandbox, runner
  <2>2. May' = May /\ MayBook' = MayBook /\ Due' = Due /\ Undone' = Undone
    BY <1>2, <2>1 DEF May, MayBook, Due, Undone
  <2>3. Known'
    BY <1>2, <2>1, <2>2, KnownStable DEF RInv
  <2> QED BY <1>2, <2>1, <2>2, <2>3, BesideRunner, Unseen DEF Destroying
<1>3. CASE EditJobVars
  BY <1>1, <1>2, <1>3 DEF EditJobVars, Subjects
<1>4. CASE SetDesiredState
  BY <1>1, <1>2, <1>4 DEF SetDesiredState, Subjects
<1>5. CASE AskStatus
  BY <1>1, <1>2, <1>5 DEF AskStatus, Subjects
<1>6. CASE DeleteSubject
  <2>1. /\ UNCHANGED <<tower, acts, callbacks, placement, gone, run, todo, orphans>>
        /\ ~gone /\ ~subj.deleting
        /\ subj' = [subj EXCEPT !.deleting = TRUE] /\ events' = events \cup {"delete"}
    BY <1>6 DEF DeleteSubject, anarchy, sandbox, runner
  <2>2. subj'.deleting = TRUE /\ subj'.uuid = subj.uuid
    BY <1>1, <2>1 DEF Subjects
  <2>3. (Due => Due') /\ May \subseteq May' /\ MayBook' = MayBook /\ Undone' = Undone
    BY <2>1, <2>2 DEF May, MayBook, Due, Undone
  <2>4. Known'
    BY <2>1, <2>2, <2>3, KnownStable DEF RInv
  <2>5. RInv'
    BY <2>1, <2>2, <2>3, <2>4, BesideRunner
  <2>6. Life!Delete
    BY <2>1, <2>2 DEF Life!Delete
  <2> QED BY <2>5, <2>6 DEF Implements, Life!Next
<1> QED BY <1>3, <1>4, <1>5, <1>6

\* The initial state is one of SubjectLife.
LEMMA InitRefines == Init => RInv /\ Life!Init
<1> SUFFICES ASSUME Init PROVE RInv /\ Life!Init
  OBVIOUS
<1>1. Known
  BY ActionNames DEF Init, Known, NewSubject, NoJobs, NoRun
<1>2. Working(todo)
  BY EmptyWorks DEF Init
<1>3. Life!Init
  BY ActionNames DEF Init, Life!Init, NewSubject, NoJobs
<1> QED BY <1>1, <1>2, <1>3 DEF RInv

\* RInv stays, and every step is one of SubjectLife or none.
LEMMA NextRefines ==
    ASSUME SandboxInUse
    PROVE  IInv /\ RInv /\ [Next]_vars =>
             RInv' /\ (Careful /\ "destroy" \in GovActions \ Disabled => Implements)
<1> SUFFICES ASSUME IInv, RInv, [Next]_vars
             PROVE  RInv' /\ (Careful /\ "destroy" \in GovActions \ Disabled => Implements)
  OBVIOUS
<1>1. CASE DispatchNext
  BY <1>1, DispatchRefines DEF DispatchNext
<1>2. CASE HandlerStep
  BY <1>2, PatchRefines, ScheduleRefines, LaunchRefines, CancelRefines, PollRefines, GetRefines,
     GetBookedRefines, CheckQueueRefines, BookRefines, PowerRefines, AwaitRefines,
     ReleaseRefines, PostRefines DEF HandlerStep
<1>3. CASE Abandon
  BY <1>3, AbandonRefines
<1>4. CASE Environment
  BY <1>4, JobEndsRefines, SandboxRefines, UserRefines DEF Environment
<1>5. CASE UNCHANGED vars
  <2>1. UNCHANGED <<subj, tower, acts, events, callbacks, placement, gone, run, todo, orphans>>
    BY <1>5 DEF vars
  <2>2. Right(todo')
    BY <2>1 DEF RInv, Right
  <2> QED BY <2>1, <2>2, UnseenStep
<1> QED BY <1>1, <1>2, <1>3, <1>4, <1>5 DEF Next

\* Provision, destroy and their placement together keep the promise of SubjectLife:
\* whatever fails, is repeated, cut off or comes late, nothing is provisioned without
\* a placement, the placement is given back only for a subject that is being deleted
\* and after a destroy job, and the subject goes only after that.  This is proved for
\* every governor with sandboxes that has an enabled destroy action, releases
\* placements (sandboxDestroyCatchAll) and keeps its login token.
THEOREM RefinesSubjectLife ==
    ASSUME SandboxInUse, CatchAll, ~TokenMayVanish, "destroy" \in GovActions \ Disabled
    PROVE  Spec => ImplementsSubjectLife
<1>1. Careful
  BY DEF Careful
<1>2. Init => RInv /\ Life!Init
  BY InitRefines
<1>3. IInv /\ RInv /\ [Next]_vars => RInv' /\ [Life!Next]_(Life!vars)
  BY <1>1, NextRefines DEF Implements
<1>4. Spec => []IInv
  BY Invariance
<1> QED BY <1>2, <1>3, <1>4, PTL DEF Spec, ImplementsSubjectLife, Life!Spec

(***************************************************************************)
(* What follows from the promise.                                          *)
(***************************************************************************)
\* A subject that is gone has left nothing behind: its placement is given back, and what
\* was provisioned went through a destroy job.
NothingLeft ==
    gone => placement = "absent" /\ (tower["provision"].job # "none" => tower["destroy"].ended)

\* A destroy job runs, or has run, only for what was provisioned, and nothing is
\* provisioned without a placement that is held until a destroy job ended.
PlacementKept ==
    /\ Destroying \/ tower["destroy"].ended => tower["provision"].job # "none"
    /\ tower["provision"].job # "none" => placement # "absent" \/ tower["destroy"].ended

\* No step of SubjectLife leaves anything behind, and none takes the placement from what
\* is provisioned and was not destroyed.
LEMMA PromiseStep ==
    ASSUME NothingLeft, PlacementKept, [Life!Next]_(Life!vars)
    PROVE  NothingLeft' /\ PlacementKept'
<1> USE DEF NothingLeft, PlacementKept, Destroying
<1>1. CASE Life!Book
  BY <1>1 DEF Life!Book
<1>2. CASE Life!Provision
  BY <1>2 DEF Life!Provision
<1>3. CASE Life!Delete
  BY <1>3 DEF Life!Delete
<1>4. CASE Life!Destroy
  BY <1>4 DEF Life!Destroy
<1>5. CASE Life!DestroyEnds
  BY <1>5 DEF Life!DestroyEnds
<1>6. CASE Life!Release
  BY <1>6 DEF Life!Release
<1>7. CASE Life!Vanish
  BY <1>7 DEF Life!Vanish
<1>8. CASE UNCHANGED Life!vars
  BY <1>8 DEF Life!vars
<1> QED
  BY <1>1, <1>2, <1>3, <1>4, <1>5, <1>6, <1>7, <1>8 DEF Life!Next

\* Because it implements SubjectLife, the code leaves nothing of a subject behind, and
\* keeps the placement while something is provisioned in it, whatever fails, is repeated,
\* cut off or comes late (handleProvision, handleDestroy, sandboxCleanup).
THEOREM PromiseKept ==
    ASSUME SandboxInUse, CatchAll, ~TokenMayVanish, "destroy" \in GovActions \ Disabled
    PROVE  Spec => [](NothingLeft /\ PlacementKept)
<1>1. Life!Init => NothingLeft /\ PlacementKept
  BY DEF Life!Init, NothingLeft, PlacementKept, Destroying
<1>2. NothingLeft /\ PlacementKept /\ [Life!Next]_(Life!vars) => (NothingLeft /\ PlacementKept)'
  BY PromiseStep
<1>3. Spec => ImplementsSubjectLife
  BY RefinesSubjectLife
<1> QED BY <1>1, <1>2, <1>3, PTL DEF ImplementsSubjectLife, Life!Spec

(***************************************************************************)
(* Launches.                                                               *)
(***************************************************************************)
\* A provision job is launched on a placement that is there and ready, whatever fails,
\* is repeated, cut off or comes late: the look-up, the booking and the look-up after it
\* (sandboxGet, sandboxBook) stop every provision that has none.  This is proved for
\* every governor with sandboxes, whether it releases them or not, when the look-up after
\* a booking shows the placement that was booked.
THEOREM LaunchesArePlaced ==
    ASSUME SandboxInUse, ~StaleLookups PROVE Spec => LaunchNeedsPlacement
<1>1. Init => RInv
  BY InitRefines
<1>2. IInv /\ RInv /\ [Next]_vars => RInv'
  BY NextRefines
<1>3. IInv /\ RInv /\ [Next]_vars => [Launches("provision") => placement = "success"]_vars
  <2> SUFFICES ASSUME IInv, RInv, Next, Launches("provision") PROVE placement = "success"
    OBVIOUS
  <2>1. LaunchJob /\ Head(todo).act = "provision"
    BY OrphanSteps, ActionNames
  <2>2. Head(todo) \in Ours(May) /\ Head(todo).op = "launch"
    BY <2>1, HeadIs DEF LaunchJob, At
  <2> QED BY <2>1, <2>2 DEF Ours, Allowed, May
<1>4. Spec => []IInv
  BY Invariance
<1> QED BY <1>1, <1>2, <1>3, <1>4, PTL DEF Spec, LaunchNeedsPlacement
=============================================================================
