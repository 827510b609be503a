------------------------- MODULE LifecycleJobs_proofs -------------------------
(***************************************************************************)
(* A Tower job of its own for every launch: OneJobPerAction of Lifecycle   *)
(* for the governors of NoWakeupIsLost, every number of faults, failures   *)
(* and requests.                                                           *)
(*                                                                         *)
(* While no callback comes in, the subject's state says which job is in    *)
(* progress (Shown, Powered), and no call moves it on before the job has   *)
(* ended (AloneFor); so a run that launches a job of its action finds none *)
(* in progress.  Start and stop lend the state to each other: they are     *)
(* told apart only while no run that turned round (retryOrPivot) is        *)
(* repeated, that is, not after both a fault and a failure (Orderly).      *)
(*                                                                         *)
(* From the same invariants, and one of the runs that destroy (Watchful),  *)
(* follows that the placement goes last: ReleasedLast of Lifecycle.        *)
(***************************************************************************)
EXTENDS LifecycleWakeup_proofs

Power == {"start", "stop"}

\* The actions without a job in progress.
Idle == {a \in Actions : tower[a].job # "running"}

Orderly == used.fault = 0 \/ used.failure = 0

\* The subject is being destroyed: there is an action that does, or a state that says so.
Going == acts["destroy"] > 0
Departs(st) == st[1] = "destroy"
Leaves == Going \/ run = EventRun("delete") \/ gone

(***************************************************************************)
(* The calls that are left, of a run r, with the actions in I idle, while  *)
(* start and stop are kept apart (g), and after a failure (p).             *)
(***************************************************************************)
\* No job is in progress that moves the subject, but for that of the provision.
Free(I, g) == "destroy" \in I /\ (g => Power \subseteq I)

\* The states that leave no job in progress behind.
MayMove(r, I, g, st) ==
    /\ Departs(st) => r \in {ActionRun("destroy"), EventRun("delete")}
    /\ st \notin {KeepState, Running("destroy")} => "destroy" \in I
    /\ g /\ st # KeepState /\ ~Departs(st) => \A a \in Power : st = Running(a) \/ a \in I

MayLaunch(r, I, g, a) ==
    /\ r = ActionRun(a)
    /\ a \notin Power => a \in I
    /\ g /\ a \in Power => Power \subseteq I

MaySchedule(r, I, g, p, a, cancel) ==
    /\ a = "destroy" => r = EventRun("delete") /\ Power \subseteq cancel
    /\ a \in Power => /\ Power \subseteq cancel
                      /\ g => Power \subseteq I
                      /\ r = EventRun("update") \/ (r.kind = "action" /\ r.name \in Power /\ p)

\* Where the job that a patch records is seen.
Shows(p) ==
    IF p.job = "status" THEN p.css = "running" /\ p.state = KeepState /\ "status" \notin Disabled
    ELSE p.state = Running(p.job)

AloneFor(r, I, g, p) ==
    {c \in Calls :
        /\ c.op = "launch" => MayLaunch(r, I, g, c.act)
        /\ c.op = "schedule" => MaySchedule(r, I, g, p, c.act, c.cancel)
        /\ c.op = "poll" => r = ActionRun(c.act) /\ (c.act = "provision" => Free(I, g))
        /\ c.op = "cancel" => c.act = "provision" \/ (c.act = "all" /\ r = EventRun("delete"))
        /\ c.op \in {"book", "reget", "checkQueue"} \/ (c.op = "get" /\ c.act = "provision")
           => c.onError = "provisionError"
        /\ c.onError = "provisionError" => r = ActionRun("provision") /\ Free(I, g)
        /\ MayMove(r, I, g, c.patch.state)
        /\ c.patch.css \notin {"keep", "running"} => "status" \in I
        /\ c.patch.job # "keep" => /\ c.op = "patch" /\ r = ActionRun(c.patch.job) /\ Shows(c.patch)
                                   /\ c.patch.job \notin Power => c.patch.job \in I}

\* A call behind which there is only the result: a job is recorded, or the action turns round.
Final(r, c) == c.patch.job # "keep" \/ (c.op = "schedule" /\ r.kind = "action")
Posts == {c \in Calls : c.op = "post" /\ c.patch = NoPatch /\ c.onError = "fail"}
Last(r, s) == \A i \in 1..Len(s) : Final(r, s[i]) => i + 1 = Len(s) /\ s[i + 1] \in Posts

SoleFor(r, I, g, p, s) == s \in Seq(AloneFor(r, I, g, p)) /\ Last(r, s)

\* The calls that may be followed by any.
OpenFor(r, I, g, p) == {c \in AloneFor(r, I, g, p) : ~Final(r, c)}

Alone == AloneFor(run, Idle, Orderly, used.failure > 0)
TodoSole == SoleFor(run, Idle, Orderly, used.failure > 0, todo)

(***************************************************************************)
(* The inductive invariant.                                                *)
(***************************************************************************)
Uncalled == callbacks = {} /\ run.kind # "callback"

\* A job in progress is seen in the subject.
Shown ==
    /\ "destroy" \notin Idle => subj.state = Running("destroy") /\ Going
    /\ "status" \notin Idle => subj.css = "running" /\ "status" \notin Disabled

\* Whoever is being destroyed is neither started, stopped nor updated.
Departing ==
    /\ Going => /\ subj.deleting /\ events \cap {"update", "delete"} = {}
                /\ acts["start"] = 0 /\ acts["stop"] = 0
                /\ run \notin {EventRun("update"), ActionRun("start"), ActionRun("stop")}
    /\ run = ActionRun("destroy") => Going
    /\ run = EventRun("delete") => /\ subj.deleting /\ events \cap {"update", "delete"} = {}
                                   /\ "destroy" \in Idle
    /\ Departs(subj.state) => Leaves

\* Start and stop: one of them at a time.
Turned == \A a, b \in Power : a # b /\ run = ActionRun(a) =>
             \/ acts[b] = 0 /\ b \in Idle
             \/ used.failure > 0 /\ todo # <<>> /\ todo \in Seq(Posts)

Powered ==
    /\ \A a \in Power : a \notin Idle => subj.state = Running(a) \/ Departs(subj.state)
    /\ \A a, b \in Power : a # b /\ acts[a] > 0 => acts[b] = 0 /\ b \in Idle
    /\ Turned
    /\ used.failure = 0 /\ ~Leaves => \A a \in Power : tower[a].job \notin FailureStatuses

Sole == TodoSole /\ Uncalled /\ Shown /\ Departing /\ (Orderly => Powered)

\* A job that failed before it was recorded failed.
Blamed == \A a \in Actions : orphans[a].ended \in FailureStatuses => used.failure > 0

\* All this while no callback came in.
SInv == Blamed /\ (used.callback = 0 => Sole)

(***************************************************************************)
(* Kinds of calls.                                                         *)
(***************************************************************************)
\* The states apart.
LEMMA Moving ==
    /\ ~Departs(KeepState) /\ KeepState # Running("destroy")
    /\ ~Departs(Started) /\ ~Departs(Stopped) /\ ~Departs(Queued)
    /\ \A a \in Actions \ {"destroy"} :
          /\ ~Departs(Pending(a)) /\ ~Departs(Running(a)) /\ Running(a) # Running("destroy")
          /\ \A f \in FailureStatuses : ~Departs(Failure(a, f))
    /\ Departs(Running("destroy"))
BY DEF Departs, KeepState, Started, Stopped, Queued, Running, Pending, Failure, Actions, FailureStatuses

\* The states that none of the others is.
LEMMA Resting ==
    /\ {NoState, Queued, Pending("provision"), Running("provision"), Started, Stopped}
          \cap {Running("destroy"), Running("start"), Running("stop")} = {}
    /\ Running("start") # Running("stop") /\ Running("start") # Running("destroy")
    /\ Running("stop") # Running("destroy")
    /\ ~Departs(NoState) /\ ~Departs(Pending("provision")) /\ ~Departs(Running("provision"))
    /\ ~Departs(Running("start")) /\ ~Departs(Running("stop"))
BY DEF Departs, NoState, Started, Stopped, Queued, Running, Pending

\* To keep the state is no move, and whoever runs a provision without another job in
\* progress moves where it will, but for a destruction.
LEMMA FreeMoves ==
    ASSUME NEW r, NEW I, NEW g \in BOOLEAN, NEW st
    PROVE  /\ MayMove(r, I, g, KeepState)
           /\ Free(I, g) /\ ~Departs(st) => MayMove(r, I, g, st)
BY Moving DEF MayMove, Free, Power

\* A call without a patch.
LEMMA AloneCall ==
    ASSUME NEW r, NEW I, NEW g \in BOOLEAN, NEW p \in BOOLEAN,
           NEW op \in Ops \ {"schedule"}, NEW a \in Actions \cup {"none", "all", "finish", "continue", "delete"},
           NEW f \in OnErrors,
           op = "launch" => MayLaunch(r, I, g, a),
           op = "poll" => r = ActionRun(a) /\ (a = "provision" => Free(I, g)),
           op = "cancel" => a = "provision" \/ (a = "all" /\ r = EventRun("delete")),
           op \in {"book", "reget", "checkQueue"} \/ (op = "get" /\ a = "provision") => f = "provisionError",
           f = "provisionError" => r = ActionRun("provision") /\ Free(I, g)
    PROVE  Call(op, a, f) \in OpenFor(r, I, g, p)
<1> DEFINE c == Call(op, a, f)
<1>1. IsCall(c, op, a, f)
  BY CallForm
<1> HIDE DEF c
<1>2. NoPatch.state = KeepState /\ NoPatch.job = "keep" /\ NoPatch.css = "keep"
  BY DEF NoPatch
<1>3. /\ c \in Calls /\ c.op = op /\ c.act = a /\ c.onError = f
      /\ c.patch.state = KeepState /\ c.patch.job = "keep" /\ c.patch.css = "keep"
  BY <1>1, <1>2 DEF IsCall
<1>4. MayMove(r, I, g, KeepState)
  BY FreeMoves
<1>5. c \in AloneFor(r, I, g, p) /\ ~Final(r, c)
  BY <1>3, <1>4 DEF AloneFor, Final
<1> QED BY <1>5 DEF OpenFor, c

\* A patch without a job, and what it says of the state.
IsMove(c, st, x, f) ==
    /\ c \in Calls /\ c.op = "patch" /\ c.onError = f
    /\ c.patch.state = st /\ c.patch.css = x /\ c.patch.job = "keep"

HasMove(p, st, x) == p \in Patches /\ p.state = st /\ p.css = x /\ p.job = "keep"

\* The patches of the handlers.
LEMMA MoveForm ==
    ASSUME NEW p, NEW st, NEW x, HasMove(p, st, x), NEW f \in OnErrors
    PROVE  /\ IsMove(Patch(p), st, x, "fail") /\ IsMove(SkipPatch(p), st, x, "fail")
           /\ IsMove([SkipPatch(p) EXCEPT !.onError = f], st, x, f)
<1>1. ASSUME NEW q, HasMove(q, st, x)
      PROVE  IsMove(Patch(q), st, x, "fail") /\ IsMove([Patch(q) EXCEPT !.onError = f], st, x, f)
  <2> DEFINE d == Patch(q)
  <2>1. d \in Calls /\ d.op = "patch" /\ d.patch = q /\ d.onError = "fail"
    BY <1>1, PatchIs DEF HasMove
  <2> HIDE DEF d
  <2>2. [d EXCEPT !.onError = f] \in Calls /\ [d EXCEPT !.onError = f].op = d.op
        /\ [d EXCEPT !.onError = f].patch = d.patch /\ [d EXCEPT !.onError = f].onError = f
    BY <2>1, OnErrorIs
  <2>3. IsMove(d, st, x, "fail") /\ IsMove([d EXCEPT !.onError = f], st, x, f)
    BY <1>1, <2>1, <2>2 DEF IsMove, HasMove
  <2> QED BY <2>3 DEF d
<1> DEFINE q == [p EXCEPT !.skip = TRUE]
<1>2. HasMove(q, st, x)
  BY DEF HasMove, Patches
<1>3. SkipPatch(p) = Patch(q)
  BY DEF SkipPatch
<1> HIDE DEF q
<1> QED BY <1>1, <1>2, <1>3

\* A patch that moves the subject when it may.
LEMMA AloneMove ==
    ASSUME NEW r, NEW I, NEW g \in BOOLEAN, NEW p \in BOOLEAN,
           NEW c, NEW st, NEW x, NEW f, IsMove(c, st, x, f), MayMove(r, I, g, st),
           x \notin {"keep", "running"} => "status" \in I,
           f = "provisionError" => r = ActionRun("provision") /\ Free(I, g)
    PROVE  c \in OpenFor(r, I, g, p)
<1>1. c \in AloneFor(r, I, g, p) /\ ~Final(r, c)
  BY DEF IsMove, AloneFor, Final
<1> QED BY <1>1 DEF OpenFor

\* What the patches of the handlers say of the state.
LEMMA Moved ==
    ASSUME NEW a \in Actions, NEW st \in SubjectStates \cup {KeepState}
    PROVE  /\ HasMove(NoPatch, KeepState, "keep")
           /\ HasMove([NoPatch EXCEPT !.state = st], st, "keep")
           /\ HasMove([NoPatch EXCEPT !.state = st, !.uuid = TRUE], st, "keep")
           /\ HasMove([NoPatch EXCEPT !.state = st, !.vars = "same"], st, "keep")
           /\ HasMove([NoPatch EXCEPT !.state = st, !.desired = "destroyed"], st, "keep")
           /\ HasMove([NoPatch EXCEPT !.vars = "same"], KeepState, "keep")
           /\ HasMove([NoPatch EXCEPT !.starts = a], KeepState, "keep")
           /\ HasMove([NoPatch EXCEPT !.ends = a], KeepState, "keep")
           /\ \A o \in {"successful", "error"} :
                 HasMove([NoPatch EXCEPT !.request = a, !.outcome = o], KeepState, "keep")
           /\ \A x \in JobStatuses \cup {"pending"} :
                 /\ HasMove([NoPatch EXCEPT !.css = x], KeepState, x)
                 /\ HasMove([NoPatch EXCEPT !.ends = a, !.css = x], KeepState, x)
           /\ HasMove(Ends(a, st), st, "keep")
           /\ \A v \in {"keep", "forensics"} : HasMove([Ends(a, st) EXCEPT !.vars = v], st, "keep")
<1>1. /\ HasMove(NoPatch, KeepState, "keep")
      /\ HasMove([NoPatch EXCEPT !.state = st], st, "keep")
      /\ HasMove([NoPatch EXCEPT !.state = st, !.uuid = TRUE], st, "keep")
      /\ HasMove([NoPatch EXCEPT !.state = st, !.vars = "same"], st, "keep")
      /\ HasMove([NoPatch EXCEPT !.state = st, !.desired = "destroyed"], st, "keep")
  BY DEF HasMove, NoPatch, Patches
<1>2. /\ HasMove([NoPatch EXCEPT !.vars = "same"], KeepState, "keep")
      /\ HasMove([NoPatch EXCEPT !.starts = a], KeepState, "keep")
      /\ HasMove([NoPatch EXCEPT !.ends = a], KeepState, "keep")
      /\ \A o \in {"successful", "error"} :
            HasMove([NoPatch EXCEPT !.request = a, !.outcome = o], KeepState, "keep")
  BY DEF HasMove, NoPatch, Patches
<1>3. ASSUME NEW x \in JobStatuses \cup {"pending"}
      PROVE  /\ HasMove([NoPatch EXCEPT !.css = x], KeepState, x)
             /\ HasMove([NoPatch EXCEPT !.ends = a, !.css = x], KeepState, x)
  BY DEF HasMove, NoPatch, Patches, JobStatuses
<1>4. /\ HasMove(Ends(a, st), st, "keep")
      /\ \A v \in {"keep", "forensics"} : HasMove([Ends(a, st) EXCEPT !.vars = v], st, "keep")
  BY DEF HasMove, Ends, NoPatch, Patches
<1> QED BY <1>1, <1>2, <1>3, <1>4

\* A patch that records a job.
LEMMA AloneRecord ==
    ASSUME NEW r, NEW I, NEW g \in BOOLEAN, NEW p \in BOOLEAN,
           NEW a \in Actions, r = ActionRun(a), a \notin Power => a \in I, NEW f \in OnErrors,
           a = "status" => "status" \notin Disabled,
           a # "status" => MayMove(r, I, g, Running(a)),
           f = "provisionError" => a = "provision" /\ Free(I, g),
           NEW c, c \in Calls, c.op = "patch", c.onError = f, c.patch.job = a,
           c.patch.state = IF a = "status" THEN KeepState ELSE Running(a),
           c.patch.css = IF a = "status" THEN "running" ELSE "keep"
    PROVE  c \in AloneFor(r, I, g, p)
<1>1. MayMove(r, I, g, c.patch.state)
  BY FreeMoves
<1>2. Shows(c.patch)
  BY DEF Shows
<1> QED BY <1>1, <1>2 DEF AloneFor

\* Notes, which say nothing of the state.
LEMMA AloneNote ==
    ASSUME NEW r, NEW I, NEW g \in BOOLEAN, NEW p \in BOOLEAN,
           NEW q, HasMove(q, KeepState, "keep"), NEW f \in OnErrors,
           f = "provisionError" => r = ActionRun("provision") /\ Free(I, g)
    PROVE  /\ <<Patch(q)>> \in Seq(OpenFor(r, I, g, p))
           /\ <<SkipPatch(q)>> \in Seq(OpenFor(r, I, g, p))
           /\ <<[SkipPatch(q) EXCEPT !.onError = f]>> \in Seq(OpenFor(r, I, g, p))
<1>1. MayMove(r, I, g, KeepState) /\ "keep" \in {"keep", "running"} /\ "fail" # "provisionError"
  BY FreeMoves
<1>2. /\ IsMove(Patch(q), KeepState, "keep", "fail") /\ IsMove(SkipPatch(q), KeepState, "keep", "fail")
      /\ IsMove([SkipPatch(q) EXCEPT !.onError = f], KeepState, "keep", f)
  BY MoveForm
<1>3. /\ Patch(q) \in OpenFor(r, I, g, p) /\ SkipPatch(q) \in OpenFor(r, I, g, p)
      /\ [SkipPatch(q) EXCEPT !.onError = f] \in OpenFor(r, I, g, p)
  BY <1>1, <1>2, AloneMove
<1> QED BY <1>3, Singleton

\* Moves of the state.
LEMMA AloneMoves ==
    ASSUME NEW r, NEW I, NEW g \in BOOLEAN, NEW p \in BOOLEAN,
           NEW q, NEW st, HasMove(q, st, "keep"), MayMove(r, I, g, st)
    PROVE  <<Patch(q)>> \in Seq(OpenFor(r, I, g, p)) /\ <<SkipPatch(q)>> \in Seq(OpenFor(r, I, g, p))
<1>1. "keep" \in {"keep", "running"} /\ "fail" # "provisionError" /\ "fail" \in OnErrors
  BY DEF OnErrors
<1>2. IsMove(Patch(q), st, "keep", "fail") /\ IsMove(SkipPatch(q), st, "keep", "fail")
  BY <1>1, MoveForm
<1>3. Patch(q) \in OpenFor(r, I, g, p) /\ SkipPatch(q) \in OpenFor(r, I, g, p)
  BY <1>1, <1>2, AloneMove
<1> QED BY <1>3, Singleton

\* Results.
LEMMA PostsAlone ==
    ASSUME NEW r, NEW I, NEW g \in BOOLEAN, NEW p \in BOOLEAN
    PROVE  /\ Posts \subseteq OpenFor(r, I, g, p)
           /\ \A x \in {"none", "finish", "continue", "delete"} :
                 /\ Post(x) \in Seq(OpenFor(r, I, g, p)) /\ Post(x) \in Seq(Posts) /\ Len(Post(x)) = 1
<1>1. NoPatch.state = KeepState /\ NoPatch.job = "keep" /\ NoPatch.css = "keep"
  BY DEF NoPatch
<1>2. MayMove(r, I, g, KeepState)
  BY FreeMoves
<1>3. Posts \subseteq OpenFor(r, I, g, p)
  BY <1>1, <1>2 DEF Posts, OpenFor, AloneFor, Final
<1>4. ASSUME NEW x \in {"none", "finish", "continue", "delete"}
      PROVE  Post(x) \in Seq(OpenFor(r, I, g, p)) /\ Post(x) \in Seq(Posts) /\ Len(Post(x)) = 1
  <2> DEFINE c == Call("post", x, "fail")
  <2>1. IsCall(c, "post", x, "fail")
    BY CallForm DEF Ops, OnErrors
  <2> HIDE DEF c
  <2>2. c \in Posts
    BY <2>1 DEF IsCall, Posts
  <2>3. Post(x) = <<c>>
    BY DEF Post, c
  <2> QED BY <1>3, <2>2, <2>3, Singleton
<1> QED BY <1>3, <1>4

\* Schedules.
LEMMA AloneSchedule ==
    ASSUME NEW r, NEW I, NEW g \in BOOLEAN, NEW p \in BOOLEAN,
           NEW a \in Actions, NEW cancel \in SUBSET Actions, MaySchedule(r, I, g, p, a, cancel)
    PROVE  /\ Schedule(a, cancel) \in AloneFor(r, I, g, p)
           /\ r.kind # "action" => <<Schedule(a, cancel)>> \in Seq(OpenFor(r, I, g, p))
<1> DEFINE c == Schedule(a, cancel)
<1>1. /\ c \in Calls /\ c.op = "schedule" /\ c.act = a /\ c.cancel = cancel /\ c.onError = "fail"
      /\ c.patch = NoPatch
  BY NoPatchIs DEF Schedule, Call, Calls
<1>2. NoPatch.state = KeepState /\ NoPatch.job = "keep" /\ NoPatch.css = "keep"
  BY DEF NoPatch
<1> HIDE DEF c
<1>3. MayMove(r, I, g, KeepState)
  BY FreeMoves
<1>4. c \in AloneFor(r, I, g, p) /\ (r.kind # "action" => ~Final(r, c))
  BY <1>1, <1>2, <1>3 DEF AloneFor, Final
<1>5. r.kind # "action" => c \in OpenFor(r, I, g, p)
  BY <1>4 DEF OpenFor
<1> QED BY <1>4, <1>5, Singleton DEF c

(***************************************************************************)
(* Sequences of calls.                                                     *)
(***************************************************************************)
\* The calls that may be followed by any, alone and ahead of others.
LEMMA SoleConcat ==
    ASSUME NEW r, NEW I, NEW g, NEW p, NEW s \in Seq(OpenFor(r, I, g, p))
    PROVE  /\ SoleFor(r, I, g, p, s)
           /\ \A t : SoleFor(r, I, g, p, t) => SoleFor(r, I, g, p, s \o t)
<1> DEFINE A == AloneFor(r, I, g, p)
<1>1. OpenFor(r, I, g, p) \subseteq A /\ \A c \in OpenFor(r, I, g, p) : ~Final(r, c)
  BY DEF OpenFor
<1>2. s \in Seq(A) /\ \A i \in 1..Len(s) : ~Final(r, s[i])
  BY <1>1, SeqMore
<1>3. SoleFor(r, I, g, p, s)
  BY <1>2 DEF SoleFor, Last
<1>4. ASSUME NEW t, SoleFor(r, I, g, p, t) PROVE SoleFor(r, I, g, p, s \o t)
  <2> DEFINE u == s \o t
             n == Len(s)
  <2>1. t \in Seq(A) /\ Last(r, t)
    BY <1>4 DEF SoleFor
  <2> HIDE DEF A
  <2>0. n = Len(s)
    OBVIOUS
  <2>2. /\ u \in Seq(A) /\ Len(u) = n + Len(t) /\ n \in Nat /\ Len(t) \in Nat
        /\ \A i \in 1..n : u[i] = s[i]
        /\ \A i \in 1..Len(t) : u[n + i] = t[i]
    BY <1>2, <2>1
  <2> HIDE DEF u, n
  <2>3. ASSUME NEW i \in 1..Len(u), Final(r, u[i]) PROVE i + 1 = Len(u) /\ u[i + 1] \in Posts
    <3>1. i \notin 1..n
      BY <1>2, <2>2, <2>3, <2>0
    <3>2. i - n \in 1..Len(t) /\ i = n + (i - n)
      BY <2>2, <3>1
    <3> DEFINE k == i - n
    <3>3. Final(r, t[k])
      BY <2>2, <2>3, <3>2
    <3>4. k + 1 = Len(t) /\ t[k + 1] \in Posts
      BY <2>1, <3>2, <3>3 DEF Last
    <3>5. k + 1 \in 1..Len(t) /\ i + 1 = n + (k + 1)
      BY <2>2, <3>2, <3>4
    <3> QED BY <2>2, <3>4, <3>5
  <2>4. SoleFor(r, I, g, p, u)
    BY <2>2, <2>3 DEF SoleFor, Last, A
  <2> QED BY <2>4 DEF u
<1> QED BY <1>3, <1>4

\* A last call, with the result behind it.
LEMMA SoleLast ==
    ASSUME NEW r, NEW I, NEW g \in BOOLEAN, NEW p \in BOOLEAN, NEW c \in AloneFor(r, I, g, p),
           NEW x \in {"none", "finish", "continue", "delete"}
    PROVE  SoleFor(r, I, g, p, <<c>> \o Post(x))
<1> DEFINE A == AloneFor(r, I, g, p)
           d == Call("post", x, "fail")
           u == <<c, d>>
<1>1. <<d>> \in Seq(Posts) /\ Posts \subseteq A /\ Post(x) = <<d>>
  BY PostsAlone DEF OpenFor, Post
<1> HIDE DEF d
<1>2. u \in Seq(A) /\ Len(u) = 2 /\ u[1] = c /\ u[2] \in Posts /\ <<c>> \o Post(x) = u
  <2>1. c \in A /\ d \in Posts /\ d \in A
    BY <1>1
  <2>2. <<c>> \o Post(x) = u
    BY <1>1, Tuple2
  <2> HIDE DEF A
  <2> QED BY <2>1, <2>2
<1> HIDE DEF A
<1>3. \A e \in Posts : ~Final(r, e)
  BY PostsAlone DEF OpenFor
<1> HIDE DEF u
<1>4. \A i \in 1..Len(u) : Final(r, u[i]) => i + 1 = Len(u) /\ u[i + 1] \in Posts
  <2> SUFFICES ASSUME NEW i \in 1..Len(u), Final(r, u[i]) PROVE i + 1 = Len(u) /\ u[i + 1] \in Posts
    OBVIOUS
  <2>1. i = 1
    BY <1>2, <1>3
  <2> QED BY <1>2, <2>1
<1>5. SoleFor(r, I, g, p, u)
  BY <1>2, <1>4 DEF SoleFor, Last, A
<1> QED BY <1>2, <1>5

\* The first call, and those behind it.
LEMMA SoleTail ==
    ASSUME NEW r, NEW I, NEW g, NEW p, NEW s, SoleFor(r, I, g, p, s), s # <<>>
    PROVE  /\ SoleFor(r, I, g, p, Tail(s)) /\ SoleFor(r, I, g, p, <<>>)
           /\ Head(s) \in AloneFor(r, I, g, p)
           /\ Final(r, Head(s)) => Tail(s) # <<>> /\ Tail(s) \in Seq(Posts)
<1> DEFINE A == AloneFor(r, I, g, p)
           t == Tail(s)
<1>1. s \in Seq(A) /\ Last(r, s)
  BY DEF SoleFor
<1> HIDE DEF A
<1>2. /\ t \in Seq(A) /\ Len(s) \in Nat /\ Len(s) > 0 /\ Len(t) = Len(s) - 1 /\ Head(s) = s[1] /\ Head(s) \in A
      /\ \A i \in 1..Len(t) : t[i] = s[i + 1]
  BY <1>1
<1> HIDE DEF t
<1>3. ASSUME NEW i \in 1..Len(t), Final(r, t[i]) PROVE i + 1 = Len(t) /\ t[i + 1] \in Posts
  <2>1. i + 1 \in 1..Len(s) /\ Final(r, s[i + 1])
    BY <1>2, <1>3
  <2>2. (i + 1) + 1 = Len(s) /\ s[(i + 1) + 1] \in Posts
    BY <1>1, <2>1 DEF Last
  <2>3. i + 1 \in 1..Len(t)
    BY <1>2, <2>2
  <2> QED BY <1>2, <2>2, <2>3
<1>4. SoleFor(r, I, g, p, t)
  BY <1>2, <1>3 DEF SoleFor, Last, A
<1>5. SoleFor(r, I, g, p, <<>>)
  BY DEF SoleFor, Last
<1>6. ASSUME Final(r, Head(s)) PROVE t # <<>> /\ t \in Seq(Posts)
  <2>1. 1 \in 1..Len(s) /\ Final(r, s[1])
    BY <1>2, <1>6
  <2>2. 1 + 1 = Len(s) /\ s[1 + 1] \in Posts
    BY <1>1, <2>1 DEF Last
  <2>3. Len(t) = 1 /\ t[1] \in Posts
    <3> DEFINE m == Len(t)
               n == Len(s)
    <3>0. n \in Nat /\ m = n - 1 /\ 1 + 1 = n
      BY <1>2, <2>2
    <3> HIDE DEF m, n
    <3>1. m = 1 /\ 1 \in 1..m
      BY <3>0
    <3>2. t[1] = s[1 + 1]
      BY <1>2, <3>1 DEF m
    <3> QED BY <2>2, <3>1, <3>2 DEF m
  <2>4. \A i \in 1..Len(t) : t[i] \in Posts
    BY <2>3
  <2>5. t # <<>>
    BY <2>3
  <2>6. t \in Seq(Posts)
    BY <1>2, <2>4
  <2> QED BY <2>5, <2>6
<1> QED BY <1>2, <1>4, <1>5, <1>6 DEF A, t

\* With fewer jobs in progress, and less to keep apart, more is allowed.
LEMMA SoleMore ==
    ASSUME NEW r, NEW I, NEW g \in BOOLEAN, NEW p \in BOOLEAN,
           NEW J, NEW h \in BOOLEAN, NEW q \in BOOLEAN, I \subseteq J, h => g, p => q
    PROVE  /\ AloneFor(r, I, g, p) \subseteq AloneFor(r, J, h, q)
           /\ \A s : SoleFor(r, I, g, p, s) => SoleFor(r, J, h, q, s)
<1>1. Free(I, g) => Free(J, h)
  BY DEF Free
<1>2. \A st : MayMove(r, I, g, st) => MayMove(r, J, h, st)
  BY DEF MayMove
<1>3. \A a : MayLaunch(r, I, g, a) => MayLaunch(r, J, h, a)
  BY DEF MayLaunch
<1>4. \A a, cancel : MaySchedule(r, I, g, p, a, cancel) => MaySchedule(r, J, h, q, a, cancel)
  BY DEF MaySchedule
<1>5. AloneFor(r, I, g, p) \subseteq AloneFor(r, J, h, q)
  BY <1>1, <1>2, <1>3, <1>4 DEF AloneFor
<1>6. Seq(AloneFor(r, I, g, p)) \subseteq Seq(AloneFor(r, J, h, q))
  BY <1>5, SeqMore
<1> QED BY <1>5, <1>6 DEF SoleFor

\* A result leaves nothing to record and nothing to schedule.
LEMMA PostsSole ==
    ASSUME NEW r, NEW I, NEW g \in BOOLEAN, NEW p \in BOOLEAN, NEW s \in Seq(Posts)
    PROVE  SoleFor(r, I, g, p, s)
<1>1. s \in Seq(OpenFor(r, I, g, p))
  BY PostsAlone, SeqMore
<1> QED BY <1>1, SoleConcat

(***************************************************************************)
(* The handlers.                                                           *)
(***************************************************************************)
\* The patch that records a job of a.
IsRecord(d, a, f) ==
    /\ d.op = "patch" /\ d.onError = f /\ d.patch.job = a
    /\ d.patch.state = IF a = "status" THEN KeepState ELSE Running(a)
    /\ d.patch.css = IF a = "status" THEN "running" ELSE "keep"

\* A launch with its recording.
LEMMA LaunchForm ==
    ASSUME NEW a \in Actions, NEW f \in OnErrors
    PROVE  \E d \in Calls : launchTowerJob(a, f) = <<Call("launch", a, f)>> \o <<d>> /\ IsRecord(d, a, f)
<1> DEFINE st == IF a = "status" THEN KeepState ELSE Running(a)
           x == IF a = "status" THEN "running" ELSE "keep"
           p == [NoPatch EXCEPT !.job = a, !.state = IF a = "status" THEN NoPatch.state ELSE Running(a),
                                !.css = IF a = "status" THEN "running" ELSE NoPatch.css]
           e == Patch(p)
           d == [e EXCEPT !.onError = f]
<1>1. NoPatch.state = KeepState /\ NoPatch.css = "keep"
  BY DEF NoPatch
<1>2. st \in SubjectStates \cup {KeepState} /\ x \in {"running", "keep"}
  BY States
<1>3. p = [NoPatch EXCEPT !.job = a, !.state = IF a = "status" THEN @ ELSE Running(a),
                          !.css = IF a = "status" THEN "running" ELSE @]
  BY DEF NoPatch
<1>4. launchTowerJob(a, f) = <<Call("launch", a, f)>> \o <<d>>
  <2> HIDE DEF p
  <2>1. launchTowerJob(a, f) = <<Call("launch", a, f), d>>
    BY <1>3 DEF launchTowerJob
  <2> HIDE DEF d
  <2> QED BY <2>1, Tuple2
<1>5. p \in Patches /\ p.job = a /\ p.state = st /\ p.css = x
  <2>1. p = [NoPatch EXCEPT !.job = a, !.state = st, !.css = x]
    BY <1>1
  <2> HIDE DEF st, x, p
  <2> QED BY <1>2, <2>1 DEF NoPatch, Patches
<1> HIDE DEF p, st, x
<1>6. e \in Calls /\ e.op = "patch" /\ e.patch = p
  BY <1>5, PatchIs
<1> HIDE DEF e
<1>7. d \in Calls /\ d.op = "patch" /\ d.onError = f /\ d.patch = p
  BY <1>6, OnErrorIs
<1> HIDE DEF d
<1>8. d.patch.job = a /\ d.patch.state = st /\ d.patch.css = x
  BY <1>5, <1>7
<1> QED BY <1>4, <1>7, <1>8 DEF st, x, IsRecord

\* An action that launches its job, behind other calls.
LEMMA LaunchSole ==
    ASSUME NEW r, NEW I, NEW g \in BOOLEAN, NEW p \in BOOLEAN,
           NEW a \in Actions, r = ActionRun(a), NEW f \in OnErrors, MayLaunch(r, I, g, a),
           a = "status" => "status" \notin Disabled,
           a # "status" => MayMove(r, I, g, Running(a)),
           f = "provisionError" => a = "provision" /\ Free(I, g),
           NEW s \in Seq(OpenFor(r, I, g, p))
    PROVE  SoleFor(r, I, g, p, (s \o launchTowerJob(a, f)) \o Post("continue"))
<1> DEFINE O == OpenFor(r, I, g, p)
           c == Call("launch", a, f)
           q == Post("continue")
<1>1. PICK d \in Calls : launchTowerJob(a, f) = <<Call("launch", a, f)>> \o <<d>> /\ IsRecord(d, a, f)
  BY LaunchForm
<1>2. d \in AloneFor(r, I, g, p)
  BY <1>1, AloneRecord DEF IsRecord, MayLaunch
<1>3. c \in O
  <2>1. "launch" \in Ops \ {"schedule"} /\ a \in Actions \cup {"none", "all", "finish", "continue", "delete"}
        /\ (f = "provisionError" => r = ActionRun("provision") /\ Free(I, g))
    BY DEF Ops
  <2> QED BY <2>1, AloneCall
<1> HIDE DEF c, q
<1>4. SoleFor(r, I, g, p, <<d>> \o q)
  BY <1>2, SoleLast DEF q
<1>5. <<c>> \in Seq(O)
  BY <1>3, Singleton
<1>6. s \o <<c>> \in Seq(O)
  <2> HIDE DEF O
  <2>1. s \in Seq(O)
    BY DEF O
  <2> QED BY <1>5, <2>1, Concat
<1>7. SoleFor(r, I, g, p, (s \o <<c>>) \o (<<d>> \o q))
  BY <1>4, <1>6, SoleConcat
<1>8. (s \o (<<c>> \o <<d>>)) \o q = (s \o <<c>>) \o (<<d>> \o q)
  <2>1. O \subseteq Calls /\ Posts \subseteq Calls
    BY DEF OpenFor, AloneFor, Posts
  <2> HIDE DEF O
  <2>2. s \in Seq(Calls) /\ <<c>> \in Seq(Calls) /\ <<d>> \in Seq(Calls) /\ q \in Seq(Calls)
    BY <1>1, <1>5, <2>1, SeqMore, Singleton, PostsAlone DEF O, q
  <2>3. s \o (<<c>> \o <<d>>) = (s \o <<c>>) \o <<d>>
    BY <2>2, ConcatAssociative
  <2>4. s \o <<c>> \in Seq(Calls)
    BY <2>2, Concat
  <2>5. ((s \o <<c>>) \o <<d>>) \o q = (s \o <<c>>) \o (<<d>> \o q)
    BY <2>2, <2>4, ConcatAssociative
  <2> QED BY <2>3, <2>5
<1> QED BY <1>1, <1>7, <1>8 DEF c, q

\* What every action does: look up, stamp, poll.
LEMMA SmallSole ==
    ASSUME NEW r, NEW I, NEW g \in BOOLEAN, NEW p \in BOOLEAN, NEW a \in Actions, NEW s
    PROVE  /\ Stamp(a) \in Seq(OpenFor(r, I, g, p))
           /\ a # "provision" => sandboxGet(a, s) \in Seq(OpenFor(r, I, g, p))
           /\ r = ActionRun(a) /\ (a = "provision" => Free(I, g)) =>
                 checkDeployerJob(a) \in Seq(OpenFor(r, I, g, p))
           /\ sandboxCleanup(s) \in Seq(OpenFor(r, I, g, p))
           /\ <<Call("cancel", "provision", "ignore")>> \in Seq(OpenFor(r, I, g, p))
           /\ updateSubjectSandboxVars("ignore") \in Seq(OpenFor(r, I, g, p))
<1> DEFINE O == OpenFor(r, I, g, p)
<1>1. /\ {"get", "poll", "release", "cancel"} \subseteq Ops \ {"schedule"}
      /\ {"ignore", "continue", "fail"} \subseteq OnErrors \ {"provisionError"}
      /\ {a, "provision", "none"} \subseteq Actions \cup {"none", "all", "finish", "continue", "delete"}
      /\ KeepState \in SubjectStates \cup {KeepState}
  BY DEF Ops, OnErrors, Actions
<1>2. Stamp(a) \in Seq(O)
  <2>1. HasMove([NoPatch EXCEPT !.starts = a], KeepState, "keep")
    BY <1>1, Moved
  <2> QED BY <1>1, <2>1, AloneNote DEF Stamp
<1>3. updateSubjectSandboxVars("ignore") \in Seq(O)
  <2>1. HasMove([NoPatch EXCEPT !.vars = "same"], KeepState, "keep")
    BY <1>1, Moved
  <2> QED BY <1>1, <2>1, AloneNote DEF updateSubjectSandboxVars
<1>4. a # "provision" => Call("get", a, "ignore") \in O
  BY <1>1, AloneCall
<1>5. r = ActionRun(a) /\ (a = "provision" => Free(I, g)) => Call("poll", a, "continue") \in O
  BY <1>1, AloneCall
<1>6. Call("release", "none", "fail") \in O
  BY <1>1, AloneCall
<1>7. Call("cancel", "provision", "ignore") \in O
  BY <1>1, AloneCall
<1>8. <<>> \in Seq(O)
  OBVIOUS
<1> HIDE DEF O
<1>9. a # "provision" => sandboxGet(a, s) \in Seq(O)
  BY <1>4, <1>8, Singleton DEF sandboxGet
<1>10. sandboxCleanup(s) \in Seq(O)
  BY <1>6, <1>8, Singleton DEF sandboxCleanup
<1> QED BY <1>2, <1>3, <1>5, <1>7, <1>9, <1>10, Singleton DEF checkDeployerJob, O

\* Starting and stopping the placement, and recording how it went.
LEMMA PowerSole ==
    ASSUME NEW r, NEW I, NEW g \in BOOLEAN, NEW p \in BOOLEAN, NEW a \in Power, NEW f \in OnErrors,
           f = "provisionError" => r = ActionRun("provision") /\ Free(I, g)
    PROVE  /\ sandboxPower(a, f) \in Seq(OpenFor(r, I, g, p))
           /\ \A async : requested(a, f, async) \in Seq(OpenFor(r, I, g, p))
           /\ \A o \in {"successful", "error"} :
                 recordSandboxJobOutcome(a, o, f) \in Seq(OpenFor(r, I, g, p))
           /\ recordSandboxActionFailure(a) \in Seq(OpenFor(r, I, g, p))
<1> DEFINE O == OpenFor(r, I, g, p)
<1>1. a \in Actions /\ {"power", "await"} \subseteq Ops \ {"schedule"} /\ "ignore" \in OnErrors \ {"provisionError"}
      /\ a \in Actions \cup {"none", "all", "finish", "continue", "delete"}
      /\ KeepState \in SubjectStates \cup {KeepState}
  BY DEF Power, Actions, Ops, OnErrors
<1>2. ASSUME NEW c \in O, c.op \in {"power", "patch"} PROVE Traced(c, a) \in O
  <2>1. c \in Calls
    BY DEF OpenFor, AloneFor
  <2> DEFINE d == Traced(c, a)
  <2>2. /\ d \in Calls /\ d.op = c.op /\ d.patch = c.patch /\ d.onError = c.onError
    BY <1>1, <2>1 DEF Traced, Calls
  <2> HIDE DEF d
  <2>3. d \in O
    BY <1>2, <2>2 DEF OpenFor, AloneFor, Final
  <2> QED BY <2>3 DEF d
<1>3. Call("power", a, f) \in O /\ Call("await", a, f) \in O
  BY <1>1, AloneCall
<1>4. Call("power", a, f).op = "power"
  BY DEF Call
<1>5. sandboxPower(a, f) \in Seq(O)
  <2> DEFINE c == Call("power", a, f)
  <2>1. Traced(c, a) \in O
    BY <1>2, <1>3, <1>4
  <2> HIDE DEF O
  <2> QED BY <2>1, Singleton DEF sandboxPower
<1>6. ASSUME NEW async PROVE requested(a, f, async) \in Seq(O)
  <2> DEFINE d == [SkipPatch(NoPatch) EXCEPT !.onError = f]
             c == Call("await", a, f)
  <2>1. HasMove(NoPatch, KeepState, "keep")
    BY <1>1, Moved
  <2>2. IsMove(d, KeepState, "keep", f)
    BY <2>1, MoveForm
  <2>3. d \in O
    <3>1. MayMove(r, I, g, KeepState) /\ "keep" \in {"keep", "running"}
      BY FreeMoves
    <3> HIDE DEF d
    <3> QED BY <2>2, <3>1, AloneMove
  <2>4. Traced(d, a) \in O
    <3> HIDE DEF d
    <3> QED BY <1>2, <2>2, <2>3 DEF IsMove
  <2>5. requested(a, f, async) = <<Traced(d, a)>> \o (IF async THEN <<c>> ELSE <<>>)
    BY DEF requested
  <2>6. <<Traced(d, a)>> \in Seq(O) /\ <<c>> \in Seq(O) /\ <<>> \in Seq(O)
    <3> HIDE DEF O, c, d
    <3> QED BY <1>3, <2>4, Singleton DEF c
  <2> HIDE DEF O, c, d
  <2> QED BY <2>5, <2>6, Concat
<1>7. ASSUME NEW o \in {"successful", "error"}
      PROVE  recordSandboxJobOutcome(a, o, f) \in Seq(O) /\ recordSandboxJobOutcome(a, o, "ignore") \in Seq(O)
  <2> DEFINE q == [NoPatch EXCEPT !.request = a, !.outcome = o]
  <2>1. HasMove(q, KeepState, "keep")
    BY <1>1, Moved
  <2> HIDE DEF q
  <2>2. /\ <<[SkipPatch(q) EXCEPT !.onError = f]>> \in Seq(O)
        /\ <<[SkipPatch(q) EXCEPT !.onError = "ignore"]>> \in Seq(O)
    BY <1>1, <2>1, AloneNote
  <2> QED BY <2>2 DEF recordSandboxJobOutcome, q
<1> QED BY <1>5, <1>6, <1>7 DEF recordSandboxActionFailure

\* A provision without another job in progress that moves the subject.
LEMMA ProvisionAlone ==
    ASSUME NEW r, NEW I, NEW g \in BOOLEAN, NEW p \in BOOLEAN, r = ActionRun("provision"), Free(I, g)
    PROVE  /\ handleProvisionError \in Seq(OpenFor(r, I, g, p))
           /\ handleProvisionFailed \in Seq(OpenFor(r, I, g, p))
           /\ handleProvisionCanceled \in Seq(OpenFor(r, I, g, p))
           /\ handleProvisionComplete \in Seq(OpenFor(r, I, g, p))
           /\ completeProvisionNoDeployer \in Seq(OpenFor(r, I, g, p))
           /\ transitionToQueued \in Seq(OpenFor(r, I, g, p))
           /\ updateSubjectSandboxVars("provisionError") \in Seq(OpenFor(r, I, g, p))
           /\ \A op \in {"get", "book", "reget", "checkQueue"} :
                 <<Call(op, "provision", "provisionError")>> \in Seq(OpenFor(r, I, g, p))
           /\ <<SkipPatch([NoPatch EXCEPT !.state = Pending("provision"), !.vars = "same"])>>
                 \in Seq(OpenFor(r, I, g, p))
<1> DEFINE O == OpenFor(r, I, g, p)
<1>1. /\ "provision" \in Actions /\ "provisionError" \in OnErrors
      /\ {"error", "failed", "canceled"} \subseteq FailureStatuses
      /\ {"get", "book", "reget", "checkQueue"} \subseteq Ops \ {"schedule", "launch", "poll", "cancel"}
      /\ KeepState \in SubjectStates \cup {KeepState} /\ "provision" # "destroy"
  BY DEF Actions, OnErrors, FailureStatuses, Ops
<1>2. /\ {Started, Queued, Pending("provision")} \subseteq SubjectStates \cup {KeepState}
      /\ \A f \in FailureStatuses : Failure("provision", f) \in SubjectStates \cup {KeepState}
  BY <1>1, States
<1>3. /\ \A st \in {Started, Queued, Pending("provision")} : MayMove(r, I, g, st)
      /\ \A f \in FailureStatuses : MayMove(r, I, g, Failure("provision", f))
  BY <1>1, FreeMoves, Moving
<1>4. /\ \A st \in SubjectStates \cup {KeepState} :
            /\ HasMove([NoPatch EXCEPT !.state = st], st, "keep")
            /\ HasMove([NoPatch EXCEPT !.state = st, !.vars = "same"], st, "keep")
            /\ HasMove(Ends("provision", st), st, "keep")
            /\ HasMove([Ends("provision", st) EXCEPT !.vars = "forensics"], st, "keep")
      /\ HasMove([NoPatch EXCEPT !.vars = "same"], KeepState, "keep")
  BY <1>1, Moved
<1>5. Post("finish") \in Seq(O) /\ Post("continue") \in Seq(O)
  BY PostsAlone
<1>6. ASSUME NEW q, NEW st, HasMove(q, st, "keep"), MayMove(r, I, g, st)
      PROVE  <<Patch(q)>> \in Seq(O) /\ <<SkipPatch(q)>> \in Seq(O)
  BY <1>6, AloneMoves
<1>7. updateSubjectSandboxVars("provisionError") \in Seq(O)
  BY <1>1, <1>4, AloneNote DEF updateSubjectSandboxVars
<1>8. ASSUME NEW op \in {"get", "book", "reget", "checkQueue"}
      PROVE  <<Call(op, "provision", "provisionError")>> \in Seq(O)
  <2>1. /\ op \in Ops \ {"schedule"} /\ op # "launch" /\ op # "poll" /\ op # "cancel"
        /\ "provision" \in Actions \cup {"none", "all", "finish", "continue", "delete"}
    BY <1>1
  <2>2. Call(op, "provision", "provisionError") \in O
    BY <1>1, <2>1, AloneCall
  <2> HIDE DEF O
  <2> QED BY <2>2, Singleton
<1> HIDE DEF O
<1>9. /\ <<Patch(Ends("provision", Failure("provision", "error")))>> \in Seq(O)
      /\ <<Patch([Ends("provision", Failure("provision", "failed")) EXCEPT !.vars = "forensics"])>> \in Seq(O)
      /\ <<SkipPatch(Ends("provision", Failure("provision", "canceled")))>> \in Seq(O)
  BY <1>1, <1>2, <1>3, <1>4, <1>6
<1>10. /\ <<Patch(Ends("provision", Started))>> \in Seq(O)
       /\ <<Patch([NoPatch EXCEPT !.state = Started])>> \in Seq(O)
       /\ <<SkipPatch([NoPatch EXCEPT !.state = Queued])>> \in Seq(O)
       /\ <<SkipPatch([NoPatch EXCEPT !.state = Pending("provision"), !.vars = "same"])>> \in Seq(O)
  BY <1>2, <1>3, <1>4, <1>6
<1>11. /\ handleProvisionError \in Seq(O) /\ handleProvisionFailed \in Seq(O)
       /\ handleProvisionCanceled \in Seq(O)
  BY <1>5, <1>9, Concat DEF handleProvisionError, handleProvisionFailed, handleProvisionCanceled
<1>12. /\ handleProvisionComplete \in Seq(O) /\ completeProvisionNoDeployer \in Seq(O)
       /\ transitionToQueued \in Seq(O)
  BY <1>5, <1>10, Concat DEF handleProvisionComplete, completeProvisionNoDeployer, transitionToQueued
<1> QED BY <1>7, <1>8, <1>10, <1>11, <1>12 DEF O

\* The launch of a provision.
LEMMA ProvisionLaunch ==
    ASSUME NEW r, NEW I, NEW g \in BOOLEAN, NEW p \in BOOLEAN, r = ActionRun("provision"), Free(I, g),
           "provision" \in I
    PROVE  SoleFor(r, I, g, p, launchProvision)
<1> DEFINE O == OpenFor(r, I, g, p)
           l == launchTowerJob("provision", "provisionError")
<1>1. "provision" \in Actions /\ "provisionError" \in OnErrors /\ "provision" \notin Power
  BY DEF Actions, OnErrors, Power
<1>2. MayLaunch(r, I, g, "provision") /\ MayMove(r, I, g, Running("provision"))
  <2>1. ~Departs(Running("provision"))
    BY Resting
  <2> QED BY <1>1, <2>1, FreeMoves DEF MayLaunch
<1>3. <<>> \in Seq(O)
  OBVIOUS
<1>4. SoleFor(r, I, g, p, (<<>> \o l) \o Post("continue"))
  BY <1>1, <1>2, <1>3, LaunchSole
<1>5. <<>> \o l = l
  <2>1. PICK d \in Calls : l = <<Call("launch", "provision", "provisionError")>> \o <<d>>
    BY <1>1, LaunchForm
  <2> DEFINE c == Call("launch", "provision", "provisionError")
  <2> HIDE DEF c, l
  <2>2. l = <<c>> \o <<d>>
    BY <2>1 DEF c
  <2> QED BY <2>2
<1>6. SoleFor(r, I, g, p, l \o Post("continue"))
  <2> HIDE DEF l
  <2> QED BY <1>4, <1>5
<1>7. SoleFor(r, I, g, p, completeProvisionNoDeployer) /\ SoleFor(r, I, g, p, Post("none"))
  BY ProvisionAlone, PostsAlone, SoleConcat
<1> QED BY <1>6, <1>7 DEF launchProvision

\* Provisions, from the first call and once the placement is there.
LEMMA ProvisionSole ==
    ASSUME NEW r, NEW I, NEW g \in BOOLEAN, NEW p \in BOOLEAN, r = ActionRun("provision"), Free(I, g), NEW s
    PROVE  /\ "provision" \in I =>
                 /\ SoleFor(r, I, g, p, runProvision(s))
                 /\ \A st \in PlacementStatuses : SoleFor(r, I, g, p, queueChecked(st, s))
           /\ (s.state \in {Pending("provision"), Queued} => "provision" \in I)
              => SoleFor(r, I, g, p, handleProvision(s))
<1> DEFINE O == OpenFor(r, I, g, p)
           Ok(q) == SoleFor(r, I, g, p, q)
<1>1. "provision" \in Actions /\ KeepState \in SubjectStates \cup {KeepState}
  BY DEF Actions
<1>2. Post("none") \in Seq(O) /\ Post("continue") \in Seq(O) /\ handleProvisionError \in Seq(O)
  BY PostsAlone, ProvisionAlone
<1>3. /\ <<Patch([NoPatch EXCEPT !.starts = "provision"])>> \in Seq(O)
      /\ <<SkipPatch(NoPatch)>> \in Seq(O)
  <2>1. /\ HasMove([NoPatch EXCEPT !.starts = "provision"], KeepState, "keep")
        /\ HasMove(NoPatch, KeepState, "keep")
    BY <1>1, Moved
  <2>2. MayMove(r, I, g, KeepState)
    BY FreeMoves
  <2> QED BY <2>1, <2>2, AloneMoves
<1>4. /\ <<SkipPatch([NoPatch EXCEPT !.state = Pending("provision"), !.vars = "same"])>> \in Seq(O)
      /\ <<Call("get", "provision", "provisionError")>> \in Seq(O)
      /\ <<Call("checkQueue", "provision", "provisionError")>> \in Seq(O)
  BY ProvisionAlone
<1>5. checkDeployerJob("provision") \in Seq(O)
  BY <1>1, SmallSole
<1>6. <<>> \in Seq(O)
  OBVIOUS
<1>7. \A q \in Seq(O) : Ok(q) /\ \A t : Ok(t) => Ok(q \o t)
  BY SoleConcat
<1>8. "provision" \in I => Ok(launchProvision)
  BY ProvisionLaunch
<1> HIDE DEF Ok, O
<1>9. ASSUME "provision" \in I PROVE Ok(runProvision(s))
  <2> DEFINE first == IF "provision" \in s.started THEN <<>>
                      ELSE <<Patch([NoPatch EXCEPT !.starts = "provision"])>>
             rest == CASE ~SandboxInUse -> launchProvision
                       [] SandboxInUse /\ s.uuid /\ s.token ->
                            <<Call("get", "provision", "provisionError")>> \o launchProvision
                       [] OTHER -> handleProvisionError
  <2>1. first \in Seq(O)
    BY <1>3, <1>6
  <2>2. Ok(<<Call("get", "provision", "provisionError")>> \o launchProvision)
    BY <1>4, <1>7, <1>8, <1>9
  <2>3. Ok(handleProvisionError)
    BY <1>2, <1>7
  <2>4. Ok(rest)
    BY <1>8, <1>9, <2>2, <2>3
  <2>5. runProvision(s) = first \o rest
    BY DEF runProvision
  <2> HIDE DEF first, rest
  <2> QED BY <1>7, <2>1, <2>4, <2>5
<1>10. ASSUME "provision" \in I, NEW st \in PlacementStatuses PROVE Ok(queueChecked(st, s))
  <2> DEFINE one == <<SkipPatch([NoPatch EXCEPT !.state = Pending("provision"), !.vars = "same"])>>
             two == <<SkipPatch(NoPatch)>>
  <2>1. one \in Seq(O) /\ two \in Seq(O)
    BY <1>3, <1>4
  <2> HIDE DEF one, two
  <2>2. Ok(one \o runProvision(s)) /\ Ok(two \o Post("continue")) /\ Ok(handleProvisionError)
    BY <1>2, <1>7, <1>9, <1>10, <2>1
  <2> QED BY <2>2 DEF queueChecked, one, two, PlacementStatuses, NotReady
<1>11. Ok(checkProvisionQueue(s))
  BY <1>2, <1>4, <1>7 DEF checkProvisionQueue
<1>12. ASSUME s.state \in {Pending("provision"), Queued} => "provision" \in I
       PROVE  Ok(handleProvision(s))
  <2>1. Ok(checkDeployerJob("provision")) /\ Ok(Post("none"))
    BY <1>2, <1>5, <1>7
  <2> QED BY <1>9, <1>11, <1>12, <2>1 DEF handleProvision
<1> QED BY <1>9, <1>10, <1>12 DEF Ok

\* What a provision does with an answer of the sandbox API.
LEMMA PlacementSole ==
    ASSUME NEW r, NEW I, NEW g \in BOOLEAN, NEW p \in BOOLEAN, r = ActionRun("provision"), Free(I, g),
           NEW st \in PlacementStatuses \cup {"invalid", "refused"}, NEW rest, SoleFor(r, I, g, p, rest)
    PROVE  /\ st \in PlacementStatuses => /\ SoleFor(r, I, g, p, placedOrNot(st, rest))
                                          /\ SoleFor(r, I, g, p, bookedAgain(st, rest))
           /\ st # "absent" => SoleFor(r, I, g, p, booked(st, rest))
<1> DEFINE O == OpenFor(r, I, g, p)
           Ok(q) == SoleFor(r, I, g, p, q)
<1>1. \A q \in Seq(O) : Ok(q) /\ \A t : Ok(t) => Ok(q \o t)
  BY SoleConcat
<1>2. /\ handleProvisionError \in Seq(O) /\ transitionToQueued \in Seq(O) /\ Post("finish") \in Seq(O)
      /\ <<Call("book", "provision", "provisionError")>> \in Seq(O)
      /\ <<Call("reget", "provision", "provisionError")>> \in Seq(O)
      /\ updateSubjectSandboxVars("provisionError") \in Seq(O)
  BY ProvisionAlone, PostsAlone
<1>3. Ok(rest)
  OBVIOUS
<1> HIDE DEF O, Ok
<1>4. /\ Ok(handleProvisionError) /\ Ok(transitionToQueued) /\ Ok(Post("finish"))
      /\ Ok(<<Call("book", "provision", "provisionError")>> \o rest)
      /\ Ok(<<Call("reget", "provision", "provisionError")>> \o rest)
      /\ Ok(updateSubjectSandboxVars("provisionError") \o rest)
  BY <1>1, <1>2, <1>3
<1>5. st \in PlacementStatuses => Ok(placedOrNot(st, rest))
  BY <1>4 DEF placedOrNot, PlacementStatuses, NotReady
<1>6. st # "absent" => Ok(booked(st, rest))
  BY <1>3, <1>4 DEF booked, PlacementStatuses, NotReady
<1>7. st \in PlacementStatuses => Ok(bookedAgain(st, rest))
  BY <1>3, <1>5 DEF bookedAgain
<1> QED BY <1>5, <1>6, <1>7 DEF Ok

\* Starts and stops, which launch their job unless the state says that it is in progress.
LEMMA StartStopSole ==
    ASSUME PowerDeployed, NEW r, NEW I, NEW g \in BOOLEAN, NEW p \in BOOLEAN, NEW a \in Power,
           r = ActionRun(a), NEW s, s.state # Running(a) => Free(I, g)
    PROVE  SoleFor(r, I, g, p, Dispatch(r, s))
<1> DEFINE O == OpenFor(r, I, g, p)
           Ok(q) == SoleFor(r, I, g, p, q)
<1>1. a \in Actions /\ a \notin {"provision", "status", "destroy", "update"} /\ a \notin Disabled
      /\ {"fail", "ignore"} \subseteq OnErrors \ {"provisionError"}
  BY DEF Power, Actions, OnErrors, PowerDeployed
<1>2. Stamp(a) \in Seq(O) /\ sandboxGet(a, s) \in Seq(O) /\ checkDeployerJob(a) \in Seq(O)
  BY <1>1, SmallSole
<1>3. sandboxPower(a, "ignore") \in Seq(O) /\ <<>> \in Seq(O)
  <2>1. "ignore" \in OnErrors /\ "ignore" # "provisionError"
    BY <1>1
  <2>2. sandboxPower(a, "ignore") \in Seq(O)
    BY <2>1, PowerSole
  <2>3. <<>> \in Seq(O)
    OBVIOUS
  <2> QED BY <2>2, <2>3
<1>4. \A q \in Seq(O) : Ok(q) /\ \A t : Ok(t) => Ok(q \o t)
  BY SoleConcat
<1>5. s.state # Running(a) => Ok((sandboxGet(a, s) \o launchTowerJob(a, "fail")) \o Post("continue"))
  <2> SUFFICES ASSUME Free(I, g)
               PROVE  Ok((sandboxGet(a, s) \o launchTowerJob(a, "fail")) \o Post("continue"))
    OBVIOUS
  <2>1. MayLaunch(r, I, g, a)
    BY DEF Free, MayLaunch
  <2>2. ~Departs(Running(a))
    BY Resting DEF Power
  <2>3. MayMove(r, I, g, Running(a))
    BY <2>2, FreeMoves
  <2>4. sandboxGet(a, s) \in Seq(OpenFor(r, I, g, p))
    BY <1>2
  <2> QED BY <1>1, <2>1, <2>3, <2>4, LaunchSole
<1> HIDE DEF O, Ok
<1>6. s.state # Running(a) => Ok(launchAndPoll(a, s)) /\ Ok(sandboxPower(a, "ignore") \o launchAndPoll(a, s))
  BY <1>3, <1>4, <1>5 DEF launchAndPoll
<1>7. Ok(checkDeployerJob(a))
  BY <1>2, <1>4
<1>8. CASE a = "start"
  <2>1. Dispatch(r, s) = handleStart(s)
    BY <1>8 DEF Dispatch, ActionRun
  <2>2. CASE s.state = Running("start")
    <3>1. handleStart(s) = checkDeployerJob("start")
      BY <1>1, <1>8, <2>2 DEF handleStart
    <3> QED BY <1>7, <1>8, <2>1, <3>1 DEF Ok
  <2>3. CASE s.state # Running("start")
    <3>1. handleStart(s) = Stamp("start") \o ((IF powerOn THEN sandboxPower("start", "ignore") ELSE <<>>)
                                              \o launchAndPoll("start", s))
      BY <1>1, <1>8, <2>3 DEF handleStart, runStart
    <3>2. Ok((IF powerOn THEN sandboxPower("start", "ignore") ELSE <<>>) \o launchAndPoll("start", s))
      BY <1>3, <1>4, <1>6, <1>8, <2>3
    <3>3. Ok(handleStart(s))
      BY <1>2, <1>4, <1>8, <3>1, <3>2
    <3> QED BY <2>1, <3>3 DEF Ok
  <2> QED BY <2>2, <2>3
<1>9. CASE a = "stop"
  <2>1. Dispatch(r, s) = handleStop(s)
    BY <1>9 DEF Dispatch, ActionRun
  <2>2. CASE s.state = Running("stop")
    <3>1. handleStop(s) = checkDeployerJob("stop")
      BY <1>1, <1>9, <2>2 DEF handleStop
    <3> QED BY <1>7, <1>9, <2>1, <3>1 DEF Ok
  <2>3. CASE s.state # Running("stop")
    <3>1. handleStop(s) = Stamp("stop") \o launchAndPoll("stop", s)
      BY <1>1, <1>9, <2>3 DEF handleStop, runStop
    <3>2. Ok(handleStop(s))
      BY <1>2, <1>4, <1>6, <1>9, <2>3, <3>1
    <3> QED BY <2>1, <3>2 DEF Ok
  <2> QED BY <2>2, <2>3
<1> QED BY <1>8, <1>9 DEF Power

\* A destruction, which launches its job unless the state says that it is in progress.
LEMMA DestroySole ==
    ASSUME NEW r, NEW I, NEW g \in BOOLEAN, NEW p \in BOOLEAN, r = ActionRun("destroy"), NEW s,
           s.state # Running("destroy") => "destroy" \in I
    PROVE  SoleFor(r, I, g, p, handleDestroy(s))
<1> DEFINE O == OpenFor(r, I, g, p)
           Ok(q) == SoleFor(r, I, g, p, q)
           cancels == <<Call("cancel", "provision", "ignore")>>
           l == launchTowerJob("destroy", "fail")
           first == IF s.state = Pending("destroy") /\ "destroy" \notin s.started THEN Stamp("destroy") ELSE <<>>
           failed == \E f \in FailureStatuses : s.state = Failure("destroy", f)
           rest == IF SandboxInUse /\ CatchAll /\ (failed \/ "destroy" \in Disabled)
                   THEN handleDestroyCatchAll(s)
                   ELSE IF "destroy" \in Disabled THEN Post("none")
                   ELSE IF s.state = Running("destroy") THEN checkDeployerJob("destroy")
                   ELSE runDestroy(s)
<1>1. /\ "destroy" \in Actions /\ "destroy" # "provision" /\ "destroy" # "status"
      /\ "fail" \in OnErrors \ {"provisionError"}
      /\ "destroy" \notin Power
  BY DEF Actions, OnErrors, Power
<1>2. /\ Stamp("destroy") \in Seq(O) /\ sandboxGet("destroy", s) \in Seq(O) /\ checkDeployerJob("destroy") \in Seq(O)
      /\ sandboxCleanup(s) \in Seq(O) /\ cancels \in Seq(O)
  BY <1>1, SmallSole
<1>3. Post("delete") \in Seq(O) /\ Post("none") \in Seq(O)
  BY PostsAlone
<1>4. \A q \in Seq(O) : Ok(q) /\ \A t : Ok(t) => Ok(q \o t)
  BY SoleConcat
<1>5. <<>> \in Seq(O)
  OBVIOUS
<1>6. sandboxGet("destroy", s) \o cancels \in Seq(O)
  <2> HIDE DEF O, cancels
  <2> QED BY <1>2, Concat
<1>7. s.state # Running("destroy") => Ok(((sandboxGet("destroy", s) \o cancels) \o l) \o Post("continue"))
  <2> SUFFICES ASSUME "destroy" \in I
               PROVE  Ok(((sandboxGet("destroy", s) \o cancels) \o l) \o Post("continue"))
    OBVIOUS
  <2>1. MayLaunch(r, I, g, "destroy")
    BY <1>1 DEF MayLaunch
  <2>2. MayMove(r, I, g, Running("destroy"))
    BY Moving DEF MayMove
  <2> DEFINE q == sandboxGet("destroy", s) \o cancels
  <2>3. q \in Seq(OpenFor(r, I, g, p))
    BY <1>6
  <2> HIDE DEF q, cancels
  <2>4. SoleFor(r, I, g, p, (q \o launchTowerJob("destroy", "fail")) \o Post("continue"))
    BY <1>1, <2>1, <2>2, <2>3, LaunchSole
  <2> QED BY <2>4 DEF q
<1>8. handleDestroy(s) = first \o rest
  BY DEF handleDestroy
<1> HIDE DEF O, Ok, cancels, l, first
<1>9. s.state # Running("destroy") => Ok(runDestroy(s))
  BY <1>7 DEF runDestroy, cancels, l
<1>10. Ok(handleDestroyCatchAll(s))
  BY <1>2, <1>3, <1>4 DEF handleDestroyCatchAll
<1>11. Ok(rest)
  BY <1>2, <1>3, <1>4, <1>9, <1>10
<1>12. first \in Seq(O)
  BY <1>2, <1>5 DEF first
<1> HIDE DEF rest
<1> QED BY <1>4, <1>8, <1>11, <1>12 DEF Ok

\* A status check, the same.
LEMMA StatusSole ==
    ASSUME NEW r, NEW I, NEW g \in BOOLEAN, NEW p \in BOOLEAN, r = ActionRun("status"), NEW s,
           s.css # "running" \/ "status" \in Disabled => "status" \in I
    PROVE  SoleFor(r, I, g, p, handleStatus(s))
<1> DEFINE O == OpenFor(r, I, g, p)
           Ok(q) == SoleFor(r, I, g, p, q)
<1>1. "status" \in Actions /\ "status" # "provision" /\ "fail" \in OnErrors \ {"provisionError"}
      /\ "status" \notin Power /\ "successful" \in JobStatuses \cup {"pending"}
      /\ KeepState \in SubjectStates \cup {KeepState}
  BY DEF Actions, OnErrors, Power, JobStatuses
<1>2. Stamp("status") \in Seq(O) /\ sandboxGet("status", s) \in Seq(O) /\ checkDeployerJob("status") \in Seq(O)
  BY <1>1, SmallSole
<1>3. Post("finish") \in Seq(O) /\ Post("none") \in Seq(O)
  BY PostsAlone
<1>4. \A q \in Seq(O) : Ok(q) /\ \A t : Ok(t) => Ok(q \o t)
  BY SoleConcat
<1>5. "status" \in I /\ "status" \notin Disabled
      => Ok((sandboxGet("status", s) \o launchTowerJob("status", "fail")) \o Post("continue"))
  <2> SUFFICES ASSUME "status" \in I, "status" \notin Disabled
               PROVE  Ok((sandboxGet("status", s) \o launchTowerJob("status", "fail")) \o Post("continue"))
    OBVIOUS
  <2>1. MayLaunch(r, I, g, "status")
    BY <1>1 DEF MayLaunch
  <2>2. sandboxGet("status", s) \in Seq(OpenFor(r, I, g, p))
    BY <1>2
  <2> QED BY <1>1, <2>1, <2>2, LaunchSole
<1>6. "status" \in I => <<SkipPatch([NoPatch EXCEPT !.css = "successful"])>> \in Seq(O)
  <2> DEFINE q == [NoPatch EXCEPT !.css = "successful"]
             c == SkipPatch(q)
  <2>1. HasMove(q, KeepState, "successful")
    BY <1>1, Moved
  <2> HIDE DEF q
  <2>2. IsMove(c, KeepState, "successful", "fail")
    BY <1>1, <2>1, MoveForm
  <2> HIDE DEF c
  <2>3. "status" \in I => c \in O
    <3>1. MayMove(r, I, g, KeepState) /\ "fail" # "provisionError"
      BY FreeMoves
    <3> QED BY <2>2, <3>1, AloneMove
  <2> HIDE DEF O
  <2> QED BY <2>3, Singleton DEF c, q
<1> HIDE DEF O, Ok
<1>7. "status" \in I => Ok(statusSuccessful(NoPatch))
  <2> DEFINE q == <<SkipPatch([NoPatch EXCEPT !.css = "successful"])>>
  <2>1. statusSuccessful(NoPatch) = q \o Post("finish")
    BY DEF statusSuccessful
  <2>2. "status" \in I => q \in Seq(O)
    BY <1>6
  <2> HIDE DEF q
  <2> QED BY <1>3, <1>4, <2>1, <2>2
<1>8. "status" \in I => Ok(runStatus(s))
  <2>1. "status" \in I /\ "status" \notin Disabled => Ok(launchAndPoll("status", s))
    BY <1>5 DEF launchAndPoll
  <2> QED BY <1>2, <1>4, <1>7, <2>1 DEF runStatus
<1>9. Ok(checkDeployerJob("status")) /\ Ok(Post("none"))
  BY <1>2, <1>3, <1>4
<1>10. Ok(handleStatus(s))
  BY <1>7, <1>8, <1>9 DEF handleStatus
<1> QED BY <1>10 DEF Ok

\* The create event.
LEMMA CreateSole ==
    ASSUME NEW r, NEW I, NEW g \in BOOLEAN, NEW p \in BOOLEAN, r = EventRun("create"), NEW s,
           s.state = NoState => Free(I, g)
    PROVE  SoleFor(r, I, g, p, handleEventCreate(s))
<1> DEFINE O == OpenFor(r, I, g, p)
           q == [NoPatch EXCEPT !.state = Pending("provision"), !.uuid = TRUE]
           first == IF s.state = NoState THEN <<SkipPatch(q)>> ELSE <<>>
           c == <<Schedule("provision", {})>>
<1>1. HasMove(q, Pending("provision"), "keep")
  <2>1. "provision" \in Actions /\ Pending("provision") \in SubjectStates \cup {KeepState}
    BY States DEF Actions
  <2> QED BY <2>1, Moved
<1>2. handleEventCreate(s) = (first \o c) \o Post("none")
  BY DEF handleEventCreate
<1> HIDE DEF q
<1>3. Free(I, g) => <<SkipPatch(q)>> \in Seq(O)
  <2>1. Free(I, g) => MayMove(r, I, g, Pending("provision"))
    BY Resting, FreeMoves
  <2> QED BY <1>1, <2>1, AloneMoves
<1>4. c \in Seq(O)
  <2>1. "provision" \in Actions /\ {} \in SUBSET Actions /\ r.kind # "action"
        /\ MaySchedule(r, I, g, p, "provision", {})
    BY DEF Actions, EventRun, MaySchedule, Power
  <2> QED BY <2>1, AloneSchedule
<1>5. <<>> \in Seq(O)
  OBVIOUS
<1>6. Post("none") \in Seq(O)
  BY PostsAlone
<1>7. first \in Seq(O)
  BY <1>3, <1>5
<1> HIDE DEF O, c, first
<1>8. handleEventCreate(s) \in Seq(O)
  BY <1>2, <1>4, <1>6, <1>7, Concat
<1> QED BY <1>8, SoleConcat DEF O

\* An update event, which moves a subject that is started or stopped.
LEMMA UpdateSole ==
    ASSUME PowerDeployed, NEW r, NEW I, NEW g \in BOOLEAN, NEW p \in BOOLEAN, r = EventRun("update"), NEW s,
           s.state \in {Started, Stopped} => Free(I, g), s.css # "running" => "status" \in I
    PROVE  SoleFor(r, I, g, p, handleEventUpdate(s))
<1> DEFINE O == OpenFor(r, I, g, p)
           a == determineUpdateAction(s)
           first == IF a \in GovActions THEN scheduleUpdateAction(a) ELSE <<>>
           check == IF "status" \in GovActions /\ shouldScheduleStatus(s) THEN scheduleStatusCheck ELSE <<>>
<1>1. <<>> \in Seq(O)
  OBVIOUS
<1>2. Post("none") \in Seq(O)
  BY PostsAlone
<1>3. r.kind # "action" /\ Power \subseteq Actions /\ "fail" \in OnErrors
  BY DEF EventRun, Power, Actions, OnErrors
<1>4. check \in Seq(O)
  <2>1. shouldScheduleStatus(s) => s.css # "running"
    BY DEF shouldScheduleStatus
  <2>2. "status" \in I => <<SkipPatch([NoPatch EXCEPT !.css = "pending"])>> \in Seq(O)
    <3> DEFINE q == [NoPatch EXCEPT !.css = "pending"]
               c == SkipPatch(q)
    <3>1. HasMove(q, KeepState, "pending")
      <4>1. "status" \in Actions /\ KeepState \in SubjectStates \cup {KeepState}
            /\ "pending" \in JobStatuses \cup {"pending"}
        BY DEF Actions
      <4> QED BY <4>1, Moved
    <3> HIDE DEF q
    <3>2. IsMove(c, KeepState, "pending", "fail")
      BY <1>3, <3>1, MoveForm
    <3> HIDE DEF c
    <3>3. "status" \in I => c \in O
      <4>1. MayMove(r, I, g, KeepState) /\ "fail" # "provisionError"
        BY FreeMoves
      <4> QED BY <3>2, <4>1, AloneMove
    <3> HIDE DEF O
    <3> QED BY <3>3, Singleton DEF c, q
  <2>3. <<Schedule("status", {})>> \in Seq(O)
    <3>1. "status" \in Actions /\ {} \in SUBSET Actions /\ MaySchedule(r, I, g, p, "status", {})
      BY DEF Actions, MaySchedule, Power
    <3> QED BY <1>3, <3>1, AloneSchedule
  <2>4. scheduleStatusCheck
          = <<SkipPatch([NoPatch EXCEPT !.css = "pending"])>> \o <<Schedule("status", {})>>
    BY DEF scheduleStatusCheck
  <2> DEFINE u == <<SkipPatch([NoPatch EXCEPT !.css = "pending"])>>
             v == <<Schedule("status", {})>>
  <2> HIDE DEF O, u, v
  <2>5. "status" \in I => scheduleStatusCheck \in Seq(O)
    <3>1. scheduleStatusCheck = u \o v /\ v \in Seq(O) /\ ("status" \in I => u \in Seq(O))
      BY <2>2, <2>3, <2>4 DEF u, v
    <3> QED BY <3>1, Concat
  <2> QED BY <1>1, <2>1, <2>5
<1>5. first \in Seq(O)
  <2> SUFFICES ASSUME a \in GovActions PROVE scheduleUpdateAction(a) \in Seq(O)
    BY <1>1
  <2>1. a \in Power /\ Free(I, g)
    BY UpdateAction DEF Power
  <2> HIDE DEF a
  <2> DEFINE q == [NoPatch EXCEPT !.state = Pending(a)]
             u == <<SkipPatch(q)>>
             v == <<Schedule(a, {"start", "stop"})>>
  <2>2. u \in Seq(O)
    <3>1. a \in Actions \ {"destroy"} /\ Pending(a) \in SubjectStates \cup {KeepState}
      BY <2>1, States DEF Power, Actions
    <3>2. HasMove(q, Pending(a), "keep")
      BY <3>1, Moved
    <3>3. MayMove(r, I, g, Pending(a))
      BY <2>1, <3>1, Moving, FreeMoves
    <3> HIDE DEF q
    <3> QED BY <3>2, <3>3, AloneMoves
  <2>3. v \in Seq(O)
    <3>1. /\ a \in Actions /\ {"start", "stop"} \in SUBSET Actions
          /\ MaySchedule(r, I, g, p, a, {"start", "stop"})
      BY <2>1 DEF Actions, MaySchedule, Power, Free
    <3> QED BY <1>3, <3>1, AloneSchedule
  <2>4. scheduleUpdateAction(a) = u \o v
    BY DEF scheduleUpdateAction
  <2> HIDE DEF O, u, v
  <2> QED BY <2>2, <2>3, <2>4, Concat
<1>6. handleEventUpdate(s) = (first \o check) \o Post("none")
  BY DEF handleEventUpdate
<1> HIDE DEF O, first, check
<1>7. handleEventUpdate(s) \in Seq(O)
  BY <1>2, <1>4, <1>5, <1>6, Concat
<1> QED BY <1>7, SoleConcat DEF O

\* A delete event, which finds no destroy job.
LEMMA DeleteSole ==
    ASSUME NEW r, NEW I, NEW g \in BOOLEAN, NEW p \in BOOLEAN, r = EventRun("delete"), "destroy" \in I, NEW s
    PROVE  SoleFor(r, I, g, p, handleEventDelete(s))
<1> DEFINE O == OpenFor(r, I, g, p)
           cancels == <<Call("cancel", "all", "ignore")>>
           q(st) == [NoPatch EXCEPT !.state = st, !.desired = "destroyed"]
           destroys == <<Schedule("destroy", {"start", "stop", "update"})>>
           cleanup == IF SandboxInUse /\ CatchAll /\ s.uuid THEN sandboxCleanup(s) ELSE <<>>
<1>1. r.kind # "action" /\ "destroy" \in Actions
  BY DEF EventRun, Actions
<1>2. cancels \in Seq(O)
  <2>1. "cancel" \in Ops \ {"schedule"} /\ "ignore" \in OnErrors \ {"provisionError"}
    BY DEF Ops, OnErrors
  <2>2. Call("cancel", "all", "ignore") \in O
    BY <2>1, AloneCall
  <2> HIDE DEF O
  <2> QED BY <2>2, Singleton
<1>3. \A st \in {Pending("destroy"), DestroyComplete} : <<Patch(q(st))>> \in Seq(O)
  <2> SUFFICES ASSUME NEW st \in {Pending("destroy"), DestroyComplete} PROVE <<Patch(q(st))>> \in Seq(O)
    OBVIOUS
  <2>1. st \in SubjectStates \cup {KeepState} /\ Departs(st)
    BY <1>1, States DEF Departs, Pending, DestroyComplete
  <2>2. HasMove(q(st), st, "keep")
    BY <1>1, <2>1, Moved
  <2>3. MayMove(r, I, g, st)
    BY <2>1 DEF MayMove
  <2> DEFINE u == q(st)
  <2> HIDE DEF u
  <2>4. HasMove(u, st, "keep")
    BY <2>2 DEF u
  <2>5. <<Patch(u)>> \in Seq(O)
    BY <2>3, <2>4, AloneMoves
  <2> QED BY <2>5 DEF u
<1>4. destroys \in Seq(O)
  <2>1. {"start", "stop", "update"} \in SUBSET Actions
        /\ MaySchedule(r, I, g, p, "destroy", {"start", "stop", "update"})
    BY DEF Actions, MaySchedule, Power
  <2> QED BY <1>1, <2>1, AloneSchedule
<1>5. Post("none") \in Seq(O) /\ Post("delete") \in Seq(O)
  BY PostsAlone
<1>6. cleanup \in Seq(O)
  <2>1. sandboxCleanup(s) \in Seq(O)
    BY <1>1, SmallSole
  <2>2. <<>> \in Seq(O)
    OBVIOUS
  <2> QED BY <2>1, <2>2
<1> DEFINE dooms == <<Patch(q(Pending("destroy")))>>
           ends == <<Patch(q(DestroyComplete))>>
<1>7. handleEventDeleteWithDestroy = (destroys \o dooms) \o Post("none")
  <2>1. handleEventDeleteWithDestroy
          = <<Schedule("destroy", {"start", "stop", "update"}), Patch(q(Pending("destroy")))>> \o Post("none")
    BY DEF handleEventDeleteWithDestroy
  <2> DEFINE u == Schedule("destroy", {"start", "stop", "update"})
             v == Patch(q(Pending("destroy")))
  <2> HIDE DEF u, v
  <2>2. <<u>> \o <<v>> = <<u, v>>
    BY Tuple2
  <2> QED BY <2>1, <2>2 DEF u, v
<1>8. handleEventDeleteWithoutDestroy(s) = (cleanup \o ends) \o Post("delete")
  BY DEF handleEventDeleteWithoutDestroy
<1>9. handleEventDelete(s) \in {cancels \o handleEventDeleteWithDestroy, cancels \o handleEventDeleteWithoutDestroy(s)}
  BY DEF handleEventDelete
<1>10. dooms \in Seq(O) /\ ends \in Seq(O)
  BY <1>3
<1> HIDE DEF O, cancels, dooms, ends, destroys, cleanup
<1>11. handleEventDelete(s) \in Seq(O)
  <2>1. handleEventDeleteWithDestroy \in Seq(O) /\ handleEventDeleteWithoutDestroy(s) \in Seq(O)
    BY <1>4, <1>5, <1>6, <1>7, <1>8, <1>10, Concat
  <2> QED BY <1>2, <1>9, <2>1, Concat
<1> QED BY <1>11, SoleConcat DEF O

\* The end of a start or stop; one that failed may turn round.
LEMMA PowerOutcome ==
    ASSUME NEW r, NEW I, NEW g \in BOOLEAN, NEW p \in BOOLEAN, NEW a \in Power, r = ActionRun(a), NEW s,
           Free(I, g)
    PROVE  /\ SoleFor(r, I, g, p, handleDeployerJobSuccess(a, s))
           /\ \A f \in FailureStatuses : p => SoleFor(r, I, g, p, handleDeployerJobFailure(a, f, s))
<1> DEFINE O == OpenFor(r, I, g, p)
           Ok(q) == SoleFor(r, I, g, p, q)
<1>1. /\ a \in Actions /\ a # "destroy" /\ Power \subseteq Actions /\ r.kind = "action" /\ r.name = a
      /\ {"fail", "ignore"} \subseteq OnErrors \ {"provisionError"} /\ "stop" \in Power
      /\ Power = {"start", "stop"}
  BY DEF Power, Actions, OnErrors, ActionRun
<1>2. /\ \A st \in {Started, Stopped} : st \in SubjectStates \cup {KeepState} /\ MayMove(r, I, g, st)
      /\ \A f \in FailureStatuses : /\ Failure(a, f) \in SubjectStates \cup {KeepState}
                                    /\ MayMove(r, I, g, Failure(a, f))
      /\ KeepState \in SubjectStates \cup {KeepState} /\ MayMove(r, I, g, KeepState)
  BY <1>1, States, Moving, FreeMoves
<1>3. /\ HasMove(Ends(a, Started), Started, "keep")
      /\ HasMove([NoPatch EXCEPT !.ends = a], KeepState, "keep")
      /\ HasMove([NoPatch EXCEPT !.state = Stopped], Stopped, "keep")
      /\ \A f \in FailureStatuses :
            HasMove([Ends(a, Failure(a, f)) EXCEPT !.vars = failedVars(f)], Failure(a, f), "keep")
  <2>1. \A f : failedVars(f) \in {"keep", "forensics"}
    BY DEF failedVars
  <2> QED BY <1>1, <1>2, <2>1, Moved
<1>4. /\ <<Patch(Ends(a, Started))>> \in Seq(O)
      /\ <<Patch([NoPatch EXCEPT !.ends = a])>> \in Seq(O)
      /\ <<Patch([NoPatch EXCEPT !.state = Stopped])>> \in Seq(O)
      /\ \A f \in FailureStatuses :
            <<SkipPatch([Ends(a, Failure(a, f)) EXCEPT !.vars = failedVars(f)])>> \in Seq(O)
  <2>1. ASSUME NEW q, NEW st, HasMove(q, st, "keep"), MayMove(r, I, g, st)
        PROVE  <<Patch(q)>> \in Seq(O) /\ <<SkipPatch(q)>> \in Seq(O)
    BY <2>1, AloneMoves
  <2> HIDE DEF O
  <2>2. ASSUME NEW f \in FailureStatuses
        PROVE  <<SkipPatch([Ends(a, Failure(a, f)) EXCEPT !.vars = failedVars(f)])>> \in Seq(O)
    BY <1>2, <1>3, <2>1
  <2> QED BY <1>2, <1>3, <2>1, <2>2
<1>5. Post("finish") \in Seq(O) /\ Post("continue") \in Seq(O)
  BY PostsAlone
<1>6. sandboxPower("stop", "ignore") \in Seq(O) /\ <<>> \in Seq(O)
  <2>1. "stop" \in Power /\ "ignore" \in OnErrors /\ "ignore" # "provisionError"
    BY <1>1
  <2>2. sandboxPower("stop", "ignore") \in Seq(O)
    BY <2>1, PowerSole
  <2> QED BY <2>2
<1>7. \A q \in Seq(O) : Ok(q) /\ \A t : Ok(t) => Ok(q \o t)
  BY SoleConcat
<1>8. ASSUME p, NEW wanted, NEW other, NEW b \in Power PROVE Ok(retryOrPivot(s, wanted, other, b))
  <2>1. Ok(<<Schedule(b, {"start", "stop"})>> \o Post("none"))
    <3>1. MaySchedule(r, I, g, p, b, {"start", "stop"}) /\ {"start", "stop"} \in SUBSET Actions /\ b \in Actions
      BY <1>1, <1>8 DEF MaySchedule, Power, Free
    <3> DEFINE c == Schedule(b, {"start", "stop"})
    <3>2. c \in AloneFor(r, I, g, p)
      BY <3>1, AloneSchedule
    <3> HIDE DEF c
    <3>3. SoleFor(r, I, g, p, <<c>> \o Post("none"))
      BY <3>2, SoleLast
    <3> QED BY <3>3 DEF c
  <2> HIDE DEF O, Ok
  <2>2. Ok(Post("continue")) /\ Ok(Post("finish"))
    BY <1>5, <1>7
  <2> QED BY <2>1, <2>2 DEF retryOrPivot
<1> HIDE DEF O, Ok
<1>9. CASE a = "start"
  <2>1. Ok(handleStartComplete)
    BY <1>4, <1>5, <1>7, <1>9, Concat DEF handleStartComplete
  <2>2. ASSUME p, NEW f \in FailureStatuses PROVE Ok(handleStartFailure(s, f))
    <3> DEFINE q == <<SkipPatch([Ends("start", Failure("start", f)) EXCEPT !.vars = failedVars(f)])>>
    <3>1. q \in Seq(O)
      BY <1>4, <1>9
    <3>2. handleStartFailure(s, f) = q \o retryOrPivot(s, "started", "stopped", "stop")
      BY DEF handleStartFailure
    <3>3. Ok(retryOrPivot(s, "started", "stopped", "stop"))
      BY <1>1, <1>8, <2>2
    <3> HIDE DEF q
    <3> QED BY <1>7, <3>1, <3>2, <3>3
  <2>3. \A f \in FailureStatuses : handleDeployerJobFailure(a, f, s) = handleStartFailure(s, f)
    BY <1>9 DEF handleDeployerJobFailure
  <2> QED BY <1>9, <2>1, <2>2, <2>3 DEF handleDeployerJobSuccess, Ok
<1>10. CASE a = "stop"
  <2> DEFINE w == IF powerOff THEN sandboxPower("stop", "ignore") ELSE <<>>
             x == <<Patch([NoPatch EXCEPT !.ends = "stop"])>>
             y == <<Patch([NoPatch EXCEPT !.state = Stopped])>>
  <2>1. w \in Seq(O) /\ x \in Seq(O) /\ y \in Seq(O)
    BY <1>4, <1>6, <1>10
  <2>2. handleStopComplete = ((x \o w) \o y) \o Post("finish")
    BY DEF handleStopComplete
  <2> HIDE DEF w, x, y
  <2>3. Ok(handleStopComplete)
    <3>1. handleStopComplete \in Seq(O)
      BY <1>5, <2>1, <2>2, Concat
    <3> QED BY <1>7, <3>1
  <2>4. ASSUME p, NEW f \in FailureStatuses PROVE Ok(handleStopFailure(s, f))
    <3> DEFINE q == <<SkipPatch([Ends("stop", Failure("stop", f)) EXCEPT !.vars = failedVars(f)])>>
               v == IF powerOff /\ f # "canceled" THEN sandboxPower("stop", "ignore") ELSE <<>>
    <3>1. q \in Seq(O) /\ v \in Seq(O)
      BY <1>4, <1>6, <1>10
    <3>2. handleStopFailure(s, f) = (v \o q) \o retryOrPivot(s, "stopped", "started", "start")
      BY DEF handleStopFailure
    <3>3. Ok(retryOrPivot(s, "stopped", "started", "start"))
      BY <1>1, <1>8, <2>4
    <3> HIDE DEF q, v
    <3>4. v \o q \in Seq(O)
      BY <3>1, Concat
    <3> QED BY <1>7, <3>2, <3>3, <3>4
  <2>5. \A f \in FailureStatuses : handleDeployerJobFailure(a, f, s) = handleStopFailure(s, f)
    BY <1>10 DEF handleDeployerJobFailure
  <2> QED BY <1>10, <2>3, <2>4, <2>5 DEF handleDeployerJobSuccess, Ok
<1> QED BY <1>9, <1>10 DEF Power

\* How a job ended, known from polling.
LEMMA OutcomeSole ==
    ASSUME NEW r, NEW I, NEW g \in BOOLEAN, NEW p \in BOOLEAN, NEW a \in Actions \ {"update"}, r = ActionRun(a),
           NEW s, NEW job, job \in JobStatuses => a \in I,
           job \in JobStatuses /\ a \in {"provision"} \cup Power => Free(I, g),
           job \in FailureStatuses /\ a \in Power => p
    PROVE  SoleFor(r, I, g, p, jobPolled(a, job, s))
<1> DEFINE O == OpenFor(r, I, g, p)
           Ok(q) == SoleFor(r, I, g, p, q)
<1>1. Post("finish") \in Seq(O) /\ Post("continue") \in Seq(O) /\ Post("delete") \in Seq(O)
  BY PostsAlone
<1>2. \A q \in Seq(O) : Ok(q) /\ \A t : Ok(t) => Ok(q \o t)
  BY SoleConcat
<1>3. JobStatuses = FailureStatuses \cup {"successful"} /\ "successful" \notin FailureStatuses
      /\ FailureStatuses = {"canceled", "error", "failed"}
  BY DEF JobStatuses, FailureStatuses
<1>4. CASE job \notin JobStatuses
  <2>1. jobPolled(a, job, s) = Post("continue")
    BY <1>4 DEF jobPolled
  <2> HIDE DEF O, Ok
  <2> QED BY <1>1, <1>2, <2>1 DEF Ok
<1>5. CASE job \in JobStatuses /\ a = "provision"
  <2>1. /\ handleProvisionError \in Seq(O) /\ handleProvisionFailed \in Seq(O)
        /\ handleProvisionCanceled \in Seq(O) /\ handleProvisionComplete \in Seq(O)
    BY <1>5, ProvisionAlone
  <2>2. jobPolled(a, job, s) \in {handleProvisionError, handleProvisionFailed, handleProvisionCanceled,
                                 handleProvisionComplete}
    BY <1>3, <1>5 DEF jobPolled, handleCallback, handleDeployerJobSuccess, handleDeployerJobFailure
  <2> HIDE DEF O, Ok
  <2> QED BY <1>2, <2>1, <2>2 DEF Ok
<1>6. CASE job \in JobStatuses /\ a \in Power
  <2>1. /\ Ok(handleDeployerJobSuccess(a, s))
        /\ \A f \in FailureStatuses : p => Ok(handleDeployerJobFailure(a, f, s))
    BY <1>6, PowerOutcome
  <2> HIDE DEF Ok
  <2> QED BY <1>3, <1>6, <2>1 DEF Ok, jobPolled, handleCallback
<1>7. CASE job \in JobStatuses /\ a = "destroy"
  <2>1. /\ DestroyComplete \in SubjectStates \cup {KeepState} /\ Departs(DestroyComplete)
        /\ \A f \in FailureStatuses : /\ Failure("destroy", f) \in SubjectStates \cup {KeepState}
                                      /\ Departs(Failure("destroy", f))
    BY <1>7, States DEF Departs, DestroyComplete, Failure
  <2>2. ASSUME NEW st \in SubjectStates \cup {KeepState}, Departs(st)
        PROVE  <<SkipPatch(Ends("destroy", st))>> \in Seq(O)
    <3>1. MayMove(r, I, g, st)
      BY <1>7, <2>2 DEF MayMove
    <3>2. HasMove(Ends("destroy", st), st, "keep")
      BY <1>7, <2>2, Moved
    <3> QED BY <3>1, <3>2, AloneMoves
  <2> DEFINE cleanup == IF SandboxInUse THEN sandboxCleanup(s) ELSE <<>>
  <2>3. cleanup \in Seq(O)
    <3>1. sandboxCleanup(s) \in Seq(O) /\ <<>> \in Seq(O)
      BY SmallSole
    <3> QED BY <3>1
  <2>4. handleDestroyComplete(s) = (cleanup \o <<SkipPatch(Ends("destroy", DestroyComplete))>>) \o Post("delete")
    BY DEF handleDestroyComplete
  <2> HIDE DEF cleanup, O, Ok
  <2>5. Ok(handleDestroyComplete(s))
    <3>1. handleDestroyComplete(s) \in Seq(O)
      BY <1>1, <2>1, <2>2, <2>3, <2>4, Concat
    <3> QED BY <1>2, <3>1
  <2>6. ASSUME NEW f \in FailureStatuses PROVE Ok(handleDestroyFailure(f))
    <3>1. <<SkipPatch(Ends("destroy", Failure("destroy", f)))>> \in Seq(O)
      BY <2>1, <2>2
    <3>2. handleDestroyFailure(f) \in Seq(O)
      BY <1>1, <3>1, Concat DEF handleDestroyFailure
    <3> QED BY <1>2, <3>2
  <2>7. jobPolled(a, job, s) = IF job = "successful" THEN handleDestroyComplete(s) ELSE handleDestroyFailure(job)
    BY <1>7 DEF jobPolled, handleCallback, handleDeployerJobSuccess, handleDeployerJobFailure
  <2> QED BY <1>3, <1>7, <2>5, <2>6, <2>7 DEF Ok
<1>8. CASE job \in JobStatuses /\ a = "status"
  <2>1. ASSUME NEW x \in JobStatuses
        PROVE  <<SkipPatch([NoPatch EXCEPT !.ends = "status", !.css = x])>> \in Seq(O)
    <3> DEFINE q == [NoPatch EXCEPT !.ends = "status", !.css = x]
               c == SkipPatch(q)
    <3>1. HasMove(q, KeepState, x)
      <4>1. KeepState \in SubjectStates \cup {KeepState} /\ x \in JobStatuses \cup {"pending"}
        OBVIOUS
      <4> QED BY <1>8, <4>1, Moved
    <3> HIDE DEF q
    <3>2. IsMove(c, KeepState, x, "fail")
      BY <3>1, MoveForm DEF OnErrors
    <3> HIDE DEF c
    <3>3. c \in O
      <4>1. MayMove(r, I, g, KeepState) /\ "fail" # "provisionError" /\ "status" \in I
        BY <1>8, FreeMoves
      <4> QED BY <3>2, <4>1, AloneMove
    <3> HIDE DEF O
    <3> QED BY <3>3, Singleton DEF c, q
  <2> DEFINE u(x) == <<SkipPatch([NoPatch EXCEPT !.ends = "status", !.css = x])>>
  <2>2. /\ handleStatusComplete = u("successful") \o Post("finish")
        /\ \A f \in FailureStatuses : handleStatusFailure(f) = u(f) \o Post("finish")
    BY DEF handleStatusComplete, statusSuccessful, handleStatusFailure
  <2>3. \A x \in JobStatuses : u(x) \in Seq(O)
    BY <2>1
  <2> HIDE DEF u, O, Ok
  <2>4. Ok(handleStatusComplete) /\ \A f \in FailureStatuses : Ok(handleStatusFailure(f))
    <3>1. \A x \in JobStatuses : Ok(u(x) \o Post("finish"))
      <4> SUFFICES ASSUME NEW x \in JobStatuses PROVE Ok(u(x) \o Post("finish"))
        OBVIOUS
      <4>1. u(x) \o Post("finish") \in Seq(O)
        BY <1>1, <2>3, Concat
      <4> QED BY <1>2, <4>1
    <3> QED BY <1>3, <2>2, <3>1
  <2>5. jobPolled(a, job, s) = IF job = "successful" THEN handleStatusComplete ELSE handleStatusFailure(job)
    BY <1>8 DEF jobPolled, handleCallback, handleDeployerJobSuccess, handleDeployerJobFailure
  <2> QED BY <1>3, <1>8, <2>4, <2>5 DEF Ok
<1> QED BY <1>4, <1>5, <1>6, <1>7, <1>8 DEF Actions, Power

(***************************************************************************)
(* A run is dispatched.                                                    *)
(***************************************************************************)
\* What may be dispatched, while no callback came in.
LEMMA DispatchFacts ==
    ASSUME IInv, Upbringing, Sole, NEW r, DispatchRun(r)
    PROVE  /\ r \in EventRuns \cup ActionRuns /\ r # NoRun /\ ~gone /\ todo = <<>>
           /\ run' = r /\ todo' = Dispatch(r, Payload) /\ callbacks' = {}
           /\ UNCHANGED <<subj, tower, acts, gone, used>>
           /\ events' = IF r.kind = "event" THEN events \ {r.name} ELSE events
           /\ \/ r = run
              \/ run = NoRun /\ \/ \E e \in events : r = EventRun(e) /\ (e = "delete" => "update" \notin events)
                                \/ \E a \in Actions : r = ActionRun(a) /\ acts[a] > 0
<1>1. /\ ~gone /\ todo = <<>> /\ run' = r /\ todo' = Dispatch(r, Payload) /\ callbacks' = callbacks \ {r}
      /\ UNCHANGED <<subj, tower, acts, gone, used>>
      /\ events' = IF r.kind = "event" THEN events \ {r.name} ELSE events
      /\ r \in IF run = NoRun THEN Waiting ELSE {run}
  BY DEF DispatchRun
<1>2. r \in EventRuns \cup ActionRuns \cup CallbackRuns /\ callbacks = {} /\ run.kind # "callback"
  BY DispatchedRun DEF Sole, Uncalled
<1>3. \/ r = run
      \/ run = NoRun /\ \/ \E e \in events : r = EventRun(e) /\ (e = "delete" => "update" \notin events)
                        \/ \E a \in Actions : r = ActionRun(a) /\ acts[a] > 0
  <2>1. CASE r = run
    BY <2>1
  <2>2. CASE run = NoRun /\ r \in Waiting
    BY <1>2, <2>2 DEF Waiting, EventRun, ActionRun
  <2> QED BY <1>1, <2>1, <2>2
<1>4. r.kind # "callback"
  BY <1>2, <1>3 DEF EventRun, ActionRun
<1>5. r \in EventRuns \cup ActionRuns /\ r # NoRun
  BY <1>2, <1>4 DEF EventRuns, ActionRuns, CallbackRuns, NoRun
<1> QED BY <1>1, <1>2, <1>3, <1>5

\* What the state of the subject says of the jobs in progress.
LEMMA IdleFacts ==
    ASSUME Shown, Orderly => Powered
    PROVE  /\ subj.state # Running("destroy") => "destroy" \in Idle
           /\ subj.css # "running" \/ "status" \in Disabled => "status" \in Idle
           /\ subj.state \in {NoState, Queued, Pending("provision"), Running("provision"), Started, Stopped}
              => Free(Idle, Orderly)
<1>1. /\ subj.state # Running("destroy") => "destroy" \in Idle
      /\ subj.css # "running" \/ "status" \in Disabled => "status" \in Idle
  BY DEF Shown
<1>2. ASSUME subj.state \in {NoState, Queued, Pending("provision"), Running("provision"), Started, Stopped}
      PROVE  Free(Idle, Orderly)
  <2>1. /\ subj.state # Running("destroy") /\ subj.state # Running("start") /\ subj.state # Running("stop")
        /\ ~Departs(subj.state)
    BY <1>2, Resting, Moving
  <2> QED BY <1>1, <2>1 DEF Powered, Free, Power
<1> QED BY <1>1, <1>2

\* Whoever starts or stops finds the other at rest, and no destruction.
LEMMA PowerFree ==
    ASSUME Shown, Departing, Orderly => Powered, ~gone, NEW a \in Power, run \in {NoRun, ActionRun(a)},
           run = ActionRun(a) => todo = <<>>, run = NoRun => acts[a] > 0, subj.state # Running(a)
    PROVE  Free(Idle, Orderly)
<1>1. ActionRun("start") # EventRun("delete") /\ ActionRun("stop") # EventRun("delete")
      /\ NoRun # EventRun("delete")
  BY DEF ActionRun, EventRun, NoRun
<1>2. ~Going
  BY DEF Departing, Power
<1>3. ~Leaves
  BY <1>1, <1>2 DEF Leaves, Power
<1>4. "destroy" \in Idle /\ ~Departs(subj.state)
  BY <1>2, <1>3 DEF Shown, Departing
<1>5. ASSUME Orderly PROVE Power \subseteq Idle
  <2>1. \A b \in Power : b # a => b \in Idle
    BY <1>5 DEF Powered, Turned
  <2>2. a \in Idle
    BY <1>4, <1>5 DEF Powered
  <2> QED BY <2>1, <2>2
<1> QED BY <1>4, <1>5 DEF Free

\* Every handler leaves the jobs alone that run.
LEMMA DispatchSole ==
    ASSUME PowerDeployed, IInv, Upbringing, Sole, NEW r, DispatchRun(r)
    PROVE  /\ SoleFor(r, Idle, Orderly, used.failure > 0, Dispatch(r, Payload))
           /\ r = EventRun("delete") => "destroy" \in Idle
<1> DEFINE s == Payload
           p == used.failure > 0
           Ok(q) == SoleFor(r, Idle, Orderly, p, q)
<1>1. s.state = subj.state /\ s.css = subj.css
  BY DEF Payload, PayloadOf
<1>2. /\ r \in EventRuns \cup ActionRuns /\ r # NoRun /\ ~gone /\ todo = <<>>
      /\ \/ r = run
         \/ run = NoRun /\ \/ \E e \in events : r = EventRun(e) /\ (e = "delete" => "update" \notin events)
                           \/ \E a \in Actions : r = ActionRun(a) /\ acts[a] > 0
  BY DispatchFacts
<1>3. Shown /\ Departing /\ (Orderly => Powered)
  BY DEF Sole
<1>4. /\ subj.state # Running("destroy") => "destroy" \in Idle
      /\ subj.css # "running" \/ "status" \in Disabled => "status" \in Idle
      /\ subj.state \in {NoState, Queued, Pending("provision"), Running("provision"), Started, Stopped}
         => Free(Idle, Orderly)
  BY <1>3, IdleFacts
<1>5. Orderly \in BOOLEAN /\ p \in BOOLEAN
  BY DEF Orderly
<1>6. r = EventRun("delete") => "destroy" \in Idle
  <2>1. CASE r = run
    BY <1>3, <2>1 DEF Departing
  <2>2. CASE r = EventRun("delete") /\ "delete" \in events
    <3>1. ~Going
      BY <1>3, <2>2 DEF Departing
    <3> QED BY <1>3, <3>1 DEF Shown
  <2>3. r = EventRun("delete") => r.kind = "event" /\ r.name = "delete"
    BY DEF EventRun
  <2>4. \A e : EventRun(e).name = e
    BY DEF EventRun
  <2>5. \A a : ActionRun(a).kind = "action"
    BY DEF ActionRun
  <2> QED BY <1>2, <2>1, <2>2, <2>3, <2>4, <2>5
<1> HIDE DEF s, p
<1>7. ASSUME r = EventRun("create") PROVE Ok(Dispatch(r, s))
  <2>1. s.state = NoState => Free(Idle, Orderly)
    BY <1>1, <1>4
  <2>2. Dispatch(r, s) = handleEventCreate(s)
    BY <1>7 DEF Dispatch, EventRun
  <2>3. SoleFor(r, Idle, Orderly, p, handleEventCreate(s))
    BY <1>5, <1>7, <2>1, CreateSole
  <2> QED BY <2>2, <2>3 DEF Ok
<1>8. ASSUME r = EventRun("update") PROVE Ok(Dispatch(r, s))
  <2>1. /\ s.state \in {Started, Stopped} => Free(Idle, Orderly)
        /\ s.css # "running" => "status" \in Idle
    BY <1>1, <1>4
  <2>2. Dispatch(r, s) = handleEventUpdate(s)
    BY <1>8 DEF Dispatch, EventRun
  <2>3. SoleFor(r, Idle, Orderly, p, handleEventUpdate(s))
    BY <1>5, <1>8, <2>1, UpdateSole
  <2> QED BY <2>2, <2>3 DEF Ok
<1>9. ASSUME r = EventRun("delete") PROVE Ok(Dispatch(r, s))
  <2>1. Dispatch(r, s) = handleEventDelete(s)
    BY <1>9 DEF Dispatch, EventRun
  <2>3. SoleFor(r, Idle, Orderly, p, handleEventDelete(s))
    BY <1>5, <1>6, <1>9, DeleteSole
  <2> QED BY <2>1, <2>3 DEF Ok
<1>10. ASSUME r = ActionRun("provision") PROVE Ok(Dispatch(r, s))
  <2>1. Dispatch(r, s) = handleProvision(s)
    BY <1>10 DEF Dispatch, ActionRun
  <2>2. CASE s.state \in {Pending("provision"), Queued, Running("provision")}
    <3>1. Free(Idle, Orderly)
      BY <1>1, <1>4, <2>2
    <3>2. s.state \in {Pending("provision"), Queued} => "provision" \in Idle
      <4>1. s.state \in {Pending("provision"), Queued} => Job = "none"
        BY <1>1 DEF Upbringing, Provisioned, Early
      <4> QED BY <4>1, ActionNames DEF Idle, Job
    <3>3. SoleFor(r, Idle, Orderly, p, handleProvision(s))
      BY <1>5, <1>10, <3>1, <3>2, ProvisionSole
    <3> QED BY <2>1, <3>3 DEF Ok
  <2>3. CASE s.state \notin {Pending("provision"), Queued, Running("provision")}
    <3>1. handleProvision(s) = Post("none")
      BY <2>3 DEF handleProvision
    <3>2. Post("none") \in Seq(OpenFor(r, Idle, Orderly, p))
      BY <1>5, PostsAlone
    <3>3. SoleFor(r, Idle, Orderly, p, Post("none"))
      BY <3>2, SoleConcat
    <3> QED BY <2>1, <3>1, <3>3 DEF Ok
  <2> QED BY <2>2, <2>3
<1>11. ASSUME r = ActionRun("destroy") PROVE Ok(Dispatch(r, s))
  <2>1. Dispatch(r, s) = handleDestroy(s)
    BY <1>11 DEF Dispatch, ActionRun
  <2>2. s.state # Running("destroy") => "destroy" \in Idle
    BY <1>1, <1>4
  <2>3. SoleFor(r, Idle, Orderly, p, handleDestroy(s))
    BY <1>5, <1>11, <2>2, DestroySole
  <2> QED BY <2>1, <2>3 DEF Ok
<1>12. ASSUME r = ActionRun("status") PROVE Ok(Dispatch(r, s))
  <2>1. Dispatch(r, s) = handleStatus(s)
    BY <1>12 DEF Dispatch, ActionRun
  <2>2. s.css # "running" \/ "status" \in Disabled => "status" \in Idle
    BY <1>1, <1>4
  <2>3. SoleFor(r, Idle, Orderly, p, handleStatus(s))
    BY <1>5, <1>12, <2>2, StatusSole
  <2> QED BY <2>1, <2>3 DEF Ok
<1>13. ASSUME NEW a \in Power, r = ActionRun(a) PROVE Ok(Dispatch(r, s))
  <2>1. run = NoRun => acts[a] > 0
    BY <1>2, <1>13 DEF EventRun, ActionRun
  <2>2. run \in {NoRun, ActionRun(a)}
    BY <1>2, <1>13
  <2>3. s.state # Running(a) => Free(Idle, Orderly)
    BY <1>1, <1>2, <1>3, <2>1, <2>2, PowerFree
  <2>4. SoleFor(r, Idle, Orderly, p, Dispatch(r, s))
    BY <1>5, <1>13, <2>3, StartStopSole
  <2> QED BY <2>4 DEF Ok
<1>14. r # ActionRun("update")
  <2>1. acts["update"] = 0 /\ (run.kind = "action" => run.name # "update")
    BY DEF Upbringing, Occasions
  <2>2. acts \in [Actions -> 0..MaxQueued] /\ "update" \in Actions
    BY DEF IInv, Sound, Types, Actions
  <2> QED BY <1>2, <2>1, <2>2 DEF EventRun, ActionRun
<1>15. \/ r \in {EventRun("create"), EventRun("update"), EventRun("delete")}
       \/ \E a \in Actions : r = ActionRun(a)
  BY <1>2 DEF EventRuns, ActionRuns, EventRun, ActionRun
<1> QED BY <1>6, <1>7, <1>8, <1>9, <1>10, <1>11, <1>12, <1>13, <1>14, <1>15 DEF Ok, s, p, Actions, Power

\* The invariant with the parts that a step of the run does not touch.
LEMMA DispatchRunAlone == ASSUME PowerDeployed, IInv, Upbringing, Sole, NEW r, DispatchRun(r) PROVE Sole'
<1>1. /\ r \in EventRuns \cup ActionRuns /\ r # NoRun /\ ~gone /\ todo = <<>>
      /\ run' = r /\ todo' = Dispatch(r, Payload) /\ callbacks' = {}
      /\ UNCHANGED <<subj, tower, acts, gone, used>>
      /\ events' = IF r.kind = "event" THEN events \ {r.name} ELSE events
      /\ \/ r = run
         \/ run = NoRun /\ \/ \E e \in events : r = EventRun(e) /\ (e = "delete" => "update" \notin events)
                           \/ \E a \in Actions : r = ActionRun(a) /\ acts[a] > 0
  BY DispatchFacts
<1>2. TodoSole /\ Uncalled /\ Shown /\ Departing /\ (Orderly => Powered)
  BY DEF Sole
<1>3. Idle' = Idle /\ Orderly' = Orderly /\ Going' = Going /\ used'.failure = used.failure
      /\ events' \subseteq events /\ acts \in [Actions -> 0..MaxQueued] /\ {"start", "stop"} \subseteq Actions
  BY <1>1 DEF Idle, Orderly, Going, IInv, Sound, Types, Actions
<1>4. Leaves => Leaves'
  <2>1. run = EventRun("delete") => run' = run
    BY <1>1 DEF EventRun, NoRun
  <2> QED BY <1>1, <1>3, <2>1 DEF Leaves
<1>5. TodoSole'
  BY <1>1, <1>3, DispatchSole DEF TodoSole
<1>6. Uncalled'
  BY <1>1 DEF Uncalled, EventRuns, ActionRuns
<1>7. Shown'
  BY <1>1, <1>2, <1>3 DEF Shown
<1>8. Departing'
  <2>1. ASSUME Going
        PROVE  /\ subj.deleting /\ events' \cap {"update", "delete"} = {} /\ acts["start"] = 0 /\ acts["stop"] = 0
               /\ r \notin {EventRun("update"), ActionRun("start"), ActionRun("stop")}
    BY <1>1, <1>2, <1>3, <2>1 DEF Departing, EventRun, ActionRun
  <2>2. r = ActionRun("destroy") => Going
    <3>1. \A a : ActionRun(a).name = a /\ ActionRun(a).kind = "action"
      BY DEF ActionRun
    <3>2. \A e : EventRun(e).kind = "event"
      BY DEF EventRun
    <3>3. run = ActionRun("destroy") => Going
      BY <1>2 DEF Departing
    <3> QED BY <1>1, <3>1, <3>2, <3>3 DEF Going
  <2>3. ASSUME r = EventRun("delete")
        PROVE  subj.deleting /\ events' \cap {"update", "delete"} = {} /\ "destroy" \in Idle
    <3>1. "destroy" \in Idle
      BY <2>3, DispatchSole
    <3>2. CASE r = run
      BY <1>2, <1>3, <2>3, <3>1, <3>2 DEF Departing
    <3>3. CASE "delete" \in events /\ "update" \notin events
      <4>1. subj.deleting
        BY <3>3 DEF Upbringing, Occasions
      <4>2. r.kind = "event" /\ r.name = "delete"
        BY <2>3 DEF EventRun
      <4> QED BY <1>1, <3>1, <3>3, <4>1, <4>2
    <3> QED BY <1>1, <2>3, <3>2, <3>3 DEF EventRun, ActionRun
  <2>4. Departs(subj.state) => Leaves'
    BY <1>2, <1>4 DEF Departing
  <2> QED BY <1>1, <1>3, <2>1, <2>2, <2>3, <2>4 DEF Departing
<1>9. ASSUME Orderly PROVE Powered'
  <2>1. Powered
    BY <1>2, <1>9
  <2>2. /\ \A a \in Power : a \notin Idle => subj.state = Running(a) \/ Departs(subj.state)
        /\ \A a, b \in Power : a # b /\ acts[a] > 0 => acts[b] = 0 /\ b \in Idle
        /\ used.failure = 0 /\ ~Leaves' => \A a \in Power : tower[a].job \notin FailureStatuses
    BY <1>4, <2>1 DEF Powered
  <2>3. ASSUME NEW a \in Power, NEW b \in Power, a # b, r = ActionRun(a) PROVE acts[b] = 0 /\ b \in Idle
    <3>1. CASE r = run
      BY <1>1, <2>1, <2>3, <3>1 DEF Powered, Turned
    <3>2. CASE acts[a] > 0
      BY <2>2, <2>3, <3>2
    <3> QED BY <1>1, <2>3, <3>1, <3>2 DEF EventRun, ActionRun
  <2>4. Turned'
    BY <1>1, <1>3, <2>3 DEF Turned
  <2> QED BY <1>1, <1>3, <2>2, <2>4 DEF Powered
<1> QED BY <1>3, <1>5, <1>6, <1>7, <1>8, <1>9 DEF Sole

(***************************************************************************)
(* What a call leaves.                                                     *)
(***************************************************************************)
SoleNow(s) == SoleFor(run, Idle, Orderly, used.failure > 0, s)

\* After a call that failed, with and without its trace.
LEMMA HandledSole ==
    ASSUME NEW r, NEW J, NEW g \in BOOLEAN, NEW p \in BOOLEAN, NEW c, c.onError \in OnErrors,
           c.traced => c.act \in Power, c.traced \in BOOLEAN,
           c.onError = "provisionError" => r = ActionRun("provision") /\ Free(J, g),
           NEW t, SoleFor(r, J, g, p, t)
    PROVE  SoleFor(r, J, g, p, Handled(c, t)) /\ SoleFor(r, J, g, p, Recovery(c, t))
<1> DEFINE O == OpenFor(r, J, g, p)
           Ok(q) == SoleFor(r, J, g, p, q)
<1>1. \A q \in Seq(O) : Ok(q) /\ \A u : Ok(u) => Ok(q \o u)
  BY SoleConcat
<1>2. <<>> \in Seq(O) /\ Post("continue") \in Seq(O) /\ Post("finish") \in Seq(O)
  BY PostsAlone
<1>3. c.onError = "provisionError" => handleProvisionError \in Seq(O)
  BY ProvisionAlone
<1>4. c.traced => recordSandboxActionFailure(c.act) \in Seq(O)
  <2>1. "fail" \in OnErrors /\ "fail" # "provisionError"
    BY DEF OnErrors
  <2> QED BY <2>1, PowerSole
<1>5. Ok(t)
  OBVIOUS
<1> HIDE DEF O, Ok
<1>6. Ok(Handled(c, t))
  <2>1. Handled(c, t) \in {<<>>, t, Post("continue"), Post("finish")}
        \/ (c.onError = "provisionError" /\ Handled(c, t) = handleProvisionError)
    BY DEF Handled, OnErrors
  <2> QED BY <1>1, <1>2, <1>3, <1>5, <2>1
<1>7. Ok(Recovery(c, t))
  <2> DEFINE first == IF c.traced THEN recordSandboxActionFailure(c.act) ELSE <<>>
  <2>1. first \in Seq(O)
    BY <1>2, <1>4
  <2>2. Recovery(c, t) = first \o Handled(c, t)
    BY DEF Recovery
  <2> HIDE DEF first
  <2> QED BY <1>1, <1>6, <2>1, <2>2
<1> QED BY <1>6, <1>7 DEF Ok

\* The first call.
LEMMA HeadSole ==
    ASSUME IInv, TodoFits, TodoSole, todo # <<>>
    PROVE  /\ Head(todo) \in Alone /\ Head(todo) \in Calls /\ Head(todo) = todo[1]
           /\ Len(todo) \in Nat /\ 1 \in 1..Len(todo)
           /\ Head(todo).onError \in OnErrors /\ (Head(todo).traced => Head(todo).act \in Power)
           /\ Head(todo).traced \in BOOLEAN
           /\ Final(run, Head(todo)) => Tail(todo) # <<>> /\ Tail(todo) \in Seq(Posts)
           /\ run \in EventRuns \cup ActionRuns \cup CallbackRuns /\ ~gone /\ run # NoRun
<1>1. /\ Head(todo) \in Calls /\ Head(todo) = todo[1]
      /\ Len(todo) \in Nat /\ 1 \in 1..Len(todo)
      /\ Head(todo).onError \in OnErrors /\ (Head(todo).traced => Head(todo).act \in Power)
      /\ run \in EventRuns \cup ActionRuns \cup CallbackRuns /\ ~gone
  BY HeadFits DEF Power
<1>2. Head(todo).traced \in BOOLEAN
  BY <1>1 DEF Calls
<1>3. /\ Head(todo) \in Alone
      /\ Final(run, Head(todo)) => Tail(todo) # <<>> /\ Tail(todo) \in Seq(Posts)
  BY SoleTail DEF TodoSole, Alone
<1>4. run # NoRun
  BY <1>1 DEF NoRun, EventRuns, ActionRuns, CallbackRuns
<1> QED BY <1>1, <1>2, <1>3, <1>4

\* A call that is made once more.
LEMMA RepeatedSole ==
    ASSUME IInv, TodoFits, TodoSole, todo # <<>>, NEW J,
           J = Idle \/ (Head(todo).patch.job # "keep" /\ J = Idle \ {Head(todo).patch.job})
    PROVE  SoleFor(run, J, Orderly, used.failure > 0, Repeated)
<1> DEFINE g == Orderly
           p == used.failure > 0
           c == Head(todo)
           d == Head(Repeated)
           w == Repeated
           A == AloneFor(run, J, g, p)
<1>1. /\ w # <<>> /\ Len(w) = Len(todo) /\ w \in Seq(Calls) /\ d = w[1]
      /\ d.op = c.op /\ d.act = c.act /\ d.onError = c.onError
      /\ d.cancel = c.cancel /\ d.patch.job = "keep" /\ d.patch.state = c.patch.state
      /\ d.patch.css = c.patch.css
      /\ \A i \in 2..Len(todo) : w[i] = todo[i]
  BY RepeatedForm
<1>2. /\ c \in AloneFor(run, Idle, g, p) /\ c = todo[1] /\ Len(todo) \in Nat /\ 1 \in 1..Len(todo)
      /\ Final(run, c) => Tail(todo) # <<>> /\ Tail(todo) \in Seq(Posts)
  BY HeadSole DEF Alone
<1>3. todo \in Seq(AloneFor(run, Idle, g, p)) /\ Last(run, todo)
  BY DEF TodoSole, SoleFor
<1>4. g \in BOOLEAN /\ p \in BOOLEAN
  BY DEF Orderly
<1>5. Final(run, d) => Final(run, c)
  BY <1>1 DEF Final
<1>6. CASE J = Idle
  <2> HIDE DEF w, d, c, g, p
  <2>1. d \in Calls
    BY <1>1, <1>2
  <2>2. d \in A
    BY <1>1, <1>2, <1>6, <2>1 DEF AloneFor
  <2>3. \A i \in 1..Len(w) : w[i] \in A
    BY <1>1, <1>2, <1>3, <1>6, <2>2
  <2> HIDE DEF A
  <2>4. w \in Seq(A)
    BY <1>1, <2>3
  <2>5. ASSUME NEW i \in 1..Len(w), Final(run, w[i]) PROVE i + 1 = Len(w) /\ w[i + 1] \in Posts
    <3>1. Final(run, todo[i])
      BY <1>1, <1>2, <1>5, <2>5
    <3>2. i + 1 = Len(todo) /\ todo[i + 1] \in Posts
      BY <1>1, <1>3, <3>1 DEF Last
    <3>3. i + 1 \in 2..Len(todo)
      BY <1>1, <1>2, <3>2
    <3> QED BY <1>1, <3>2, <3>3
  <2>6. Last(run, w)
    BY <2>5 DEF Last
  <2> QED BY <2>4, <2>6 DEF SoleFor, A, w, g, p
<1>7. CASE c.patch.job # "keep" /\ J = Idle \ {c.patch.job}
  <2> DEFINE a == c.patch.job
             st == c.patch.state
  <2>1. /\ c.op = "patch" /\ run = ActionRun(a) /\ Shows(c.patch) /\ c \in Calls
        /\ MayMove(run, Idle, g, st) /\ (c.patch.css \notin {"keep", "running"} => "status" \in Idle)
        /\ c.onError = "provisionError" => run = ActionRun("provision") /\ Free(Idle, g)
    BY <1>2, <1>7 DEF AloneFor
  <2>2. Tail(todo) # <<>> /\ Tail(todo) \in Seq(Posts)
    BY <1>2, <1>7 DEF Final
  <2>3. \A i \in 2..Len(todo) : todo[i] \in Posts
    <3> DEFINE t == Tail(todo)
    <3>1. Len(t) = Len(todo) - 1 /\ \A i \in 1..Len(t) : t[i] = todo[i + 1]
      BY <1>3
    <3> HIDE DEF t
    <3>2. \A i \in 1..Len(t) : t[i] \in Posts
      BY <2>2 DEF t
    <3> SUFFICES ASSUME NEW i \in 2..Len(todo) PROVE todo[i] \in Posts
      OBVIOUS
    <3>3. i - 1 \in 1..Len(t) /\ (i - 1) + 1 = i
      BY <1>2, <3>1
    <3> QED BY <3>1, <3>2, <3>3
  <2> HIDE DEF w, d, c, g, p
  <2>4. /\ c.onError = "provisionError" => run = ActionRun("provision") /\ Free(J, g)
        /\ a = "status" => c.patch.css = "running" /\ st = KeepState
        /\ a # "status" => st = Running(a)
    <3>1. ActionRun("provision").name = "provision" /\ ActionRun(a).name = a
      BY DEF ActionRun
    <3> QED BY <1>7, <2>1, <3>1 DEF Free, Shows, Power
  <2>5. MayMove(run, J, g, st)
    <3>1. CASE a = "status"
      BY <1>4, <2>4, <3>1, FreeMoves
    <3>2. CASE a # "status"
      <4>1. a = "destroy" => st = Running("destroy")
        BY <2>4, <3>2
      <4>2. \A b \in Power : b = a => st = Running(b)
        BY <2>4, <3>2
      <4> QED BY <1>7, <2>1, <4>1, <4>2 DEF MayMove
    <3> QED BY <3>1, <3>2
  <2>6. d.patch.css \notin {"keep", "running"} => "status" \in J
    BY <1>1, <1>7, <2>1, <2>4
  <2>7. d \in Calls
    BY <1>1, <1>2
  <2>8. d \in A /\ ~Final(run, d)
    BY <1>1, <2>1, <2>4, <2>5, <2>6, <2>7 DEF AloneFor, Final
  <2>9. Posts \subseteq OpenFor(run, J, g, p)
    BY <1>4, PostsAlone
  <2>10. \A i \in 1..Len(w) : w[i] \in OpenFor(run, J, g, p)
    BY <1>1, <1>2, <2>3, <2>8, <2>9 DEF OpenFor
  <2>11. w \in Seq(OpenFor(run, J, g, p))
    BY <1>1, <2>10
  <2> QED BY <2>11, SoleConcat DEF w, g, p
<1> QED BY <1>6, <1>7

\* What may be left after a call.
LEMMA LeftSole ==
    ASSUME IInv, TodoFits, TodoSole, todo # <<>>
    PROVE  /\ \A s \in {todo, Tail(todo), Repeated, <<>>, Handled(Head(todo), Tail(todo)),
                        Recovery(Head(todo), Tail(todo))} : SoleNow(s)
           /\ Head(todo).patch.job # "keep" =>
                 \A s \in {Tail(todo), Repeated, Recovery(Head(todo), Tail(todo))} :
                    SoleFor(run, Idle \ {Head(todo).patch.job}, Orderly, used.failure > 0, s)
<1> DEFINE c == Head(todo)
           t == Tail(todo)
           g == Orderly
           p == used.failure > 0
<1>1. /\ c \in AloneFor(run, Idle, g, p) /\ c.onError \in OnErrors /\ (c.traced => c.act \in Power)
      /\ c.traced \in BOOLEAN
      /\ Final(run, c) => t # <<>> /\ t \in Seq(Posts)
  BY HeadSole DEF Alone
<1>2. SoleFor(run, Idle, g, p, t) /\ SoleFor(run, Idle, g, p, <<>>) /\ SoleFor(run, Idle, g, p, todo)
  BY SoleTail DEF TodoSole
<1>3. g \in BOOLEAN /\ p \in BOOLEAN
  BY DEF Orderly
<1>4. c.onError = "provisionError" => run = ActionRun("provision") /\ Free(Idle, g)
  BY <1>1 DEF AloneFor
<1>5. SoleFor(run, Idle, g, p, Repeated)
  BY RepeatedSole
<1>6. ASSUME c.patch.job # "keep"
      PROVE  /\ SoleFor(run, Idle \ {c.patch.job}, g, p, Repeated)
             /\ run = ActionRun(c.patch.job) /\ Final(run, c)
  BY <1>1, <1>6, RepeatedSole DEF AloneFor, Final
<1> HIDE DEF c, t, g, p
<1>7. SoleFor(run, Idle, g, p, Handled(c, t)) /\ SoleFor(run, Idle, g, p, Recovery(c, t))
  BY <1>1, <1>2, <1>3, <1>4, HandledSole
<1>8. ASSUME c.patch.job # "keep"
      PROVE  /\ SoleFor(run, Idle \ {c.patch.job}, g, p, t)
             /\ SoleFor(run, Idle \ {c.patch.job}, g, p, Recovery(c, t))
  <2> DEFINE J == Idle \ {c.patch.job}
  <2>1. c.onError = "provisionError" => run = ActionRun("provision") /\ Free(J, g)
    <3>1. ActionRun("provision").name = "provision" /\ ActionRun(c.patch.job).name = c.patch.job
      BY DEF ActionRun
    <3> QED BY <1>4, <1>6, <1>8, <3>1 DEF Free, Power
  <2> HIDE DEF J
  <2>2. SoleFor(run, J, g, p, t)
    BY <1>1, <1>3, <1>6, <1>8, PostsSole
  <2>3. SoleFor(run, J, g, p, Recovery(c, t))
    BY <1>1, <1>3, <2>1, <2>2, HandledSole
  <2> QED BY <2>2, <2>3 DEF J
<1> QED BY <1>2, <1>5, <1>6, <1>7, <1>8 DEF SoleNow, c, t, g, p

(***************************************************************************)
(* The steps that touch neither the subject nor its actions.               *)
(***************************************************************************)
\* Nothing that happened is forgotten.
Onwards ==
    /\ (used'.fault = 0 => used.fault = 0) /\ (used'.failure = 0 => used.failure = 0)
    /\ (used'.callback = 0 => used.callback = 0)
    /\ used'.fault \in Nat /\ used'.failure \in Nat

\* What trouble adds.
LEMMA SpendMore ==
    ASSUME IInv, NEW what \in {"fault", "failure", "request"}, NEW limit, Spend(what, limit)
    PROVE  Onwards /\ used'[what] # 0
<1>1. /\ used \in [fault : Nat, failure : Nat, request : 0..MaxRequests, callback : Nat, stray : Nat]
      /\ MaxRequests \in Nat
  BY LifecycleAssumption DEF IInv, Sound, Types
<1>2. used' = [used EXCEPT ![what] = @ + 1]
  BY DEF Spend
<1>3. CASE what = "fault"
  BY <1>1, <1>2, <1>3 DEF Onwards
<1>4. CASE what = "failure"
  BY <1>1, <1>2, <1>4 DEF Onwards
<1>5. CASE what = "request"
  BY <1>1, <1>2, <1>5 DEF Onwards
<1> QED BY <1>3, <1>4, <1>5

LEMMA UsedGrows == ASSUME IInv, [Next]_vars PROVE Onwards
<1>1. used' = used => Onwards
  BY DEF Onwards, IInv, Sound, Types
<1>2. \A limit : Spend("fault", limit) \/ Spend("failure", limit) \/ Spend("request", limit) => Onwards
  BY SpendMore
<1>3. \A again : TroubleWith(again) => Onwards
  BY <1>2 DEF TroubleWith
<1>4. CASE HandlerStep \/ Abandon
  BY <1>1, <1>2, <1>3, <1>4 DEF HandlerStep, SubjectUpdate, ScheduleAction, LaunchJob, CancelJobs, PollJob,
     GetPlacement, GetBooked, CheckQueue, BookPlacement, PowerPlacement, AwaitRequest,
     ReleasePlacement, PostResult, Abandon, Does, Succeeds, Trouble
<1>5. CASE DispatchNext
  BY <1>1, <1>5 DEF DispatchNext, DispatchRun
<1>6. CASE Environment
  <2>1. ASSUME NEW a \in Actions, JobEnds(a) \/ OrphanEnds(a) PROVE Onwards
    <3>1. /\ used.fault \in Nat /\ used.failure \in Nat /\ used.callback \in Nat
      BY DEF IInv, Sound, Types
    <3>2. /\ used' \in Counters /\ used'.fault = used.fault /\ used'.failure >= used.failure
          /\ used'.callback = used.callback \/ used'.callback = used.callback + 1
      BY <2>1, EndFacts
    <3> QED BY <3>1, <3>2 DEF Counters, Onwards
  <2>2. \A new : Request(new) => Onwards
    BY <1>2 DEF Request
  <2> QED BY <1>1, <1>2, <1>6, <2>1, <2>2 DEF Environment, PlacementMoves, RequestEnds, TokenVanishes,
             EditJobVars, SetDesiredState, AskStatus, DeleteSubject
<1>7. CASE UNCHANGED vars
  BY <1>1, <1>7 DEF vars
<1> QED BY <1>4, <1>5, <1>6, <1>7 DEF Next

\* How a job ended is remembered until it is recorded.
LEMMA Blames == ASSUME IInv, Blamed, [Next]_vars PROVE Blamed'
<1>1. Onwards
  BY UsedGrows
<1>2. used.failure \in Nat /\ used'.failure \in Nat
  BY <1>1 DEF IInv, Sound, Types, Onwards
<1>3. used.failure > 0 => used'.failure > 0
  BY <1>1, <1>2 DEF Onwards
<1>4. "none" \notin FailureStatuses
  BY DEF FailureStatuses
<1>5. ASSUME \A a \in Actions : orphans'[a].ended \in {"none", orphans[a].ended} PROVE Blamed'
  BY <1>3, <1>4, <1>5 DEF Blamed
<1>6. DOMAIN orphans = Actions
  BY DEF IInv, Counted
<1>7. CASE LaunchJob
  <2> DEFINE b == Head(todo).act
             o == [running |-> orphans[b].running + 1, ended |-> "none"]
  <2>1. orphans' = [orphans EXCEPT ![b] = o] \/ orphans' = orphans
    BY <1>7 DEF LaunchJob, Does
  <2>2. o.ended = "none"
    OBVIOUS
  <2> HIDE DEF b, o
  <2> QED BY <1>5, <1>6, <2>1, <2>2
<1>8. CASE SubjectUpdate
  <2> DEFINE p == Head(todo).patch
  <2>1. Apply(p) \/ orphans' = orphans
    BY <1>8 DEF SubjectUpdate, Does
  <2>2. Apply(p) => orphans' = [a \in Actions |-> IF a = p.job THEN Recorded(a) ELSE orphans[a]]
    BY DEF Apply
  <2>3. \A a : Recorded(a).ended = "none"
    BY DEF Recorded
  <2> HIDE DEF p
  <2> QED BY <1>5, <2>1, <2>2, <2>3
<1>9. CASE HandlerStep /\ ~LaunchJob /\ ~SubjectUpdate
  <2>1. orphans' = orphans
    BY <1>9 DEF HandlerStep, ScheduleAction, CancelJobs, PollJob, GetPlacement, GetBooked,
       CheckQueue, BookPlacement, PowerPlacement, AwaitRequest, ReleasePlacement, PostResult
  <2> QED BY <1>5, <2>1
<1>10. CASE DispatchNext \/ Abandon \/ UNCHANGED vars
  <2>1. orphans' = orphans
    BY <1>10 DEF DispatchNext, DispatchRun, Abandon, vars
  <2> QED BY <1>5, <2>1
<1>11. CASE Environment
  <2>1. ASSUME NEW a \in Actions, OrphanEnds(a) PROVE Blamed'
    <3>1. PICK status \in JobStatuses, called \in BOOLEAN, inHand \in BOOLEAN :
            /\ used' = Used(status, called, TRUE)
            /\ orphans' = [orphans EXCEPT ![a] =
                             [running |-> @.running - 1, ended |-> IF inHand THEN status ELSE @.ended]]
      BY <2>1 DEF OrphanEnds
    <3>2. status \in FailureStatuses => used'.failure > 0
      <4>1. "successful" \notin FailureStatuses
        BY DEF FailureStatuses
      <4>2. used \in [fault : Nat, failure : Nat, request : 0..MaxRequests, callback : Nat, stray : Nat]
        BY DEF IInv, Sound, Types
      <4>3. used'.failure = IF status = "successful" THEN used.failure ELSE used.failure + 1
        BY <3>1, <4>2 DEF Used
      <4> QED BY <1>2, <4>1, <4>3
    <3>3. \A b \in Actions : orphans'[b].ended \in {orphans[b].ended, status}
      BY <1>6, <3>1
    <3>4. \A b \in Actions \ {a} : orphans'[b] = orphans[b]
      BY <2>1, OrphanEndFacts
    <3> QED BY <1>3, <3>2, <3>3, <3>4 DEF Blamed
  <2>2. CASE ~\E a \in Actions : OrphanEnds(a)
    <3>1. orphans' = orphans
      BY <1>11, <2>2 DEF Environment, PlacementMoves, RequestEnds, TokenVanishes, EditJobVars,
         SetDesiredState, AskStatus, Request, DeleteSubject, JobEnds
    <3> QED BY <1>5, <3>1
  <2> QED BY <2>1, <2>2
<1> QED BY <1>7, <1>8, <1>9, <1>10, <1>11 DEF Next

\* What is orderly was so before.
LEMMA Later ==
    ASSUME IInv, Onwards
    PROVE  /\ Orderly' => Orderly
           /\ used.failure > 0 => used'.failure > 0
           /\ Orderly \in BOOLEAN /\ Orderly' \in BOOLEAN
           /\ (used.failure > 0) \in BOOLEAN /\ (used'.failure > 0) \in BOOLEAN
<1>1. used.failure \in Nat /\ used'.failure \in Nat
  BY DEF IInv, Sound, Types, Onwards
<1> QED BY <1>1 DEF Onwards, Orderly

\* Calls stay sound while the jobs do not become more.
LEMMA SoundStays ==
    ASSUME IInv, Onwards, run' = run, NEW I, NEW s, SoleFor(run, I, Orderly, used.failure > 0, s), I \subseteq Idle'
    PROVE  SoleFor(run', Idle', Orderly', used'.failure > 0, s)
<1>1. (Orderly' => Orderly) /\ (used.failure > 0 => used'.failure > 0)
      /\ Orderly \in BOOLEAN /\ Orderly' \in BOOLEAN
      /\ (used.failure > 0) \in BOOLEAN /\ (used'.failure > 0) \in BOOLEAN
  BY Later
<1> DEFINE g == Orderly
           h == Orderly'
           p == used.failure > 0
           q == used'.failure > 0
           J == Idle'
<1>2. SoleFor(run, I, g, p, s) /\ (h => g) /\ (p => q) /\ g \in BOOLEAN /\ h \in BOOLEAN /\ p \in BOOLEAN
      /\ q \in BOOLEAN /\ I \subseteq J
  BY <1>1
<1> HIDE DEF g, h, p, q, J
<1>3. SoleFor(run, J, h, q, s)
  BY <1>2, SoleMore
<1> QED BY <1>3 DEF g, h, p, q, J

\* A step that goes on with sound calls, and no result; jobs may end.
LEMMA JobsStop ==
    ASSUME IInv, Sole, Onwards, UNCHANGED <<subj, acts, events, callbacks, run, gone>>,
           SoleNow(todo'), Idle \subseteq Idle',
           \A a \in Power : tower'[a].job \in FailureStatuses
                            => tower[a].job \in FailureStatuses \/ used'.failure # 0 \/ Leaves,
           \/ todo' = todo
           \/ todo # <<>> /\ Head(todo).op # "post"
           \/ used'.fault # 0
    PROVE  Sole'
<1>1. TodoSole /\ Uncalled /\ Shown /\ Departing /\ (Orderly => Powered)
  BY DEF Sole
<1>2. (Orderly' => Orderly) /\ (used.failure > 0 => used'.failure > 0) /\ Going' = Going /\ Leaves' = Leaves
  BY Later DEF Going, Leaves
<1>3. TodoSole'
  BY <1>2, SoundStays DEF TodoSole, SoleNow
<1>4. Uncalled' /\ Shown' /\ Departing'
  BY <1>1, <1>2 DEF Uncalled, Shown, Departing, Idle
<1>5. ASSUME Orderly' PROVE Powered'
  <2>1. Powered
    BY <1>1, <1>2, <1>5
  <2>2. Turned'
    <3> SUFFICES ASSUME NEW a \in Power, NEW b \in Power, a # b, run = ActionRun(a), ~(acts[b] = 0 /\ b \in Idle)
                 PROVE  used'.failure > 0 /\ todo' # <<>> /\ todo' \in Seq(Posts)
      BY <1>2 DEF Turned
    <3>1. used.failure > 0 /\ todo # <<>> /\ todo \in Seq(Posts)
      BY <2>1 DEF Powered, Turned
    <3>2. Head(todo).op = "post"
      <4>1. Head(todo) \in Posts
        BY <3>1
      <4> QED BY <4>1 DEF Posts
    <3>3. used'.failure # 0
      BY <1>2, <3>1 DEF Onwards
    <3>4. used'.fault = 0
      BY <1>5, <3>3 DEF Orderly
    <3> QED BY <1>2, <3>1, <3>2, <3>4
  <2>3. used'.failure = 0 => used.failure = 0
    BY DEF Onwards
  <2>4. \A a \in Power : a \notin Idle' => subj.state = Running(a) \/ Departs(subj.state)
    BY <2>1 DEF Powered
  <2>5. \A a, b \in Power : a # b /\ acts[a] > 0 => acts[b] = 0 /\ b \in Idle'
    BY <2>1 DEF Powered
  <2>6. used'.failure = 0 /\ ~Leaves => \A a \in Power : tower'[a].job \notin FailureStatuses
    BY <2>1, <2>3 DEF Powered
  <2> QED BY <1>2, <2>2, <2>4, <2>5, <2>6 DEF Powered
<1> QED BY <1>3, <1>4, <1>5 DEF Sole

\* The same, and no job ends.
LEMMA QuietAlone ==
    ASSUME IInv, Sole, Onwards, UNCHANGED <<subj, tower, acts, events, callbacks, run, gone>>,
           SoleNow(todo'),
           \/ todo' = todo
           \/ todo # <<>> /\ Head(todo).op # "post"
           \/ used'.fault # 0
    PROVE  Sole'
<1>1. Idle' = Idle
  BY DEF Idle
<1> QED BY <1>1, JobsStop

\* A call that is answered, fails or is made once more.
LEMMA AnswerAlone ==
    ASSUME IInv, TodoFits, Sole, Onwards, todo # <<>>, Head(todo).op # "post",
           UNCHANGED <<subj, tower, acts, events, callbacks, run, gone>>,
           Succeeds \/ TroubleWith(Repeated) \/ Trouble \/ (\E s : Continue(s) /\ SoleNow(s))
    PROVE  Sole'
<1>1. TodoSole
  BY DEF Sole
<1>2. \A s \in {todo, Tail(todo), Repeated, Recovery(Head(todo), Tail(todo))} : SoleNow(s)
  BY <1>1, LeftSole
<1>3. SoleNow(todo')
  BY <1>2, Moves DEF Continue
<1> QED BY <1>3, QuietAlone

LEMMA QuietStepAlone ==
    ASSUME IInv, Upbringing, Sole, Onwards, LaunchJob \/ ReleasePlacement \/ Abandon PROVE Sole'
<1>1. TodoFits /\ TodoSole
  BY DEF Upbringing, Sole
<1>2. todo # <<>> /\ UNCHANGED <<subj, tower, acts, events, callbacks, run, gone>>
  BY DEF LaunchJob, ReleasePlacement, Abandon, At, subject, anarchy, sandbox
<1>3. \A s \in {todo, Tail(todo), Repeated, <<>>, Recovery(Head(todo), Tail(todo))} : SoleNow(s)
  BY <1>1, <1>2, LeftSole
<1>4. CASE LaunchJob
  <2>1. Head(todo).op # "post" /\ (Succeeds \/ TroubleWith(Repeated) \/ Trouble)
    BY <1>4 DEF LaunchJob, At, Does
  <2> QED BY <1>1, <1>2, <2>1, AnswerAlone
<1>5. CASE ReleasePlacement
  <2>1. Head(todo).op # "post" /\ (Succeeds \/ TroubleWith(Repeated) \/ Trouble \/ Continue(<<>>))
    BY <1>5 DEF ReleasePlacement, At, Does
  <2> QED BY <1>1, <1>2, <1>3, <2>1, AnswerAlone
<1>6. CASE Abandon
  <2>1. todo' = <<>> /\ used'.fault # 0
    BY <1>6, SpendMore DEF Abandon, Continue
  <2> QED BY <1>2, <1>3, <2>1, QuietAlone
<1> QED BY <1>4, <1>5, <1>6

(***************************************************************************)
(* Answers of the sandbox API and of Tower.                                *)
(***************************************************************************)
\* A provision that waits for an answer.
LEMMA AskingFacts ==
    ASSUME IInv, TodoFits, TodoSole, todo # <<>>,
           Head(todo).op \in {"book", "reget", "checkQueue"} \/ (Head(todo).op = "get" /\ Head(todo).act = "provision")
    PROVE  run = ActionRun("provision") /\ Free(Idle, Orderly) /\ "provision" \in Idle
<1>1. Head(todo) \in Fit
  BY HeadFits
<1>2. Job = "none"
  BY <1>1 DEF Fit, FitFor, Founds
<1>3. run = ActionRun("provision") /\ Free(Idle, Orderly)
  BY HeadSole DEF Alone, AloneFor
<1> QED BY <1>2, <1>3, ActionNames DEF Job, Idle

LEMMA GetPlacementAlone == ASSUME IInv, Upbringing, Sole, Onwards, GetPlacement PROVE Sole'
<1> DEFINE c == Head(todo)
           t == Tail(todo)
           g == Orderly
           p == used.failure > 0
<1>1. /\ TodoFits /\ TodoSole /\ todo # <<>> /\ c.op = "get"
      /\ UNCHANGED <<subj, tower, acts, events, callbacks, run, gone>>
  BY DEF Upbringing, Sole, GetPlacement, At, subject, anarchy, sandbox
<1>2. SoleFor(run, Idle, g, p, t)
  BY <1>1, LeftSole DEF SoleNow
<1>3. g \in BOOLEAN /\ p \in BOOLEAN
  BY DEF Orderly
<1>4. CASE Trouble
  BY <1>1, <1>4, AnswerAlone
<1>5. CASE c.act = "provision" /\ Continue(placedOrNot(placement, t))
  <2>1. placement \in PlacementStatuses
    BY DEF IInv, Sound, Types
  <2>2. run = ActionRun("provision") /\ Free(Idle, g)
    BY <1>1, <1>5, AskingFacts
  <2> HIDE DEF t, g, p
  <2>3. SoleFor(run, Idle, g, p, placedOrNot(placement, t))
    BY <1>2, <1>3, <2>1, <2>2, PlacementSole
  <2>4. SoleNow(placedOrNot(placement, t))
    BY <2>3 DEF SoleNow, g, p
  <2> QED BY <1>1, <1>5, <2>4, AnswerAlone
<1>6. CASE Continue(updateSubjectSandboxVars("ignore") \o t)
  <2> DEFINE s == updateSubjectSandboxVars("ignore")
  <2> HIDE DEF t, g, p
  <2>1. s \in Seq(OpenFor(run, Idle, g, p))
    BY <1>3, ActionNames, SmallSole
  <2> HIDE DEF s
  <2>2. SoleFor(run, Idle, g, p, s \o t)
    BY <1>2, <2>1, SoleConcat
  <2>3. SoleNow(s \o t)
    BY <2>2 DEF SoleNow, g, p
  <2> QED BY <1>1, <1>6, <2>3, AnswerAlone DEF s
<1>7. CASE Continue(t)
  <2>1. SoleNow(t)
    BY <1>2 DEF SoleNow
  <2> HIDE DEF t
  <2> QED BY <1>1, <1>7, <2>1, AnswerAlone
<1> QED BY <1>4, <1>5, <1>6, <1>7 DEF GetPlacement

LEMMA BookingAlone ==
    ASSUME IInv, Upbringing, Sole, Onwards, GetBooked \/ CheckQueue \/ BookPlacement PROVE Sole'
<1> DEFINE t == Tail(todo)
           g == Orderly
           p == used.failure > 0
<1>1. /\ TodoFits /\ TodoSole /\ todo # <<>> /\ Head(todo).op \in {"book", "reget", "checkQueue"}
      /\ UNCHANGED <<subj, tower, acts, events, callbacks, run, gone>>
  BY DEF Upbringing, Sole, GetBooked, CheckQueue, BookPlacement, At, subject, anarchy, sandbox
<1>2. SoleFor(run, Idle, g, p, t)
  BY <1>1, LeftSole DEF SoleNow
<1>3. g \in BOOLEAN /\ p \in BOOLEAN
  BY DEF Orderly
<1>4. run = ActionRun("provision") /\ Free(Idle, g) /\ "provision" \in Idle
  BY <1>1, AskingFacts
<1>5. placement \in PlacementStatuses /\ "absent" \in PlacementStatuses
  BY DEF IInv, Sound, Types, PlacementStatuses
<1>6. ASSUME NEW s, SoleFor(run, Idle, g, p, s), Continue(s) PROVE Sole'
  <2>1. SoleNow(s)
    BY <1>6 DEF SoleNow
  <2> QED BY <1>1, <1>6, <2>1, AnswerAlone
<1>7. CASE Trouble
  BY <1>1, <1>7, AnswerAlone
<1> HIDE DEF t, g, p
<1>8. /\ \A st \in PlacementStatuses : SoleFor(run, Idle, g, p, bookedAgain(st, t))
      /\ \A st \in (PlacementStatuses \ {"absent"}) \cup {"invalid", "refused"} :
            SoleFor(run, Idle, g, p, booked(st, t))
  <2>1. "invalid" # "absent" /\ "refused" # "absent"
    OBVIOUS
  <2> QED BY <1>2, <1>3, <1>4, <2>1, PlacementSole
<1>9. SoleFor(run, Idle, g, p, queueChecked(placement, snap))
  BY <1>3, <1>4, <1>5, ProvisionSole
<1>10. CASE GetBooked
  <2>1. Trouble \/ Continue(bookedAgain(placement, t)) \/ Continue(bookedAgain("absent", t))
    BY <1>10 DEF GetBooked, t
  <2> QED BY <1>5, <1>6, <1>7, <1>8, <2>1
<1>11. CASE CheckQueue
  <2>1. Trouble \/ Continue(queueChecked(placement, snap))
    BY <1>11 DEF CheckQueue
  <2> QED BY <1>6, <1>7, <1>9, <2>1
<1>12. CASE BookPlacement
  <2>1. \/ Trouble
        \/ \E st \in (PlacementStatuses \ {"absent"}) \cup {"invalid", "refused"} : Continue(booked(st, t))
    <3>1. CASE \E st \in IF placement = "absent" THEN NotReady \cup {"success"} ELSE {placement} :
                 Continue(booked(st, t)) \/ Trouble
      BY <1>5, <3>1 DEF PlacementStatuses, NotReady
    <3>2. CASE \E st \in {"invalid", "refused", "error"} : Continue(booked(st, t))
      BY <3>2 DEF PlacementStatuses
    <3>3. CASE Trouble
      BY <3>3
    <3> QED BY <1>12, <3>1, <3>2, <3>3 DEF BookPlacement, t
  <2> QED BY <1>6, <1>7, <1>8, <2>1
<1> QED BY <1>10, <1>11, <1>12

LEMMA PowerCallAlone ==
    ASSUME IInv, Upbringing, Sole, Onwards, PowerPlacement \/ AwaitRequest PROVE Sole'
<1> DEFINE c == Head(todo)
           a == c.act
           f == c.onError
           t == Tail(todo)
           h == Handled(c, t)
           g == Orderly
           p == used.failure > 0
           O == OpenFor(run, Idle, g, p)
<1>1. /\ TodoFits /\ TodoSole /\ todo # <<>> /\ c.op \in {"power", "await"}
      /\ UNCHANGED <<subj, tower, acts, events, callbacks, run, gone>>
  BY DEF Upbringing, Sole, PowerPlacement, AwaitRequest, At, subject, anarchy, sandbox
<1>2. SoleFor(run, Idle, g, p, t) /\ SoleFor(run, Idle, g, p, h) /\ SoleFor(run, Idle, g, p, Recovery(c, t))
  BY <1>1, LeftSole DEF SoleNow
<1>3. g \in BOOLEAN /\ p \in BOOLEAN
  BY DEF Orderly
<1>4. a \in Power
  BY <1>1, HeadOK DEF Allowed, Power
<1>5. f \in OnErrors /\ (f = "provisionError" => run = ActionRun("provision") /\ Free(Idle, g))
  BY <1>1, HeadSole DEF Alone, AloneFor
<1>6. ASSUME NEW s, SoleFor(run, Idle, g, p, s), Continue(s) PROVE Sole'
  <2>1. SoleNow(s)
    BY <1>6 DEF SoleNow
  <2> QED BY <1>1, <1>6, <2>1, AnswerAlone
<1>7. CASE Trouble
  BY <1>1, <1>7, AnswerAlone
<1>8. /\ \/ Trouble \/ Continue(h) \/ Continue(Recovery(c, t))
         \/ Continue(requested(a, f, TRUE) \o t) \/ Continue(requested(a, f, FALSE) \o t)
         \/ Continue(requestEnded(c, power.ended, t, h))
  BY DEF PowerPlacement, AwaitRequest
<1> HIDE DEF t, g, p, h, O
<1>9. /\ \A async : requested(a, f, async) \in Seq(O)
      /\ recordSandboxJobOutcome(a, "successful", f) \in Seq(O) /\ recordSandboxActionFailure(a) \in Seq(O)
  <2> HIDE DEF a, f
  <2> QED BY <1>3, <1>4, <1>5, PowerSole DEF O
<1>10. \A s \in Seq(O) : \A u : SoleFor(run, Idle, g, p, u) => SoleFor(run, Idle, g, p, s \o u)
  BY SoleConcat DEF O
<1>11. SoleFor(run, Idle, g, p, requestEnded(c, power.ended, t, h))
  BY <1>2, <1>9, <1>10 DEF requestEnded
<1> HIDE DEF c, a, f
<1> QED BY <1>2, <1>6, <1>7, <1>8, <1>9, <1>10, <1>11

\* A start or stop that polls for its job: it is the only one.
LEMMA PollJobAlone == ASSUME IInv, Upbringing, Sole, Onwards, PollJob PROVE Sole'
<1> DEFINE a == Head(todo).act
           job == tower[a].job
           g == Orderly
           p == used.failure > 0
<1>1. /\ TodoFits /\ TodoSole /\ todo # <<>> /\ Head(todo).op = "poll"
      /\ UNCHANGED <<subj, tower, acts, events, callbacks, run, gone>>
      /\ Trouble \/ Continue(jobPolled(a, job, snap))
  BY DEF Upbringing, Sole, PollJob, At, subject, anarchy, sandbox
<1>2. a \in Actions \ {"update"}
  BY <1>1, HeadFits DEF Lively
<1>3. run = ActionRun(a) /\ (a = "provision" => Free(Idle, g))
  BY <1>1, HeadSole DEF Alone, AloneFor
<1>4. g \in BOOLEAN /\ p \in BOOLEAN
  BY DEF Orderly
<1>5. job \in JobStatuses => a \in Idle
  BY <1>2 DEF Idle, JobStatuses, FailureStatuses
<1>6. ASSUME a \in Power, job \in JobStatuses
      PROVE  Free(Idle, g) /\ (job \in FailureStatuses => p)
  <2>1. ~Leaves
    <3>1. ~Going
      BY <1>3, <1>6 DEF Sole, Departing, Power
    <3>2. run # EventRun("delete")
      BY <1>3 DEF EventRun, ActionRun
    <3> QED BY <1>1, <3>1, <3>2, HeadSole DEF Leaves
  <2>2. "destroy" \in Idle
    BY <2>1 DEF Sole, Shown, Leaves
  <2>3. todo \notin Seq(Posts)
    <3>1. todo \in Seq(Posts) => Head(todo) \in Posts
      BY <1>1
    <3> QED BY <1>1, <3>1 DEF Posts
  <2>4. g => Power \subseteq Idle
    <3>1. g => \A b \in Power : b # a => b \in Idle
      BY <1>3, <1>6, <2>3 DEF Sole, Powered, Turned
    <3> QED BY <1>5, <1>6, <3>1
  <2>5. job \in FailureStatuses => p
    <3>1. used.failure = 0 => g
      BY DEF Orderly
    <3>2. used.failure \in Nat
      BY DEF IInv, Sound, Types
    <3> QED BY <1>6, <2>1, <3>1, <3>2 DEF Sole, Powered
  <2> QED BY <2>2, <2>4, <2>5 DEF Free
<1>7. SoleFor(run, Idle, g, p, jobPolled(a, job, snap))
  <2>1. JobStatuses = FailureStatuses \cup {"successful"}
    BY DEF JobStatuses
  <2>2. /\ job \in JobStatuses /\ a \in {"provision"} \cup Power => Free(Idle, g)
        /\ job \in FailureStatuses /\ a \in Power => p
    BY <1>3, <1>6, <2>1
  <2> HIDE DEF a, job, g, p
  <2> QED BY <1>2, <1>3, <1>4, <1>5, <2>2, OutcomeSole
<1>8. SoleNow(jobPolled(a, job, snap))
  BY <1>7 DEF SoleNow
<1> HIDE DEF a, job
<1> QED BY <1>1, <1>8, AnswerAlone

(***************************************************************************)
(* Jobs end, actions come and go.                                          *)
(***************************************************************************)
LEMMA CancelJobsAlone == ASSUME IInv, Upbringing, Sole, Onwards, CancelJobs PROVE Sole'
<1> DEFINE c == Head(todo)
<1>1. /\ TodoFits /\ TodoSole /\ todo # <<>> /\ c.op = "cancel"
      /\ UNCHANGED <<subj, acts, events, callbacks, run, gone>>
      /\ tower' = tower \/ tower' = Canceled(c.act)
      /\ Succeeds \/ TroubleWith(Repeated) \/ Trouble
  BY DEF Upbringing, Sole, CancelJobs, At, Does, anarchy, sandbox
<1>2. CASE tower' = tower
  BY <1>1, <1>2, AnswerAlone
<1>3. CASE tower' = Canceled(c.act)
  <2>1. SoleNow(todo')
    BY <1>1, Moves, LeftSole
  <2>2. c.act = "provision" \/ (c.act = "all" /\ run = EventRun("delete"))
    BY <1>1, HeadSole DEF Alone, AloneFor
  <2>3. tower \in Towers
    BY DEF IInv, Sound, Types, Towers
  <2> HIDE DEF c
  <2>4. \A b \in Actions : \/ tower'[b] = tower[b]
                           \/ c.act \in {b, "all"} /\ tower[b].job = "running" /\ tower'[b].job = "canceled"
    <3> SUFFICES ASSUME NEW b \in Actions
                 PROVE  \/ tower'[b] = tower[b]
                        \/ c.act \in {b, "all"} /\ tower[b].job = "running" /\ tower'[b].job = "canceled"
      OBVIOUS
    <3>1. tower'[b] = IF c.act \in {b, "all"} /\ ~tower[b].complete /\ tower[b].job = "running"
                      THEN [tower[b] EXCEPT !.job = "canceled", !.ended = TRUE] ELSE tower[b]
      BY <1>3 DEF Canceled
    <3>2. [tower[b] EXCEPT !.job = "canceled", !.ended = TRUE].job = "canceled"
      BY <2>3 DEF Towers
    <3> QED BY <3>1, <3>2
  <2>5. Idle \subseteq Idle'
    BY <2>4 DEF Idle
  <2>6. \A b \in Power : tower'[b] = tower[b] \/ Leaves
    BY <2>2, <2>4 DEF Power, Actions, Leaves
  <2> QED BY <1>1, <2>1, <2>5, <2>6, JobsStop DEF c
<1> QED BY <1>1, <1>2, <1>3

\* A job ends, recorded or not.
LEMMA JobEndsAlone ==
    ASSUME IInv, Sole, Onwards, NEW a \in Actions, JobEnds(a) \/ OrphanEnds(a), used'.callback = 0
    PROVE  Sole'
<1>1. UNCHANGED <<subj, events, acts, gone, run, todo>>
  BY EndFacts
<1>2. callbacks' = callbacks
  <2>1. used.callback \in Nat
    BY DEF IInv, Sound, Types
  <2> QED BY <2>1, EndFacts
<1>3. /\ \A b \in Actions \ {a} : tower'[b] = tower[b]
      /\ tower'[a].job = tower[a].job \/ (tower[a].job = "running" /\ tower'[a].job \in JobStatuses)
      /\ tower'[a].job # tower[a].job /\ tower'[a].job # "successful" => used'.failure > used.failure
  BY EndFacts
<1>4. "successful" \notin FailureStatuses /\ "running" \notin JobStatuses
  BY DEF FailureStatuses, JobStatuses
<1>5. Idle \subseteq Idle'
  BY <1>3 DEF Idle
<1>6. \A b \in Power : tower'[b].job \in FailureStatuses => tower[b].job \in FailureStatuses \/ used'.failure # 0
  <2>1. used'.failure > used.failure => used'.failure # 0
    <3>1. used.failure \in Nat /\ used'.failure \in Nat
      BY DEF IInv, Sound, Types, Onwards
    <3> QED BY <3>1
  <2>2. Power \subseteq Actions
    BY DEF Power, Actions
  <2> QED BY <1>3, <1>4, <2>1, <2>2
<1>7. SoleNow(todo')
  BY <1>1 DEF Sole, TodoSole, SoleNow
<1> QED BY <1>1, <1>2, <1>5, <1>6, <1>7, JobsStop

\* An action is scheduled.  A start or stop is so after those before it are canceled; to
\* turn round is the last thing that a run does.
LEMMA ScheduleActionAlone == ASSUME IInv, Upbringing, Sole, Onwards, ScheduleAction PROVE Sole'
<1> DEFINE c == Head(todo)
           a == c.act
           cancel == c.cancel
<1>1. /\ TodoFits /\ TodoSole /\ todo # <<>> /\ c.op = "schedule"
      /\ UNCHANGED <<subj, tower, events, callbacks, run, gone>>
      /\ \/ acts' = acts
         \/ acts' = Scheduled(a, cancel) /\ (Succeeds \/ TroubleWith(Repeated))
      /\ Succeeds \/ TroubleWith(Repeated) \/ Trouble
  BY DEF Upbringing, Sole, ScheduleAction, At, Does, subject, anarchy, sandbox
<1>2. CASE acts' = acts
  BY <1>1, <1>2, AnswerAlone
<1>3. CASE acts' = Scheduled(a, cancel) /\ (Succeeds \/ TroubleWith(Repeated))
  <2>1. SoleNow(todo') /\ (used'.fault = 0 => todo' = Tail(todo))
    BY <1>1, Moves, LeftSole
  <2>2. /\ a \in Actions /\ cancel \in SUBSET Actions /\ "destroy" \notin cancel
    BY <1>1, HeadFits DEF Lively, Calls
  <2>3. MaySchedule(run, Idle, Orderly, used.failure > 0, a, cancel)
    BY <1>1, HeadSole DEF Alone, AloneFor
  <2>4. run.kind = "action" => Tail(todo) # <<>> /\ Tail(todo) \in Seq(Posts)
    BY <1>1, HeadSole DEF Final
  <2>5. run \in EventRuns \cup ActionRuns \cup CallbackRuns /\ todo \notin Seq(Posts)
    <3>1. todo \in Seq(Posts) => Head(todo) \in Posts
      BY <1>1
    <3> QED BY <1>1, <3>1, HeadSole DEF Posts
  <2>6. TodoSole /\ Uncalled /\ Shown /\ Departing /\ (Orderly => Powered)
    BY DEF Sole
  <2> HIDE DEF c, a, cancel
  <2>7. acts \in [Actions -> 0..MaxQueued] /\ MaxQueued \in Nat /\ Power \subseteq Actions /\ "destroy" \in Actions
    BY LifecycleAssumption DEF IInv, Sound, Types, Power, Actions
  <2>8. /\ \A b \in Actions : /\ acts'[b] \in 0..MaxQueued
                              /\ b # a => acts'[b] \in {0, acts[b]}
                              /\ b # a /\ b \in cancel => acts'[b] = 0
        /\ acts["destroy"] > 0 => acts'["destroy"] > 0
    <3>1. \A b \in Actions : acts'[b] = LET n == IF b \in cancel THEN 0 ELSE acts[b]
                                        IN  IF b = a /\ n < MaxQueued THEN n + 1 ELSE n
      BY <1>3 DEF Scheduled
    <3>2. \A b \in Actions : /\ acts'[b] \in 0..MaxQueued
                             /\ b # a => acts'[b] \in {0, acts[b]}
                             /\ b # a /\ b \in cancel => acts'[b] = 0
      BY <2>7, <3>1
    <3>3. acts["destroy"] > 0 => acts'["destroy"] > 0
      BY <2>2, <2>7, <3>1
    <3> QED BY <3>2, <3>3
  <2>9. Idle' = Idle /\ (Orderly' => Orderly) /\ (used.failure > 0 => used'.failure > 0)
        /\ (Going => Going') /\ (Leaves => Leaves') /\ (used'.failure = 0 => used.failure = 0)
    BY <1>1, <2>8, Later DEF Idle, Going, Leaves, Onwards
  <2>10. TodoSole'
    BY <1>1, <2>1, <2>9, SoundStays DEF TodoSole, SoleNow
  <2>11. Uncalled' /\ Shown'
    BY <1>1, <2>6, <2>9 DEF Uncalled, Shown
  <2>12. /\ a \in Power => Power \subseteq cancel /\ (Orderly => Power \subseteq Idle)
                           /\ (run.kind = "action" => used.failure > 0)
                           /\ run \in {EventRun("update"), ActionRun("start"), ActionRun("stop")}
         /\ a = "destroy" => run = EventRun("delete") /\ Power \subseteq cancel
    <3>1. run.kind = "action" => run = ActionRun(run.name)
      BY <2>5 DEF EventRuns, ActionRuns, CallbackRuns, ActionRun
    <3>2. EventRun("update").kind = "event"
      BY DEF EventRun
    <3> QED BY <2>3, <3>1, <3>2 DEF MaySchedule, Power
  <2>13. Departing'
    <3>1. ASSUME Going'
          PROVE  /\ subj.deleting /\ events \cap {"update", "delete"} = {}
                 /\ acts'["start"] = 0 /\ acts'["stop"] = 0
                 /\ run \notin {EventRun("update"), ActionRun("start"), ActionRun("stop")}
      <4>1. CASE Going
        <5>1. a \notin Power
          BY <2>6, <2>12, <4>1 DEF Departing
        <5> QED BY <2>6, <2>7, <2>8, <4>1, <5>1 DEF Departing, Power
      <4>2. CASE ~Going
        <5>1. a = "destroy"
          BY <2>7, <2>8, <3>1, <4>2 DEF Going
        <5>2. run = EventRun("delete") /\ Power \subseteq cancel
          BY <2>12, <5>1
        <5>3. EventRun("delete") \notin {EventRun("update"), ActionRun("start"), ActionRun("stop")}
          BY DEF EventRun, ActionRun
        <5> QED BY <2>6, <2>7, <2>8, <5>1, <5>2, <5>3 DEF Departing, Power
      <4> QED BY <4>1, <4>2
    <3> QED BY <1>1, <2>6, <2>9, <3>1 DEF Departing
  <2>14. ASSUME Orderly' PROVE Powered'
    <3>1. Powered /\ Orderly
      BY <2>6, <2>9, <2>14
    <3>2. \A x, y \in Power : x # y /\ acts'[x] > 0 => acts'[y] = 0 /\ y \in Idle
      <4>1. CASE a \in Power
        <5>1. \A y \in Power : y # a => acts'[y] = 0
          BY <2>7, <2>8, <2>12, <4>1
        <5> QED BY <2>12, <3>1, <4>1, <5>1
      <4>2. CASE a \notin Power
        <5>1. \A x \in Power : acts'[x] \in {0, acts[x]}
          BY <2>7, <2>8, <4>2
        <5> QED BY <3>1, <5>1 DEF Powered
      <4> QED BY <4>1, <4>2
    <3>3. ASSUME NEW x \in Power, NEW y \in Power, x # y, run = ActionRun(x)
          PROVE  \/ acts'[y] = 0 /\ y \in Idle
                 \/ used'.failure > 0 /\ todo' # <<>> /\ todo' \in Seq(Posts)
      <4>1. acts[y] = 0 /\ y \in Idle
        BY <2>5, <3>1, <3>3 DEF Powered, Turned
      <4>2. CASE a # y
        BY <2>7, <2>8, <4>1, <4>2
      <4>3. CASE a = y
        <5>1. run.kind = "action"
          BY <3>3 DEF ActionRun
        <5>2. used'.failure > 0 /\ used'.failure # 0
          BY <2>9, <2>12, <4>3, <5>1 DEF Onwards
        <5>3. todo' = Tail(todo)
          BY <2>1, <2>14, <5>2 DEF Orderly
        <5> QED BY <2>4, <5>1, <5>2, <5>3
      <4> QED BY <4>2, <4>3
    <3>4. Turned'
      BY <1>1, <2>9, <3>3 DEF Turned
    <3> QED BY <1>1, <2>9, <3>1, <3>2, <3>4 DEF Powered
  <2> QED BY <2>10, <2>11, <2>13, <2>14 DEF Sole
<1> QED BY <1>1, <1>2, <1>3

\* A result.  A delete event does not end before a destroy action is there, or the
\* subject gone, and a destroy action ends with the subject.
LEMMA PostResultAlone ==
    ASSUME IInv, Upbringing, Sole, Onwards, Attended', PostResult PROVE Sole'
<1>1. /\ todo # <<>> /\ Head(todo).op = "post" /\ todo' = <<>> /\ run' = NoRun
      /\ UNCHANGED <<subj, tower, events, callbacks>>
      /\ \A a \in Actions : /\ acts'[a] \in 0..MaxQueued /\ acts'[a] <= acts[a]
                            /\ acts'[a] # acts[a] => /\ run.name = a
                                                     /\ Head(todo).act \in {"finish", "none"}
  BY Posted
<1>2. TodoFits /\ TodoSole /\ Uncalled /\ Shown /\ Departing /\ (Orderly => Powered)
  BY DEF Upbringing, Sole
<1>3. acts \in [Actions -> 0..MaxQueued] /\ MaxQueued \in Nat /\ Power \subseteq Actions /\ "destroy" \in Actions
  BY LifecycleAssumption DEF IInv, Sound, Types, Power, Actions
<1>4. acts'["destroy"] = acts["destroy"]
  <2>1. run.name = "destroy" => Head(todo).act \in {"continue", "delete"}
    BY <1>1, <1>2, HeadFits DEF Fit, FitFor, Lasting
  <2> QED BY <1>1, <1>3, <2>1
<1>5. Idle' = Idle /\ Going' = Going /\ (Orderly' => Orderly) /\ (used'.failure = 0 => used.failure = 0)
  BY <1>1, <1>4, Later DEF Idle, Going, Onwards
<1>6. Leaves => Leaves'
  <2>1. ~gone
    BY <1>1, <1>2, HeadFits
  <2>2. CASE run = EventRun("delete")
    <3>1. subj.deleting /\ "delete" \notin events
      BY <1>2, <2>2 DEF Departing
    <3>2. NoRun # EventRun("delete")
      BY DEF NoRun, EventRun
    <3> QED BY <1>1, <3>1, <3>2 DEF Attended, Leaves, Going
  <2> QED BY <1>5, <2>1, <2>2 DEF Leaves
<1>7. \A b \in Actions : (acts[b] = 0 => acts'[b] = 0) /\ (acts'[b] > 0 => acts[b] > 0)
  BY <1>1, <1>3
<1>8. /\ NoRun.kind = "none" /\ \A a : NoRun # ActionRun(a)
      /\ \A e : NoRun # EventRun(e)
  BY DEF NoRun, ActionRun, EventRun
<1>9. TodoSole'
  <2>1. <<>> \in Seq(Posts) /\ Orderly' \in BOOLEAN /\ (used'.failure > 0) \in BOOLEAN
    BY DEF Orderly
  <2>2. SoleFor(run', Idle', Orderly', used'.failure > 0, <<>>)
    <3> DEFINE g == Orderly'
               p == used'.failure > 0
               I == Idle'
               r == run'
    <3>1. g \in BOOLEAN /\ p \in BOOLEAN
      BY <2>1
    <3> HIDE DEF g, p, I, r
    <3>2. SoleFor(r, I, g, p, <<>>)
      BY <2>1, <3>1, PostsSole
    <3> QED BY <3>2 DEF g, p, I, r
  <2> QED BY <1>1, <2>2 DEF TodoSole
<1>10. Uncalled' /\ Shown'
  BY <1>1, <1>2, <1>5, <1>8 DEF Uncalled, Shown
<1>11. Departing'
  <2>1. Going => acts'["start"] = 0 /\ acts'["stop"] = 0
    BY <1>2, <1>3, <1>7 DEF Departing, Power
  <2> QED BY <1>1, <1>2, <1>5, <1>6, <1>8, <2>1 DEF Departing
<1>12. ASSUME Orderly' PROVE Powered'
  <2>1. Powered
    BY <1>2, <1>5, <1>12
  <2>2. Turned'
    BY <1>1, <1>8 DEF Turned
  <2>3. \A a, b \in Power : a # b /\ acts'[a] > 0 => acts'[b] = 0 /\ b \in Idle
    BY <1>3, <1>7, <2>1 DEF Powered
  <2> QED BY <1>1, <1>5, <1>6, <2>1, <2>2, <2>3 DEF Powered
<1> QED BY <1>9, <1>10, <1>11, <1>12 DEF Sole

(***************************************************************************)
(* A patch is applied.                                                     *)
(***************************************************************************)
\* The status check of the merged subject.
LEMMA MergedCss ==
    ASSUME IInv, NEW p \in Patches
    PROVE  Merged(p).css = IF p.css = "keep" THEN subj.css ELSE p.css
<1> DEFINE st == IF p.state = KeepState THEN subj.state ELSE p.state
           de == IF p.desired = "keep" THEN subj.desired ELSE p.desired
           cs == IF p.css = "keep" THEN subj.css ELSE p.css
           v == IF p.vars = "keep" THEN subj.vars
                ELSE [edit |-> snap.vars.edit, forensics |-> subj.vars.forensics \/ p.vars = "forensics"]
           uu == subj.uuid \/ p.uuid
<1>1. subj \in Subjects
  BY DEF IInv, Sound, Types, Subjects
<1>2. Merged(p) = [subj EXCEPT !.state = st, !.desired = de, !.css = cs, !.vars = v, !.uuid = uu]
  BY <1>1 DEF Merged, Subjects
<1> HIDE DEF st, de, cs, v, uu
<1>3. Merged(p).css = cs
  BY <1>1, <1>2 DEF Subjects
<1> QED BY <1>3 DEF cs

\* What the subject and its jobs look like after the patch of the first call.
PatchFacts(p) ==
    /\ subj'.state = (IF p.state = KeepState THEN subj.state ELSE p.state)
    /\ subj'.css = (IF p.css = "keep" THEN subj.css ELSE p.css)
    /\ subj'.deleting = subj.deleting
    /\ events \subseteq events' /\ events' \subseteq events \cup {"update"}
    /\ subj.deleting => events' = events
    /\ \A a \in Actions : tower'[a].job = IF a = p.job THEN Launched(a) ELSE tower[a].job
    /\ Idle \ {p.job} \subseteq Idle'

LEMMA PatchIsApplied == ASSUME IInv, NEW p \in Patches, Apply(p) PROVE PatchFacts(p)
<1>1. /\ subj' = Merged(p)
      /\ events' = IF ~p.skip /\ Merged(p) # subj /\ ~subj.deleting THEN events \cup {"update"} ELSE events
  BY DEF Apply
<1>2. /\ Merged(p).state = (IF p.state = KeepState THEN subj.state ELSE p.state)
      /\ Merged(p).css = (IF p.css = "keep" THEN subj.css ELSE p.css)
      /\ Merged(p).deleting = subj.deleting
  BY MergedIs, MergedCss
<1>3. \A a \in Actions : tower'[a].job = IF a = p.job THEN Launched(a) ELSE tower[a].job
  BY ApplyTower
<1>4. Idle \ {p.job} \subseteq Idle'
  BY <1>3 DEF Idle
<1>5. events \subseteq events' /\ events' \subseteq events \cup {"update"} /\ (subj.deleting => events' = events)
  BY <1>1
<1> QED BY <1>1, <1>2, <1>3, <1>4, <1>5 DEF PatchFacts

\* What the patches of sound calls say.
LEMMA PatchAlone ==
    ASSUME IInv, TodoFits, Sole, todo # <<>>, Head(todo).op = "patch"
    PROVE  LET p == Head(todo).patch
           IN  /\ MayMove(run, Idle, Orderly, p.state)
               /\ p.css \notin {"keep", "running"} => "status" \in Idle
               /\ p.job # "keep" => run = ActionRun(p.job) /\ Shows(p)
               /\ todo \notin Seq(Posts) /\ run # NoRun /\ ~gone
<1>1. Head(todo) \in Alone /\ run # NoRun /\ ~gone
  BY HeadSole DEF Sole
<1>2. todo \in Seq(Posts) => Head(todo) \in Posts
  OBVIOUS
<1>3. todo \notin Seq(Posts)
  BY <1>2 DEF Posts
<1> QED BY <1>1, <1>3 DEF Alone, AloneFor

LEMMA PatchShown ==
    ASSUME NEW p, PatchFacts(p), Shown, Departing, UNCHANGED acts, run' = run,
           MayMove(run, Idle, Orderly, p.state),
           p.css \notin {"keep", "running"} => "status" \in Idle,
           p.job # "keep" => run = ActionRun(p.job) /\ Shows(p)
    PROVE  Shown'
<1>1. Going' = Going /\ "status" # "destroy" /\ "keep" \notin Actions
  BY DEF Going, Actions
<1>2. Running("destroy") # KeepState
  BY Moving
<1>3. ASSUME "destroy" \notin Idle' PROVE subj'.state = Running("destroy") /\ Going'
  <2>1. CASE p.job = "destroy"
    <3>1. run = ActionRun("destroy") /\ p.state = Running("destroy")
      BY <2>1 DEF Shows
    <3> QED BY <1>1, <1>2, <3>1 DEF PatchFacts, Departing
  <2>2. CASE "destroy" \notin Idle
    <3>1. subj.state = Running("destroy") /\ Going
      BY <2>2 DEF Shown
    <3>2. p.state \in {KeepState, Running("destroy")}
      BY <2>2 DEF MayMove
    <3> QED BY <1>1, <3>1, <3>2 DEF PatchFacts
  <2> QED BY <1>3, <2>1, <2>2 DEF PatchFacts
<1>4. ASSUME "status" \notin Idle' PROVE subj'.css = "running" /\ "status" \notin Disabled
  <2>1. CASE p.job = "status"
    BY <2>1 DEF Shows, PatchFacts
  <2>2. CASE "status" \notin Idle
    BY <2>2 DEF Shown, PatchFacts
  <2> QED BY <1>4, <2>1, <2>2 DEF PatchFacts
<1> QED BY <1>3, <1>4 DEF Shown

LEMMA PatchDeparting ==
    ASSUME NEW p, PatchFacts(p), Departing, UNCHANGED <<acts, run, gone>>,
           MayMove(run, Idle, Orderly, p.state),
           p.job # "keep" => run = ActionRun(p.job)
    PROVE  Departing'
<1>1. Going' = Going /\ Leaves' = Leaves
  BY DEF Going, Leaves
<1>2. ActionRun("destroy") # EventRun("delete")
  BY DEF ActionRun, EventRun
<1>3. run = EventRun("delete") => p.job # "destroy"
  BY <1>2
<1>4. Departs(subj'.state) => Leaves
  <2>1. CASE p.state = KeepState
    BY <2>1 DEF PatchFacts, Departing
  <2>2. CASE p.state # KeepState
    BY <2>2 DEF PatchFacts, Departing, MayMove, Leaves
  <2> QED BY <2>1, <2>2
<1> QED BY <1>1, <1>3, <1>4 DEF PatchFacts, Departing

LEMMA PatchPowered ==
    ASSUME Blamed, NEW p, PatchFacts(p), Powered, Orderly, Onwards, UNCHANGED <<acts, run, gone>>,
           MayMove(run, Idle, Orderly, p.state),
           p.job # "keep" => run = ActionRun(p.job) /\ Shows(p),
           todo \notin Seq(Posts)
    PROVE  Powered'
<1>1. Leaves' = Leaves /\ (used'.failure = 0 => used.failure = 0) /\ Power \subseteq Actions
      /\ "status" \notin Power /\ "keep" \notin Power
  BY DEF Going, Leaves, Onwards, Power, Actions
<1>2. \A a, b : ActionRun(a) = ActionRun(b) => a = b
  <2>1. \A a : ActionRun(a).name = a
    BY DEF ActionRun
  <2> QED BY <2>1
<1>3. ASSUME NEW a \in Power, a \notin Idle' PROVE subj'.state = Running(a) \/ Departs(subj'.state)
  <2>1. CASE a = p.job
    <3>1. p.state = Running(a)
      BY <1>1, <2>1 DEF Shows
    <3>2. Running(a) # KeepState
      BY DEF Running, KeepState
    <3> QED BY <3>1, <3>2 DEF PatchFacts
  <2>2. CASE a \notin Idle
    <3>1. p.state # KeepState => Departs(p.state) \/ p.state = Running(a)
      BY <2>2 DEF MayMove
    <3>2. subj.state = Running(a) \/ Departs(subj.state)
      BY <2>2 DEF Powered
    <3> QED BY <3>1, <3>2 DEF PatchFacts
  <2> QED BY <1>3, <2>1, <2>2 DEF PatchFacts
<1>4. ASSUME NEW a \in Power, NEW b \in Power, a # b, run = ActionRun(a)
      PROVE  acts[b] = 0 /\ b \in Idle'
  <2>1. acts[b] = 0 /\ b \in Idle
    BY <1>4 DEF Powered, Turned
  <2>2. b # p.job
    BY <1>1, <1>2, <1>4
  <2> QED BY <2>1, <2>2 DEF PatchFacts
<1>5. ASSUME NEW a \in Power, NEW b \in Power, a # b, acts[a] > 0
      PROVE  acts[b] = 0 /\ b \in Idle'
  <2>1. acts[b] = 0 /\ b \in Idle
    BY <1>5 DEF Powered
  <2>2. b # p.job
    <3>1. run = ActionRun(b) => acts[a] = 0
      BY <1>4, <1>5
    <3> QED BY <1>1, <1>5, <3>1
  <2> QED BY <2>1, <2>2 DEF PatchFacts
<1>6. ASSUME used'.failure = 0, ~Leaves, NEW a \in Power PROVE tower'[a].job \notin FailureStatuses
  <2>1. tower[a].job \notin FailureStatuses
    BY <1>1, <1>6 DEF Powered
  <2>2. Launched(a) \notin FailureStatuses
    BY <1>1, <1>6 DEF Launched, Blamed, FailureStatuses
  <2> QED BY <1>1, <2>1, <2>2 DEF PatchFacts
<1>7. Turned'
  BY <1>4 DEF Turned
<1> QED BY <1>1, <1>3, <1>5, <1>6, <1>7 DEF Powered

\* The subject, its jobs and what is left move together.
LEMMA SubjectUpdateAlone == ASSUME IInv, Blamed, Upbringing, Sole, Onwards, SubjectUpdate PROVE Sole'
<1> DEFINE c == Head(todo)
           p == c.patch
<1>1. /\ todo # <<>> /\ c.op = "patch" /\ p \in Patches /\ UNCHANGED <<acts, callbacks, gone, run>>
      /\ \/ Apply(p) /\ todo' \in {Tail(todo), Repeated, Recovery(c, Tail(todo))}
         \/ UNCHANGED <<subj, prev, events, tower>>
  BY Sent
<1>2. TodoFits /\ TodoSole /\ Uncalled /\ Shown /\ Departing /\ (Orderly => Powered)
  BY DEF Upbringing, Sole
<1>3. Succeeds \/ TroubleWith(Repeated) \/ Trouble
  BY DEF SubjectUpdate, Does
<1>4. CASE UNCHANGED <<subj, prev, events, tower>>
  BY <1>1, <1>2, <1>3, <1>4, AnswerAlone
<1>5. CASE Apply(p) /\ todo' \in {Tail(todo), Repeated, Recovery(c, Tail(todo))}
  <2>1. /\ MayMove(run, Idle, Orderly, p.state)
        /\ p.css \notin {"keep", "running"} => "status" \in Idle
        /\ p.job # "keep" => run = ActionRun(p.job) /\ Shows(p)
        /\ todo \notin Seq(Posts) /\ run # NoRun /\ ~gone
    BY <1>1, <1>2, PatchAlone
  <2>2. /\ \A s \in {todo, Tail(todo), Repeated, Recovery(c, Tail(todo))} : SoleNow(s)
        /\ p.job # "keep" =>
              \A s \in {Tail(todo), Repeated, Recovery(c, Tail(todo))} :
                 SoleFor(run, Idle \ {p.job}, Orderly, used.failure > 0, s)
    BY <1>1, <1>2, LeftSole
  <2>3. SoleFor(run, Idle \ {p.job}, Orderly, used.failure > 0, todo')
    <3>1. p.job = "keep" => Idle \ {p.job} = Idle
      BY DEF Idle, Actions
    <3> QED BY <1>5, <2>2, <3>1 DEF SoleNow
  <2>4. PatchFacts(p)
    BY <1>1, <1>5, PatchIsApplied
  <2> HIDE DEF c, p
  <2>5. TodoSole'
    <3>1. Idle \ {p.job} \subseteq Idle'
      BY <2>4 DEF PatchFacts
    <3> QED BY <1>1, <2>3, <3>1, SoundStays DEF TodoSole
  <2>6. Uncalled'
    BY <1>1, <1>2 DEF Uncalled
  <2>7. Shown'
    BY <1>1, <1>2, <2>1, <2>4, PatchShown
  <2>8. Departing'
    BY <1>1, <1>2, <2>1, <2>4, PatchDeparting
  <2>9. ASSUME Orderly' PROVE Powered'
    <3>1. Orderly
      BY <2>9, Later
    <3> QED BY <1>1, <1>2, <2>1, <2>4, <3>1, PatchPowered
  <2> QED BY <2>5, <2>6, <2>7, <2>8, <2>9 DEF Sole
<1> QED BY <1>1, <1>4, <1>5

(***************************************************************************)
(* The user, the sandbox API, and every step.                              *)
(***************************************************************************)
\* The user asks for something, or deletes the subject, before it is being destroyed.
LEMMA UserAlone ==
    ASSUME IInv, Sole, Onwards, EditJobVars \/ SetDesiredState \/ AskStatus \/ DeleteSubject PROVE Sole'
<1>1. TodoSole /\ Uncalled /\ Shown /\ Departing /\ (Orderly => Powered) /\ ~subj.deleting
  BY DEF Sole, EditJobVars, SetDesiredState, AskStatus, DeleteSubject, Request
<1>2. /\ UNCHANGED <<tower, acts, callbacks, gone, run, todo>>
      /\ subj'.state = subj.state /\ subj'.css = subj.css
  <2>1. subj \in Subjects
    BY DEF IInv, Sound, Types, Subjects
  <2>2. CASE SetDesiredState
    <3>1. PICK want : Request([subj EXCEPT !.desired = want])
      BY <2>2 DEF SetDesiredState
    <3> QED BY <2>1, <3>1 DEF Request, Subjects, anarchy, sandbox, runner
  <2>3. CASE AskStatus
    BY <2>1, <2>3 DEF AskStatus, Request, Subjects, anarchy, sandbox, runner
  <2>4. CASE DeleteSubject
    BY <2>1, <2>4 DEF DeleteSubject, Subjects, anarchy, sandbox, runner
  <2>5. CASE EditJobVars
    BY <2>1, <2>5 DEF EditJobVars, Request, Subjects, anarchy, sandbox, runner
  <2> QED BY <2>2, <2>3, <2>4, <2>5
<1>3. Idle' = Idle /\ Going' = Going /\ Leaves' = Leaves /\ (Orderly' => Orderly)
      /\ (used'.failure = 0 => used.failure = 0)
  BY <1>2, Later DEF Idle, Going, Leaves, Onwards
<1>4. ~Going /\ run # EventRun("delete")
  BY <1>1 DEF Departing
<1>5. TodoSole'
  <2>1. SoleFor(run, Idle, Orderly, used.failure > 0, todo') /\ Idle \subseteq Idle'
    BY <1>1, <1>2, <1>3 DEF TodoSole
  <2> QED BY <1>2, <2>1, SoundStays DEF TodoSole
<1>6. Uncalled' /\ Shown' /\ Departing'
  BY <1>1, <1>2, <1>3, <1>4 DEF Uncalled, Shown, Departing
<1>7. ASSUME Orderly' PROVE Powered'
  <2>1. Powered
    BY <1>1, <1>3, <1>7
  <2>2. Turned'
    <3>1. used.failure > 0 => used'.failure > 0
      BY Later
    <3> QED BY <1>2, <1>3, <2>1, <3>1 DEF Powered, Turned
  <2> QED BY <1>2, <1>3, <2>1, <2>2 DEF Powered
<1> QED BY <1>5, <1>6, <1>7 DEF Sole

\* Every step but a callback.
LEMMA NextAlone ==
    ASSUME PowerDeployed, IInv, Blamed, Upbringing, Attended, Sole, [Next]_vars, used'.callback = 0
    PROVE  Sole'
<1>1. Onwards
  BY UsedGrows
<1>2. CASE DispatchNext
  BY <1>2, DispatchRunAlone DEF DispatchNext
<1>3. CASE HandlerStep
  <2>1. Attended'
    BY NextAttends
  <2>2. CASE SubjectUpdate \/ ScheduleAction \/ CancelJobs \/ PollJob \/ GetPlacement \/ PostResult
    BY <1>1, <2>1, <2>2, SubjectUpdateAlone, ScheduleActionAlone, CancelJobsAlone, PollJobAlone,
       GetPlacementAlone, PostResultAlone
  <2>3. CASE GetBooked \/ CheckQueue \/ BookPlacement
    BY <1>1, <2>3, BookingAlone
  <2>4. CASE PowerPlacement \/ AwaitRequest
    BY <1>1, <2>4, PowerCallAlone
  <2>5. CASE LaunchJob \/ ReleasePlacement
    BY <1>1, <2>5, QuietStepAlone
  <2> QED BY <1>3, <2>2, <2>3, <2>4, <2>5 DEF HandlerStep
<1>4. CASE Abandon
  BY <1>1, <1>4, QuietStepAlone
<1>5. ASSUME UNCHANGED <<subj, tower, acts, events, callbacks, run, gone, todo>> PROVE Sole'
  <2>1. SoleNow(todo')
    BY <1>5 DEF Sole, TodoSole, SoleNow
  <2> QED BY <1>1, <1>5, <2>1, QuietAlone
<1>6. CASE Environment
  <2>1. CASE PlacementMoves \/ RequestEnds \/ TokenVanishes
    <3>1. UNCHANGED <<subj, tower, acts, events, callbacks, run, gone, todo>>
      BY <2>1 DEF PlacementMoves, RequestEnds, TokenVanishes, subject, anarchy, sandbox, runner
    <3> QED BY <1>5, <3>1
  <2>2. CASE \E a \in Actions : JobEnds(a) \/ OrphanEnds(a)
    BY <1>1, <2>2, JobEndsAlone
  <2>3. CASE EditJobVars \/ SetDesiredState \/ AskStatus \/ DeleteSubject
    BY <1>1, <2>3, UserAlone
  <2> QED BY <1>6, <2>1, <2>2, <2>3 DEF Environment
<1>7. CASE UNCHANGED vars
  BY <1>5, <1>7 DEF vars
<1> QED BY <1>2, <1>3, <1>4, <1>6, <1>7 DEF Next

(***************************************************************************)
(* The theorem.                                                            *)
(***************************************************************************)
LEMMA SoleInit == Init => SInv
<1> SUFFICES ASSUME Init PROVE Sole
  <2>1. ASSUME Init, NEW a \in Actions PROVE orphans[a].ended \notin FailureStatuses
    <3>1. orphans[a] = [running |-> 0, ended |-> "none"]
      BY <2>1 DEF Init
    <3> QED BY <3>1 DEF FailureStatuses
  <2> QED BY <2>1 DEF SInv, Blamed
<1>1. /\ subj = NewSubject /\ tower = NoJobs /\ acts = [a \in Actions |-> 0] /\ events = {"create"}
      /\ callbacks = {} /\ gone = FALSE /\ run = NoRun /\ todo = <<>>
      /\ used = [fault |-> 0, failure |-> 0, request |-> 0, callback |-> 0, stray |-> 0]
  BY DEF Init
<1>2. subj.state = NoState /\ ~Departs(subj.state)
  BY <1>1, Resting DEF NewSubject
<1>3. /\ \A a \in Actions : tower[a].job = "none" /\ acts[a] = 0
      /\ Power \subseteq Actions /\ {"destroy", "status"} \subseteq Actions
  BY <1>1 DEF NoJobs, Power, Actions
<1>4. Idle = Actions
  BY <1>3 DEF Idle
<1>5. NoRun.kind = "none" /\ \A a : NoRun # ActionRun(a) /\ NoRun # EventRun(a)
  BY DEF NoRun, ActionRun, EventRun
<1>6. TodoSole
  <2> DEFINE g == Orderly
             p == used.failure > 0
  <2>1. g \in BOOLEAN /\ p \in BOOLEAN /\ <<>> \in Seq(Posts)
    BY DEF Orderly
  <2> HIDE DEF g, p
  <2>2. SoleFor(run, Idle, g, p, <<>>)
    BY <2>1, PostsSole
  <2> QED BY <1>1, <2>2 DEF TodoSole, g, p
<1>7. Uncalled /\ Shown /\ Departing
  BY <1>1, <1>2, <1>3, <1>4, <1>5 DEF Uncalled, Shown, Departing, Going
<1>8. Powered
  <2>1. "none" \notin FailureStatuses
    BY DEF FailureStatuses
  <2>2. Turned
    BY <1>1, <1>5 DEF Turned
  <2> QED BY <1>3, <1>4, <2>1, <2>2 DEF Powered
<1> QED BY <1>6, <1>7, <1>8 DEF Sole

\* A run that launches a job of its action finds none in progress.
LEMMA LaunchSingle ==
    ASSUME IInv, Upbringing, Sole, LaunchJob, NEW a \in Actions, Head(todo).act = a,
           a \in {"start", "stop"} => used.fault = 0 \/ used.failure = 0
    PROVE  tower[a].job # "running"
<1>1. TodoFits /\ TodoSole /\ todo # <<>> /\ Head(todo).op = "launch"
  BY DEF Upbringing, Sole, LaunchJob, At
<1>2. MayLaunch(run, Idle, Orderly, a)
  BY <1>1, HeadSole DEF Alone, AloneFor
<1>3. a \in Idle
  BY <1>2 DEF MayLaunch, Power, Orderly
<1> QED BY <1>3 DEF Idle

\* While no callback came in, no second Tower job of an action is launched under its
\* recorded one, whatever fails, is repeated, cut off or lost, for every number of
\* faults, failures and requests: what a job left in the subject (its state, or
\* check_status_state) leads every later run of the action to poll the job that is there
\* and not to launch another (handleProvision, handleDestroy, handleStart, handleStop,
\* handleStatus).  Start and stop are held to it up to a failure and a fault together:
\* a run that turned round (retryOrPivot) may then be dispatched once more.  This is
\* proved for every governor with deployers for start and stop and no update action.
THEOREM LaunchesAreSingle == ASSUME PowerDeployed PROVE Spec => OneJobPerAction
<1>1. Init => WInv /\ SInv
  BY WakeupInit, SoleInit
<1>2. IInv /\ WInv /\ SInv /\ [Next]_vars => WInv' /\ SInv'
  <2> SUFFICES ASSUME IInv, WInv, SInv, [Next]_vars PROVE WInv' /\ SInv'
    OBVIOUS
  <2>1. WInv'
    BY NextFits, NextWakes, NextAttends, Recall DEF WInv
  <2>2. ASSUME used'.callback = 0 PROVE Sole'
    <3>1. used.callback = 0
      BY <2>2, UsedGrows DEF Onwards
    <3> QED BY <2>2, <3>1, NextAlone DEF WInv, SInv
  <2> QED BY <2>1, <2>2, Blames DEF SInv
<1>3. IInv /\ WInv /\ SInv /\ [Next]_vars =>
        [used.callback = 0 =>
           \A a \in Actions :
              Launches(a) /\ (a \in {"start", "stop"} => used.fault = 0 \/ used.failure = 0)
              => tower[a].job # "running"]_vars
  <2> SUFFICES ASSUME IInv, WInv, SInv, [Next]_vars, used.callback = 0, NEW a \in Actions,
                      Launches(a), a \in {"start", "stop"} => used.fault = 0 \/ used.failure = 0
               PROVE  tower[a].job # "running"
    OBVIOUS
  <2>1. LaunchJob /\ Head(todo).act = a
    BY OrphanSteps
  <2> QED BY <2>1, LaunchSingle DEF WInv, SInv
<1> QED BY <1>1, <1>2, <1>3, Invariance, PTL DEF Spec, OneJobPerAction

(***************************************************************************)
(* The placement is released last (ReleasedLast).                          *)
(*                                                                         *)
(* A run either works towards a destruction (Opening) or leads away from   *)
(* it (Closing): whoever may release the placement records no destroy job, *)
(* and no such job is in progress when the decision is taken.  A callback  *)
(* of a destroy job that ended is the one surprise: until it is handled    *)
(* nothing moves the subject on (Kept), so that what it decides is true.   *)
(***************************************************************************)
Served == "destroy" \in GovActions \ Disabled

\* No destroy job is in progress on a placement.
Over == placement = "absent" \/ "destroy" \in Idle

\* To release the placement, or to have it released by a later run of the destroy action.
Concludes(c) == c.op = "release" \/ (CatchAll /\ c.patch.state \in DestroyFailures)
Renews(c) == c.patch.job = "destroy"
Demands(c) == c.op = "schedule" /\ c.act = "destroy"

Opening ==
    {c \in Calls : /\ ~Concludes(c)
                   /\ Demands(c) => Served
                   /\ Renews(c) => Served /\ c.patch.state = Running("destroy")}
Closing == {c \in Calls : ~Renews(c) /\ (Demands(c) => Served)}

\* The calls that have nothing to do with a destruction, and those of them that only note.
Ready == Allowed(TRUE, FALSE, {"provision", "reget"})
Notes == Ready \cap OpenFor(NoRun, {}, FALSE, FALSE)

(***************************************************************************)
(* The invariant, while at most one callback came in, and that of a        *)
(* recorded job.                                                           *)
(***************************************************************************)
Steers(s) == s \in Seq(Opening) \/ (s \in Seq(Closing) /\ Over)

\* A governor that destroys nothing.
Spared == ~Served => acts["destroy"] = 0 /\ run # ActionRun("destroy") /\ tower["destroy"].job = "none"

GivenUp == CatchAll /\ subj.state \in DestroyFailures => Over

Tokened == token /\ todo # <<>> => snap.token

\* The callback of a destroy job that is still to be handled, and would release.
Late(c) == c \in callbacks \cup {run} /\ c.kind = "callback" /\ c.name = "destroy"
Presses(c) == placement # "absent" /\ (IF c.status = "successful" THEN token ELSE CatchAll)

Failed(c) == IF c.status = "successful" THEN {} ELSE DestroyFailures

Quietly(c) ==
    {d \in Calls :
        /\ ~Renews(d)
        /\ d.patch.state \in {KeepState, Running("destroy")} \cup Failed(c)
        /\ d.op = "schedule" => d.act \notin Power
        /\ d.op = "poll" => d.act \in {"destroy", "status"}
        /\ d.onError # "provisionError"
        /\ d.op \notin {"book", "reget", "checkQueue"}
        /\ ~(d.op = "get" /\ d.act = "provision")}

Kept(c) ==
    /\ tower["destroy"].job = c.status
    /\ subj.state \in {Running("destroy")} \cup Failed(c)
    /\ \A d \in callbacks \cup {run} : d.kind = "callback" => d = c
    /\ subj.deleting /\ events \subseteq {"create"} /\ acts["start"] = 0 /\ acts["stop"] = 0
    /\ run \notin {EventRun("update"), EventRun("delete"), ActionRun("start"), ActionRun("stop")}

Calmly(c, s) == s \in Seq(Quietly(c)) \/ (s \in Seq(Parting) /\ s # <<>> /\ Head(s).op = "release")

Stills == \A c \in callbacks \cup {run} : Late(c) /\ Presses(c) => Kept(c) /\ Calmly(c, todo)

Watchful == Steers(todo) /\ Spared /\ GivenUp /\ Tokened /\ Stills
ZInv == used.callback < 2 /\ used.stray = 0 => Watchful

(***************************************************************************)
(* Kinds of calls.                                                         *)
(***************************************************************************)
LEMMA ReadyOpens ==
    /\ Ready \subseteq Opening /\ Ready \subseteq Closing /\ Notes \subseteq Ready
    /\ Parting \subseteq Closing /\ {c \in Parting : c.op # "release"} \subseteq Opening
    /\ Allowed(TRUE, TRUE, {"provision", "reget"}) \subseteq Closing
    /\ ~CatchAll => Allowed(TRUE, TRUE, {"provision", "reget"}) \subseteq Opening
    /\ Opening \subseteq Calls /\ Closing \subseteq Calls /\ Ready \subseteq Calls
<1>1. \A e : Allowed(TRUE, e, {"provision", "reget"}) \subseteq
                {c \in Calls : ~Renews(c) /\ ~Demands(c) /\ c.op # "release"
                               /\ (c.patch.state \in DestroyFailures => e)}
  BY DEF Allowed, PatchesOf, Renews, Demands
<1>2. Parting \subseteq {c \in Calls : ~Renews(c) /\ ~Demands(c) /\ c.patch.state \notin DestroyFailures}
  BY DEF Parting, Renews, Demands
<1> QED BY <1>1, <1>2 DEF Opening, Closing, Ready, Notes, Concludes

\* Two kinds at once.
LEMMA SeqBoth == ASSUME NEW S, NEW T, NEW s, s \in Seq(S), s \in Seq(T) PROVE s \in Seq(S \cap T)
OBVIOUS

\* What is noted of a placement, and the results.
LEMMA NotesHold ==
    /\ \A x \in {"none", "finish", "continue"} : Post(x) \in Seq(Notes)
    /\ updateSubjectSandboxVars("ignore") \in Seq(Notes)
    /\ \A a \in Power :
          /\ recordSandboxActionFailure(a) \in Seq(Notes)
          /\ \A f \in OnErrors \ {"provisionError"} :
                /\ \A async : requested(a, f, async) \in Seq(Notes)
                /\ recordSandboxJobOutcome(a, "successful", f) \in Seq(Notes)
    /\ \A a \in Power, f \in OnErrors :
          /\ \A async : requested(a, f, async) \in Seq(Ready)
          /\ recordSandboxJobOutcome(a, "successful", f) \in Seq(Ready)
    /\ handleProvisionError \in Seq(Ready)
<1> DEFINE O == OpenFor(NoRun, {}, FALSE, FALSE)
<1>1. \A x \in {"none", "finish", "continue"} : Post(x) \in Seq(O) /\ Post(x) \in Seq(Ready)
  BY PostsAlone, PostType DEF Ready
<1>2. updateSubjectSandboxVars("ignore") \in Seq(O) /\ updateSubjectSandboxVars("ignore") \in Seq(Ready)
  BY SmallSole, SandboxVarsType, ActionNames DEF Ready, OnErrors
<1>3. ASSUME NEW a \in Power
      PROVE  /\ recordSandboxActionFailure(a) \in Seq(O) /\ recordSandboxActionFailure(a) \in Seq(Ready)
             /\ \A f \in OnErrors :
                   /\ \A async : requested(a, f, async) \in Seq(Ready)
                   /\ recordSandboxJobOutcome(a, "successful", f) \in Seq(Ready)
             /\ \A f \in OnErrors \ {"provisionError"} :
                   /\ \A async : requested(a, f, async) \in Seq(O)
                   /\ recordSandboxJobOutcome(a, "successful", f) \in Seq(O)
  <2>1. "ignore" \in OnErrors \ {"provisionError"} /\ a \in {"start", "stop"}
    BY DEF OnErrors, Power
  <2>2. \A f \in OnErrors : /\ \A async : requested(a, f, async) \in Seq(Ready)
                            /\ recordSandboxJobOutcome(a, "successful", f) \in Seq(Ready)
                            /\ recordSandboxActionFailure(a) \in Seq(Ready)
    BY <2>1, PowerType DEF Ready
  <2>3. \A f \in OnErrors \ {"provisionError"} :
           /\ \A async : requested(a, f, async) \in Seq(O)
           /\ recordSandboxJobOutcome(a, "successful", f) \in Seq(O)
           /\ recordSandboxActionFailure(a) \in Seq(O)
    BY PowerSole
  <2> QED BY <2>1, <2>2, <2>3
<1> HIDE DEF O
<1>4. \A s : s \in Seq(O) /\ s \in Seq(Ready) => s \in Seq(Notes)
  BY SeqBoth DEF Notes, O
<1>5. handleProvisionError \in Seq(Ready)
  BY handleProvisionErrorType DEF Ready
<1> QED BY <1>1, <1>2, <1>3, <1>4, <1>5

(***************************************************************************)
(* Kinds of calls that a run does not leave.                               *)
(***************************************************************************)
\* The calls that wait for an answer of the sandbox API, or may end the provision.
Asks(c) == \/ c.onError = "provisionError" \/ c.op \in {"book", "reget", "checkQueue"}
           \/ c.op = "get" /\ c.act = "provision"

\* The call once more, without its job.
Copies(d, c) ==
    d.op = c.op /\ d.act = c.act /\ d.onError = c.onError /\ d.patch.state = c.patch.state
    /\ d.patch.job = "keep"

Complete(S) ==
    /\ S \subseteq Calls /\ Notes \subseteq S
    /\ \A c \in S : \A d \in Calls : Copies(d, c) => d \in S
    /\ Ready \subseteq S \/ \A c \in S : ~Asks(c)

\* What an error leaves to do stays of the same kind.
LEMMA KindsComplete == Complete(Opening) /\ Complete(Closing) /\ \A c : Complete(Quietly(c))
<1>1. Complete(Opening)
  BY ReadyOpens DEF Complete, Opening, Copies, Concludes, Demands, Renews
<1>2. Complete(Closing)
  BY ReadyOpens DEF Complete, Closing, Copies, Demands, Renews
<1>3. ASSUME NEW c PROVE Complete(Quietly(c))
  <2>1. Notes \subseteq Quietly(c)
    <3> SUFFICES ASSUME NEW d \in Notes PROVE d \in Quietly(c)
      OBVIOUS
    <3>1. d \in Calls /\ d \in AloneFor(NoRun, {}, FALSE, FALSE)
      BY DEF Notes, OpenFor, AloneFor
    <3>2. /\ \A a : NoRun # ActionRun(a) /\ NoRun # EventRun(a)
          /\ NoRun.kind # "action"
      BY DEF NoRun, ActionRun, EventRun
    <3>3. ~Free({}, FALSE)
      BY DEF Free
    <3>4. d.patch.job = "keep" /\ MayMove(NoRun, {}, FALSE, d.patch.state) /\ d.onError # "provisionError"
          /\ d.op # "poll"
          /\ d.op \notin {"book", "reget", "checkQueue"} /\ ~(d.op = "get" /\ d.act = "provision")
          /\ (d.op = "schedule" => d.act \notin Power)
      BY <3>1, <3>2, <3>3 DEF AloneFor, MaySchedule
    <3>5. d.patch.state \in {KeepState, Running("destroy")}
      BY <3>4 DEF MayMove
    <3> QED BY <3>1, <3>4, <3>5 DEF Quietly, Renews
  <2>2. \A d \in Quietly(c) : ~Asks(d)
    BY DEF Quietly, Asks
  <2>3. \A d \in Quietly(c) : \A e \in Calls : Copies(e, d) => e \in Quietly(c)
    BY DEF Quietly, Copies, Renews
  <2>4. Quietly(c) \subseteq Calls
    BY DEF Quietly
  <2> QED BY <2>1, <2>2, <2>3, <2>4 DEF Complete
<1> QED BY <1>1, <1>2, <1>3

\* What may be left after a call.
LEMMA LeftStays ==
    ASSUME IInv, TodoFits, todo # <<>>, NEW S, Complete(S), todo \in Seq(S)
    PROVE  /\ \A s \in {todo, Tail(todo), Repeated, <<>>, Handled(Head(todo), Tail(todo)),
                        Recovery(Head(todo), Tail(todo))} : s \in Seq(S)
           /\ Head(todo) \in S /\ (Asks(Head(todo)) => Ready \subseteq S) /\ Notes \subseteq S
<1> DEFINE c == Head(todo)
           t == Tail(todo)
<1>1. /\ c \in S /\ c = todo[1] /\ t \in Seq(S) /\ <<>> \in Seq(S)
  OBVIOUS
<1>2. S \subseteq Calls /\ Notes \subseteq S /\ (Asks(c) => Ready \subseteq S)
      /\ \A d \in Calls : Copies(d, c) => d \in S
  BY <1>1 DEF Complete
<1>3. Repeated \in Seq(S)
  <2>1. /\ Len(Repeated) = Len(todo) /\ Repeated \in Seq(Calls)
        /\ Head(Repeated) = Repeated[1] /\ Repeated # <<>>
        /\ Copies(Head(Repeated), c)
        /\ \A i \in 2..Len(todo) : Repeated[i] = todo[i]
    BY RepeatedForm DEF Copies
  <2> DEFINE w == Repeated
  <2> HIDE DEF w, c
  <2>2. Head(w) \in Calls /\ Head(w) \in S
    BY <1>2, <2>1 DEF w
  <2>3. \A i \in 1..Len(w) : w[i] \in S
    BY <2>1, <2>2 DEF w
  <2> QED BY <2>1, <2>3 DEF w
<1>4. c.onError \in OnErrors /\ (c.traced => c.act \in Power)
  BY HeadFits DEF Power
<1>5. c.onError = "provisionError" => handleProvisionError \in Seq(S)
  BY <1>2, NotesHold, SeqMore DEF Asks
<1>6. Post("continue") \in Seq(S) /\ Post("finish") \in Seq(S)
      /\ (c.traced => recordSandboxActionFailure(c.act) \in Seq(S))
  BY <1>2, <1>4, NotesHold, SeqMore
<1> HIDE DEF c, t
<1>7. Handled(c, t) \in Seq(S)
  BY <1>1, <1>4, <1>5, <1>6 DEF Handled, OnErrors
<1>8. Recovery(c, t) \in Seq(S)
  BY <1>1, <1>6, <1>7, Concat DEF Recovery
<1> QED BY <1>1, <1>2, <1>3, <1>7, <1>8 DEF c, t

\* No call but a poll leads out of a kind.
LEMMA CallStays ==
    ASSUME IInv, TodoFits, HandlerStep \/ Abandon, NEW S, Complete(S), todo \in Seq(S), Head(todo).op # "poll"
    PROVE  todo' \in Seq(S)
<1> DEFINE c == Head(todo)
           a == c.act
           f == c.onError
           t == Tail(todo)
           h == Handled(c, t)
<1>1. todo # <<>>
  BY DEF HandlerStep, SubjectUpdate, ScheduleAction, LaunchJob, CancelJobs, PollJob, GetPlacement, GetBooked,
         CheckQueue, BookPlacement, PowerPlacement, AwaitRequest, ReleasePlacement, PostResult, Abandon, At
<1>2. /\ \A s \in {todo, t, Repeated, <<>>, h, Recovery(c, t)} : s \in Seq(S)
      /\ Asks(c) => Ready \subseteq S
      /\ Notes \subseteq S
  BY <1>1, LeftStays
<1>3. ASSUME Succeeds \/ TroubleWith(Repeated) \/ Trouble PROVE todo' \in Seq(S)
  BY <1>1, <1>2, <1>3, Moves
<1>4. ASSUME NEW s \in Seq(S), Continue(s) PROVE todo' \in Seq(S)
  BY <1>4 DEF Continue
<1>5. <<>> \in Seq(S)
  OBVIOUS
<1>6. placement \in PlacementStatuses /\ "absent" \in PlacementStatuses
  BY DEF IInv, Sound, Types, PlacementStatuses
<1>7. CASE SubjectUpdate \/ ScheduleAction \/ LaunchJob \/ CancelJobs
  BY <1>3, <1>7 DEF SubjectUpdate, ScheduleAction, LaunchJob, CancelJobs, Does
<1>8. CASE ReleasePlacement
  BY <1>3, <1>4, <1>5, <1>8 DEF ReleasePlacement, Does
<1>9. CASE PostResult \/ Abandon
  BY <1>4, <1>5, <1>9 DEF PostResult, Abandon
<1>10. CASE PollJob
  BY <1>10 DEF PollJob, At
<1>11. ASSUME Asks(c)
       PROVE  /\ \A st \in PlacementStatuses : /\ placedOrNot(st, t) \in Seq(S) /\ bookedAgain(st, t) \in Seq(S)
                                               /\ queueChecked(st, snap) \in Seq(S)
              /\ \A st \in (PlacementStatuses \ {"absent"}) \cup {"invalid", "refused"} : booked(st, t) \in Seq(S)
  <2>1. Ready \subseteq S /\ Seq(Ready) \subseteq Seq(S) /\ t \in Seq(S)
    BY <1>2, <1>11, SeqMore
  <2>2. <<Call("book", "provision", "provisionError")>> \in Seq(Ready)
        /\ <<Call("reget", "provision", "provisionError")>> \in Seq(Ready)
    BY CallType DEF Ops, OnErrors, Actions, Ready
  <2>3. updateSubjectSandboxVars("provisionError") \in Seq(Ready)
    BY SandboxVarsType DEF OnErrors, Ready
  <2>4. /\ handleProvisionError \in Seq(Ready) /\ transitionToQueued \in Seq(Ready)
        /\ Post("finish") \in Seq(Ready)
    BY NotesHold, ProvisionOutcomeType, PostType DEF Ready
  <2>5. \A st \in PlacementStatuses : queueChecked(st, snap) \in Seq(Ready)
    BY ProvisionType DEF Ready
  <2> HIDE DEF t
  <2>6. \A st \in PlacementStatuses : placedOrNot(st, t) \in Seq(S)
    BY <2>1, <2>2, <2>3, <2>4, Concat DEF placedOrNot, PlacementStatuses, NotReady
  <2>7. \A st \in (PlacementStatuses \ {"absent"}) \cup {"invalid", "refused"} : booked(st, t) \in Seq(S)
    BY <2>1, <2>2, <2>4, Concat DEF booked, PlacementStatuses, NotReady
  <2> QED BY <2>1, <2>5, <2>6, <2>7 DEF bookedAgain
<1>12. CASE GetPlacement
  <2>1. \/ Trouble \/ Continue(t)
        \/ Asks(c) /\ Continue(placedOrNot(placement, t))
        \/ Continue(updateSubjectSandboxVars("ignore") \o t)
    BY <1>12 DEF GetPlacement, At, Asks
  <2>2. updateSubjectSandboxVars("ignore") \in Seq(S) /\ t \in Seq(S)
    BY <1>2, NotesHold, SeqMore
  <2> HIDE DEF t, c
  <2>3. updateSubjectSandboxVars("ignore") \o t \in Seq(S)
    BY <2>2, Concat
  <2> QED BY <1>3, <1>4, <1>6, <1>11, <2>1, <2>2, <2>3
<1>13. CASE GetBooked \/ CheckQueue
  <2>1. /\ Asks(c)
        /\ \/ Trouble
           \/ Continue(bookedAgain(placement, t)) \/ Continue(bookedAgain("absent", t))
           \/ Continue(queueChecked(placement, snap))
    BY <1>13 DEF GetBooked, CheckQueue, At, Asks
  <2> HIDE DEF t, c
  <2> QED BY <1>3, <1>4, <1>6, <1>11, <2>1
<1>14. CASE BookPlacement
  <2>1. /\ Asks(c)
        /\ \/ Trouble
           \/ \E st \in (PlacementStatuses \ {"absent"}) \cup {"invalid", "refused"} : Continue(booked(st, t))
    <3>1. CASE \E st \in IF placement = "absent" THEN NotReady \cup {"success"} ELSE {placement} :
                 Continue(booked(st, t)) \/ Trouble
      BY <1>6, <1>14, <3>1 DEF PlacementStatuses, NotReady, BookPlacement, At, Asks
    <3>2. CASE \E st \in {"invalid", "refused", "error"} : Continue(booked(st, t))
      BY <1>14, <3>2 DEF PlacementStatuses, BookPlacement, At, Asks
    <3>3. CASE Trouble
      BY <1>14, <3>3 DEF BookPlacement, At, Asks
    <3> QED BY <1>14, <3>1, <3>2, <3>3 DEF BookPlacement
  <2> HIDE DEF t, c
  <2> QED BY <1>3, <1>4, <1>11, <2>1
<1>15. CASE PowerPlacement \/ AwaitRequest
  <2>1. /\ c.op \in {"power", "await"}
        /\ \/ Trouble \/ Continue(h) \/ Continue(Recovery(c, t))
           \/ Continue(requested(a, f, TRUE) \o t) \/ Continue(requested(a, f, FALSE) \o t)
           \/ Continue(requestEnded(c, power.ended, t, h))
    BY <1>15 DEF PowerPlacement, AwaitRequest, At
  <2>2. a \in Power /\ f \in OnErrors
    BY <1>1, <2>1, HeadOK, HeadFits DEF Allowed, Power
  <2>3. Seq(Notes) \subseteq Seq(S) /\ (f = "provisionError" => Seq(Ready) \subseteq Seq(S))
    BY <1>2, SeqMore DEF Asks
  <2>4. h \in Seq(S) /\ t \in Seq(S) /\ Recovery(c, t) \in Seq(S)
    BY <1>2
  <2> HIDE DEF t, h, f
  <2>5. /\ \A async : requested(a, f, async) \in Seq(S)
        /\ recordSandboxJobOutcome(a, "successful", f) \in Seq(S) /\ recordSandboxActionFailure(a) \in Seq(S)
    <3> HIDE DEF a
    <3> QED BY <2>2, <2>3, NotesHold
  <2>6. requestEnded(c, power.ended, t, h) \in Seq(S)
    BY <2>4, <2>5, Concat DEF requestEnded, f
  <2>7. \A async : requested(a, f, async) \o t \in Seq(S)
    BY <2>4, <2>5, Concat
  <2> HIDE DEF c, a
  <2> QED BY <1>3, <1>4, <2>1, <2>4, <2>6, <2>7
<1> QED BY <1>7, <1>8, <1>9, <1>10, <1>12, <1>13, <1>14, <1>15 DEF HandlerStep

(***************************************************************************)
(* Where the handlers lead.                                                *)
(***************************************************************************)
\* After every job but destroy's.
LEMMA OutcomeReady ==
    ASSUME NEW s, NEW a \in Actions \ {"destroy"}, NEW st \in JobStatuses
    PROVE  handleCallback(a, st, s) \in Seq(Ready)
<1> USE DEF Ready
<1>1. CASE st = "successful"
  <2>1. handleStartComplete \in Seq(Ready) /\ handleStopComplete \in Seq(Ready)
    BY StartStopType
  <2>2. handleStatusComplete \in Seq(Ready) /\ handleUpdateComplete \in Seq(Ready)
    BY StatusUpdateType
  <2> HIDE DEF Ready
  <2>3. handleProvisionComplete \in Seq(Ready)
    BY ProvisionOutcomeType DEF Ready
  <2> QED BY <1>1, <2>1, <2>2, <2>3 DEF handleDeployerJobSuccess, Actions, handleCallback
<1>2. CASE st # "successful"
  <2>1. st \in FailureStatuses
    BY <1>2 DEF JobStatuses
  <2>2. handleDeployerJobFailure(a, st, s) \in Seq(Ready)
    BY <2>1, FailureType, ProvisionOutcomeType, handleProvisionErrorType
       DEF handleDeployerJobFailure, Actions, FailureStatuses
  <2> QED BY <1>2, <2>2 DEF handleCallback
<1> QED BY <1>1, <1>2

\* The handlers of all other runs.
LEMMA BesideReady ==
    ASSUME NEW r \in EventRuns \cup ActionRuns \cup CallbackRuns, NEW s, r.name \notin {"delete", "destroy"}
    PROVE  Dispatch(r, s) \in Seq(Ready)
<1>1. CASE r \in EventRuns
  <2>1. handleEventCreate(s) \in Seq(Ready) /\ handleEventUpdate(s) \in Seq(Ready)
    BY EventType DEF Ready
  <2> QED BY <1>1, <2>1 DEF Dispatch, EventRuns
<1>2. CASE r \in ActionRuns
  <2>1. /\ handleProvision(s) \in Seq(Ready) /\ handleStart(s) \in Seq(Ready) /\ handleStop(s) \in Seq(Ready)
        /\ handleStatus(s) \in Seq(Ready) /\ handleUpdate(s) \in Seq(Ready)
    BY ProvisionType, StartStopType, StatusUpdateType DEF Ready
  <2> QED BY <1>2, <2>1 DEF Dispatch, ActionRuns, Actions
<1>3. CASE r \in CallbackRuns
  <2>1. handleCallback(r.name, r.status, s) \in Seq(Ready)
    BY <1>3, OutcomeReady DEF CallbackRuns
  <2>2. Dispatch(r, s) = handleCallback(r.name, r.status, s)
    BY <1>3 DEF Dispatch, CallbackRuns
  <2> QED BY <2>1, <2>2
<1> QED BY <1>1, <1>2, <1>3

\* The delete event schedules the destruction, or parts with a subject that needs none.
LEMMA DeleteLeads ==
    ASSUME NEW s
    PROVE  IF s.provisioned /\ Served THEN handleEventDelete(s) \in Seq(Opening)
           ELSE handleEventDelete(s) \in Seq(Parting)
<1> DEFINE c == Call("cancel", "all", "ignore")
<1>1. CASE s.provisioned /\ Served
  <2> DEFINE A == Allowed(TRUE, FALSE, {"destroy"})
             B == AloneFor(EventRun("delete"), {"destroy"}, FALSE, FALSE)
  <2>1. <<c>> \in Seq(A)
    BY CallType DEF Ops, OnErrors
  <2>2. handleEventDelete(s) = <<c>> \o handleEventDeleteWithDestroy
    BY <1>1 DEF handleEventDelete, Served
  <2>3. handleEventDeleteWithDestroy \in Seq(A)
    BY EventType
  <2>4. handleEventDelete(s) \in Seq(B)
    BY DeleteSole DEF SoleFor
  <2>5. A \cap B \subseteq Opening
    <3>1. \A a : EventRun("delete") # ActionRun(a)
      BY DEF EventRun, ActionRun
    <3> QED BY <1>1, <3>1 DEF Allowed, PatchesOf, AloneFor, Opening, Renews, Demands, Concludes
  <2> HIDE DEF A, B, c
  <2>6. handleEventDelete(s) \in Seq(A)
    BY <2>1, <2>2, <2>3, Concat
  <2> QED BY <1>1, <2>4, <2>5, <2>6, SeqBoth, SeqMore
<1>2. CASE ~(s.provisioned /\ Served)
  <2> DEFINE cleanup == IF SandboxInUse /\ CatchAll /\ s.uuid THEN sandboxCleanup(s) ELSE <<>>
             patch == <<Patch([NoPatch EXCEPT !.state = DestroyComplete, !.desired = "destroyed"])>>
  <2>1. cleanup \in Seq(Parting) /\ patch \in Seq(Parting) /\ <<c>> \in Seq(Parting) /\ Post("delete") \in Seq(Parting)
    BY PartingCalls, CleanupType, Singleton
  <2>2. handleEventDelete(s) = <<c>> \o ((cleanup \o patch) \o Post("delete"))
    BY <1>2 DEF handleEventDelete, handleEventDeleteWithoutDestroy, Served
  <2> HIDE DEF c, cleanup, patch
  <2> QED BY <1>2, <2>1, <2>2, Concat
<1> QED BY <1>1, <1>2

\* The destroy action launches, waits, or has the placement taken away at last.
Parts(s) == SandboxInUse /\ CatchAll /\ (s.state \in DestroyFailures \/ "destroy" \in Disabled)

\* handleDestroy releases where the destruction is over, and works towards it else.
LEMMA DestroyLeads ==
    ASSUME NEW s
    PROVE  /\ Parts(s) => handleDestroy(s) \in Seq(Parting)
           /\ Served /\ ~Parts(s) => handleDestroy(s) \in Seq(Opening)
<1> DEFINE failed == \E f \in FailureStatuses : s.state = Failure("destroy", f)
           disabled == "destroy" \in Disabled
           fresh == s.state = Pending("destroy") /\ "destroy" \notin s.started
           first == IF fresh THEN Stamp("destroy") ELSE <<>>
           rest == IF disabled THEN Post("none")
                   ELSE IF s.state = Running("destroy") THEN checkDeployerJob("destroy")
                   ELSE runDestroy(s)
           A == Allowed(TRUE, FALSE, {"destroy"})
           B == AloneFor(ActionRun("destroy"), Actions, FALSE, FALSE)
<1>1. /\ Parts(s) => handleDestroy(s) = first \o handleDestroyCatchAll(s)
      /\ ~Parts(s) => handleDestroy(s) = first \o rest
  BY DEF handleDestroy, Parts, DestroyFailures
<1>2. first \in Seq(Parting) /\ first \in Seq(A)
  <2>1. Stamp("destroy") \in Seq(A) /\ Stamp("destroy") \in Seq(Parting)
    BY StartStopType, PartingCalls DEF Actions
  <2>2. <<>> \in Seq(A) /\ <<>> \in Seq(Parting)
    OBVIOUS
  <2> HIDE DEF A
  <2> QED BY <2>1, <2>2
<1>3. handleDestroyCatchAll(s) \in Seq(Parting)
  BY PartingCalls, CleanupType, Concat DEF handleDestroyCatchAll
<1>4. rest \in Seq(A)
  <2>1. sandboxGet("destroy", s) \in Seq(A)
    BY StartStopType DEF Actions
  <2>2. <<Call("cancel", "provision", "ignore")>> \in Seq(A)
    BY CallType DEF Ops, OnErrors, Actions
  <2>3. launchTowerJob("destroy", "fail") \in Seq(A)
    BY launchTowerJobType DEF OnErrors, Actions
  <2>4. Post("none") \in Seq(A) /\ Post("continue") \in Seq(A) /\ checkDeployerJob("destroy") \in Seq(A)
    BY PostType, PollType DEF Actions
  <2> HIDE DEF A
  <2> QED BY <2>1, <2>2, <2>3, <2>4, Concat DEF runDestroy
<1>5. handleDestroy(s) \in Seq(B)
  BY ActionNames, DestroySole DEF SoleFor
<1>6. Served => A \cap B \subseteq Opening
  BY DEF Allowed, PatchesOf, AloneFor, Shows, Opening, Renews, Demands, Concludes
<1> HIDE DEF A, B, first, rest
<1>7. Parts(s) => handleDestroy(s) \in Seq(Parting)
  BY <1>1, <1>2, <1>3, Concat
<1>8. ~Parts(s) => handleDestroy(s) \in Seq(A)
  BY <1>1, <1>2, <1>4, Concat
<1>9. ~Parts(s) => handleDestroy(s) \in Seq(A \cap B)
  BY <1>5, <1>8, SeqBoth
<1> QED BY <1>6, <1>7, <1>9, SeqMore

\* What the end of a destroy job leads to.
LEMMA DestroyedLeads ==
    ASSUME NEW s, NEW st \in JobStatuses
    PROVE  /\ handleCallback("destroy", st, s) \in Seq(Closing)
           /\ (IF st = "successful" THEN s.uuid /\ ~s.token ELSE ~CatchAll)
              => handleCallback("destroy", st, s) \in Seq(Opening)
           /\ SandboxInUse /\ st = "successful" /\ s.token
              => /\ handleCallback("destroy", st, s) \in Seq(Parting)
                 /\ handleCallback("destroy", st, s) # <<>>
                 /\ Head(handleCallback("destroy", st, s)).op = "release"
<1>1. CASE st = "successful"
  <2> DEFINE q == handleCallback("destroy", st, s)
             cleanup == IF SandboxInUse THEN sandboxCleanup(s) ELSE <<>>
             patch == <<SkipPatch(Ends("destroy", DestroyComplete))>>
             P == {c \in Parting : c.op # "release"}
  <2>1. q = (cleanup \o patch) \o Post("delete")
    BY <1>1 DEF handleCallback, handleDeployerJobSuccess, handleDestroyComplete
  <2>2. cleanup \in Seq(Parting) /\ patch \in Seq(Parting) /\ Post("delete") \in Seq(Parting)
    BY CleanupType, PartingCalls
  <2>3. patch \in Seq(P) /\ Post("delete") \in Seq(P)
    <3>1. SkipPatch(Ends("destroy", DestroyComplete)).op = "patch" /\ Call("post", "delete", "fail").op = "post"
      BY DEF SkipPatch, Patch, Call
    <3>2. SkipPatch(Ends("destroy", DestroyComplete)) \in Parting /\ Call("post", "delete", "fail") \in Parting
      BY <2>2 DEF Post
    <3> QED BY <3>1, <3>2, Singleton DEF Post
  <2>4. s.uuid /\ ~s.token => cleanup = <<>>
    BY DEF sandboxCleanup
  <2>5. SandboxInUse /\ s.token => cleanup = <<Call("release", "none", "fail")>>
    BY DEF sandboxCleanup
  <2>6. Call("release", "none", "fail").op = "release"
    BY DEF Call
  <2>7. q \in Seq(Closing)
    <3> HIDE DEF q, cleanup, patch
    <3> QED BY <2>1, <2>2, Concat, ReadyOpens, SeqMore
  <2>8. s.uuid /\ ~s.token => q \in Seq(Opening)
    <3> HIDE DEF q, cleanup, patch, P
    <3>1. <<>> \in Seq(P) /\ P \subseteq Opening
      BY ReadyOpens DEF P
    <3> QED BY <2>1, <2>3, <2>4, <3>1, Concat, SeqMore
  <2>9. SandboxInUse /\ s.token => q \in Seq(Parting) /\ q # <<>> /\ Head(q).op = "release"
    <3> SUFFICES ASSUME SandboxInUse, s.token PROVE q \in Seq(Parting) /\ q # <<>> /\ Head(q).op = "release"
      OBVIOUS
    <3> DEFINE z == Call("release", "none", "fail")
    <3> HIDE DEF q, cleanup, patch, z
    <3>1. cleanup = <<z>> /\ z \in Parting
      BY <2>5, PartingCalls DEF z
    <3>2. q \in Seq(Parting)
      BY <2>1, <2>2, Concat
    <3>3. Post("delete") \in Seq(Parting) /\ patch \in Seq(Parting) /\ <<z>> \in Seq(Parting)
      BY <2>2, <3>1
    <3> DEFINE y == Post("delete")
    <3> HIDE DEF y
    <3>4. (<<z>> \o patch) \in Seq(Parting) /\ Len(<<z>> \o patch) >= 1 /\ (<<z>> \o patch)[1] = z
      BY <3>3
    <3>5. Len(q) >= 1 /\ q[1] = z
      BY <2>1, <3>1, <3>3, <3>4 DEF y
    <3>6. q # <<>> /\ Head(q) = z
      BY <3>2, <3>5
    <3> QED BY <2>6, <3>2, <3>6 DEF z
  <2> QED BY <1>1, <2>7, <2>8, <2>9
<1>2. CASE st # "successful"
  <2>1. st \in FailureStatuses
    BY <1>2 DEF JobStatuses
  <2>2. handleCallback("destroy", st, s) = handleDestroyFailure(st)
    BY <1>2 DEF handleCallback, handleDeployerJobFailure
  <2>3. handleDestroyFailure(st) \in Seq(Allowed(TRUE, TRUE, {"provision", "reget"}))
    BY <2>1, FailureType
  <2> QED BY <1>2, <2>2, <2>3, ReadyOpens, SeqMore
<1> QED BY <1>1, <1>2

(***************************************************************************)
(* What a step may do to what the invariant looks at.                      *)
(***************************************************************************)
\* A job is recorded, or the recorded one ends.
LEMMA JobSteps ==
    ASSUME IInv, [Next]_vars, NEW a \in Actions
    PROVE  \/ tower'[a].job = tower[a].job
           \/ /\ tower[a].job = "running" /\ tower'[a].job \in JobStatuses
              /\ CancelJobs \/ JobEnds(a)
           \/ SubjectUpdate /\ Apply(Head(todo).patch) /\ Head(todo).patch.job = a /\ tower'[a].job = Launched(a)
<1>1. tower \in Towers
  BY DEF IInv, Sound, Types, Towers
<1>2. CASE tower' = tower
  BY <1>2
<1>3. CASE SubjectUpdate
  <2>1. todo # <<>> /\ (tower' = tower \/ Apply(Head(todo).patch))
    BY <1>3 DEF SubjectUpdate, At, Does, subject
  <2>2. Head(todo).patch \in Patches
    BY <2>1, HeadOK DEF Calls
  <2> QED BY <1>2, <1>3, <2>1, <2>2, ApplyTower
<1>4. CASE CancelJobs
  <2>1. tower' = tower \/ tower' = Canceled(Head(todo).act)
    BY <1>4 DEF CancelJobs, Does
  <2>2. CASE tower' = Canceled(Head(todo).act)
    <3>1. tower'[a] = IF Head(todo).act \in {a, "all"} /\ ~tower[a].complete /\ tower[a].job = "running"
                      THEN [tower[a] EXCEPT !.job = "canceled", !.ended = TRUE] ELSE tower[a]
      BY <2>2 DEF Canceled
    <3>2. [tower[a] EXCEPT !.job = "canceled", !.ended = TRUE].job = "canceled"
      BY <1>1 DEF Towers
    <3> QED BY <1>4, <3>1, <3>2 DEF JobStatuses, FailureStatuses
  <2> QED BY <1>2, <2>1, <2>2
<1>5. ASSUME NEW b \in Actions, JobEnds(b) \/ OrphanEnds(b)
      PROVE  \/ tower'[a].job = tower[a].job
             \/ tower[a].job = "running" /\ tower'[a].job \in JobStatuses /\ JobEnds(a)
  <2>1. CASE a # b
    BY <1>5, <2>1, EndFacts
  <2>2. CASE a = b
    BY <1>5, <2>2, EndFacts
  <2> QED BY <2>1, <2>2
<1>6. CASE HandlerStep \/ Abandon
  BY <1>2, <1>3, <1>4, <1>6 DEF HandlerStep, ScheduleAction, LaunchJob, PollJob,
     GetPlacement, GetBooked, CheckQueue, BookPlacement, PowerPlacement, AwaitRequest,
     ReleasePlacement, PostResult, Abandon, subject
<1>7. CASE DispatchNext
  BY <1>2, <1>7 DEF DispatchNext, DispatchRun
<1>8. CASE Environment
  BY <1>2, <1>5, <1>8 DEF Environment, PlacementMoves, RequestEnds, TokenVanishes,
             EditJobVars, SetDesiredState, AskStatus, DeleteSubject, Request, subject
<1>9. CASE UNCHANGED vars
  BY <1>2, <1>9 DEF vars
<1> QED BY <1>6, <1>7, <1>8, <1>9 DEF Next

\* The placement comes with a booking and goes with its release; the token only goes.
LEMMA PlacementSteps ==
    ASSUME IInv, [Next]_vars
    PROVE  /\ placement = "absent" /\ placement' # "absent" => BookPlacement
           /\ placement # "absent" /\ placement' = "absent" => ReleasePlacement
           /\ token' => token
<1>1. UNCHANGED <<placement, token>> =>
        /\ placement = "absent" /\ placement' # "absent" => BookPlacement
        /\ placement # "absent" /\ placement' = "absent" => ReleasePlacement
        /\ token' => token
  OBVIOUS
<1>2. CASE HandlerStep \/ Abandon
  <2>1. CASE BookPlacement
    <3>1. token' = token /\ (placement # "absent" => placement' = placement)
      BY <2>1 DEF BookPlacement
    <3> QED BY <2>1, <3>1
  <2>2. CASE ReleasePlacement
    <3>1. token' = token /\ (placement' = "absent" \/ placement' = placement)
      BY <2>2 DEF ReleasePlacement, Does
    <3> QED BY <2>2, <3>1
  <2>3. CASE ~BookPlacement /\ ~ReleasePlacement
    BY <1>1, <1>2, <2>3 DEF HandlerStep, SubjectUpdate, ScheduleAction, LaunchJob, CancelJobs, PollJob,
       GetPlacement, GetBooked, CheckQueue, PowerPlacement, AwaitRequest, PostResult, Abandon, sandbox
  <2> QED BY <2>1, <2>2, <2>3
<1>3. CASE DispatchNext
  BY <1>1, <1>3 DEF DispatchNext, DispatchRun
<1>4. CASE Environment
  <2>1. CASE PlacementMoves
    BY <2>1 DEF PlacementMoves, NotReady
  <2>2. CASE TokenVanishes
    BY <2>2 DEF TokenVanishes, sandbox
  <2>3. CASE \E a \in Actions : JobEnds(a) \/ OrphanEnds(a)
    BY <1>1, <2>3, EndFacts
  <2>4. CASE RequestEnds \/ EditJobVars \/ SetDesiredState \/ AskStatus \/ DeleteSubject
    BY <1>1, <2>4 DEF RequestEnds, EditJobVars, SetDesiredState, AskStatus,
       DeleteSubject, Request, sandbox
  <2> QED BY <1>4, <2>1, <2>2, <2>3, <2>4 DEF Environment
<1>5. CASE UNCHANGED vars
  BY <1>1, <1>5 DEF vars
<1> QED BY <1>2, <1>3, <1>4, <1>5 DEF Next

\* Callbacks are counted, and those of jobs that are not recorded.
LEMMA CallbackSteps ==
    ASSUME IInv, [Next]_vars
    PROVE  /\ used.callback \in Nat /\ used'.callback \in Nat /\ used.callback <= used'.callback
           /\ used'.stray = 0 => used.stray = 0
           /\ \/ callbacks' \subseteq callbacks
              \/ used'.callback = used.callback + 1 /\ (used'.stray = 0 => \E a \in Actions : JobEnds(a))
<1>1. /\ used \in [fault : Nat, failure : Nat, request : 0..MaxRequests, callback : Nat, stray : Nat]
      /\ MaxRequests \in Nat
  BY LifecycleAssumption DEF IInv, Sound, Types
<1> DEFINE Keeps == used'.callback = used.callback /\ used'.stray = used.stray
<1>2. used' = used => Keeps
  OBVIOUS
<1>3. \A limit : Spend("fault", limit) \/ Spend("failure", limit) \/ Spend("request", limit) => Keeps
  BY <1>1 DEF Spend
<1>4. \A again : TroubleWith(again) => Keeps
  BY <1>3 DEF TroubleWith
<1>5. ASSUME Keeps, callbacks' \subseteq callbacks
      PROVE  /\ used.callback \in Nat /\ used'.callback \in Nat /\ used.callback <= used'.callback
             /\ used'.stray = 0 => used.stray = 0
             /\ callbacks' \subseteq callbacks
  BY <1>1, <1>5
<1>6. CASE HandlerStep \/ Abandon
  <2>1. Keeps
    <3> HIDE DEF Keeps
    <3> QED BY <1>2, <1>3, <1>4, <1>6 DEF HandlerStep, SubjectUpdate, ScheduleAction, LaunchJob, CancelJobs, PollJob,
          GetPlacement, GetBooked, CheckQueue, BookPlacement, PowerPlacement, AwaitRequest,
          ReleasePlacement, PostResult, Abandon, Does, Succeeds, Trouble
  <2>2. callbacks' = callbacks
    BY <1>6 DEF HandlerStep, SubjectUpdate, ScheduleAction, LaunchJob, CancelJobs, PollJob,
       GetPlacement, GetBooked, CheckQueue, BookPlacement, PowerPlacement, AwaitRequest,
       ReleasePlacement, PostResult, Abandon
  <2> QED BY <1>5, <2>1, <2>2
<1>7. CASE DispatchNext
  BY <1>5, <1>7 DEF DispatchNext, DispatchRun
<1>8. CASE Environment
  <2>1. ASSUME NEW a \in Actions, JobEnds(a) \/ OrphanEnds(a)
        PROVE  /\ used.callback \in Nat /\ used'.callback \in Nat /\ used.callback <= used'.callback
               /\ used'.stray = 0 => used.stray = 0
               /\ \/ callbacks' \subseteq callbacks
                  \/ used'.callback = used.callback + 1 /\ (used'.stray = 0 => JobEnds(a))
    <3>1. used.stray \in Nat /\ used'.stray \in Nat /\ used'.stray >= used.stray
      BY <1>1, <2>1, EndFacts DEF Counters
    <3>2. \/ callbacks' = callbacks /\ used'.callback = used.callback
          \/ used'.callback = used.callback + 1 /\ (OrphanEnds(a) => used'.stray > used.stray)
      BY <2>1, EndFacts
    <3> QED BY <1>1, <2>1, <3>1, <3>2
  <2>2. CASE ~(\E a \in Actions : JobEnds(a) \/ OrphanEnds(a))
    <3>1. callbacks' = callbacks
      BY <1>8, <2>2 DEF Environment, PlacementMoves, RequestEnds, TokenVanishes, EditJobVars, SetDesiredState, AskStatus,
         DeleteSubject, Request
    <3>2. Keeps
      <4> HIDE DEF Keeps
      <4> QED BY <1>2, <1>3, <1>8, <2>2 DEF Environment, PlacementMoves, RequestEnds, TokenVanishes, EditJobVars,
                SetDesiredState, AskStatus, DeleteSubject, Request
    <3> QED BY <1>5, <3>1, <3>2
  <2> QED BY <2>1, <2>2
<1>9. CASE UNCHANGED vars
  BY <1>5, <1>9 DEF vars
<1> QED BY <1>6, <1>7, <1>8, <1>9 DEF Next

\* The state of the subject moves with a patch; one that is deleted hears of nothing new.
LEMMA SubjectSteps ==
    ASSUME IInv, [Next]_vars
    PROVE  /\ \/ subj'.state = subj.state
              \/ /\ SubjectUpdate /\ Apply(Head(todo).patch)
                 /\ subj'.state = Head(todo).patch.state
           /\ subj.deleting => subj'.deleting /\ events' \subseteq events
<1>1. subj' = subj /\ events' \subseteq events =>
        subj'.state = subj.state /\ (subj.deleting => subj'.deleting /\ events' \subseteq events)
  OBVIOUS
<1>2. CASE SubjectUpdate
  <2>1. todo # <<>> /\ (Apply(Head(todo).patch) \/ UNCHANGED <<subj, events>>)
    BY <1>2 DEF SubjectUpdate, At, Does, subject
  <2>2. Head(todo).patch \in Patches
    BY <2>1, HeadOK DEF Calls
  <2>3. Apply(Head(todo).patch) => PatchFacts(Head(todo).patch)
    BY <2>2, PatchIsApplied
  <2> QED BY <1>1, <1>2, <2>1, <2>3 DEF PatchFacts
<1>3. CASE (HandlerStep \/ Abandon) /\ ~SubjectUpdate
  BY <1>1, <1>3 DEF HandlerStep, ScheduleAction, LaunchJob, CancelJobs, PollJob,
     GetPlacement, GetBooked, CheckQueue, BookPlacement, PowerPlacement, AwaitRequest,
     ReleasePlacement, PostResult, Abandon, subject
<1>4. CASE DispatchNext
  <2>1. subj' = subj /\ events' \subseteq events
    BY <1>4 DEF DispatchNext, DispatchRun
  <2> QED BY <1>1, <2>1
<1>5. CASE Environment
  <2>1. CASE EditJobVars \/ SetDesiredState \/ AskStatus \/ DeleteSubject
    <3>1. ~subj.deleting
      BY <2>1 DEF EditJobVars, SetDesiredState, AskStatus, DeleteSubject, Request
    <3>2. subj'.state = subj.state
      BY <2>1, UserKeeps
    <3> QED BY <3>1, <3>2
  <2>2. CASE ~(EditJobVars \/ SetDesiredState \/ AskStatus \/ DeleteSubject)
    <3>1. CASE \E a \in Actions : JobEnds(a) \/ OrphanEnds(a)
      BY <1>1, <3>1, EndFacts
    <3>2. CASE PlacementMoves \/ RequestEnds \/ TokenVanishes
      BY <1>1, <3>2 DEF PlacementMoves, RequestEnds, TokenVanishes, subject
    <3> QED BY <1>5, <2>2, <3>1, <3>2 DEF Environment
  <2> QED BY <2>1, <2>2
<1>6. CASE UNCHANGED vars
  BY <1>1, <1>6 DEF vars
<1> QED BY <1>2, <1>3, <1>4, <1>5, <1>6 DEF Next

\* An action comes up by being scheduled.
LEMMA ActsSteps ==
    ASSUME IInv, [Next]_vars, NEW a \in Actions, acts'[a] > 0
    PROVE  acts[a] > 0 \/ (ScheduleAction /\ Head(todo).op = "schedule" /\ Head(todo).act = a)
<1>1. acts' = acts => acts[a] > 0
  OBVIOUS
<1>2. CASE ScheduleAction
  <2>1. Head(todo).op = "schedule"
        /\ (acts' = acts \/ acts' = Scheduled(Head(todo).act, Head(todo).cancel))
    BY <1>2 DEF ScheduleAction, At, Does, anarchy
  <2>2. acts' = Scheduled(Head(todo).act, Head(todo).cancel) /\ Head(todo).act # a => acts[a] > 0
    BY DEF Scheduled
  <2> QED BY <1>1, <1>2, <2>1, <2>2
<1>3. CASE PostResult
  <2>1. acts'[a] \in 0..MaxQueued /\ acts'[a] <= acts[a]
    BY <1>3, Posted
  <2>2. acts[a] \in 0..MaxQueued /\ MaxQueued \in Nat
    BY LifecycleAssumption DEF IInv, Sound, Types
  <2> QED BY <2>1, <2>2
<1>4. CASE (HandlerStep \/ Abandon) /\ ~ScheduleAction /\ ~PostResult
  BY <1>1, <1>4 DEF HandlerStep, SubjectUpdate, LaunchJob, CancelJobs, PollJob,
     GetPlacement, GetBooked, CheckQueue, BookPlacement, PowerPlacement, AwaitRequest,
     ReleasePlacement, Abandon, anarchy
<1>5. CASE DispatchNext
  BY <1>1, <1>5 DEF DispatchNext, DispatchRun
<1>6. CASE Environment
  <2>1. CASE \E b \in Actions : JobEnds(b) \/ OrphanEnds(b)
    BY <1>1, <2>1, EndFacts
  <2>2. CASE PlacementMoves \/ RequestEnds \/ TokenVanishes
    BY <1>1, <2>2 DEF PlacementMoves, RequestEnds, TokenVanishes, anarchy
  <2>3. CASE EditJobVars \/ SetDesiredState \/ AskStatus \/ DeleteSubject
    BY <1>1, <2>3 DEF EditJobVars, SetDesiredState, AskStatus, DeleteSubject, Request, anarchy
  <2> QED BY <1>6, <2>1, <2>2, <2>3 DEF Environment
<1>7. CASE UNCHANGED vars
  BY <1>1, <1>7 DEF vars
<1> QED BY <1>2, <1>3, <1>4, <1>5, <1>6, <1>7 DEF Next

\* A run is dispatched, goes on with the payload it has, or nothing moves it.
Onward ==
    /\ todo # <<>> /\ (HandlerStep \/ Abandon)
    /\ run' \in {run, NoRun} /\ (todo' # <<>> => snap' = snap)

\* A step dispatches a run, goes on with the one at hand, or is not the runner's.
LEMMA RunSteps ==
    ASSUME IInv, [Next]_vars
    PROVE  \/ \E r : DispatchRun(r)
           \/ Onward
           \/ UNCHANGED <<run, todo, snap>> /\ (Environment \/ UNCHANGED vars)
<1>1. CASE HandlerStep \/ Abandon
  <2>1. todo # <<>> /\ \E s : Continue(s)
    <3>1. CASE SubjectUpdate \/ ScheduleAction \/ LaunchJob \/ CancelJobs
      BY <3>1 DEF SubjectUpdate, ScheduleAction, LaunchJob, CancelJobs, At, Does, Succeeds, Trouble, TroubleWith
    <3>2. CASE PollJob \/ GetPlacement \/ GetBooked \/ CheckQueue
      BY <3>2 DEF PollJob, GetPlacement, GetBooked, CheckQueue, At, Trouble, TroubleWith
    <3>3. CASE BookPlacement
      BY <3>3 DEF BookPlacement, At, Trouble, TroubleWith
    <3>4. CASE PowerPlacement
      BY <3>4 DEF PowerPlacement, At, Trouble, TroubleWith
    <3>5. CASE AwaitRequest
      BY <3>5 DEF AwaitRequest, At
    <3>6. CASE ReleasePlacement
      BY <3>6 DEF ReleasePlacement, At, Does, Succeeds, Trouble, TroubleWith
    <3>7. CASE PostResult \/ Abandon
      BY <3>7 DEF PostResult, At, Abandon
    <3> QED BY <1>1, <3>1, <3>2, <3>3, <3>4, <3>5, <3>6, <3>7 DEF HandlerStep
  <2>2. todo' # <<>> => snap' = snap
    BY <2>1 DEF Continue
  <2>3. run' \in {run, NoRun}
    BY <1>1 DEF HandlerStep, SubjectUpdate, ScheduleAction, LaunchJob, CancelJobs, PollJob,
       GetPlacement, GetBooked, CheckQueue, BookPlacement, PowerPlacement, AwaitRequest,
       ReleasePlacement, PostResult, Abandon
  <2> QED BY <1>1, <2>1, <2>2, <2>3 DEF Onward
<1>2. CASE DispatchNext
  BY <1>2 DEF DispatchNext
<1>3. CASE Environment
  <2>1. CASE \E a \in Actions : JobEnds(a)
    BY <1>3, <2>1 DEF JobEnds, JobEnded, runner
  <2>2. CASE \E a \in Actions : OrphanEnds(a)
    BY <1>3, <2>2 DEF OrphanEnds, JobEnded, runner
  <2>3. CASE ~\E a \in Actions : JobEnds(a) \/ OrphanEnds(a)
    BY <1>3, <2>3 DEF Environment, PlacementMoves, RequestEnds, TokenVanishes,
       EditJobVars, SetDesiredState, AskStatus, DeleteSubject, Request, runner
  <2> QED BY <2>1, <2>2, <2>3
<1>4. CASE UNCHANGED vars
  BY <1>4 DEF vars
<1> QED BY <1>1, <1>2, <1>3, <1>4 DEF Next

\* What is dispatched, with the payload it gets.
LEMMA DispatchIs ==
    ASSUME IInv, RInv, Upbringing, NEW r, DispatchRun(r)
    PROVE  /\ r \in EventRuns \cup ActionRuns \cup CallbackRuns /\ r # NoRun
           /\ run' = r /\ todo' = Dispatch(r, Payload) /\ snap' = Payload /\ todo = <<>>
           /\ UNCHANGED <<subj, tower, acts, placement, token, gone, used>>
           /\ events' \subseteq events /\ callbacks' \subseteq callbacks
           /\ \/ r = run \/ r \in callbacks
              \/ \E e \in events : r = EventRun(e)
              \/ \E a \in Actions : r = ActionRun(a) /\ acts[a] > 0
           /\ r.kind = "callback" => r \in callbacks \cup {run}
           /\ r.name = "destroy" => Due
           /\ r.kind \in {"callback", "action"} => r.name # "update"
           /\ Payload.state = subj.state /\ Payload.uuid = subj.uuid /\ Payload.token = token
           /\ Payload.css = subj.css /\ Payload.provisioned = (Job # "none")
<1>1. r \in EventRuns \cup ActionRuns \cup CallbackRuns
  BY DispatchedRun
<1>2. r # NoRun
  BY <1>1 DEF EventRuns, ActionRuns, CallbackRuns, NoRun
<1>3. r \in Waiting \cup {run}
  BY DEF DispatchRun
<1>4. /\ run' = r /\ todo' = Dispatch(r, Payload) /\ snap' = Payload /\ todo = <<>>
      /\ UNCHANGED <<subj, tower, acts, placement, token, gone, used>>
      /\ events' \subseteq events /\ callbacks' \subseteq callbacks
  BY DEF DispatchRun
<1>5. \/ r = run \/ r \in callbacks
      \/ \E e \in events : r = EventRun(e)
      \/ \E a \in Actions : r = ActionRun(a) /\ acts[a] > 0
  BY <1>3 DEF Waiting, EventRun, ActionRun
<1>6. /\ r.kind = "callback" => r \in callbacks \cup {run}
      /\ r.name = "destroy" => Due
  BY DispatchKnown
<1>7. r.kind \in {"callback", "action"} => r.name # "update"
  BY <1>2, <1>3, RunFacts
<1>8. /\ Payload.state = subj.state /\ Payload.uuid = subj.uuid /\ Payload.token = token
      /\ Payload.css = subj.css /\ Payload.provisioned = (Job # "none")
  BY DEF Payload, PayloadOf, Job
<1> QED BY <1>1, <1>2, <1>4, <1>5, <1>6, <1>7, <1>8

(***************************************************************************)
(* Every run works towards the destruction or away from it.                *)
(***************************************************************************)
LEMMA SteersSeq ==
    /\ \A s : s \in Seq(Opening) \/ s \in Seq(Ready) => Steers(s)
    /\ \A s : Over /\ (s \in Seq(Closing) \/ s \in Seq(Parting)) => Steers(s)
<1>1. Seq(Ready) \subseteq Seq(Opening) /\ Seq(Parting) \subseteq Seq(Closing)
  BY ReadyOpens, SeqMore
<1> QED BY <1>1 DEF Steers

\* The callback of a destroy job does not press while a destroy job is in progress.
LEMMA LateRests ==
    ASSUME IInv, Stills, NEW c \in callbacks \cup {run}, Late(c), ~Over
    PROVE  ~Presses(c) /\ c \in CallbackRuns /\ c.status \in JobStatuses
<1>1. c \in CallbackRuns
  BY DEF Late, IInv, Sound, Types, EventRuns, ActionRuns, NoRun
<1>2. c.status \in JobStatuses /\ "running" \notin JobStatuses
  BY <1>1 DEF CallbackRuns, JobStatuses, FailureStatuses
<1>3. tower["destroy"].job = "running"
  BY ActionNames DEF Over, Idle
<1> QED BY <1>1, <1>2, <1>3 DEF Stills, Kept

\* A run that is dispatched works towards a destruction, or finds it over.
LEMMA DispatchSteers ==
    ASSUME IInv, RInv, Upbringing, Watchful, NEW r, DispatchRun(r) PROVE Steers(todo')
<1> DEFINE s == Payload
<1>1. /\ r \in EventRuns \cup ActionRuns \cup CallbackRuns
      /\ todo' = Dispatch(r, s) /\ s.state = subj.state /\ s.uuid = subj.uuid /\ s.token = token
      /\ s.provisioned = (Job # "none")
      /\ \/ r = run \/ r \in callbacks
         \/ \E e \in events : r = EventRun(e)
         \/ \E a \in Actions : r = ActionRun(a) /\ acts[a] > 0
      /\ r.kind = "callback" => r \in callbacks \cup {run}
  BY DispatchIs
<1> HIDE DEF s
<1>2. CASE r.name \notin {"delete", "destroy"}
  BY <1>1, <1>2, BesideReady, SteersSeq
<1>3. CASE r.name = "delete"
  <2>1. r.kind = "event"
    BY <1>1, <1>3 DEF ActionRuns, CallbackRuns, EventRuns, Actions
  <2>2. Dispatch(r, s) = handleEventDelete(s)
    BY <1>3, <2>1 DEF Dispatch
  <2>3. CASE s.provisioned /\ Served
    BY <1>1, <2>2, <2>3, DeleteLeads, SteersSeq
  <2>4. CASE ~(s.provisioned /\ Served)
    <3>1. tower["destroy"].job = "none"
      <4>1. CASE ~Served
        BY <4>1 DEF Watchful, Spared
      <4>2. CASE ~s.provisioned
        BY <1>1, <4>2 DEF RInv, Known, Due, Job
      <4> QED BY <2>4, <4>1, <4>2
    <3>2. Over
      BY <3>1, ActionNames DEF Over, Idle
    <3> QED BY <1>1, <2>2, <2>4, <3>2, DeleteLeads, SteersSeq
  <2> QED BY <2>3, <2>4
<1>4. CASE r.name = "destroy" /\ r.kind # "callback"
  <2>1. r = ActionRun("destroy") /\ r.kind = "action"
    BY <1>1, <1>4 DEF EventRuns, ActionRuns, CallbackRuns, ActionRun
  <2>2. Dispatch(r, s) = handleDestroy(s)
    BY <1>4, <2>1 DEF Dispatch
  <2>3. Served
    <3>1. r = run \/ acts["destroy"] > 0
      <4>1. ASSUME NEW a \in Actions, r = ActionRun(a) PROVE a = "destroy"
        BY <2>1, <4>1 DEF ActionRun
      <4>2. \A e : r # EventRun(e)
        BY <2>1 DEF EventRun
      <4>3. r \in callbacks => r.kind = "callback"
        BY DEF IInv, Sound, Types, CallbackRuns
      <4> QED BY <1>1, <1>4, <4>1, <4>2, <4>3
    <3>2. acts["destroy"] \in 0..MaxQueued /\ MaxQueued \in Nat
      BY ActionNames, LifecycleAssumption DEF IInv, Sound, Types
    <3> QED BY <2>1, <3>1, <3>2 DEF Watchful, Spared
  <2>4. CASE Parts(s)
    <3>1. Over
      BY <1>1, <2>3, <2>4 DEF Parts, Served, Watchful, GivenUp
    <3> QED BY <1>1, <2>2, <2>4, <3>1, DestroyLeads, SteersSeq
  <2>5. CASE ~Parts(s)
    BY <1>1, <2>2, <2>3, <2>5, DestroyLeads, SteersSeq
  <2> QED BY <2>4, <2>5
<1>5. CASE r.name = "destroy" /\ r.kind = "callback"
  <2>1. r \in CallbackRuns /\ r.status \in JobStatuses
    BY <1>1, <1>5 DEF EventRuns, ActionRuns, CallbackRuns
  <2>2. Dispatch(r, s) = handleCallback("destroy", r.status, s)
    BY <1>5 DEF Dispatch
  <2>3. CASE Over
    BY <1>1, <2>1, <2>2, <2>3, DestroyedLeads, SteersSeq
  <2>4. CASE ~Over
    <3>1. ~Presses(r)
      BY <1>1, <1>5, <2>4, LateRests DEF Late, Watchful
    <3>2. placement # "absent" /\ subj.uuid
      BY <2>4 DEF Over, IInv, Sound, Consistent, MayBook
    <3>3. IF r.status = "successful" THEN s.uuid /\ ~s.token ELSE ~CatchAll
      BY <1>1, <3>1, <3>2 DEF Presses
    <3> QED BY <1>1, <2>1, <2>2, <3>3, DestroyedLeads, SteersSeq
  <2> QED BY <2>3, <2>4
<1> QED BY <1>2, <1>3, <1>4, <1>5

\* The answer of Tower.
LEMMA PollForm ==
    ASSUME IInv, PollJob
    PROVE  /\ todo # <<>> /\ Head(todo).op = "poll" /\ Head(todo).act \in Actions
           /\ \/ todo' \in {todo, Recovery(Head(todo), Tail(todo))}
              \/ todo' = jobPolled(Head(todo).act, tower[Head(todo).act].job, snap)
<1>1. todo # <<>> /\ Head(todo).op = "poll"
  BY DEF PollJob, At
<1>2. Head(todo).act \in Actions
  BY <1>1, HeadOK DEF Allowed
<1> QED BY <1>1, <1>2 DEF PollJob, Trouble, TroubleWith, Continue

\* Asked for the status of a job, a run keeps its direction.
LEMMA PollSteers == ASSUME IInv, TodoFits, Steers(todo), PollJob PROVE Steers(todo')
<1> DEFINE a == Head(todo).act
           job == tower[a].job
<1>1. /\ todo # <<>> /\ a \in Actions
      /\ \/ todo' \in {todo, Recovery(Head(todo), Tail(todo))}
         \/ todo' = jobPolled(a, job, snap)
  BY PollForm
<1>2. CASE todo' \in {todo, Recovery(Head(todo), Tail(todo))}
  BY <1>1, <1>2, LeftStays, KindsComplete DEF Steers
<1>3. CASE todo' = jobPolled(a, job, snap)
  <2> HIDE DEF a, job
  <2>1. CASE job \notin JobStatuses
    <3>1. Post("continue") \in Seq(Ready)
      BY PostType DEF Ready
    <3> QED BY <1>3, <2>1, <3>1, SteersSeq DEF jobPolled
  <2>2. CASE job \in JobStatuses /\ a # "destroy"
    BY <1>1, <1>3, <2>2, OutcomeReady, SteersSeq DEF jobPolled
  <2>3. CASE job \in JobStatuses /\ a = "destroy"
    <3>1. Over
      BY <2>3, ActionNames DEF Over, Idle, job, JobStatuses, FailureStatuses
    <3> QED BY <1>3, <2>3, <3>1, DestroyedLeads, SteersSeq DEF jobPolled
  <2> QED BY <2>1, <2>2, <2>3
<1> QED BY <1>1, <1>2, <1>3

\* A run keeps its direction with every call of its handler.
LEMMA HandlerSteers ==
    ASSUME IInv, TodoFits, Steers(todo), HandlerStep \/ Abandon PROVE Steers(todo')
<1>1. CASE PollJob
  BY <1>1, PollSteers
<1>2. CASE ~PollJob /\ Head(todo).op # "poll"
  BY <1>2, CallStays, KindsComplete DEF Steers
<1>3. CASE Abandon
  <2>1. todo' = <<>>
    BY <1>3 DEF Abandon, Continue
  <2>2. <<>> \in Seq(Opening)
    OBVIOUS
  <2> QED BY <2>1, <2>2, SteersSeq
<1>4. CASE HandlerStep /\ ~PollJob /\ Head(todo).op = "poll"
  BY <1>4 DEF HandlerStep, SubjectUpdate, ScheduleAction, LaunchJob, CancelJobs, GetPlacement, GetBooked,
     CheckQueue, BookPlacement, PowerPlacement, AwaitRequest, ReleasePlacement, PostResult, At
<1> QED BY <1>1, <1>2, <1>3, <1>4

\* The head of a todo that steers.
LEMMA SteersHead ==
    ASSUME Steers(todo), todo # <<>>
    PROVE  /\ Head(todo) \in Calls /\ (Head(todo) \in Opening \/ (Head(todo) \in Closing /\ Over))
           /\ Renews(Head(todo)) => todo \in Seq(Opening) /\ Served /\ Head(todo).patch.state = Running("destroy")
           /\ Demands(Head(todo)) => Served
           /\ Concludes(Head(todo)) => Over /\ ~Renews(Head(todo))
<1>1. todo \in Seq(Opening) => Head(todo) \in Opening
  OBVIOUS
<1>2. todo \in Seq(Closing) => Head(todo) \in Closing
  OBVIOUS
<1> QED BY <1>1, <1>2 DEF Steers, Opening, Closing

\* No booking once the destruction is due.
LEMMA BooksEarly == ASSUME IInv, RInv, TodoFits, BookPlacement PROVE ~Due /\ UNCHANGED tower
<1>1. todo # <<>> /\ Head(todo).op = "book" /\ tower' = tower
  BY DEF BookPlacement, At, subject
<1>2. Head(todo) \in Fit
  BY <1>1, HeadFits
<1>3. Job = "none"
  BY <1>1, <1>2 DEF Fit, FitFor, Founds
<1> QED BY <1>1, <1>3 DEF Due, Job

\* What is over stays over, unless destroy's job is recorded anew.
LEMMA OverStays ==
    ASSUME IInv, RInv, TodoFits, [Next]_vars, Over
    PROVE  Over' \/ (SubjectUpdate /\ Apply(Head(todo).patch) /\ Renews(Head(todo)))
<1>1. CASE placement = "absent" /\ placement' # "absent"
  <2>1. BookPlacement
    BY <1>1, PlacementSteps
  <2>2. tower'["destroy"].job = "none"
    BY <2>1, BooksEarly DEF RInv, Known
  <2> QED BY <2>2, ActionNames DEF Over, Idle
<1>2. CASE placement # "absent" /\ placement' # "absent"
  <2>1. tower["destroy"].job # "running"
    BY <1>2 DEF Over, Idle
  <2>2. \/ tower'["destroy"].job = tower["destroy"].job
        \/ SubjectUpdate /\ Apply(Head(todo).patch) /\ Head(todo).patch.job = "destroy"
    BY <2>1, JobSteps, ActionNames
  <2> QED BY <2>1, <2>2, ActionNames DEF Over, Idle, Renews
<1> QED BY <1>1, <1>2 DEF Over

\* No step of another component turns a run: nothing but a run records a destroy job.
LEMMA SteersOn ==
    ASSUME IInv, RInv, Upbringing, Watchful, [Next]_vars PROVE Steers(todo)'
<1>1. Steers(todo')
  <2>1. CASE \E r : DispatchRun(r)
    BY <2>1, DispatchSteers
  <2>2. CASE Onward
    BY <2>2, HandlerSteers DEF Onward, Upbringing, Watchful
  <2>3. CASE todo' = todo
    BY <2>3 DEF Watchful
  <2> QED BY <2>1, <2>2, <2>3, RunSteps
<1>2. CASE todo' \in Seq(Opening)
  BY <1>2 DEF Steers
<1>3. CASE todo' \in Seq(Closing) /\ Over
  <2>1. CASE Over'
    BY <1>3, <2>1 DEF Steers
  <2>2. CASE SubjectUpdate /\ Renews(Head(todo))
    <3>1. todo # <<>> /\ Head(todo).op = "patch" /\ HandlerStep
      BY <2>2 DEF SubjectUpdate, At, HandlerStep
    <3>2. todo \in Seq(Opening)
      BY <2>2, <3>1, SteersHead DEF Watchful
    <3>3. todo' \in Seq(Opening)
      BY <3>1, <3>2, CallStays, KindsComplete DEF Upbringing
    <3> QED BY <3>3 DEF Steers
  <2> QED BY <1>3, <2>1, <2>2, OverStays DEF Upbringing
<1> QED BY <1>1, <1>2, <1>3 DEF Steers

\* A governor that destroys nothing launches no destroy job.
LEMMA SparedOn == ASSUME IInv, RInv, Upbringing, Watchful, [Next]_vars PROVE Spared'
<1> SUFFICES ASSUME ~Served
             PROVE  acts'["destroy"] = 0 /\ run' # ActionRun("destroy") /\ tower'["destroy"].job = "none"
  BY DEF Spared, Served
<1>1. acts["destroy"] = 0 /\ run # ActionRun("destroy") /\ tower["destroy"].job = "none"
  BY DEF Watchful, Spared
<1>2. tower'["destroy"].job = "none"
  <2>1. CASE SubjectUpdate /\ Head(todo).patch.job = "destroy"
    <3>1. todo # <<>>
      BY <2>1 DEF SubjectUpdate, At
    <3> QED BY <2>1, <3>1, SteersHead DEF Watchful, Renews
  <2> QED BY <1>1, <2>1, JobSteps, ActionNames
<1>3. acts'["destroy"] = 0
  <2>1. acts'["destroy"] \in Nat
    <3>1. IInv'
      BY NextOK
    <3>2. acts'["destroy"] \in 0..MaxQueued /\ MaxQueued \in Nat
      BY <3>1, ActionNames, LifecycleAssumption DEF IInv, Sound, Types
    <3> QED BY <3>2
  <2>2. ASSUME acts'["destroy"] > 0 PROVE FALSE
    <3>1. ScheduleAction /\ Head(todo).op = "schedule" /\ Head(todo).act = "destroy"
      BY <1>1, <2>2, ActsSteps, ActionNames
    <3>2. todo # <<>>
      BY <3>1 DEF ScheduleAction, At
    <3> QED BY <3>1, <3>2, SteersHead DEF Watchful, Demands
  <2> QED BY <2>1, <2>2
<1>4. run' # ActionRun("destroy")
  <2>1. ASSUME NEW r, DispatchRun(r), r = ActionRun("destroy") PROVE FALSE
    <3>1. \/ r = run \/ r \in callbacks
          \/ \E e \in events : r = EventRun(e)
          \/ \E a \in Actions : r = ActionRun(a) /\ acts[a] > 0
      BY <2>1, DispatchIs
    <3>2. r \in callbacks => r.kind = "callback"
      BY DEF IInv, Sound, Types, CallbackRuns
    <3>3. r.kind = "action" /\ \A e : r # EventRun(e)
      BY <2>1 DEF ActionRun, EventRun
    <3>4. \A a : r = ActionRun(a) => a = "destroy"
      BY <2>1 DEF ActionRun
    <3>5. r # run /\ ~(acts["destroy"] > 0)
      BY <1>1, <2>1
    <3> QED BY <3>1, <3>2, <3>3, <3>4, <3>5
  <2>2. NoRun # ActionRun("destroy")
    BY DEF NoRun, ActionRun
  <2>3. (\E r : DispatchRun(r) /\ run' = r) \/ run' \in {run, NoRun}
    BY RunSteps DEF Onward, DispatchRun
  <2> QED BY <1>1, <2>1, <2>2, <2>3
<1> QED BY <1>2, <1>3, <1>4

\* A destruction given up is noted when its job has ended, and no job follows it.
LEMMA GivenUpOn == ASSUME IInv, RInv, Upbringing, Watchful, [Next]_vars PROVE GivenUp'
<1> SUFFICES ASSUME CatchAll, subj'.state \in DestroyFailures PROVE Over'
  BY DEF GivenUp, DestroyFailures
<1>1. Running("destroy") \notin DestroyFailures
  BY States, ActionNames
<1>2. CASE SubjectUpdate /\ Apply(Head(todo).patch) /\ subj'.state = Head(todo).patch.state
  <2>1. todo # <<>> /\ Concludes(Head(todo))
    BY <1>2 DEF SubjectUpdate, At, Concludes
  <2>2. Over /\ ~Renews(Head(todo))
    BY <2>1, SteersHead DEF Watchful
  <2> QED BY <2>2, OverStays DEF Upbringing
<1>3. CASE subj'.state = subj.state
  <2>1. Over
    BY <1>3 DEF Watchful, GivenUp
  <2>2. CASE SubjectUpdate /\ Apply(Head(todo).patch) /\ Renews(Head(todo))
    <3>1. todo # <<>>
      BY <2>2 DEF SubjectUpdate, At
    <3>2. Head(todo).patch.state = Running("destroy") /\ Head(todo).patch \in Patches
      BY <2>2, <3>1, SteersHead DEF Watchful, Calls
    <3>3. subj'.state = Running("destroy")
      BY <2>2, <3>2, PatchIsApplied, Moving DEF PatchFacts
    <3> QED BY <1>1, <3>3
  <2> QED BY <2>1, <2>2, OverStays DEF Upbringing
<1> QED BY <1>2, <1>3, SubjectSteps

\* A token that is there was there when the run at hand was dispatched.
LEMMA TokenedOn == ASSUME IInv, RInv, Upbringing, Watchful, [Next]_vars PROVE Tokened'
<1> SUFFICES ASSUME token', todo' # <<>> PROVE snap'.token
  BY DEF Tokened
<1>1. token
  BY PlacementSteps
<1>2. CASE \E r : DispatchRun(r)
  BY <1>1, <1>2, DispatchIs
<1>3. CASE Onward \/ UNCHANGED <<run, todo, snap>>
  BY <1>1, <1>3 DEF Onward, Watchful, Tokened
<1> QED BY <1>2, <1>3, RunSteps

(***************************************************************************)
(* Nothing moves the subject on before the callback of its destroy job is  *)
(* handled.                                                                *)
(***************************************************************************)
Resumes == {EventRun("update"), EventRun("delete"), ActionRun("start"), ActionRun("stop"), ActionRun("update")}

\* A run that starts nothing (AloneFor), while the destroy job is in progress, is quiet.
LEMMA AloneIsQuiet ==
    ASSUME NEW c, NEW r \in EventRuns \cup ActionRuns \cup CallbackRuns, r \notin Resumes, NEW I, "destroy" \notin I,
           NEW g \in BOOLEAN, NEW p \in BOOLEAN
    PROVE  /\ AloneFor(r, I, g, p) \subseteq Quietly(c)
           /\ \A s : SoleFor(r, I, g, p, s) => s \in Seq(Quietly(c))
<1>1. \A a : r = ActionRun(a) => a \in Actions \ {"start", "stop", "update"}
  BY DEF Resumes, ActionRun, EventRuns, ActionRuns, CallbackRuns
<1>2. r.kind = "action" => r.name \notin Power
  BY DEF Resumes, ActionRun, EventRuns, ActionRuns, CallbackRuns, Power
<1>3. r # EventRun("update") /\ ~Free(I, g)
  BY DEF Resumes, Free
<1>4. ASSUME NEW d \in AloneFor(r, I, g, p) PROVE d \in Quietly(c)
  <2>1. d \in Calls /\ d.onError # "provisionError" /\ d.op \notin {"book", "reget", "checkQueue"}
        /\ ~(d.op = "get" /\ d.act = "provision")
    BY <1>3 DEF AloneFor
  <2>2. ~Renews(d)
    BY DEF AloneFor, Renews, Power
  <2>3. d.patch.state \in {KeepState, Running("destroy")}
    BY DEF AloneFor, MayMove
  <2>4. d.op = "schedule" => d.act \notin Power
    BY <1>2, <1>3 DEF AloneFor, MaySchedule
  <2>5. d.op = "poll" => d.act \in {"destroy", "status"}
    BY <1>1, <1>3 DEF AloneFor, Actions
  <2> QED BY <2>1, <2>2, <2>3, <2>4, <2>5 DEF Quietly
<1>5. AloneFor(r, I, g, p) \subseteq Quietly(c)
  BY <1>4
<1> QED BY <1>5, SeqMore DEF SoleFor

\* Handlers that only say how they went.
LEMMA PostsQuiet ==
    ASSUME NEW c, NEW x \in {"none", "finish", "continue", "delete"} PROVE Post(x) \in Seq(Quietly(c))
<1>1. EventRun("create") \in EventRuns /\ EventRun("create") \notin Resumes
  BY DEF EventRuns, EventRun, ActionRun, Resumes
<1>2. Post(x) \in Seq(AloneFor(EventRun("create"), {}, FALSE, FALSE))
  <2>1. Post(x) \in Seq(OpenFor(EventRun("create"), {}, FALSE, FALSE))
    BY PostsAlone
  <2>2. OpenFor(EventRun("create"), {}, FALSE, FALSE) \subseteq AloneFor(EventRun("create"), {}, FALSE, FALSE)
    BY DEF OpenFor
  <2> QED BY <2>1, <2>2, SeqMore
<1>3. AloneFor(EventRun("create"), {}, FALSE, FALSE) \subseteq Quietly(c)
  BY <1>1, AloneIsQuiet
<1> QED BY <1>2, <1>3, SeqMore

\* The end of the destroy job, known from the callback or from polling, is handled with the token there.
LEMMA DestroyedCalm ==
    ASSUME NEW c, NEW s, c.status \in JobStatuses, SandboxInUse, c.status = "successful" => s.token
    PROVE  Calmly(c, handleCallback("destroy", c.status, s))
<1>1. CASE c.status = "successful"
  BY <1>1, DestroyedLeads DEF Calmly
<1>2. CASE c.status # "successful"
  <2> DEFINE st == c.status
             d == SkipPatch(Ends("destroy", Failure("destroy", st)))
  <2>1. st \in FailureStatuses /\ handleCallback("destroy", st, s) = <<d>> \o Post("continue")
    BY <1>2 DEF JobStatuses, handleCallback, handleDeployerJobFailure, handleDestroyFailure
  <2>2. Failure("destroy", st) \in DestroyFailures /\ Failure("destroy", st) \in SubjectStates
    BY <2>1, States, ActionNames DEF DestroyFailures
  <2>3. IsMove(d, Failure("destroy", st), "keep", "fail")
    BY <2>2, Moved, MoveForm, ActionNames DEF OnErrors
  <2>4. d \in Quietly(c)
    BY <1>2, <2>2, <2>3 DEF Quietly, IsMove, Renews, Failed
  <2>5. <<d>> \in Seq(Quietly(c)) /\ Post("continue") \in Seq(Quietly(c))
    BY <2>4, PostsQuiet
  <2> HIDE DEF d, st
  <2> QED BY <2>1, <2>5, Concat DEF Calmly, st
<1> QED BY <1>1, <1>2

\* A late callback is one of a destroy job that ended.
LEMMA LateIs ==
    ASSUME IInv, NEW c, Late(c)
    PROVE  /\ c \in callbacks \cup {run} /\ c \in CallbackRuns /\ c.name = "destroy"
           /\ c.status \in JobStatuses /\ c.status # "running" /\ c.kind = "callback"
<1>1. c \in CallbackRuns
  BY DEF Late, IInv, Sound, Types, EventRuns, ActionRuns, NoRun
<1> QED BY <1>1 DEF Late, CallbackRuns, JobStatuses, FailureStatuses

\* A destroy job that is the first to call back ends while nothing moves the subject.
LEMMA FirstLate ==
    ASSUME IInv, RInv, Upbringing, used.callback = 0 => Sole, [Next]_vars,
           used'.callback < 2, used'.stray = 0,
           NEW c, Late(c)', c \notin callbacks \cup {run}
    PROVE  Kept(c)' /\ Calmly(c, todo')
<1>1. c.kind = "callback" /\ c.name = "destroy" /\ c \in callbacks' \cup {run'}
  BY DEF Late
<1>2. c \in callbacks' \ callbacks
  <2>1. ASSUME NEW r, DispatchRun(r) PROVE c # run'
    BY <1>1, <2>1, DispatchIs
  <2>2. NoRun.kind # "callback"
    BY DEF NoRun
  <2> QED BY <1>1, <2>1, <2>2, RunSteps DEF Onward
<1>3. PICK a \in Actions : JobEnds(a) /\ used'.callback = used.callback + 1
  BY <1>2, CallbackSteps
<1>4. used.callback = 0
  BY <1>3, CallbackSteps
<1>5. a = "destroy" /\ tower'["destroy"].job = c.status /\ callbacks' = callbacks \cup {c}
  <2>1. PICK status \in JobStatuses : callbacks' = callbacks \cup {Callback(a, status)} /\ tower'[a].job = status
    BY <1>2, <1>3, EndFacts
  <2>2. c = Callback(a, status)
    BY <1>2, <2>1
  <2>3. a = "destroy" /\ c.status = status
    BY <1>1, <2>2 DEF Callback
  <2> QED BY <2>1, <2>2, <2>3
<1>6. UNCHANGED <<subj, events, acts, run, todo>> /\ tower[a].job = "running"
  BY <1>3, EndFacts
<1>7. "destroy" \notin Idle
  BY <1>5, <1>6 DEF Idle
<1>8. /\ callbacks = {} /\ run.kind # "callback"
      /\ subj.state = Running("destroy") /\ subj.deleting
      /\ events \subseteq {"create"} /\ acts["start"] = 0 /\ acts["stop"] = 0
      /\ run \notin {EventRun("update"), EventRun("delete"), ActionRun("start"), ActionRun("stop")}
  BY <1>4, <1>7 DEF Sole, Uncalled, Shown, Departing, IInv, Sound, Types
<1>9. Kept(c)'
  BY <1>5, <1>6, <1>8 DEF Kept
<1>10. todo \in Seq(Quietly(c))
  <2>1. CASE run = NoRun
    BY <2>1 DEF IInv, Sound, Types
  <2>2. CASE run # NoRun
    <3>1. run \in EventRuns \cup ActionRuns \cup CallbackRuns
      BY <2>2 DEF IInv, Sound, Types
    <3>2. run # ActionRun("update")
      BY DEF Upbringing, Occasions, ActionRun
    <3>3. run \notin Resumes
      BY <1>8, <3>2 DEF Resumes
    <3> DEFINE failed == used.failure > 0
    <3>4. SoleFor(run, Idle, Orderly, failed, todo)
      BY <1>4 DEF Sole, TodoSole
    <3>5. Orderly \in BOOLEAN /\ failed \in BOOLEAN
      BY DEF Orderly
    <3> HIDE DEF failed
    <3>6. \A s : SoleFor(run, Idle, Orderly, failed, s) => s \in Seq(Quietly(c))
      BY <1>7, <3>1, <3>3, <3>5, AloneIsQuiet
    <3> QED BY <3>4, <3>6
  <2> QED BY <2>1, <2>2
<1> QED BY <1>6, <1>9, <1>10 DEF Calmly

\* What may be dispatched meanwhile.
LEMMA KeptRuns ==
    ASSUME IInv, RInv, Upbringing, NEW c, Late(c), Kept(c), NEW r, DispatchRun(r)
    PROVE  r \in {EventRun("create"), ActionRun("provision"), ActionRun("destroy"), ActionRun("status"), c}
<1>1. /\ r \in EventRuns \cup ActionRuns \cup CallbackRuns
      /\ \/ r = run \/ r \in callbacks
         \/ \E e \in events : r = EventRun(e)
         \/ \E a \in Actions : r = ActionRun(a) /\ acts[a] > 0
      /\ r.kind = "callback" => r \in callbacks \cup {run}
      /\ r.kind \in {"callback", "action"} => r.name # "update"
  BY DispatchIs
<1>2. /\ \A d \in callbacks \cup {run} : d.kind = "callback" => d = c
      /\ events \subseteq {"create"} /\ acts["start"] = 0 /\ acts["stop"] = 0
      /\ run \notin {EventRun("update"), EventRun("delete"), ActionRun("start"), ActionRun("stop")}
  BY DEF Kept
<1>3. CASE r \in CallbackRuns
  BY <1>1, <1>2, <1>3 DEF CallbackRuns
<1>4. CASE r \in EventRuns
  <2>1. r = EventRun(r.name) /\ r.name \in {"create", "update", "delete"} /\ r.kind = "event"
    BY <1>4 DEF EventRuns, EventRun
  <2>2. r \notin callbacks /\ \A a : r # ActionRun(a)
    BY <2>1 DEF IInv, Sound, Types, CallbackRuns, ActionRun
  <2>3. \A e : r = EventRun(e) => e = r.name
    BY DEF EventRun
  <2>4. r.name = "create"
    BY <1>1, <1>2, <2>1, <2>2, <2>3
  <2> QED BY <2>1, <2>4
<1>5. CASE r \in ActionRuns
  <2>1. r = ActionRun(r.name) /\ r.name \in Actions \ {"update"} /\ r.kind = "action"
    BY <1>1, <1>5 DEF ActionRuns, ActionRun
  <2>2. r \notin callbacks /\ \A e : r # EventRun(e)
    BY <2>1 DEF IInv, Sound, Types, CallbackRuns, EventRun
  <2>3. \A a : r = ActionRun(a) => a = r.name
    BY DEF ActionRun
  <2>4. r = run \/ acts[r.name] > 0
    BY <1>1, <2>2, <2>3
  <2>5. r.name \notin {"start", "stop"}
    BY <1>2, <2>1, <2>4
  <2> QED BY <2>1, <2>5 DEF Actions
<1> QED BY <1>1, <1>3, <1>4, <1>5

\* Their handlers keep calm.
LEMMA DispatchCalm ==
    ASSUME IInv, RInv, SandboxInUse, Upbringing, NEW c, Late(c), Presses(c), Kept(c), NEW r, DispatchRun(r)
    PROVE  Calmly(c, todo')
<1> DEFINE s == Payload
<1>1. /\ r \in EventRuns \cup ActionRuns \cup CallbackRuns /\ todo' = Dispatch(r, s)
      /\ s.state = subj.state /\ s.uuid = subj.uuid /\ s.token = token
  BY DispatchIs
<1>2. s.state \in {Running("destroy")} \cup Failed(c) /\ Failed(c) \subseteq DestroyFailures
  BY <1>1 DEF Kept, Failed
<1> HIDE DEF s
<1>3. ASSUME r \notin Resumes, NEW I, "destroy" \notin I, SoleFor(r, I, FALSE, FALSE, todo')
      PROVE  Calmly(c, todo')
  BY <1>1, <1>3, AloneIsQuiet DEF Calmly
<1>4. \A e \in {"create"}, a \in {"provision", "destroy", "status"} :
         EventRun(e) \notin Resumes /\ ActionRun(a) \notin Resumes
  BY DEF EventRun, ActionRun, Resumes
<1>5. s.state \notin {NoState, Pending("provision"), Queued, Running("provision")}
  BY <1>2 DEF DestroyFailures, Failure, Running, NoState, Pending, Queued
<1>6. CASE r = EventRun("create")
  <2>1. todo' = handleEventCreate(s)
    BY <1>1, <1>6 DEF Dispatch, EventRun
  <2>2. SoleFor(r, {}, FALSE, FALSE, todo')
    BY <1>5, <1>6, <2>1, CreateSole
  <2> QED BY <1>3, <1>4, <1>6, <2>2
<1>7. CASE r = ActionRun("provision")
  <2>1. todo' = handleProvision(s)
    BY <1>1, <1>7 DEF Dispatch, ActionRun
  <2>2. todo' = Post("none")
    BY <1>5, <2>1 DEF handleProvision
  <2> QED BY <2>2, PostsQuiet DEF Calmly
<1>8. CASE r = ActionRun("status")
  <2>1. todo' = handleStatus(s)
    BY <1>1, <1>8 DEF Dispatch, ActionRun
  <2>2. SoleFor(r, {"status"}, FALSE, FALSE, todo')
    BY <1>8, <2>1, StatusSole
  <2> QED BY <1>3, <1>4, <1>8, <2>2
<1>9. CASE r = ActionRun("destroy")
  <2>1. todo' = handleDestroy(s)
    BY <1>1, <1>9 DEF Dispatch, ActionRun
  <2>2. CASE s.state = Running("destroy")
    <3>1. SoleFor(r, {}, FALSE, FALSE, todo')
      BY <1>9, <2>1, <2>2, DestroySole
    <3> QED BY <1>3, <1>4, <1>9, <3>1
  <2>3. CASE s.state \in Failed(c)
    <3>1. c.status # "successful" /\ CatchAll /\ s.state \in DestroyFailures
      BY <2>3 DEF Failed, Presses
    <3>2. s.state # Pending("destroy") /\ \E f \in FailureStatuses : s.state = Failure("destroy", f)
      BY <3>1, States, ActionNames DEF DestroyFailures
    <3>3. todo' = <<>> \o handleDestroyCatchAll(s)
      BY <2>1, <3>1, <3>2 DEF handleDestroy
    <3>4. handleDestroyCatchAll(s) \in Seq(Parting)
      BY PartingCalls, CleanupType, Concat DEF handleDestroyCatchAll
    <3>5. todo' = handleDestroyCatchAll(s)
      BY <3>3, <3>4
    <3>6. CASE s.uuid /\ ~s.token
      <4>1. todo' = <<>> \o Post("delete")
        BY <3>5, <3>6 DEF handleDestroyCatchAll, sandboxCleanup
      <4>2. Post("delete") \in Seq(Quietly(c))
        BY PostsQuiet
      <4>3. todo' = Post("delete")
        BY <4>1, <4>2
      <4> QED BY <4>2, <4>3 DEF Calmly
    <3>7. CASE ~(s.uuid /\ ~s.token)
      <4> DEFINE z == Call("release", "none", "fail")
                 y == Post("delete")
      <4>1. todo' = <<z>> \o y /\ z.op = "release"
        BY <3>5, <3>7 DEF handleDestroyCatchAll, sandboxCleanup, Call
      <4>2. z \in Parting /\ y \in Seq(Parting)
        BY PartingCalls
      <4> HIDE DEF z, y
      <4>3. todo' # <<>> /\ Head(todo') = z
        BY <4>1, <4>2
      <4> QED BY <3>4, <3>5, <4>1, <4>3 DEF Calmly
    <3> QED BY <3>6, <3>7
  <2> QED BY <1>2, <2>2, <2>3
<1>10. CASE r = c
  <2>1. c.status \in JobStatuses /\ c.name = "destroy" /\ c.kind = "callback"
    BY LateIs
  <2>2. todo' = handleCallback("destroy", c.status, s)
    BY <1>1, <1>10, <2>1 DEF Dispatch
  <2>3. c.status = "successful" => s.token
    BY <1>1 DEF Presses
  <2> QED BY <2>1, <2>2, <2>3, DestroyedCalm
<1> QED BY <1>6, <1>7, <1>8, <1>9, <1>10, KeptRuns

\* Asked for the status of a job, a run stays calm, too.
LEMMA PollCalm ==
    ASSUME IInv, Upbringing, SandboxInUse, Tokened, NEW c, Late(c), Presses(c), Kept(c),
           todo \in Seq(Quietly(c)), PollJob
    PROVE  Calmly(c, todo')
<1> DEFINE a == Head(todo).act
           job == tower[a].job
<1>1. /\ todo # <<>> /\ Head(todo).op = "poll"
      /\ \/ todo' \in {todo, Recovery(Head(todo), Tail(todo))}
         \/ todo' = jobPolled(a, job, snap)
  BY PollForm
<1>2. Head(todo) \in Quietly(c)
  BY <1>1
<1>3. a \in {"destroy", "status"}
  BY <1>1, <1>2 DEF Quietly
<1>4. CASE todo' \in {todo, Recovery(Head(todo), Tail(todo))}
  BY <1>1, <1>4, LeftStays, KindsComplete DEF Upbringing, Calmly
<1>5. CASE todo' = jobPolled(a, job, snap) /\ a = "destroy"
  <2>1. job = c.status /\ c.status \in JobStatuses
    BY <1>5, LateIs DEF Kept
  <2>2. c.status = "successful" => snap.token
    BY <1>1 DEF Presses, Tokened
  <2> HIDE DEF job
  <2>3. todo' = handleCallback("destroy", c.status, snap)
    BY <1>5, <2>1 DEF jobPolled
  <2> QED BY <2>1, <2>2, <2>3, DestroyedCalm
<1>6. CASE todo' = jobPolled(a, job, snap) /\ a = "status"
  <2> HIDE DEF job
  <2> DEFINE r == ActionRun("status")
  <2>1. SoleFor(r, {"status"}, FALSE, FALSE, jobPolled("status", job, snap))
    BY OutcomeSole DEF Actions, Power
  <2>2. r \in ActionRuns /\ r \notin Resumes
    BY DEF ActionRun, ActionRuns, Actions, EventRun, Resumes
  <2> HIDE DEF r
  <2>3. jobPolled("status", job, snap) \in Seq(Quietly(c))
    BY <2>1, <2>2, AloneIsQuiet
  <2> QED BY <1>6, <2>3 DEF Calmly
<1> QED BY <1>1, <1>3, <1>4, <1>5, <1>6

\* A release that is not carried out is to be made once more.
LEMMA ReleaseCalm ==
    ASSUME IInv, NEW c, todo \in Seq(Parting), todo # <<>>, Head(todo).op = "release",
           HandlerStep \/ Abandon, placement' # "absent"
    PROVE  Calmly(c, todo')
<1>1. CASE Abandon
  BY <1>1 DEF Abandon, Continue, Calmly
<1>2. CASE ReleasePlacement
  <2>1. todo' = <<>> \/ Trouble
    BY <1>2 DEF ReleasePlacement, Does, Continue
  <2>2. Head(todo) \in Parting
    OBVIOUS
  <2>3. Head(todo).onError = "fail" /\ ~Head(todo).traced
    BY <2>2 DEF Parting
  <2>4. Recovery(Head(todo), Tail(todo)) = <<>>
    BY <2>3 DEF Recovery, Handled
  <2>5. todo' \in {<<>>, todo}
    BY <2>1, <2>4 DEF Trouble, TroubleWith, Continue
  <2>6. CASE todo' = <<>>
    <3>1. todo' \in Seq(Quietly(c))
      BY <2>6
    <3> QED BY <3>1 DEF Calmly
  <2>7. CASE todo' = todo
    <3>1. todo' \in Seq(Parting) /\ todo' # <<>> /\ Head(todo').op = "release"
      BY <2>7
    <3> QED BY <3>1 DEF Calmly
  <2> QED BY <2>5, <2>6, <2>7
<1>3. CASE HandlerStep /\ ~ReleasePlacement
  BY <1>3 DEF HandlerStep, SubjectUpdate, ScheduleAction, LaunchJob, CancelJobs, PollJob, GetPlacement, GetBooked,
     CheckQueue, BookPlacement, PowerPlacement, AwaitRequest, PostResult, At
<1> QED BY <1>1, <1>2, <1>3

\* The subject stays where the destroy job left it.
LEMMA KeptOn ==
    ASSUME IInv, RInv, Upbringing, [Next]_vars, used.callback # 0, used'.callback < 2, NEW c, Late(c), Kept(c),
           Calmly(c, todo)
    PROVE  Kept(c)'
<1> DEFINE head == Head(todo)
<1>1. todo # <<>> => (head \in Quietly(c) \/ head.op = "release")
  BY DEF Calmly
<1>2. c.status # "running"
  BY LateIs
<1>3. tower'["destroy"].job = c.status
  <2>1. CASE SubjectUpdate /\ head.patch.job = "destroy"
    <3>1. todo # <<>> /\ head.op = "patch"
      BY <2>1 DEF SubjectUpdate, At
    <3> QED BY <1>1, <2>1, <3>1 DEF Quietly, Renews
  <2> QED BY <1>2, <2>1, JobSteps, ActionNames DEF Kept
<1>4. subj'.state \in {Running("destroy")} \cup Failed(c)
  <2>1. CASE subj'.state = subj.state
    BY <2>1 DEF Kept
  <2>2. CASE SubjectUpdate /\ Apply(head.patch) /\ subj'.state = head.patch.state
    <3>1. todo # <<>> /\ head.op = "patch"
      BY <2>2 DEF SubjectUpdate, At
    <3>2. head \in Quietly(c) /\ head.patch \in Patches
      BY <1>1, <3>1 DEF Quietly, Calls
    <3>3. subj'.state = IF head.patch.state = KeepState THEN subj.state ELSE head.patch.state
      BY <2>2, <3>2, PatchIsApplied DEF PatchFacts
    <3> QED BY <3>2, <3>3 DEF Quietly, Kept
  <2> QED BY <2>1, <2>2, SubjectSteps
<1>5. callbacks' \subseteq callbacks
  BY CallbackSteps
<1>6. run' \in {run, NoRun} \/ \E r : DispatchRun(r) /\ run' = r
  BY RunSteps DEF Onward, DispatchRun
<1>7. run' = c \/ run' \in {run, NoRun, EventRun("create"), ActionRun("provision"), ActionRun("destroy"),
                              ActionRun("status")}
  BY <1>6, KeptRuns
<1>8. \A d \in callbacks' \cup {run'} : d.kind = "callback" => d = c
  BY <1>5, <1>7 DEF Kept, NoRun, EventRun, ActionRun
<1>9. run' \notin {EventRun("update"), EventRun("delete"), ActionRun("start"), ActionRun("stop")}
  <2>1. c.kind = "callback"
    BY LateIs
  <2> QED BY <1>7, <2>1 DEF Kept, NoRun, EventRun, ActionRun
<1>10. subj'.deleting /\ events' \subseteq {"create"}
  BY SubjectSteps DEF Kept
<1>11. ASSUME NEW a \in Power PROVE acts'[a] = 0
  <2>1. IInv'
    BY NextOK
  <2>2. a \in Actions /\ acts[a] = 0
    BY <1>11 DEF Power, Actions, Kept
  <2>3. acts'[a] \in 0..MaxQueued /\ MaxQueued \in Nat
    BY <2>1, <2>2, LifecycleAssumption DEF IInv, Sound, Types
  <2>4. ~(ScheduleAction /\ head.op = "schedule" /\ head.act = a)
    <3> SUFFICES ASSUME ScheduleAction, head.op = "schedule", head.act = a PROVE FALSE
      OBVIOUS
    <3>1. todo # <<>>
      BY DEF ScheduleAction, At
    <3> QED BY <1>1, <1>11, <3>1 DEF Quietly
  <2>5. ~(acts'[a] > 0)
    BY <2>2, <2>4, ActsSteps
  <2> QED BY <2>3, <2>5
<1> QED BY <1>3, <1>4, <1>8, <1>9, <1>10, <1>11 DEF Kept, Power, Failed

\* Until a late callback is handled the subject stays where the job left it.
LEMMA StillsOn ==
    ASSUME IInv, RInv, SandboxInUse, Upbringing, Watchful, used.callback = 0 => Sole, [Next]_vars,
           used'.callback < 2, used'.stray = 0
    PROVE  Stills'
<1> SUFFICES ASSUME NEW c \in callbacks' \cup {run'}, Late(c)', Presses(c)' PROVE Kept(c)' /\ Calmly(c, todo')
  BY DEF Stills, Calmly, Quietly, Failed
<1>1. CASE c \notin callbacks \cup {run}
  BY <1>1, FirstLate
<1>2. CASE c \in callbacks \cup {run}
  <2>1. Late(c) /\ c.name = "destroy" /\ c.kind = "callback"
    BY <1>2 DEF Late
  <2>2. Due
    BY <1>2, <2>1 DEF RInv, Known
  <2>3. placement # "absent" /\ placement' # "absent"
    <3>1. placement' # "absent"
      BY DEF Presses
    <3> QED BY <2>2, <3>1, PlacementSteps, BooksEarly DEF Upbringing
  <2>4. Presses(c)
    BY <2>3, PlacementSteps DEF Presses
  <2>5. Kept(c) /\ Calmly(c, todo)
    BY <1>2, <2>1, <2>4 DEF Watchful, Stills
  <2>6. used.callback # 0
    BY <1>2, <2>1 DEF Sole, Uncalled
  <2>7. Kept(c)'
    BY <2>1, <2>5, <2>6, KeptOn
  <2>8. Calmly(c, todo')
    <3>1. CASE \E r : DispatchRun(r)
      BY <2>1, <2>4, <2>5, <3>1, DispatchCalm
    <3>2. CASE todo' = todo
      BY <2>5, <3>2
    <3>3. CASE Onward /\ todo \in Seq(Parting) /\ Head(todo).op = "release"
      BY <2>3, <3>3, ReleaseCalm DEF Onward
    <3>4. CASE Onward /\ todo \in Seq(Quietly(c))
      <4>1. CASE PollJob
        BY <2>1, <2>4, <2>5, <3>4, <4>1, PollCalm DEF Watchful
      <4>2. CASE Abandon
        BY <4>2 DEF Abandon, Continue, Calmly
      <4>3. CASE HandlerStep /\ ~PollJob
        <5>1. Head(todo).op # "poll"
          BY <4>3 DEF HandlerStep, SubjectUpdate, ScheduleAction, LaunchJob, CancelJobs, GetPlacement, GetBooked,
             CheckQueue, BookPlacement, PowerPlacement, AwaitRequest, ReleasePlacement, PostResult, At
        <5> QED BY <3>4, <4>3, <5>1, CallStays, KindsComplete DEF Upbringing, Calmly
      <4> QED BY <3>4, <4>1, <4>2, <4>3 DEF Onward
    <3> QED BY <2>5, <3>1, <3>2, <3>3, <3>4, RunSteps DEF Calmly
  <2> QED BY <2>7, <2>8
<1> QED BY <1>1, <1>2

\* The invariant is inductive, under those of the earlier theorems.
LEMMA WatchfulOn ==
    ASSUME IInv, RInv, SandboxInUse, Upbringing, SInv, ZInv, [Next]_vars PROVE ZInv'
<1> SUFFICES ASSUME used'.callback < 2, used'.stray = 0 PROVE Watchful'
  BY DEF ZInv
<1>1. Watchful
  BY CallbackSteps DEF ZInv
<1> QED BY <1>1, SteersOn, SparedOn, GivenUpOn, TokenedOn, StillsOn DEF Watchful, SInv

\* It holds at the start.
LEMMA WatchfulInit == Init => ZInv
<1> SUFFICES ASSUME Init PROVE Watchful
  BY DEF ZInv
<1>1. Steers(todo)
  BY DEF Init, Steers
<1>2. Spared
  BY ActionNames DEF Init, Spared, NoRun, ActionRun, NoJobs
<1>3. GivenUp /\ Tokened
  BY States DEF Init, GivenUp, Tokened, NewSubject
<1>4. Stills
  BY DEF Init, Stills, Late, NoRun
<1> QED BY <1>1, <1>2, <1>3, <1>4 DEF Watchful

\* The placement of what was provisioned goes after a destroy job came to an end,
\* whatever fails, is repeated, cut off, lost or comes late, and whichever jobs call
\* back; and while at most one callback came in, and that of a recorded job, no destroy
\* job runs under it: whoever releases the placement (handleDestroyComplete,
\* handleDestroyCatchAll, handleEventDeleteWithoutDestroy) has seen that job end.  This
\* is proved for every governor with deployers for start and stop and no update action.
THEOREM PlacementGoesLast == ASSUME PowerDeployed PROVE Spec => ReleasedLast
<1>1. CASE ~SandboxInUse
  <2>1. IInv => placement = "absent"
    BY <1>1 DEF IInv, Sound, Consistent, MayBook
  <2>2. IInv /\ [Next]_vars =>
          [placement # "absent" /\ placement' = "absent" =>
             /\ "destroy" \in GovActions \ Disabled /\ tower["provision"].job # "none"
                => tower["destroy"].ended
             /\ used.callback < 2 /\ used.stray = 0 => tower["destroy"].job # "running"]_vars
    BY <2>1
  <2> QED BY <2>2, Invariance, PTL DEF Spec, ReleasedLast
<1>2. CASE SandboxInUse
  <2>1. Init => WInv /\ SInv /\ RInv /\ ZInv
    BY WakeupInit, SoleInit, InitRefines, WatchfulInit
  <2>2. IInv /\ WInv /\ SInv /\ RInv /\ ZInv /\ [Next]_vars => WInv' /\ SInv' /\ RInv' /\ ZInv'
    <3> SUFFICES ASSUME IInv, WInv, SInv, RInv, ZInv, [Next]_vars PROVE WInv' /\ SInv' /\ RInv' /\ ZInv'
      OBVIOUS
    <3>1. WInv'
      BY NextFits, NextWakes, NextAttends, Recall DEF WInv
    <3>2. ASSUME used'.callback = 0 PROVE Sole'
      <4>1. used.callback = 0
        BY <3>2, UsedGrows DEF Onwards
      <4> QED BY <3>2, <4>1, NextAlone DEF WInv, SInv
    <3>3. RInv' /\ ZInv'
      BY <1>2, NextRefines, WatchfulOn DEF WInv
    <3> QED BY <3>1, <3>2, <3>3, Blames DEF SInv
  <2>3. IInv /\ WInv /\ SInv /\ RInv /\ ZInv /\ [Next]_vars =>
          [placement # "absent" /\ placement' = "absent" =>
             /\ "destroy" \in GovActions \ Disabled /\ tower["provision"].job # "none"
                => tower["destroy"].ended
             /\ used.callback < 2 /\ used.stray = 0 => tower["destroy"].job # "running"]_vars
    <3> SUFFICES ASSUME IInv, RInv, ZInv, [Next]_vars, placement # "absent", placement' = "absent"
                 PROVE  /\ "destroy" \in GovActions \ Disabled /\ tower["provision"].job # "none"
                           => tower["destroy"].ended
                        /\ used.callback < 2 /\ used.stray = 0 => tower["destroy"].job # "running"
      OBVIOUS
    <3>1. todo # <<>> /\ Head(todo).op = "release"
      BY PlacementSteps DEF ReleasePlacement, At
    <3>2. Leaving(todo)
      BY <3>1, HeadWorks DEF Ours, Allowed, RInv
    <3>3. ASSUME used.callback < 2, used.stray = 0 PROVE Over
      BY <3>1, <3>3, SteersHead DEF ZInv, Watchful, Concludes
    <3> QED BY <3>2, <3>3 DEF Leaving, Undone, Over, Idle
  <2> QED BY <2>1, <2>2, <2>3, Invariance, PTL DEF Spec, ReleasedLast
<1> QED BY <1>1, <1>2
===============================================================================
