----------------------- MODULE LifecyclePending_proofs -----------------------
(***************************************************************************)
(* No action of a live subject is left without a directive, and a subject  *)
(* does not come to rest pending or running, while no call fails.          *)
(*                                                                         *)
(* Both hang on the same account.  What the live actions, the state and    *)
(* the status check say of each other holds between two runs only: a       *)
(* handler moves the state with one call and schedules or finishes with    *)
(* another.  The inductive invariant therefore follows the calls that a    *)
(* handler has still to make: Rest is what must hold when no run is in     *)
(* execution, and Leads says that the calls lead from where the subject    *)
(* stands to a result after which Rest holds, whatever the answers are.    *)
(* It speaks of the steps in which no call fails and of a subject that is  *)
(* not being deleted; both are over for good once they are over.           *)
(***************************************************************************)
EXTENDS LifecycleJobs_proofs

\* What a handler is written for: an action that is disabled is carried out by the
\* sandbox API, and the governor has no update action, which would start in any state.
Equipped ==
    /\ "update" \notin GovActions
    /\ "provision" \in Disabled => SandboxInUse
    /\ "start" \in Disabled => powerOn
    /\ "stop" \in Disabled => powerOff

Live == used.fault = 0 /\ ~subj.deleting

\* The actions of a live subject.
Living == {"provision", "start", "stop", "status"}

\* Where the subject stands, and what else a run may rely on: that the user asked for
\* a status check, and that something outside did not succeed.
Standing(st, cs, ac) == [state |-> st, css |-> cs, acts |-> ac]
Standings == [state : SubjectStates, css : JobStatuses \cup {"none", "pending", "running"},
              acts : [Actions -> 0..MaxQueued]]
Now == Standing(subj.state, subj.css, acts)
Means == [asked |-> subj.asked # 0, failed |-> used.failure > 0]

\* The states of a provision in progress.
Provisional == {Pending("provision"), Queued}
               \cup {st \in {Running("provision")} : "provision" \notin Disabled}

\* The state of a subject at rest fits its live actions.
StateRests(st, ac, failed) ==
    /\ ac["destroy"] = 0 /\ ac["update"] = 0
    /\ ac["provision"] > 0 =>
          ac["provision"] = 1 /\ st \in Provisional /\ ac["start"] = 0 /\ ac["stop"] = 0
    /\ \A a \in Power : st = Running(a) => a \notin Disabled
    /\ PowerDeployed =>
          \A a \in Actions : st \in {Pending(a), Running(a)} =>
             /\ a \in {"provision", "start", "stop"}
             /\ ac[a] > 0 \/ (a = "provision" /\ SandboxInUse /\ failed)

\* So does its status check.
CheckRests(cs, n, asked) ==
    /\ n = IF cs \in {"pending", "running"} THEN 1 ELSE 0
    /\ cs = "pending" => asked

Rest(x, w) == StateRests(x.state, x.acts, w.failed) /\ CheckRests(x.css, x.acts["status"], w.asked)

\* What a call does to where the subject stands.
Queue(ac, a, cancel) ==
    [b \in Actions |->
        LET n == IF b \in cancel THEN 0 ELSE ac[b]
        IN  IF b = a /\ n < MaxQueued THEN n + 1 ELSE n]

Effect(x, c) ==
    Standing(IF c.op = "patch" /\ c.patch.state # KeepState THEN c.patch.state ELSE x.state,
             IF c.op = "patch" /\ c.patch.css # "keep" THEN c.patch.css ELSE x.css,
             IF c.op = "schedule" THEN Queue(x.acts, c.act, c.cancel) ELSE x.acts)

\* What a result does to it, and when it may be posted.
Taken(ac, a) == [b \in Actions |-> IF b = a /\ ac[b] > 0 THEN ac[b] - 1 ELSE ac[b]]

Posting(r, x, d) == Standing(x.state, x.css, IF d = "finish" THEN Taken(x.acts, r.name) ELSE x.acts)

MayPost(r, x, w, d) ==
    /\ d \in {"none", "finish", "continue"}
    /\ d = "none" /\ r.kind = "action" => x.acts[r.name] = 0
    /\ Rest(Posting(r, x, d), w)

\* The last call of a handler: a result, or a question whose answer decides what
\* comes next.
Closes(r, x, w, c) ==
    \/ c.op = "post" /\ MayPost(r, x, w, c.act)
    \/ c.op = "poll" /\ r = ActionRun(c.act) /\ Rest(x, w) /\ x.acts[c.act] > 0
    \/ c.op = "checkQueue" /\ r = ActionRun("provision") /\ Rest(x, w) /\ x.acts["provision"] > 0

\* A call that others follow.
Goes(r, x, w, c) ==
    /\ c.op \notin {"post", "poll", "checkQueue", "release", "cancel"}
    /\ c.op = "schedule" =>
          /\ c.act \in Living
          /\ c.act \in Power => x.acts["provision"] = 0 /\ r # EventRun("create")
          /\ c.act = "provision" => r = EventRun("create")
    /\ c.op \in {"power", "await"} =>
          c.act \in Power /\ (c.onError = "ignore" \/ (c.onError = "finish" /\ MayPost(r, x, w, "finish")))
    /\ Looks(c) => r = ActionRun("provision") /\ Rest(x, w) /\ x.acts["provision"] > 0

\* The calls lead the subject to rest: f says where it stands ahead of each.
Leads(r, s, x, w) ==
    /\ s \in Seq(Calls) /\ s # <<>>
    /\ \E f \in [1..Len(s) -> Standings] :
          /\ f[1] = x
          /\ \A i \in 1..(Len(s) - 1) : Goes(r, f[i], w, s[i]) /\ f[i + 1] = Effect(f[i], s[i])
          /\ Closes(r, f[Len(s)], w, s[Len(s)])

\* A subject that is still to be created.
Fresh ==
    "create" \in events =>
        /\ events = {"create"} /\ callbacks = {} /\ run = NoRun /\ subj.state = NoState
        /\ \A a \in Actions : acts[a] = 0

\* Nobody destroys or updates a live subject.
Named ==
    /\ "delete" \notin events /\ run # EventRun("delete")
    /\ acts["destroy"] = 0 /\ acts["update"] = 0
    /\ \A c \in callbacks \cup {run} : c.kind \in {"callback", "action"} => c.name \in Living

\* Nobody starts or stops it before its provision is over.
Infant == "create" \in events \/ run = EventRun("create") \/ acts["provision"] > 0
Infancy ==
    Infant => /\ acts["start"] = 0 /\ acts["stop"] = 0
              /\ \A c \in callbacks \cup {run} : c.name \notin Power

Course == IF run = NoRun THEN Rest(Now, Means) ELSE Leads(run, todo, Now, Means)

Unstuck == ~gone /\ stuck = {} /\ Fresh /\ Named /\ Infancy /\ Course

\* The inductive invariant.
LInv == Live => Unstuck

(***************************************************************************)
(* Sequences of calls that lead to rest.                                   *)
(***************************************************************************)
\* What a call leaves is a standing.
LEMMA EffectType == ASSUME NEW x \in Standings, NEW c \in Calls PROVE Effect(x, c) \in Standings
<1>1. Queue(x.acts, c.act, c.cancel) \in [Actions -> 0..MaxQueued]
  BY LifecycleAssumption DEF Queue, Standings
<1>2. c.patch.state # KeepState => c.patch.state \in SubjectStates
  BY DEF Calls, Patches
<1>3. c.patch.css # "keep" => c.patch.css \in JobStatuses \cup {"none", "pending", "running"}
  BY DEF Calls, Patches, JobStatuses
<1> QED BY <1>1, <1>2, <1>3 DEF Effect, Standing, Standings

\* The last call alone.
LEMMA LeadsOne ==
    ASSUME NEW r, NEW w, NEW x \in Standings, NEW c \in Calls, Closes(r, x, w, c)
    PROVE  Leads(r, <<c>>, x, w)
<1> DEFINE f == [i \in 1..1 |-> x]
<1>1. Len(<<c>>) = 1 /\ <<c>> \in Seq(Calls) /\ <<c>>[1] = c
  OBVIOUS
<1>2. f \in [1..1 -> Standings] /\ f[1] = x /\ 1..(1 - 1) = {}
  OBVIOUS
<1> HIDE DEF f
<1> QED BY <1>1, <1>2 DEF Leads

\* A call ahead of others.
LEMMA LeadsCons ==
    ASSUME NEW r, NEW w, NEW x \in Standings, NEW c \in Calls, NEW s,
           Goes(r, x, w, c), Leads(r, s, Effect(x, c), w)
    PROVE  Leads(r, <<c>> \o s, x, w)
<1> DEFINE n == Len(s)
           t == <<c>> \o s
<1>1. s \in Seq(Calls) /\ n \in Nat /\ n > 0
  BY DEF Leads
<1>2. t \in Seq(Calls) /\ Len(t) = n + 1 /\ t[1] = c /\ \A i \in 1..n : t[i + 1] = s[i]
  BY <1>1
<1>3. PICK f \in [1..n -> Standings] :
          /\ f[1] = Effect(x, c)
          /\ \A i \in 1..(n - 1) : Goes(r, f[i], w, s[i]) /\ f[i + 1] = Effect(f[i], s[i])
          /\ Closes(r, f[n], w, s[n])
  BY DEF Leads
<1> DEFINE g == [i \in 1..(n + 1) |-> IF i = 1 THEN x ELSE f[i - 1]]
<1> HIDE DEF n, t
<1>4. g \in [1..(n + 1) -> Standings] /\ g[1] = x /\ \A i \in 1..n : g[i + 1] = f[i]
  BY <1>1
<1> HIDE DEF g
<1>5. ASSUME NEW i \in 1..((n + 1) - 1) PROVE Goes(r, g[i], w, t[i]) /\ g[i + 1] = Effect(g[i], t[i])
  <2>1. CASE i = 1
    BY <1>1, <1>2, <1>3, <1>4, <2>1
  <2>2. CASE i # 1
    <3> DEFINE j == i - 1
    <3>1. j \in 1..(n - 1) /\ j \in 1..n /\ i \in 1..n /\ i = j + 1
      BY <1>1, <2>2
    <3> HIDE DEF j
    <3>2. g[i] = f[j] /\ t[i] = s[j] /\ g[i + 1] = f[j + 1]
      BY <1>2, <1>4, <3>1
    <3> QED BY <1>3, <3>1, <3>2
  <2> QED BY <2>1, <2>2
<1>6. Closes(r, g[n + 1], w, t[n + 1])
  <2>1. n \in 1..n
    BY <1>1
  <2> QED BY <1>2, <1>3, <1>4, <2>1
<1>7. t # <<>>
  BY <1>1, <1>2
<1>8. Leads(r, t, x, w)
  BY <1>2, <1>4, <1>5, <1>6, <1>7 DEF Leads
<1> QED BY <1>8 DEF t

\* What leads to rest, from its first call on.
LEMMA LeadsHead ==
    ASSUME NEW r, NEW w, NEW x, NEW s, Leads(r, s, x, w)
    PROVE  /\ s \in Seq(Calls) /\ s # <<>> /\ x \in Standings /\ Head(s) \in Calls
           /\ \/ Closes(r, x, w, Head(s))
              \/ Goes(r, x, w, Head(s)) /\ Leads(r, Tail(s), Effect(x, Head(s)), w)
<1> DEFINE n == Len(s)
<1>1. s \in Seq(Calls) /\ s # <<>> /\ n \in Nat /\ n > 0 /\ Head(s) = s[1] /\ Head(s) \in Calls
  BY DEF Leads
<1>2. PICK f \in [1..n -> Standings] :
          /\ f[1] = x
          /\ \A i \in 1..(n - 1) : Goes(r, f[i], w, s[i]) /\ f[i + 1] = Effect(f[i], s[i])
          /\ Closes(r, f[n], w, s[n])
  BY DEF Leads
<1>3. x \in Standings
  BY <1>1, <1>2
<1>4. CASE n = 1
  BY <1>1, <1>2, <1>3, <1>4
<1>5. CASE n # 1
  <2> DEFINE t == Tail(s)
             g == [i \in 1..(n - 1) |-> f[i + 1]]
  <2>1. /\ t \in Seq(Calls) /\ Len(t) = n - 1 /\ t # <<>> /\ \A i \in 1..(n - 1) : t[i] = s[i + 1]
    <3>1. t \in Seq(Calls) /\ Len(t) = n - 1 /\ \A i \in 1..(n - 1) : t[i] = s[i + 1]
      BY <1>1, HeadTailProperties
    <3> HIDE DEF t
    <3> QED BY <1>1, <1>5, <3>1, EmptySeq
  <2> HIDE DEF n, t
  <2>2. g \in [1..(n - 1) -> Standings] /\ \A i \in 1..(n - 1) : g[i] = f[i + 1]
    <3>1. \A i \in 1..(n - 1) : i + 1 \in 1..n
      BY <1>1
    <3> QED BY <1>2, <3>1
  <2>3. 1 \in 1..(n - 1)
    BY <1>1, <1>5
  <2> HIDE DEF g
  <2>4. Goes(r, x, w, Head(s)) /\ g[1] = Effect(x, Head(s))
    BY <1>1, <1>2, <2>2, <2>3
  <2>5. ASSUME NEW i \in 1..((n - 1) - 1) PROVE Goes(r, g[i], w, t[i]) /\ g[i + 1] = Effect(g[i], t[i])
    <3>1. i \in 1..(n - 1) /\ i + 1 \in 1..(n - 1)
      BY <1>1
    <3> QED BY <1>2, <2>1, <2>2, <3>1
  <2>6. Closes(r, g[n - 1], w, t[n - 1])
    <3>1. n - 1 \in 1..(n - 1) /\ (n - 1) + 1 = n
      BY <1>1, <1>5
    <3> QED BY <1>2, <2>1, <2>2, <3>1
  <2>7. Leads(r, t, Effect(x, Head(s)), w)
    BY <2>1, <2>2, <2>4, <2>5, <2>6 DEF Leads
  <2> QED BY <1>1, <1>3, <2>4, <2>7 DEF t
<1> QED BY <1>4, <1>5

\* Calls that leave the subject and its actions alone, whoever makes them.
Still ==
    {c \in Calls : /\ c.op \in {"patch", "launch", "get", "power", "await"}
                   /\ c.op = "patch" => c.patch.state = KeepState /\ c.patch.css = "keep"
                   /\ c.op = "get" => c.act # "provision"
                   /\ c.op \in {"power", "await"} => c.act \in Power /\ c.onError = "ignore"}

LEMMA StillCall ==
    ASSUME NEW r, NEW w, NEW x \in Standings, NEW c \in Still
    PROVE  Goes(r, x, w, c) /\ Effect(x, c) = x
<1>1. Goes(r, x, w, c)
  BY DEF Still, Goes, Looks
<1>2. Effect(x, c) = Standing(x.state, x.css, x.acts)
  BY DEF Still, Effect
<1>3. x = Standing(x.state, x.css, x.acts)
  BY DEF Standing, Standings
<1> QED BY <1>1, <1>2, <1>3

\* They may come ahead of others.
LEMMA LeadsThrough ==
    ASSUME NEW r, NEW w, NEW x, NEW p \in Seq(Still), NEW s, Leads(r, s, x, w)
    PROVE  Leads(r, p \o s, x, w)
<1> DEFINE m == Len(p)
           n == Len(s)
           t == p \o s
<1>1. s \in Seq(Calls) /\ n \in Nat /\ n > 0 /\ p \in Seq(Calls) /\ m \in Nat /\ x \in Standings
  <2>1. p \in Seq(Calls)
    BY SeqMore DEF Still
  <2> QED BY <2>1, LeadsHead DEF Leads
<1>2. /\ t \in Seq(Calls) /\ Len(t) = m + n
      /\ \A i \in 1..m : t[i] = p[i] /\ p[i] \in Still
      /\ \A i \in 1..n : t[m + i] = s[i]
  <2>1. t \in Seq(Calls) /\ Len(t) = m + n
    BY <1>1
  <2>2. \A i \in 1..m : t[i] = p[i] /\ p[i] \in Still
    BY <1>1
  <2>3. \A i \in 1..n : t[m + i] = s[i]
    BY <1>1
  <2> QED BY <2>1, <2>2, <2>3
<1>3. PICK f \in [1..n -> Standings] :
          /\ f[1] = x
          /\ \A i \in 1..(n - 1) : Goes(r, f[i], w, s[i]) /\ f[i + 1] = Effect(f[i], s[i])
          /\ Closes(r, f[n], w, s[n])
  BY DEF Leads
<1> DEFINE g == [i \in 1..(m + n) |-> IF i <= m THEN x ELSE f[i - m]]
<1> HIDE DEF m, n, t
<1>4. /\ g \in [1..(m + n) -> Standings]
      /\ \A i \in 1..m : g[i] = x
      /\ \A i \in 1..n : g[m + i] = f[i]
  <2>1. \A i \in 1..(m + n) : i > m => i - m \in 1..n
    BY <1>1
  <2>2. \A i \in 1..n : m + i \in 1..(m + n) /\ ~(m + i <= m) /\ (m + i) - m = i
    BY <1>1
  <2> QED BY <1>1, <2>1, <2>2
<1> HIDE DEF g
<1>5. ASSUME NEW i \in 1..((m + n) - 1) PROVE Goes(r, g[i], w, t[i]) /\ g[i + 1] = Effect(g[i], t[i])
  <2>0. ASSUME NEW k \in 1..m PROVE Goes(r, x, w, t[k]) /\ Effect(x, t[k]) = x
    <3>1. t[k] \in Still
      BY <1>2
    <3> QED BY <1>1, <3>1, StillCall
  <2>1. CASE i < m
    <3>1. i \in 1..m /\ i + 1 \in 1..m
      BY <1>1, <2>1
    <3>2. g[i] = x /\ g[i + 1] = x
      BY <1>4, <3>1
    <3> QED BY <2>0, <3>1, <3>2
  <2>2. CASE i = m
    <3>1. i \in 1..m /\ 1 \in 1..n
      BY <1>1, <2>2
    <3>2. g[i] = x /\ g[i + 1] = x
      BY <1>3, <1>4, <2>2, <3>1
    <3> QED BY <2>0, <3>1, <3>2
  <2>3. CASE i > m
    <3> DEFINE j == i - m
    <3>1. j \in 1..(n - 1) /\ j \in 1..n /\ j + 1 \in 1..n /\ i = m + j /\ i + 1 = m + (j + 1)
      BY <1>1, <2>3
    <3> HIDE DEF j
    <3>2. g[i] = f[j] /\ t[i] = s[j]
      BY <1>2, <1>4, <3>1
    <3>3. g[i + 1] = f[j + 1]
      BY <1>4, <3>1
    <3>4. Goes(r, f[j], w, s[j]) /\ f[j + 1] = Effect(f[j], s[j])
      BY <1>3, <3>1
    <3> QED BY <3>2, <3>3, <3>4
  <2> QED BY <1>1, <2>1, <2>2, <2>3
<1>6. Closes(r, g[m + n], w, t[m + n])
  <2>1. n \in 1..n
    BY <1>1
  <2> QED BY <1>2, <1>3, <1>4, <2>1
<1>7. g[1] = x
  <2>1. CASE m = 0
    BY <1>1, <1>3, <1>4, <2>1
  <2>2. CASE m # 0
    BY <1>1, <1>4, <2>2
  <2> QED BY <2>1, <2>2
<1>8. t # <<>>
  BY <1>1, <1>2
<1>9. Leads(r, t, x, w)
  BY <1>2, <1>4, <1>5, <1>6, <1>7, <1>8 DEF Leads
<1> QED BY <1>9 DEF t

\* Rest depends on what may be relied on in one direction only.
More(w, v) == (w.asked => v.asked) /\ (w.failed => v.failed)

LEMMA RestMore == ASSUME NEW x, NEW w, NEW v, Rest(x, w), More(w, v) PROVE Rest(x, v)
BY DEF Rest, StateRests, CheckRests, More

\* So do the calls.
LEMMA LeadsMore ==
    ASSUME NEW r, NEW s, NEW x, NEW w, NEW v, Leads(r, s, x, w), More(w, v) PROVE Leads(r, s, x, v)
<1>1. ASSUME NEW y, NEW d, MayPost(r, y, w, d) PROVE MayPost(r, y, v, d)
  BY <1>1, RestMore DEF MayPost
<1>2. ASSUME NEW y, NEW c, Goes(r, y, w, c) PROVE Goes(r, y, v, c)
  BY <1>1, <1>2, RestMore DEF Goes
<1>3. ASSUME NEW y, NEW c, Closes(r, y, w, c) PROVE Closes(r, y, v, c)
  BY <1>1, <1>3, RestMore DEF Closes
<1> QED BY <1>2, <1>3 DEF Leads

(***************************************************************************)
(* States and rest.                                                        *)
(***************************************************************************)
\* The states a subject may rest in whatever actions it has.
Restful == {NoState, Started, Stopped} \cup {Failure(a, f) : a \in Actions, f \in FailureStatuses}

LEMMA StatesApart ==
    /\ Restful \subseteq SubjectStates /\ Provisional \subseteq SubjectStates
    /\ \A st \in Restful : st \notin Provisional /\ \A a \in Actions : st # Pending(a) /\ st # Running(a)
    /\ \A a \in Power : Pending(a) \notin Provisional /\ Running(a) \notin Provisional
    /\ \A st \in Provisional : \A a \in Actions : st \in {Pending(a), Running(a)} => a = "provision"
    /\ \A a, b : (Pending(a) = Pending(b) => a = b) /\ (Running(a) = Running(b) => a = b) /\ Pending(a) # Running(b)
    /\ \A a \in Actions : Pending(a) \in SubjectStates /\ Running(a) \in SubjectStates
    /\ KeepState \notin SubjectStates
<1>1. Restful \subseteq SubjectStates /\ Provisional \subseteq SubjectStates
  BY DEF Restful, Provisional, SubjectStates, Failure, Pending, Running, Actions
<1>2. \A st \in Restful : st \notin Provisional /\ \A a \in Actions : st # Pending(a) /\ st # Running(a)
  BY DEF Restful, Provisional, NoState, Started, Stopped, Queued, Failure, Pending, Running, Actions, FailureStatuses
<1>3. \A a \in Power : Pending(a) \notin Provisional /\ Running(a) \notin Provisional
  BY DEF Provisional, Queued, Pending, Running, Power
<1>4. \A st \in Provisional : \A a \in Actions : st \in {Pending(a), Running(a)} => a = "provision"
  BY DEF Provisional, Queued, Pending, Running
<1>5. \A a, b : (Pending(a) = Pending(b) => a = b) /\ (Running(a) = Running(b) => a = b) /\ Pending(a) # Running(b)
  BY DEF Pending, Running
<1>6. /\ \A a \in Actions : Pending(a) \in SubjectStates /\ Running(a) \in SubjectStates
      /\ KeepState \notin SubjectStates
  BY DEF SubjectStates, Pending, Running, KeepState, NoState, Started, Stopped, Queued, DestroyComplete, Actions
<1> QED BY <1>1, <1>2, <1>3, <1>4, <1>5, <1>6

\* The ways to be at rest.
LEMMA RestSettled ==
    ASSUME NEW st \in Restful, NEW ac, NEW failed,
           ac["destroy"] = 0, ac["update"] = 0, ac["provision"] = 0
    PROVE  StateRests(st, ac, failed)
<1>1. \A a \in Actions : st # Pending(a) /\ st # Running(a)
  BY StatesApart
<1>2. Power \subseteq Actions
  BY DEF Power, Actions
<1> QED BY <1>1, <1>2 DEF StateRests

LEMMA RestPower ==
    ASSUME NEW a \in Power, NEW st \in {Pending(a), Running(a)}, NEW ac, NEW failed,
           ac["destroy"] = 0, ac["update"] = 0, ac["provision"] = 0,
           ac[a] > 0, st = Running(a) => a \notin Disabled
    PROVE  StateRests(st, ac, failed)
<1>1. \A b : st \in {Pending(b), Running(b)} => a = b
  BY StatesApart
<1>2. a \in {"provision", "start", "stop"}
  BY DEF Power
<1> QED BY <1>1, <1>2 DEF StateRests

LEMMA RestProvision ==
    ASSUME NEW st \in Provisional, NEW ac, NEW failed, ac["destroy"] = 0, ac["update"] = 0,
           ac["provision"] = 1, ac["start"] = 0, ac["stop"] = 0
    PROVE  StateRests(st, ac, failed)
<1>1. \A a \in Actions : st \in {Pending(a), Running(a)} => a = "provision"
  BY StatesApart
<1>2. \A a \in Power : st # Running(a)
  BY StatesApart
<1> QED BY <1>1, <1>2 DEF StateRests

LEMMA RestSame ==
    ASSUME NEW st, NEW ac, NEW bc, NEW failed, StateRests(st, ac, failed),
           \A a \in Actions \ {"status"} : bc[a] = ac[a]
    PROVE  StateRests(st, bc, failed)
<1>1. bc["destroy"] = ac["destroy"] /\ bc["update"] = ac["update"] /\ bc["provision"] = ac["provision"]
      /\ bc["start"] = ac["start"] /\ bc["stop"] = ac["stop"]
  BY DEF Actions
<1> QED BY <1>1 DEF StateRests, Actions

\* What is known of a standing at rest.
LEMMA RestFacts ==
    ASSUME NEW x \in Standings, NEW w, Rest(x, w)
    PROVE  /\ x.acts \in [Actions -> Nat]
           /\ x.acts["destroy"] = 0 /\ x.acts["update"] = 0
           /\ x.acts["provision"] > 0 => x.acts["provision"] = 1 /\ x.state \in Provisional
                                         /\ x.acts["start"] = 0 /\ x.acts["stop"] = 0
           /\ x.state \notin Provisional => x.acts["provision"] = 0
           /\ x.acts["provision"] \in {0, 1} /\ x.acts["status"] \in {0, 1}
           /\ x.acts["status"] = (IF x.css \in {"pending", "running"} THEN 1 ELSE 0)
           /\ x.css = "pending" => w.asked
<1>1. x.acts \in [Actions -> Nat]
  BY LifecycleAssumption DEF Standings
<1> QED BY <1>1 DEF Rest, StateRests, CheckRests, Actions

\* A result that is posted, in terms of the parts of what it leaves.
LEMMA TakenIs ==
    ASSUME NEW ac \in [Actions -> Nat], NEW a
    PROVE  /\ Taken(ac, a) \in [Actions -> Nat]
           /\ \A b \in Actions : b # a => Taken(ac, a)[b] = ac[b]
           /\ \A b \in Actions : Taken(ac, a)[b] <= ac[b]
           /\ a \in Actions => Taken(ac, a)[a] = (IF ac[a] > 0 THEN ac[a] - 1 ELSE 0)
BY DEF Taken

LEMMA PostingIs ==
    ASSUME NEW r, NEW x, NEW w, NEW d \in {"none", "finish", "continue"},
           d = "none" /\ r.kind = "action" => x.acts[r.name] = 0,
           NEW bc, bc = IF d = "finish" THEN Taken(x.acts, r.name) ELSE x.acts,
           StateRests(x.state, bc, w.failed), CheckRests(x.css, bc["status"], w.asked)
    PROVE  MayPost(r, x, w, d)
BY DEF MayPost, Posting, Rest, Standing

\* The result alone.
LEMMA LeadsPost ==
    ASSUME NEW r, NEW w, NEW x \in Standings, NEW d, MayPost(r, x, w, d)
    PROVE  Leads(r, Post(d), x, w)
<1> DEFINE c == Call("post", d, "fail")
<1>1. IsCall(c, "post", d, "fail")
  <2>1. d \in Actions \cup {"none", "all", "finish", "continue", "delete"}
    BY DEF MayPost
  <2> QED BY <2>1, CallForm DEF Ops, OnErrors
<1> HIDE DEF c
<1>2. c \in Calls /\ Closes(r, x, w, c)
  BY <1>1 DEF IsCall, Closes
<1>3. Leads(r, <<c>>, x, w)
  BY <1>2, LeadsOne
<1> QED BY <1>3 DEF Post, c

\* A move of the subject ahead of other calls.
Shifted(x, st, cs) ==
    Standing(IF st = KeepState THEN x.state ELSE st, IF cs = "keep" THEN x.css ELSE cs, x.acts)

LEMMA LeadsMove ==
    ASSUME NEW r, NEW w, NEW x \in Standings, NEW p, NEW st, NEW cs, HasMove(p, st, cs), NEW f \in OnErrors,
           NEW s, Leads(r, s, Shifted(x, st, cs), w)
    PROVE  /\ Leads(r, <<Patch(p)>> \o s, x, w) /\ Leads(r, <<SkipPatch(p)>> \o s, x, w)
           /\ Leads(r, <<[SkipPatch(p) EXCEPT !.onError = f]>> \o s, x, w)
<1>1. ASSUME NEW c, NEW e, IsMove(c, st, cs, e) PROVE Leads(r, <<c>> \o s, x, w)
  <2>1. c \in Calls /\ Goes(r, x, w, c)
    BY <1>1 DEF IsMove, Goes, Looks
  <2>2. Effect(x, c) = Shifted(x, st, cs)
    BY <1>1 DEF IsMove, Effect, Shifted
  <2> QED BY <2>1, <2>2, LeadsCons
<1>2. /\ IsMove(Patch(p), st, cs, "fail") /\ IsMove(SkipPatch(p), st, cs, "fail")
      /\ IsMove([SkipPatch(p) EXCEPT !.onError = f], st, cs, f)
  BY MoveForm
<1> HIDE DEF Patch, SkipPatch
<1> QED BY <1>1, <1>2

\* Where a move leads.
LEMMA ShiftedIs ==
    ASSUME NEW x \in Standings, NEW st \in SubjectStates, NEW cs \in JobStatuses \cup {"none", "pending", "running"}
    PROVE  /\ Shifted(x, st, "keep") = Standing(st, x.css, x.acts)
           /\ Shifted(x, KeepState, cs) = Standing(x.state, cs, x.acts)
           /\ Shifted(x, KeepState, "keep") = x
           /\ Standing(st, x.css, x.acts) \in Standings
           /\ Standing(x.state, cs, x.acts) \in Standings
<1>1. st # KeepState /\ cs # "keep"
  BY StatesApart DEF JobStatuses, FailureStatuses
<1>2. x = Standing(x.state, x.css, x.acts)
  BY DEF Standing, Standings
<1> QED BY <1>1, <1>2 DEF Shifted, Standing, Standings

\* The subject settles, and the action that settled it is finished or goes on.
LEMMA MayPostSettled ==
    ASSUME NEW r, NEW w, NEW x \in Standings, Rest(x, w), NEW st \in Restful, NEW d \in {"finish", "continue"},
           r.name # "status", (d = "finish" /\ r.name = "provision") \/ x.acts["provision"] = 0
    PROVE  MayPost(r, Standing(st, x.css, x.acts), w, d)
<1> DEFINE y == Standing(st, x.css, x.acts)
           bc == IF d = "finish" THEN Taken(x.acts, r.name) ELSE x.acts
<1>1. /\ x.acts \in [Actions -> Nat] /\ x.acts["destroy"] = 0 /\ x.acts["update"] = 0
      /\ x.acts["provision"] \in {0, 1}
  BY RestFacts
<1>2. bc["destroy"] = 0 /\ bc["update"] = 0 /\ bc["provision"] = 0 /\ bc["status"] = x.acts["status"]
  <2>1. {"destroy", "update", "provision", "status"} \subseteq Actions
    BY DEF Actions
  <2>2. CASE d = "finish"
    <3> DEFINE t == Taken(x.acts, r.name)
    <3>1. /\ \A b \in Actions : b # r.name => t[b] = x.acts[b]
          /\ \A b \in Actions : t[b] <= x.acts[b]
          /\ t \in [Actions -> Nat]
          /\ r.name \in Actions => t[r.name] = (IF x.acts[r.name] > 0 THEN x.acts[r.name] - 1 ELSE 0)
      BY <1>1, TakenIs
    <3> HIDE DEF t
    <3>2. t["destroy"] = 0 /\ t["update"] = 0 /\ t["provision"] = 0 /\ t["status"] = x.acts["status"]
      BY <1>1, <2>1, <3>1
    <3> QED BY <2>2, <3>2 DEF t
  <2>3. CASE d # "finish"
    BY <1>1, <2>3
  <2> QED BY <2>2, <2>3
<1>3. CheckRests(x.css, x.acts["status"], w.asked)
  BY DEF Rest
<1>4. y.state = st /\ y.css = x.css /\ y.acts = x.acts
  BY DEF Standing
<1> HIDE DEF y
<1>5. bc = IF d = "finish" THEN Taken(y.acts, r.name) ELSE y.acts
  BY <1>4
<1> HIDE DEF bc
<1>6. StateRests(y.state, bc, w.failed) /\ CheckRests(y.css, bc["status"], w.asked)
  BY <1>2, <1>3, <1>4, RestSettled
<1>7. MayPost(r, y, w, d)
  BY <1>5, <1>6, PostingIs
<1> QED BY <1>7 DEF y

LEMMA LeadsSettled ==
    ASSUME NEW r, NEW w, NEW x \in Standings, Rest(x, w), NEW st \in Restful, NEW d \in {"finish", "continue"},
           r.name # "status", (d = "finish" /\ r.name = "provision") \/ x.acts["provision"] = 0,
           NEW p, HasMove(p, st, "keep")
    PROVE  Leads(r, <<Patch(p)>> \o Post(d), x, w) /\ Leads(r, <<SkipPatch(p)>> \o Post(d), x, w)
<1>1. "keep" \notin JobStatuses \cup {"none", "pending", "running"} /\ "fail" \in OnErrors
      /\ "none" \in JobStatuses \cup {"none", "pending", "running"} /\ st \in SubjectStates
  BY StatesApart DEF OnErrors, JobStatuses, FailureStatuses
<1>2. /\ Shifted(x, st, "keep") = Standing(st, x.css, x.acts)
      /\ Standing(st, x.css, x.acts) \in Standings
  BY <1>1, ShiftedIs
<1>3. Leads(r, Post(d), Shifted(x, st, "keep"), w)
  BY <1>2, MayPostSettled, LeadsPost
<1> QED BY <1>1, <1>3, LeadsMove

(***************************************************************************)
(* The provision.                                                          *)
(***************************************************************************)
\* A provision that has its action.
Provides(r, x, w) ==
    r = ActionRun("provision") /\ x \in Standings /\ Rest(x, w) /\ x.acts["provision"] > 0

LEMMA ProvidesOn ==
    ASSUME NEW r, NEW x, NEW w, Provides(r, x, w), NEW st \in Provisional
    PROVE  /\ r.kind = "action" /\ r.name = "provision"
           /\ Shifted(x, st, "keep") = Standing(st, x.css, x.acts)
           /\ Provides(r, Standing(st, x.css, x.acts), w)
           /\ Leads(r, Post("continue"), Standing(st, x.css, x.acts), w)
<1> DEFINE y == Standing(st, x.css, x.acts)
<1>1. x \in Standings /\ Rest(x, w) /\ r = ActionRun("provision") /\ st \in SubjectStates
      /\ "none" \in JobStatuses \cup {"none", "pending", "running"}
  BY StatesApart DEF Provides
<1>2. /\ x.acts["destroy"] = 0 /\ x.acts["update"] = 0 /\ x.acts["provision"] = 1
      /\ x.acts["start"] = 0 /\ x.acts["stop"] = 0
  BY <1>1, RestFacts DEF Provides
<1>3. y.state = st /\ y.css = x.css /\ y.acts = x.acts
  BY DEF Standing
<1>4. y \in Standings /\ Shifted(x, st, "keep") = y
  BY <1>1, ShiftedIs
<1>5. Rest(y, w)
  <2>1. StateRests(st, x.acts, w.failed)
    BY <1>2, RestProvision
  <2> HIDE DEF y
  <2> QED BY <1>1, <1>3, <2>1 DEF Rest
<1> HIDE DEF y
<1>6. MayPost(r, y, w, "continue")
  BY <1>5, PostingIs DEF Rest
<1>7. r.kind = "action" /\ r.name = "provision"
  BY <1>1 DEF ActionRun
<1>8. Leads(r, Post("continue"), y, w)
  BY <1>4, <1>6, LeadsPost
<1> QED BY <1>1, <1>2, <1>3, <1>4, <1>5, <1>7, <1>8 DEF Provides, y

\* It ends.
LEMMA ProvisionEnds ==
    ASSUME NEW r, NEW w, NEW x \in Standings, Rest(x, w), r.name = "provision"
    PROVE  /\ Leads(r, handleProvisionError, x, w) /\ Leads(r, handleProvisionFailed, x, w)
           /\ Leads(r, handleProvisionCanceled, x, w) /\ Leads(r, handleProvisionComplete, x, w)
           /\ Leads(r, completeProvisionNoDeployer, x, w)
<1>1. \A f \in FailureStatuses : Failure("provision", f) \in Restful
  BY ActionNames DEF Restful
<1>2. Started \in Restful /\ Started \in SubjectStates \cup {KeepState}
      /\ \A f \in FailureStatuses : Failure("provision", f) \in SubjectStates \cup {KeepState}
  BY <1>1, StatesApart DEF Restful
<1>3. {"canceled", "error", "failed"} = FailureStatuses /\ "finish" \in {"finish", "continue"}
      /\ r.name # "status" /\ "forensics" \in {"keep", "forensics"}
  BY DEF FailureStatuses
<1>4. ASSUME NEW st \in Restful, NEW p, HasMove(p, st, "keep")
      PROVE  Leads(r, <<Patch(p)>> \o Post("finish"), x, w) /\ Leads(r, <<SkipPatch(p)>> \o Post("finish"), x, w)
  BY <1>3, <1>4, LeadsSettled
<1>5. /\ HasMove(Ends("provision", Failure("provision", "error")), Failure("provision", "error"), "keep")
      /\ HasMove([Ends("provision", Failure("provision", "failed")) EXCEPT !.vars = "forensics"],
                 Failure("provision", "failed"), "keep")
      /\ HasMove(Ends("provision", Failure("provision", "canceled")), Failure("provision", "canceled"), "keep")
      /\ HasMove(Ends("provision", Started), Started, "keep")
      /\ HasMove([NoPatch EXCEPT !.state = Started], Started, "keep")
  BY <1>2, <1>3, ActionNames, Moved
<1>6. Leads(r, handleProvisionError, x, w)
  BY <1>1, <1>3, <1>4, <1>5 DEF handleProvisionError
<1>7. Leads(r, handleProvisionFailed, x, w)
  BY <1>1, <1>3, <1>4, <1>5 DEF handleProvisionFailed
<1>8. Leads(r, handleProvisionCanceled, x, w)
  BY <1>1, <1>3, <1>4, <1>5 DEF handleProvisionCanceled
<1>9. Leads(r, handleProvisionComplete, x, w)
  BY <1>2, <1>4, <1>5 DEF handleProvisionComplete
<1>10. Leads(r, completeProvisionNoDeployer, x, w)
  BY <1>2, <1>4, <1>5 DEF completeProvisionNoDeployer
<1> QED BY <1>6, <1>7, <1>8, <1>9, <1>10

\* Notes, launches and look-ups are still.
LEMMA StillCalls ==
    /\ \A p \in Patches, f \in OnErrors :
          HasMove(p, KeepState, "keep") =>
             /\ <<Patch(p)>> \in Seq(Still) /\ <<SkipPatch(p)>> \in Seq(Still)
             /\ <<[SkipPatch(p) EXCEPT !.onError = f]>> \in Seq(Still)
    /\ \A a \in Actions, f \in OnErrors : <<Call("launch", a, f)>> \in Seq(Still)
    /\ \A a \in Actions \ {"provision"}, f \in OnErrors : <<Call("get", a, f)>> \in Seq(Still)
    /\ \A a \in Power : <<Call("await", a, "ignore")>> \in Seq(Still)
    /\ <<>> \in Seq(Still)
<1>1. ASSUME NEW p \in Patches, NEW f \in OnErrors, HasMove(p, KeepState, "keep")
      PROVE  /\ <<Patch(p)>> \in Seq(Still) /\ <<SkipPatch(p)>> \in Seq(Still)
             /\ <<[SkipPatch(p) EXCEPT !.onError = f]>> \in Seq(Still)
  <2>1. ASSUME NEW c, NEW e, IsMove(c, KeepState, "keep", e) PROVE <<c>> \in Seq(Still)
    <3>1. c \in Still
      BY <2>1 DEF IsMove, Still
    <3> QED BY <3>1, Singleton
  <2>2. /\ IsMove(Patch(p), KeepState, "keep", "fail") /\ IsMove(SkipPatch(p), KeepState, "keep", "fail")
        /\ IsMove([SkipPatch(p) EXCEPT !.onError = f], KeepState, "keep", f)
    BY <1>1, MoveForm
  <2> HIDE DEF Patch, SkipPatch
  <2> QED BY <2>1, <2>2
<1>2. ASSUME NEW op \in {"launch", "get", "await"}, NEW a \in Actions, NEW f \in OnErrors,
             op = "get" => a # "provision", op = "await" => a \in Power /\ f = "ignore"
      PROVE  <<Call(op, a, f)>> \in Seq(Still)
  <2> DEFINE c == Call(op, a, f)
  <2>1. IsCall(c, op, a, f)
    BY CallForm DEF Ops
  <2> HIDE DEF c
  <2>2. c \in Still
    BY <1>2, <2>1 DEF IsCall, Still
  <2>3. <<c>> \in Seq(Still)
    BY <2>2, Singleton
  <2> QED BY <2>3 DEF c
<1>3. Power \subseteq Actions /\ "ignore" \in OnErrors
  BY DEF Power, Actions, OnErrors
<1> QED BY <1>1, <1>2, <1>3

\* A job is launched, recorded and polled by a later run.
LEMMA LeadsLaunch ==
    ASSUME NEW r, NEW w, NEW x \in Standings, NEW a \in Actions, NEW f \in OnErrors, NEW p \in Seq(Still),
           Leads(r, Post("continue"),
                 Shifted(x, IF a = "status" THEN KeepState ELSE Running(a),
                            IF a = "status" THEN "running" ELSE "keep"), w)
    PROVE  /\ Leads(r, launchTowerJob(a, f) \o Post("continue"), x, w)
           /\ Leads(r, (p \o launchTowerJob(a, f)) \o Post("continue"), x, w)
<1> DEFINE st == IF a = "status" THEN KeepState ELSE Running(a)
           cs == IF a = "status" THEN "running" ELSE "keep"
           c == Call("launch", a, f)
           q == Post("continue")
           l == launchTowerJob(a, f)
<1>1. PICK d \in Calls : l = <<c>> \o <<d>> /\ IsRecord(d, a, f)
  BY LaunchForm
<1>2. Goes(r, x, w, d) /\ Effect(x, d) = Shifted(x, st, cs)
  BY <1>1 DEF IsRecord, Goes, Looks, Effect, Shifted
<1>3. Leads(r, q, Shifted(x, st, cs), w)
  OBVIOUS
<1> HIDE DEF st, cs, q
<1>4. Leads(r, <<d>> \o q, x, w)
  BY <1>2, <1>3, LeadsCons
<1>5. <<c>> \in Seq(Still)
  BY StillCalls
<1> HIDE DEF c, l
<1>6. Leads(r, <<c>> \o (<<d>> \o q), x, w)
  BY <1>4, <1>5, LeadsThrough
<1>7. /\ q \in Seq(Calls) /\ <<d>> \in Seq(Calls) /\ <<c>> \in Seq(Calls) /\ p \in Seq(Calls)
      /\ <<c>> \o <<d>> \in Seq(Calls)
  <2>1. Still \subseteq Calls
    BY DEF Still
  <2>2. q \in Seq(Calls)
    BY <1>3, LeadsHead
  <2>3. <<c>> \in Seq(Calls) /\ p \in Seq(Calls)
    BY <1>5, <2>1, SeqMore
  <2>4. <<d>> \in Seq(Calls)
    BY Singleton
  <2> QED BY <2>2, <2>3, <2>4, Concat
<1>8. l \o q = <<c>> \o (<<d>> \o q)
  BY <1>1, <1>7, ConcatAssociative
<1>9. Leads(r, p \o (l \o q), x, w)
  BY <1>6, <1>8, LeadsThrough
<1>10. p \o (l \o q) = (p \o l) \o q
  BY <1>1, <1>7, ConcatAssociative
<1> QED BY <1>6, <1>8, <1>9, <1>10 DEF l, q

\* Once the placement is there.
LEMMA LeadsLaunchProvision ==
    ASSUME Equipped, NEW r, NEW x, NEW w, Provides(r, x, w) PROVE Leads(r, launchProvision, x, w)
<1>1. x \in Standings /\ Rest(x, w)
  BY DEF Provides
<1>2. CASE "provision" \notin Disabled
  <2>1. Running("provision") \in Provisional
    BY <1>2 DEF Provisional
  <2>2. Leads(r, Post("continue"), Shifted(x, Running("provision"), "keep"), w)
    BY <2>1, ProvidesOn
  <2>3. "provisionError" \in OnErrors /\ "provision" # "status" /\ <<>> \in Seq(Still)
    BY DEF OnErrors
  <2>4. Leads(r, launchTowerJob("provision", "provisionError") \o Post("continue"), x, w)
    BY <1>1, <2>2, <2>3, ActionNames, LeadsLaunch
  <2> QED BY <1>2, <2>4 DEF launchProvision
<1>3. CASE "provision" \in Disabled
  <2>1. SandboxInUse
    BY <1>3 DEF Equipped
  <2>2. r.name = "provision"
    BY DEF Provides, ActionRun
  <2> QED BY <1>1, <1>3, <2>1, <2>2, ProvisionEnds DEF launchProvision
<1> QED BY <1>2, <1>3

\* A call that asks for the placement.
LEMMA LeadsLooking ==
    ASSUME NEW r, NEW x, NEW w, Provides(r, x, w), NEW op \in {"get", "book", "reget"}, NEW s, Leads(r, s, x, w)
    PROVE  Leads(r, <<Call(op, "provision", "provisionError")>> \o s, x, w)
<1> DEFINE c == Call(op, "provision", "provisionError")
<1>1. IsCall(c, op, "provision", "provisionError")
  BY ActionNames, CallForm DEF Ops, OnErrors
<1> HIDE DEF c
<1>2. c \in Calls /\ Goes(r, x, w, c)
  BY <1>1 DEF IsCall, Goes, Provides
<1>3. x \in Standings /\ Effect(x, c) = Standing(x.state, x.css, x.acts)
  BY <1>1 DEF IsCall, Effect, Provides
<1>4. Effect(x, c) = x
  BY <1>3 DEF Standing, Standings
<1>5. Leads(r, <<c>> \o s, x, w)
  BY <1>2, <1>3, <1>4, LeadsCons
<1> QED BY <1>5 DEF c

LEMMA LeadsRunProvision ==
    ASSUME Equipped, NEW r, NEW x, NEW w, Provides(r, x, w), NEW s PROVE Leads(r, runProvision(s), x, w)
<1> DEFINE p == IF "provision" \in s.started THEN <<>> ELSE <<Patch([NoPatch EXCEPT !.starts = "provision"])>>
           q == CASE ~SandboxInUse -> launchProvision
                  [] SandboxInUse /\ s.uuid /\ s.token ->
                        <<Call("get", "provision", "provisionError")>> \o launchProvision
                  [] OTHER -> handleProvisionError
<1>1. p \in Seq(Still)
  <2> DEFINE n == [NoPatch EXCEPT !.starts = "provision"]
  <2>1. HasMove(n, KeepState, "keep")
    BY ActionNames, Moved
  <2> HIDE DEF n
  <2>2. <<Patch(n)>> \in Seq(Still) /\ <<>> \in Seq(Still)
    BY <2>1, StillCalls DEF HasMove, OnErrors
  <2> QED BY <2>2 DEF n
<1>2. Leads(r, launchProvision, x, w)
  BY LeadsLaunchProvision
<1>3. Leads(r, <<Call("get", "provision", "provisionError")>> \o launchProvision, x, w)
  BY <1>2, LeadsLooking
<1>4. Leads(r, handleProvisionError, x, w)
  BY ProvisionEnds DEF Provides, ActionRun
<1>5. Leads(r, q, x, w)
  BY <1>2, <1>3, <1>4
<1> HIDE DEF p, q
<1>6. Leads(r, p \o q, x, w)
  BY <1>1, <1>5, LeadsThrough
<1> QED BY <1>6 DEF p, q, runProvision

\* The answers about the placement.
LEMMA LeadsQueued ==
    ASSUME NEW r, NEW x, NEW w, Provides(r, x, w) PROVE Leads(r, transitionToQueued, x, w)
<1>1. Queued \in Provisional /\ Queued \in SubjectStates \cup {KeepState} /\ "fail" \in OnErrors
  BY DEF Provisional, SubjectStates, OnErrors
<1>2. HasMove([NoPatch EXCEPT !.state = Queued], Queued, "keep")
  BY <1>1, ActionNames, Moved
<1>3. Leads(r, Post("continue"), Shifted(x, Queued, "keep"), w) /\ x \in Standings
  BY <1>1, ProvidesOn DEF Provides
<1> DEFINE p == [NoPatch EXCEPT !.state = Queued]
<1> HIDE DEF p
<1>4. HasMove(p, Queued, "keep")
  BY <1>2 DEF p
<1>5. Leads(r, <<SkipPatch(p)>> \o Post("continue"), x, w)
  BY <1>1, <1>3, <1>4, LeadsMove
<1> QED BY <1>5 DEF transitionToQueued, p

LEMMA LeadsPlaced ==
    ASSUME Equipped, NEW r, NEW x, NEW w, Provides(r, x, w), NEW s, Leads(r, s, x, w),
           NEW status \in PlacementStatuses
    PROVE  /\ Leads(r, placedOrNot(status, s), x, w)
           /\ Leads(r, bookedAgain(status, s), x, w)
           /\ status # "absent" => Leads(r, booked(status, s), x, w)
           /\ Leads(r, booked("refused", s), x, w)
           /\ SandboxInUse /\ w.failed => Leads(r, booked("invalid", s), x, w)
<1>1. Leads(r, handleProvisionError, x, w) /\ Leads(r, transitionToQueued, x, w)
  BY LeadsQueued, ProvisionEnds DEF Provides, ActionRun
<1>2. Leads(r, updateSubjectSandboxVars("provisionError") \o s, x, w)
  <2> DEFINE n == [NoPatch EXCEPT !.vars = "same"]
             v == updateSubjectSandboxVars("provisionError")
  <2>1. HasMove(n, KeepState, "keep")
    BY ActionNames, Moved
  <2> HIDE DEF n
  <2>2. <<[SkipPatch(n) EXCEPT !.onError = "provisionError"]>> \in Seq(Still)
    BY <2>1, StillCalls DEF HasMove, OnErrors
  <2>3. v \in Seq(Still)
    BY <2>2 DEF updateSubjectSandboxVars, n
  <2> HIDE DEF v
  <2>4. Leads(r, v \o s, x, w)
    BY <2>3, LeadsThrough
  <2> QED BY <2>4 DEF v
<1>3. /\ Leads(r, <<Call("book", "provision", "provisionError")>> \o s, x, w)
      /\ Leads(r, <<Call("reget", "provision", "provisionError")>> \o s, x, w)
  BY LeadsLooking
<1>4. status \in {"queued", "initializing", "absent", "success", "error"}
  BY DEF PlacementStatuses, NotReady
<1>5. Leads(r, placedOrNot(status, s), x, w)
  BY <1>1, <1>2, <1>3, <1>4 DEF placedOrNot, NotReady
<1>6. Leads(r, bookedAgain(status, s), x, w)
  BY <1>5 DEF bookedAgain
<1>7. ASSUME status # "absent" PROVE Leads(r, booked(status, s), x, w)
  <2>1. CASE status = "success"
    BY <2>1 DEF booked
  <2>2. CASE status = "queued"
    BY <1>1, <2>2 DEF booked
  <2>3. CASE status \in {"initializing", "error"}
    <3> DEFINE t == <<Call("reget", "provision", "provisionError")>> \o s
    <3>1. booked(status, s) = t
      BY <2>3 DEF booked
    <3> QED BY <1>3, <3>1
  <2> QED BY <1>4, <1>7, <2>1, <2>2, <2>3
<1>8. Leads(r, booked("refused", s), x, w)
  BY <1>1 DEF booked
<1>9. ASSUME SandboxInUse, w.failed PROVE Leads(r, booked("invalid", s), x, w)
  <2>1. x \in Standings /\ Rest(x, w) /\ x.acts["provision"] > 0 /\ r.name = "provision" /\ r.kind = "action"
    BY DEF Provides, ActionRun
  <2>2. /\ x.acts \in [Actions -> Nat] /\ x.acts["destroy"] = 0 /\ x.acts["update"] = 0
        /\ x.acts["provision"] = 1 /\ x.state \in Provisional
    BY <2>1, RestFacts
  <2> DEFINE bc == Taken(x.acts, "provision")
  <2>0. /\ \A b \in Actions : b # "provision" => bc[b] = x.acts[b]
        /\ bc["provision"] = (IF x.acts["provision"] > 0 THEN x.acts["provision"] - 1 ELSE 0)
    BY <2>2, ActionNames, TakenIs
  <2> HIDE DEF bc
  <2>3. bc["destroy"] = 0 /\ bc["update"] = 0 /\ bc["provision"] = 0 /\ bc["status"] = x.acts["status"]
    BY <2>0, <2>2 DEF Actions
  <2>4. StateRests(x.state, bc, w.failed)
    <3>1. \A a \in Actions : x.state \in {Pending(a), Running(a)} => a = "provision"
      BY <2>2, StatesApart
    <3>2. \A a \in Power : x.state # Running(a)
      BY <2>2, StatesApart
    <3> QED BY <1>9, <2>3, <3>1, <3>2 DEF StateRests
  <2>5. MayPost(r, x, w, "finish")
    BY <2>1, <2>3, <2>4, PostingIs DEF Rest, bc
  <2>6. Leads(r, Post("finish"), x, w)
    BY <2>1, <2>5, LeadsPost
  <2> QED BY <2>6 DEF booked
<1> QED BY <1>5, <1>6, <1>7, <1>8, <1>9

\* A job is polled, or the queue.
LEMMA LeadsPoll ==
    ASSUME NEW r, NEW w, NEW x \in Standings, Rest(x, w), NEW a \in Actions, r = ActionRun(a), x.acts[a] > 0
    PROVE  Leads(r, checkDeployerJob(a), x, w)
<1> DEFINE c == Call("poll", a, "continue")
<1>1. IsCall(c, "poll", a, "continue")
  BY CallForm DEF Ops, OnErrors
<1> HIDE DEF c
<1>2. c \in Calls /\ Closes(r, x, w, c)
  BY <1>1 DEF IsCall, Closes
<1>3. Leads(r, <<c>>, x, w)
  BY <1>2, LeadsOne
<1> QED BY <1>3 DEF checkDeployerJob, c

LEMMA LeadsQueueCheck ==
    ASSUME Equipped, NEW r, NEW x, NEW w, Provides(r, x, w), NEW s,
           NEW status \in PlacementStatuses
    PROVE  Leads(r, checkProvisionQueue(s), x, w) /\ Leads(r, queueChecked(status, s), x, w)
<1>1. Leads(r, handleProvisionError, x, w) /\ x \in Standings
  BY ProvisionEnds DEF Provides, ActionRun
<1>2. Leads(r, <<Call("checkQueue", "provision", "provisionError")>>, x, w)
  <2> DEFINE c == Call("checkQueue", "provision", "provisionError")
  <2>1. IsCall(c, "checkQueue", "provision", "provisionError")
    BY ActionNames, CallForm DEF Ops, OnErrors
  <2> HIDE DEF c
  <2>2. c \in Calls /\ Closes(r, x, w, c)
    BY <2>1 DEF IsCall, Closes, Provides
  <2>3. Leads(r, <<c>>, x, w)
    BY <1>1, <2>2, LeadsOne
  <2> QED BY <2>3 DEF c
<1>3. Leads(r, <<SkipPatch(NoPatch)>> \o Post("continue"), x, w)
  <2>1. HasMove(NoPatch, KeepState, "keep")
    BY ActionNames, Moved
  <2>2. <<SkipPatch(NoPatch)>> \in Seq(Still)
    BY <2>1, StillCalls DEF HasMove, OnErrors
  <2>3. MayPost(r, x, w, "continue")
    <3>1. Rest(x, w)
      BY DEF Provides
    <3> QED BY <3>1, PostingIs DEF Rest
  <2>4. Leads(r, Post("continue"), x, w)
    BY <1>1, <2>3, LeadsPost
  <2> QED BY <2>2, <2>4, LeadsThrough
<1>4. Leads(r, <<SkipPatch([NoPatch EXCEPT !.state = Pending("provision"), !.vars = "same"])>> \o runProvision(s), x, w)
  <2> DEFINE st == Pending("provision")
             p == [NoPatch EXCEPT !.state = st, !.vars = "same"]
  <2>1. st \in Provisional /\ st \in SubjectStates \cup {KeepState} /\ "fail" \in OnErrors
    BY ActionNames, StatesApart DEF Provisional, OnErrors
  <2>2. HasMove(p, st, "keep")
    BY <2>1, ActionNames, Moved
  <2> HIDE DEF p, st
  <2>3. Provides(r, Shifted(x, st, "keep"), w)
    BY <2>1, ProvidesOn
  <2>4. Leads(r, runProvision(s), Shifted(x, st, "keep"), w)
    BY <2>3, LeadsRunProvision
  <2>5. Leads(r, <<SkipPatch(p)>> \o runProvision(s), x, w)
    BY <1>1, <2>1, <2>2, <2>4, LeadsMove
  <2> QED BY <2>5 DEF p, st
<1>5. Leads(r, checkProvisionQueue(s), x, w)
  BY <1>1, <1>2 DEF checkProvisionQueue
<1>6. Leads(r, queueChecked(status, s), x, w)
  <2>1. CASE status \in {"absent", "error"}
    BY <1>1, <2>1 DEF queueChecked
  <2>2. CASE status = "queued"
    BY <1>3, <2>2 DEF queueChecked
  <2>3. CASE status \in {"initializing", "success"}
    <3> DEFINE t == <<SkipPatch([NoPatch EXCEPT !.state = Pending("provision"), !.vars = "same"])>> \o runProvision(s)
    <3>1. queueChecked(status, s) = t
      BY <2>3 DEF queueChecked
    <3> QED BY <1>4, <3>1
  <2> QED BY <2>1, <2>2, <2>3 DEF PlacementStatuses, NotReady
<1> QED BY <1>5, <1>6

\* The action itself.
LEMMA LeadsProvision ==
    ASSUME Equipped, NEW r, NEW x, NEW w, Provides(r, x, w), NEW s, s.state = x.state
    PROVE  Leads(r, handleProvision(s), x, w)
<1>1. x.state \in Provisional /\ x \in Standings /\ Rest(x, w) /\ r = ActionRun("provision")
  BY RestFacts DEF Provides
<1>2. Leads(r, checkDeployerJob("provision"), x, w)
  BY <1>1, ActionNames, LeadsPoll DEF Provides
<1>3. "absent" \in PlacementStatuses
  BY DEF PlacementStatuses
<1>4. Leads(r, checkProvisionQueue(s), x, w) /\ Leads(r, runProvision(s), x, w)
  BY <1>3, LeadsQueueCheck, LeadsRunProvision
<1>5. Pending("provision") # Queued /\ Running("provision") # Queued /\ Pending("provision") # Running("provision")
  BY DEF Pending, Running, Queued
<1>6. CASE s.state = Pending("provision")
  BY <1>4, <1>5, <1>6 DEF handleProvision
<1>7. CASE s.state = Queued
  BY <1>4, <1>5, <1>7 DEF handleProvision
<1>8. CASE s.state = Running("provision") /\ "provision" \notin Disabled
  BY <1>2, <1>5, <1>8 DEF handleProvision
<1> QED BY <1>1, <1>6, <1>7, <1>8 DEF Provisional

(***************************************************************************)
(* Start and stop.                                                         *)
(***************************************************************************)
\* A start or stop that has its action.
Powers(r, x, w, a) == a \in Power /\ r = ActionRun(a) /\ x \in Standings /\ Rest(x, w) /\ x.acts[a] > 0

LEMMA PowersOn ==
    ASSUME NEW r, NEW x, NEW w, NEW a, Powers(r, x, w, a)
    PROVE  /\ r.kind = "action" /\ r.name = a /\ a \in Actions /\ a \notin {"provision", "status"}
           /\ x.acts["destroy"] = 0 /\ x.acts["update"] = 0 /\ x.acts["provision"] = 0
           /\ x.acts \in [Actions -> Nat]
           /\ a \notin Disabled => Leads(r, Post("continue"), Shifted(x, Running(a), "keep"), w)
           /\ a \in Disabled => MayPost(r, x, w, "finish")
           /\ x.state = Running(a) => a \notin Disabled
<1>1. a \in Power /\ r = ActionRun(a) /\ x \in Standings /\ Rest(x, w) /\ x.acts[a] > 0
  BY DEF Powers
<1>2. r.kind = "action" /\ r.name = a /\ a \in Actions /\ a \notin {"provision", "status"}
  BY <1>1 DEF ActionRun, Power, Actions
<1>3. /\ x.acts \in [Actions -> Nat] /\ x.acts["destroy"] = 0 /\ x.acts["update"] = 0
      /\ x.acts["provision"] = 0
  BY <1>1, RestFacts DEF Power
<1>4. ASSUME a \notin Disabled PROVE Leads(r, Post("continue"), Shifted(x, Running(a), "keep"), w)
  <2> DEFINE st == Running(a)
             y == Standing(st, x.css, x.acts)
  <2>1. st \in SubjectStates /\ "none" \in JobStatuses \cup {"none", "pending", "running"}
    BY <1>2, StatesApart
  <2>2. Shifted(x, st, "keep") = y /\ y \in Standings
    BY <1>1, <2>1, ShiftedIs
  <2>3. y.state = st /\ y.css = x.css /\ y.acts = x.acts
    BY DEF Standing
  <2>4. StateRests(st, x.acts, w.failed)
    BY <1>1, <1>3, <1>4, RestPower
  <2> HIDE DEF y, st
  <2>5. StateRests(y.state, y.acts, w.failed) /\ CheckRests(y.css, y.acts["status"], w.asked)
    BY <1>1, <2>3, <2>4 DEF Rest
  <2>6. MayPost(r, y, w, "continue")
    BY <2>5, PostingIs
  <2>7. Leads(r, Post("continue"), y, w)
    BY <2>2, <2>6, LeadsPost
  <2> QED BY <2>2, <2>7 DEF st
<1>5. ASSUME a \in Disabled PROVE MayPost(r, x, w, "finish")
  <2> DEFINE bc == Taken(x.acts, a)
  <2>1. \A b \in Actions : b # a => bc[b] = x.acts[b]
    BY <1>2, <1>3, TakenIs
  <2> HIDE DEF bc
  <2>2. bc["destroy"] = 0 /\ bc["update"] = 0 /\ bc["provision"] = 0 /\ bc["status"] = x.acts["status"]
    BY <1>1, <1>3, <2>1 DEF Actions, Power
  <2>3. ~PowerDeployed
    BY <1>1, <1>5 DEF PowerDeployed, Power
  <2>4. StateRests(x.state, bc, w.failed) /\ CheckRests(x.css, bc["status"], w.asked)
    BY <1>1, <2>2, <2>3 DEF Rest, StateRests, CheckRests
  <2>5. bc = IF "finish" = "finish" THEN Taken(x.acts, r.name) ELSE x.acts
    BY <1>2 DEF bc
  <2> QED BY <2>4, <2>5, PostingIs
<1>6. x.state = Running(a) => a \notin Disabled
  BY <1>1 DEF Rest, StateRests
<1> QED BY <1>2, <1>3, <1>4, <1>5, <1>6

\* A request to the sandbox API, ahead of what follows it.
LEMMA TracedIs ==
    ASSUME NEW c \in Calls, NEW a \in Actions
    PROVE  /\ Traced(c, a) \in Calls /\ Traced(c, a).op = c.op /\ Traced(c, a).patch = c.patch
           /\ Traced(c, a).onError = c.onError /\ Traced(c, a).act = a
BY DEF Traced, Calls

LEMMA LeadsPower ==
    ASSUME NEW r, NEW x \in Standings, NEW w, NEW a \in Power, NEW f \in {"ignore", "finish"},
           f = "finish" => MayPost(r, x, w, "finish"), NEW s, Leads(r, s, x, w)
    PROVE  /\ Leads(r, sandboxPower(a, f) \o s, x, w)
           /\ \A async \in BOOLEAN : Leads(r, requested(a, f, async) \o s, x, w)
           /\ Leads(r, recordSandboxJobOutcome(a, "successful", f) \o s, x, w)
           /\ Leads(r, recordSandboxActionFailure(a) \o s, x, w)
<1>1. a \in Actions /\ f \in OnErrors /\ "ignore" \in OnErrors
  BY DEF Power, Actions, OnErrors
<1>2. ASSUME NEW c \in Calls, c.op \in {"power", "await"}, c.act = a, c.onError = f, NEW t, Leads(r, t, x, w)
      PROVE  Leads(r, <<c>> \o t, x, w)
  <2>1. Goes(r, x, w, c)
    BY <1>2 DEF Goes, Looks
  <2>2. Effect(x, c) = Standing(x.state, x.css, x.acts)
    BY <1>2 DEF Effect
  <2>3. Effect(x, c) = x
    BY <2>2 DEF Standing, Standings
  <2> QED BY <1>2, <2>1, <2>3, LeadsCons
<1>3. Leads(r, sandboxPower(a, f) \o s, x, w)
  <2> DEFINE c == Call("power", a, f)
             d == Traced(c, a)
  <2>1. IsCall(c, "power", a, f)
    BY <1>1, CallForm DEF Ops
  <2> HIDE DEF c
  <2>2. d \in Calls /\ d.op = "power" /\ d.act = a /\ d.onError = f
    BY <1>1, <2>1, TracedIs DEF IsCall
  <2> HIDE DEF d
  <2>3. Leads(r, <<d>> \o s, x, w)
    BY <1>2, <2>2
  <2> QED BY <2>3 DEF sandboxPower, c, d
<1>4. ASSUME NEW async \in BOOLEAN PROVE Leads(r, requested(a, f, async) \o s, x, w)
  <2> DEFINE e == [SkipPatch(NoPatch) EXCEPT !.onError = f]
             d == Traced(e, a)
             c == Call("await", a, f)
             t == IF async THEN <<c>> ELSE <<>>
  <2>1. IsMove(e, KeepState, "keep", f)
    <3>1. HasMove(NoPatch, KeepState, "keep")
      BY ActionNames, Moved
    <3> QED BY <1>1, <3>1, MoveForm
  <2> HIDE DEF e
  <2>2. d \in Still
    <3>1. d \in Calls /\ d.op = "patch" /\ d.patch = e.patch
      BY <1>1, <2>1, TracedIs DEF IsMove
    <3> HIDE DEF d
    <3> QED BY <2>1, <3>1 DEF IsMove, Still
  <2>3. IsCall(c, "await", a, f)
    BY <1>1, CallForm DEF Ops
  <2> HIDE DEF c, d
  <2>4. Leads(r, <<c>> \o s, x, w)
    BY <1>2, <2>3 DEF IsCall
  <2>5. s \in Seq(Calls) /\ <<c>> \in Seq(Calls) /\ <<d>> \in Seq(Still) /\ <<d>> \in Seq(Calls)
    BY <2>2, <2>3, LeadsHead, Singleton DEF IsCall, Still
  <2>6. Leads(r, t \o s, x, w) /\ t \in Seq(Calls)
    <3>1. CASE async
      BY <2>4, <2>5, <3>1
    <3>2. CASE ~async
      <4>1. <<>> \o s = s /\ t = <<>>
        BY <2>5, <3>2, ConcatEmptySeq
      <4> HIDE DEF t
      <4>2. Leads(r, t \o s, x, w)
        BY <4>1
      <4>3. <<>> \in Seq(Calls)
        OBVIOUS
      <4> QED BY <4>1, <4>2, <4>3
    <3> QED BY <3>1, <3>2
  <2> HIDE DEF t
  <2>7. Leads(r, <<d>> \o (t \o s), x, w)
    BY <2>5, <2>6, LeadsThrough
  <2>8. <<d>> \o (t \o s) = (<<d>> \o t) \o s
    BY <2>5, <2>6, ConcatAssociative
  <2> QED BY <2>7, <2>8 DEF requested, c, d, e, t
<1>5. ASSUME NEW o \in {"successful", "error"}, NEW g \in OnErrors
      PROVE  Leads(r, recordSandboxJobOutcome(a, o, g) \o s, x, w)
  <2> DEFINE q == [NoPatch EXCEPT !.request = a, !.outcome = o]
             p == recordSandboxJobOutcome(a, o, g)
  <2>1. HasMove(q, KeepState, "keep")
    BY <1>1, Moved
  <2> HIDE DEF q
  <2>2. <<[SkipPatch(q) EXCEPT !.onError = g]>> \in Seq(Still)
    BY <2>1, StillCalls DEF HasMove
  <2>3. p \in Seq(Still)
    BY <2>2 DEF recordSandboxJobOutcome, q
  <2> HIDE DEF p
  <2>4. Leads(r, p \o s, x, w)
    BY <2>3, LeadsThrough
  <2> QED BY <2>4 DEF p
<1> QED BY <1>1, <1>3, <1>4, <1>5 DEF recordSandboxActionFailure

\* A job of an action that is not the provision is launched.
LEMMA LeadsLaunchAndPoll ==
    ASSUME NEW r, NEW w, NEW x \in Standings, NEW a \in {"start", "stop", "status"}, NEW s,
           Leads(r, Post("continue"),
                 Shifted(x, IF a = "status" THEN KeepState ELSE Running(a),
                            IF a = "status" THEN "running" ELSE "keep"), w)
    PROVE  Leads(r, launchAndPoll(a, s), x, w)
<1> DEFINE p == sandboxGet(a, s)
           q == Post("continue")
           st == IF a = "status" THEN KeepState ELSE Running(a)
           cs == IF a = "status" THEN "running" ELSE "keep"
<1>1. a \in Actions /\ a \in Actions \ {"provision"} /\ "fail" \in OnErrors /\ "ignore" \in OnErrors
  BY DEF Actions, OnErrors
<1>2. <<Call("get", a, "ignore")>> \in Seq(Still) /\ <<>> \in Seq(Still)
  BY <1>1, StillCalls
<1>3. p \in Seq(Still)
  BY <1>2 DEF sandboxGet
<1>4. Leads(r, q, Shifted(x, st, cs), w)
  OBVIOUS
<1> HIDE DEF p
<1>5. Leads(r, (p \o launchTowerJob(a, "fail")) \o Post("continue"), x, w)
  BY <1>1, <1>3, <1>4, LeadsLaunch
<1> QED BY <1>5 DEF launchAndPoll, p

\* The notes that an action began.
LEMMA StampIs == ASSUME NEW a \in Actions PROVE Stamp(a) \in Seq(Still)
<1> DEFINE n == [NoPatch EXCEPT !.starts = a]
<1>1. HasMove(n, KeepState, "keep")
  BY Moved
<1> HIDE DEF n
<1>2. <<SkipPatch(n)>> \in Seq(Still)
  BY <1>1, StillCalls DEF HasMove, OnErrors
<1> QED BY <1>2 DEF Stamp, n

\* The action itself.
LEMMA LeadsStartStop ==
    ASSUME Equipped, NEW r, NEW x, NEW w, NEW a, Powers(r, x, w, a), NEW s, s.state = x.state
    PROVE  Leads(r, Dispatch(r, s), x, w)
<1> DEFINE Ok(q) == Leads(r, q, x, w)
<1>1. /\ a \in Power /\ r = ActionRun(a) /\ x \in Standings /\ Rest(x, w) /\ x.acts[a] > 0
      /\ r.name = a /\ a \in Actions /\ a \notin {"provision", "status"} /\ x.acts["provision"] = 0
  BY PowersOn DEF Powers
<1>2. Ok(checkDeployerJob(a))
  BY <1>1, LeadsPoll
<1>3. ASSUME a \notin Disabled PROVE Ok(launchAndPoll(a, s))
  <2>1. Leads(r, Post("continue"), Shifted(x, Running(a), "keep"), w)
    BY <1>3, PowersOn
  <2>2. a \in {"start", "stop", "status"} /\ a # "status"
    BY <1>1 DEF Power
  <2> QED BY <1>1, <2>1, <2>2, LeadsLaunchAndPoll
<1>4. ASSUME NEW q, Ok(q) PROVE Ok(sandboxPower(a, "ignore") \o q) /\ Ok(<<>> \o q)
  <2>1. "ignore" \in {"ignore", "finish"} /\ <<>> \in Seq(Still)
    OBVIOUS
  <2>2. Leads(r, q, x, w)
    BY <1>4
  <2>3. Leads(r, sandboxPower(a, "ignore") \o q, x, w)
    BY <1>1, <2>1, <2>2, LeadsPower
  <2>4. Leads(r, <<>> \o q, x, w)
    BY <2>1, <2>2, LeadsThrough
  <2> QED BY <2>3, <2>4
<1>5. ASSUME a \in Disabled, NEW st \in {Started, Stopped}
      PROVE  Ok(sandboxPower(a, "finish") \o (<<SkipPatch([NoPatch EXCEPT !.state = st])>> \o Post("finish")))
  <2> DEFINE n == [NoPatch EXCEPT !.state = st]
             t == <<SkipPatch(n)>> \o Post("finish")
  <2>1. st \in Restful
    BY DEF Restful
  <2>2. st \in SubjectStates \cup {KeepState}
    BY <2>1, StatesApart
  <2>3. HasMove(n, st, "keep")
    BY <1>1, <2>2, Moved
  <2> HIDE DEF n
  <2>4. Leads(r, t, x, w)
    BY <1>1, <2>1, <2>3, LeadsSettled
  <2>5. MayPost(r, x, w, "finish")
    BY <1>5, PowersOn
  <2> HIDE DEF t
  <2>6. Leads(r, sandboxPower(a, "finish") \o t, x, w)
    BY <1>1, <2>4, <2>5, LeadsPower
  <2> QED BY <2>6 DEF t, n
<1>6. ASSUME NEW q, Ok(q) PROVE Ok(Stamp(a) \o q)
  <2>1. Stamp(a) \in Seq(Still)
    BY <1>1, StampIs
  <2> QED BY <1>6, <2>1, LeadsThrough
<1>7. x.state = Running(a) => a \notin Disabled
  BY PowersOn
<1> HIDE DEF Ok
<1>8. CASE a = "start"
  <2>1. Dispatch(r, s) = handleStart(s)
    BY <1>1, <1>8 DEF Dispatch, ActionRun
  <2>2. CASE s.state = Running("start")
    <3>1. handleStart(s) = checkDeployerJob("start")
      BY <1>7, <1>8, <2>2 DEF handleStart
    <3> QED BY <1>2, <1>8, <2>1, <3>1 DEF Ok
  <2>3. CASE s.state # Running("start") /\ a \notin Disabled
    <3>1. handleStart(s) = Stamp("start") \o ((IF powerOn THEN sandboxPower("start", "ignore") ELSE <<>>)
                                              \o launchAndPoll("start", s))
      BY <1>8, <2>3 DEF handleStart, runStart
    <3>2. Ok((IF powerOn THEN sandboxPower("start", "ignore") ELSE <<>>) \o launchAndPoll("start", s))
      BY <1>3, <1>4, <1>8, <2>3
    <3>3. Ok(handleStart(s))
      BY <1>6, <1>8, <3>1, <3>2
    <3> QED BY <2>1, <3>3 DEF Ok
  <2>4. CASE s.state # Running("start") /\ a \in Disabled
    <3>1. powerOn
      BY <1>8, <2>4 DEF Equipped
    <3>2. handleStart(s) = Stamp("start") \o (sandboxPower("start", "finish") \o completeStartNoDeployer)
      BY <1>8, <2>4, <3>1 DEF handleStart, runStart
    <3>3. Ok(sandboxPower("start", "finish") \o completeStartNoDeployer)
      BY <1>5, <1>8, <2>4 DEF completeStartNoDeployer
    <3>4. Ok(handleStart(s))
      BY <1>6, <1>8, <3>2, <3>3
    <3> QED BY <2>1, <3>4 DEF Ok
  <2> QED BY <2>2, <2>3, <2>4
<1>9. CASE a = "stop"
  <2>1. Dispatch(r, s) = handleStop(s)
    BY <1>1, <1>9 DEF Dispatch, ActionRun
  <2>2. CASE s.state = Running("stop")
    <3>1. handleStop(s) = checkDeployerJob("stop")
      BY <1>7, <1>9, <2>2 DEF handleStop
    <3> QED BY <1>2, <1>9, <2>1, <3>1 DEF Ok
  <2>3. CASE s.state # Running("stop") /\ a \notin Disabled
    <3>1. handleStop(s) = Stamp("stop") \o launchAndPoll("stop", s)
      BY <1>9, <2>3 DEF handleStop, runStop
    <3>2. Ok(handleStop(s))
      BY <1>3, <1>6, <1>9, <2>3, <3>1
    <3> QED BY <2>1, <3>2 DEF Ok
  <2>4. CASE s.state # Running("stop") /\ a \in Disabled
    <3>1. powerOff
      BY <1>9, <2>4 DEF Equipped
    <3>2. handleStop(s) = Stamp("stop") \o completeStopNoDeployer
      BY <1>9, <2>4, <3>1 DEF handleStop, runStop
    <3>4. completeStopNoDeployer = (sandboxPower("stop", "finish") \o <<SkipPatch([NoPatch EXCEPT !.state = Stopped])>>)
                                   \o Post("finish")
      BY DEF completeStopNoDeployer
    <3>5. /\ sandboxPower("stop", "finish") \in Seq(Calls)
          /\ <<SkipPatch([NoPatch EXCEPT !.state = Stopped])>> \in Seq(Calls)
          /\ Post("finish") \in Seq(Calls)
      <4> DEFINE n == [NoPatch EXCEPT !.state = Stopped]
      <4>1. Stopped \in SubjectStates
        BY DEF SubjectStates
      <4>2. HasMove(n, Stopped, "keep")
        BY <1>1, <4>1, Moved
      <4> HIDE DEF n
      <4>3. SkipPatch(n) \in Calls
        BY <4>2, MoveForm DEF IsMove, OnErrors
      <4>4. <<SkipPatch(n)>> \in Seq(Calls)
        BY <4>3, Singleton
      <4>5. IsCall(Call("post", "finish", "fail"), "post", "finish", "fail")
        BY CallForm DEF Ops, OnErrors
      <4>6. Call("post", "finish", "fail") \in Calls
        BY <4>5 DEF IsCall
      <4>7. Post("finish") \in Seq(Calls)
        BY <4>6, Singleton DEF Post
      <4>8. IsCall(Call("power", "stop", "finish"), "power", "stop", "finish")
        BY <1>1, <1>9, CallForm DEF Ops, OnErrors
      <4>9. Traced(Call("power", "stop", "finish"), "stop") \in Calls
        BY <1>1, <1>9, <4>8, TracedIs DEF IsCall
      <4>10. sandboxPower("stop", "finish") \in Seq(Calls)
        BY <4>9, Singleton DEF sandboxPower
      <4> QED BY <4>4, <4>7, <4>10 DEF n
    <3>6. completeStopNoDeployer = sandboxPower("stop", "finish")
                                   \o (<<SkipPatch([NoPatch EXCEPT !.state = Stopped])>> \o Post("finish"))
      BY <3>4, <3>5, ConcatAssociative
    <3>7. Ok(completeStopNoDeployer)
      BY <1>5, <1>9, <2>4, <3>6
    <3>8. Ok(handleStop(s))
      BY <1>6, <1>9, <3>2, <3>7
    <3> QED BY <2>1, <3>8 DEF Ok
  <2> QED BY <2>2, <2>3, <2>4
<1> QED BY <1>1, <1>8, <1>9 DEF Power

(***************************************************************************)
(* Actions that a handler schedules, and outcomes.                         *)
(***************************************************************************)
LEMMA QueueIs ==
    ASSUME NEW ac \in [Actions -> 0..MaxQueued], NEW a, NEW cancel
    PROVE  /\ Queue(ac, a, cancel) \in [Actions -> 0..MaxQueued]
           /\ \A b \in Actions : b # a /\ b \in cancel => Queue(ac, a, cancel)[b] = 0
           /\ \A b \in Actions : b # a /\ b \notin cancel => Queue(ac, a, cancel)[b] = ac[b]
           /\ a \in Actions => Queue(ac, a, cancel)[a] > 0
           /\ a \in Actions /\ ac[a] = 0 => Queue(ac, a, cancel)[a] = 1
BY LifecycleAssumption DEF Queue

\* An action is scheduled, ahead of other calls.
LEMMA LeadsSchedule ==
    ASSUME NEW r, NEW x \in Standings, NEW w, NEW a \in Living, NEW cancel \in SUBSET Actions,
           a \in Power => x.acts["provision"] = 0 /\ r # EventRun("create"),
           a = "provision" => r = EventRun("create"),
           NEW s, Leads(r, s, Standing(x.state, x.css, Queue(x.acts, a, cancel)), w)
    PROVE  Leads(r, <<Schedule(a, cancel)>> \o s, x, w)
<1> DEFINE c == Schedule(a, cancel)
<1>1. /\ c \in Calls /\ c.op = "schedule" /\ c.act = a /\ c.cancel = cancel
  BY NoPatchIs DEF Schedule, Call, Calls, Living, Actions
<1> HIDE DEF c
<1>2. Goes(r, x, w, c)
  BY <1>1 DEF Goes, Looks
<1>3. Effect(x, c) = Standing(x.state, x.css, Queue(x.acts, a, cancel))
  BY <1>1 DEF Effect
<1>4. Leads(r, <<c>> \o s, x, w)
  BY <1>1, <1>2, <1>3, LeadsCons
<1> QED BY <1>4 DEF c

\* Calls ahead of calls, however they are put together.
LEMMA LeadsGroup ==
    ASSUME NEW r, NEW x, NEW w, NEW p \in Seq(Calls), NEW q \in Seq(Calls), NEW s \in Seq(Calls),
           Leads(r, p \o (q \o s), x, w)
    PROVE  Leads(r, (p \o q) \o s, x, w)
<1>1. p \o (q \o s) = (p \o q) \o s
  BY ConcatAssociative
<1> HIDE DEF Leads
<1> QED BY <1>1

LEMMA CallsAre ==
    /\ \A p, st, cs : HasMove(p, st, cs) => <<Patch(p)>> \in Seq(Calls) /\ <<SkipPatch(p)>> \in Seq(Calls)
    /\ \A d \in {"none", "finish", "continue"} : Post(d) \in Seq(Calls)
    /\ \A a \in Power, f \in OnErrors : sandboxPower(a, f) \in Seq(Calls)
    /\ <<>> \in Seq(Calls)
<1>1. ASSUME NEW p, NEW st, NEW cs, HasMove(p, st, cs)
      PROVE  <<Patch(p)>> \in Seq(Calls) /\ <<SkipPatch(p)>> \in Seq(Calls)
  <2>1. Patch(p) \in Calls /\ SkipPatch(p) \in Calls
    BY <1>1, MoveForm DEF IsMove, OnErrors
  <2> HIDE DEF Patch, SkipPatch
  <2> QED BY <2>1, Singleton
<1>2. ASSUME NEW d \in {"none", "finish", "continue"} PROVE Post(d) \in Seq(Calls)
  <2>1. IsCall(Call("post", d, "fail"), "post", d, "fail")
    BY CallForm DEF Ops, OnErrors
  <2> QED BY <2>1, Singleton DEF Post, IsCall
<1>3. ASSUME NEW a \in Power, NEW f \in OnErrors PROVE sandboxPower(a, f) \in Seq(Calls)
  <2>1. IsCall(Call("power", a, f), "power", a, f) /\ a \in Actions
    BY CallForm DEF Ops, Power, Actions
  <2>2. Traced(Call("power", a, f), a) \in Calls
    BY <2>1, TracedIs DEF IsCall
  <2> QED BY <2>2, Singleton DEF sandboxPower
<1> QED BY <1>1, <1>2, <1>3

\* A start or stop that may settle the subject, with or without its action.
Stirs(r, x, w, a) == a \in Power /\ r.name = a /\ x \in Standings /\ Rest(x, w) /\ x.acts["provision"] = 0

\* What follows a start or stop that failed: it is retried, or turned round, or given up.
LEMMA LeadsRetry ==
    ASSUME NEW r, NEW x, NEW w, NEW a, Stirs(r, x, w, a), NEW pivot \in Power \ {a}, r # EventRun("create"),
           NEW st \in Restful, NEW s, NEW wanted, NEW other
    PROVE  Leads(r, retryOrPivot(s, wanted, other, pivot), Standing(st, x.css, x.acts), w)
<1> DEFINE y == Standing(st, x.css, x.acts)
           C == {"start", "stop"}
           bc == Queue(x.acts, pivot, C)
           z == Standing(st, x.css, bc)
<1> HIDE DEF C
<1>1. a \in Power /\ r.name = a /\ x \in Standings /\ Rest(x, w) /\ x.acts["provision"] = 0 /\ a # "status"
  BY DEF Stirs, Power
<1>2. y \in Standings /\ y.state = st /\ y.css = x.css /\ y.acts = x.acts
  BY <1>1, StatesApart DEF Standing, Standings
<1>3. x.acts["destroy"] = 0 /\ x.acts["update"] = 0
  BY <1>1, RestFacts
<1>4. MayPost(r, y, w, "continue") /\ MayPost(r, y, w, "finish")
  BY <1>1, MayPostSettled
<1>5. Leads(r, Post("continue"), y, w) /\ Leads(r, Post("finish"), y, w)
  BY <1>2, <1>4, LeadsPost
<1>6. /\ bc \in [Actions -> 0..MaxQueued]
      /\ \A b \in Actions : b # pivot /\ b \in C => bc[b] = 0
      /\ \A b \in Actions : b # pivot /\ b \notin C => bc[b] = x.acts[b]
  <2> DEFINE ac == x.acts
  <2>1. ac \in [Actions -> 0..MaxQueued]
    BY <1>1 DEF Standings
  <2> HIDE DEF ac
  <2>2. /\ Queue(ac, pivot, C) \in [Actions -> 0..MaxQueued]
        /\ \A b \in Actions : b # pivot /\ b \in C => Queue(ac, pivot, C)[b] = 0
        /\ \A b \in Actions : b # pivot /\ b \notin C => Queue(ac, pivot, C)[b] = ac[b]
    BY <2>1, QueueIs
  <2> QED BY <2>2 DEF ac
<1> HIDE DEF bc
<1>7. /\ bc["destroy"] = 0 /\ bc["update"] = 0 /\ bc["provision"] = 0 /\ bc["status"] = x.acts["status"]
      /\ bc[a] = 0
  BY <1>1, <1>3, <1>6 DEF Actions, Power, C
<1>8. z \in Standings /\ z.state = st /\ z.css = x.css /\ z.acts = bc
  BY <1>1, <1>6, StatesApart DEF Standing, Standings
<1> HIDE DEF y, z
<1>9. StateRests(z.state, z.acts, w.failed) /\ CheckRests(z.css, z.acts["status"], w.asked)
  BY <1>1, <1>7, <1>8, RestSettled DEF Rest
<1>10. MayPost(r, z, w, "none")
  BY <1>1, <1>7, <1>8, <1>9, PostingIs
<1>11. Leads(r, Post("none"), z, w)
  BY <1>8, <1>10, LeadsPost
<1>12. z = Standing(y.state, y.css, Queue(y.acts, pivot, {"start", "stop"}))
  BY <1>2 DEF z, bc, C
<1>13. Leads(r, <<Schedule(pivot, {"start", "stop"})>> \o Post("none"), y, w)
  <2>1. pivot \in Living /\ pivot # "provision" /\ {"start", "stop"} \in SUBSET Actions
    BY DEF Living, Power, Actions
  <2> QED BY <1>1, <1>2, <1>11, <1>12, <2>1, LeadsSchedule
<1>14. Leads(r, retryOrPivot(s, wanted, other, pivot), y, w)
  BY <1>5, <1>13 DEF retryOrPivot
<1> QED BY <1>14 DEF y

\* Start and stop come to their end.
LEMMA LeadsPowerOutcome ==
    ASSUME NEW r, NEW x, NEW w, NEW a, Stirs(r, x, w, a), r # EventRun("create"), NEW s,
           NEW status \in JobStatuses
    PROVE  Leads(r, handleCallback(a, status, s), x, w)
<1> DEFINE fs == [Ends(a, Failure(a, status)) EXCEPT !.vars = failedVars(status)]
           retry == retryOrPivot(s, IF a = "start" THEN "started" ELSE "stopped",
                                    IF a = "start" THEN "stopped" ELSE "started",
                                    IF a = "start" THEN "stop" ELSE "start")
           ask == IF powerOff THEN sandboxPower("stop", "ignore") ELSE <<>>
           tell == IF powerOff /\ status # "canceled" THEN sandboxPower("stop", "ignore") ELSE <<>>
<1>1. /\ a \in Power /\ r.name = a /\ x \in Standings /\ Rest(x, w) /\ x.acts["provision"] = 0 /\ a # "status"
      /\ a \in Actions
  BY DEF Stirs, Power, Actions
<1>2. Started \in Restful /\ Stopped \in Restful /\ Started \in SubjectStates /\ Stopped \in SubjectStates
      /\ "finish" \in {"none", "finish", "continue"} /\ "ignore" \in OnErrors /\ "ignore" \in {"ignore", "finish"}
  BY StatesApart DEF Restful, OnErrors
<1>3. ASSUME NEW q, Leads(r, q, x, w), a = "stop"
      PROVE  /\ Leads(r, sandboxPower("stop", "ignore") \o q, x, w) /\ Leads(r, <<>> \o q, x, w)
  <2>1. <<>> \in Seq(Still) /\ "stop" \in Power /\ "ignore" # "finish"
    BY DEF Power
  <2>2. Leads(r, <<>> \o q, x, w)
    BY <1>3, <2>1, LeadsThrough
  <2>3. Leads(r, sandboxPower("stop", "ignore") \o q, x, w)
    BY <1>1, <1>2, <1>3, <2>1, LeadsPower
  <2> QED BY <2>2, <2>3
<1>4. CASE status = "successful" /\ a = "start"
  <2> DEFINE p == Ends("start", Started)
  <2>1. HasMove(p, Started, "keep")
    BY <1>1, <1>2, <1>4, Moved
  <2> HIDE DEF p
  <2>2. Leads(r, <<Patch(p)>> \o Post("finish"), x, w)
    BY <1>1, <1>2, <2>1, LeadsSettled
  <2>3. handleCallback(a, status, s) = <<Patch(p)>> \o Post("finish")
    BY <1>4 DEF handleCallback, handleDeployerJobSuccess, handleStartComplete, p
  <2> QED BY <2>2, <2>3
<1>5. CASE status = "successful" /\ a = "stop"
  <2> DEFINE p == [NoPatch EXCEPT !.ends = "stop"]
             q == [NoPatch EXCEPT !.state = Stopped]
             t == <<Patch(q)>> \o Post("finish")
  <2>1. HasMove(p, KeepState, "keep") /\ HasMove(q, Stopped, "keep")
    BY <1>1, <1>2, <1>5, Moved
  <2> HIDE DEF p, q
  <2>2. /\ <<Patch(p)>> \in Seq(Still) /\ <<Patch(p)>> \in Seq(Calls) /\ <<Patch(q)>> \in Seq(Calls)
        /\ Post("finish") \in Seq(Calls)
    <3>1. p \in Patches /\ "fail" \in OnErrors
      BY <2>1 DEF HasMove, OnErrors
    <3> QED BY <1>2, <2>1, <3>1, StillCalls, CallsAre
  <2>3. Leads(r, t, x, w) /\ t \in Seq(Calls)
    <3>1. Leads(r, <<Patch(q)>> \o Post("finish"), x, w)
      BY <1>1, <1>2, <2>1, LeadsSettled
    <3> QED BY <2>2, <3>1, Concat
  <2>4. ask \in Seq(Calls)
    BY <1>2, CallsAre DEF Power
  <2>5. Leads(r, ask \o t, x, w)
    BY <1>3, <1>5, <2>3
  <2> HIDE DEF ask, t
  <2>6. Leads(r, <<Patch(p)>> \o (ask \o t), x, w)
    BY <2>2, <2>5, LeadsThrough
  <2>7. Leads(r, (<<Patch(p)>> \o ask) \o t, x, w) /\ (<<Patch(p)>> \o ask) \in Seq(Calls)
    BY <2>2, <2>3, <2>4, <2>6, LeadsGroup, Concat
  <2>8. Leads(r, ((<<Patch(p)>> \o ask) \o <<Patch(q)>>) \o Post("finish"), x, w)
    <3> DEFINE u == <<Patch(p)>> \o ask
    <3>1. u \in Seq(Calls) /\ Leads(r, u \o (<<Patch(q)>> \o Post("finish")), x, w)
      BY <2>7 DEF t
    <3> HIDE DEF u
    <3>2. Leads(r, (u \o <<Patch(q)>>) \o Post("finish"), x, w)
      BY <2>2, <3>1, LeadsGroup
    <3> QED BY <3>2 DEF u
  <2>9. handleCallback(a, status, s) = ((<<Patch(p)>> \o ask) \o <<Patch(q)>>) \o Post("finish")
    BY <1>5 DEF handleCallback, handleDeployerJobSuccess, handleStopComplete, p, q, ask
  <2> QED BY <2>8, <2>9
<1>6. ASSUME status # "successful" PROVE Leads(r, <<SkipPatch(fs)>> \o retry, x, w) /\ HasMove(fs, Failure(a, status), "keep")
  <2> DEFINE st == Failure(a, status)
  <2>1. status \in FailureStatuses
    BY <1>6 DEF JobStatuses
  <2>2. st \in Restful
    BY <1>1, <2>1 DEF Restful
  <2>3. st \in SubjectStates /\ "none" \in JobStatuses \cup {"none", "pending", "running"}
    BY <2>2, StatesApart
  <2>4. HasMove(fs, st, "keep")
    <3>1. failedVars(status) \in {"keep", "forensics"}
      BY DEF failedVars
    <3> HIDE DEF st
    <3> QED BY <1>1, <2>3, <3>1, Moved DEF st
  <2> HIDE DEF fs
  <2>5. Leads(r, retry, Standing(st, x.css, x.acts), w)
    <3> DEFINE pivot == IF a = "start" THEN "stop" ELSE "start"
    <3>1. pivot \in Power \ {a}
      BY <1>1 DEF Power
    <3> HIDE DEF pivot, st
    <3>2. \A wanted, other : Leads(r, retryOrPivot(s, wanted, other, pivot), Standing(st, x.css, x.acts), w)
      BY <2>2, <3>1, LeadsRetry
    <3> QED BY <3>2 DEF pivot
  <2>6. Shifted(x, st, "keep") = Standing(st, x.css, x.acts)
    BY <1>1, <2>3, ShiftedIs
  <2> HIDE DEF retry, st
  <2>7. Leads(r, <<SkipPatch(fs)>> \o retry, x, w)
    <3>1. Leads(r, retry, Shifted(x, st, "keep"), w) /\ "fail" \in OnErrors
      BY <2>5, <2>6 DEF OnErrors
    <3> QED BY <1>1, <2>4, <3>1, LeadsMove
  <2> QED BY <2>4, <2>7 DEF st
<1>7. CASE status # "successful" /\ a = "start"
  <2>1. handleCallback(a, status, s) = <<SkipPatch(fs)>> \o retry
    BY <1>7 DEF handleCallback, handleDeployerJobFailure, handleStartFailure
  <2> QED BY <1>6, <1>7, <2>1
<1>8. CASE status # "successful" /\ a = "stop"
  <2>1. handleCallback(a, status, s) = (tell \o <<SkipPatch(fs)>>) \o retry
    BY <1>8 DEF handleCallback, handleDeployerJobFailure, handleStopFailure
  <2>2. <<SkipPatch(fs)>> \in Seq(Calls) /\ Leads(r, <<SkipPatch(fs)>> \o retry, x, w)
    BY <1>6, <1>8, CallsAre
  <2>3. tell \in Seq(Calls)
    BY <1>2, CallsAre DEF Power
  <2>4. retry \in Seq(Calls)
    <3> DEFINE pivot == IF a = "start" THEN "stop" ELSE "start"
    <3>1. pivot \in Power \ {a} /\ Started \in Restful
      BY <1>1, <1>2 DEF Power
    <3> HIDE DEF pivot
    <3>2. \A wanted, other : Leads(r, retryOrPivot(s, wanted, other, pivot), Standing(Started, x.css, x.acts), w)
      BY <3>1, LeadsRetry
    <3>3. \A wanted, other : retryOrPivot(s, wanted, other, pivot) \in Seq(Calls)
      BY <3>2, LeadsHead
    <3> QED BY <3>3 DEF pivot
  <2> HIDE DEF fs, retry
  <2>5. Leads(r, tell \o (<<SkipPatch(fs)>> \o retry), x, w)
    <3>1. Leads(r, sandboxPower("stop", "ignore") \o (<<SkipPatch(fs)>> \o retry), x, w)
          /\ Leads(r, <<>> \o (<<SkipPatch(fs)>> \o retry), x, w)
      BY <1>3, <1>8, <2>2
    <3> QED BY <3>1
  <2> HIDE DEF tell
  <2>6. Leads(r, (tell \o <<SkipPatch(fs)>>) \o retry, x, w)
    BY <2>2, <2>3, <2>4, <2>5, LeadsGroup
  <2> QED BY <2>1, <2>6
<1> QED BY <1>1, <1>4, <1>5, <1>7, <1>8 DEF Power

\* The status check comes to its end.
LEMMA LeadsStatusEnd ==
    ASSUME NEW r, NEW x \in Standings, NEW w, Rest(x, w), r.name = "status",
           NEW cs \in JobStatuses, NEW p, HasMove(p, KeepState, cs)
    PROVE  Leads(r, <<SkipPatch(p)>> \o Post("finish"), x, w)
<1> DEFINE ac == x.acts
           bc == Taken(ac, "status")
           y == Standing(x.state, cs, ac)
<1>1. /\ ac \in [Actions -> Nat] /\ ac["status"] \in {0, 1}
  BY RestFacts
<1>2. cs \in JobStatuses \cup {"none", "pending", "running"} /\ cs \notin {"pending", "running"}
      /\ "status" \in Actions /\ NoState \in SubjectStates /\ "fail" \in OnErrors
  BY DEF JobStatuses, FailureStatuses, Actions, SubjectStates, OnErrors
<1>3. Shifted(x, KeepState, cs) = y /\ y \in Standings
  BY <1>2, ShiftedIs
<1> HIDE DEF ac
<1>4. \A b \in Actions \ {"status"} : bc[b] = ac[b]
  BY <1>1, TakenIs
<1>5. bc["status"] = 0
  <2>1. bc["status"] = (IF ac["status"] > 0 THEN ac["status"] - 1 ELSE 0)
    BY <1>1, <1>2, TakenIs
  <2> HIDE DEF bc
  <2> QED BY <1>1, <2>1
<1>6. y.state = x.state /\ y.css = cs /\ y.acts = ac
  BY DEF Standing
<1>7. bc = IF "finish" = "finish" THEN Taken(y.acts, r.name) ELSE y.acts
  BY <1>6
<1> HIDE DEF bc, y
<1>8. StateRests(y.state, bc, w.failed)
  <2>1. StateRests(x.state, ac, w.failed)
    BY DEF Rest, ac
  <2>2. StateRests(x.state, bc, w.failed)
    BY <1>4, <2>1, RestSame
  <2> QED BY <1>6, <2>2
<1>9. CheckRests(y.css, bc["status"], w.asked)
  BY <1>2, <1>5, <1>6 DEF CheckRests
<1>10. MayPost(r, y, w, "finish")
  BY <1>7, <1>8, <1>9, PostingIs
<1>11. Leads(r, Post("finish"), Shifted(x, KeepState, cs), w)
  BY <1>3, <1>10, LeadsPost
<1> QED BY <1>2, <1>11, LeadsMove

\* A Tower job ended, of an action in execution or late.
LEMMA LeadsCallback ==
    ASSUME NEW r, NEW x \in Standings, NEW w, Rest(x, w), NEW a \in Living, r.name = a, r # EventRun("create"),
           a \in Power => x.acts["provision"] = 0, NEW s, NEW status \in JobStatuses
    PROVE  Leads(r, handleCallback(a, status, s), x, w)
<1>1. JobStatuses = FailureStatuses \cup {"successful"} /\ "successful" \notin FailureStatuses
      /\ FailureStatuses = {"canceled", "error", "failed"}
  BY DEF JobStatuses, FailureStatuses
<1>2. CASE a = "provision"
  <2>1. handleCallback(a, status, s) \in {handleProvisionError, handleProvisionFailed, handleProvisionCanceled,
                                         handleProvisionComplete}
    BY <1>1, <1>2 DEF handleCallback, handleDeployerJobSuccess, handleDeployerJobFailure
  <2>2. /\ Leads(r, handleProvisionError, x, w) /\ Leads(r, handleProvisionFailed, x, w)
        /\ Leads(r, handleProvisionCanceled, x, w) /\ Leads(r, handleProvisionComplete, x, w)
    BY <1>2, ProvisionEnds
  <2> QED BY <2>1, <2>2
<1>3. CASE a \in Power
  <2>1. Stirs(r, x, w, a)
    BY <1>3 DEF Stirs
  <2> QED BY <2>1, LeadsPowerOutcome
<1>4. CASE a = "status"
  <2> DEFINE p == [NoPatch EXCEPT !.ends = "status", !.css = status]
  <2>1. HasMove(p, KeepState, status)
    <3>1. KeepState \in SubjectStates \cup {KeepState} /\ status \in JobStatuses \cup {"pending"}
          /\ a \in Actions
      BY <1>4 DEF Actions
    <3> QED BY <1>4, <3>1, Moved
  <2>2. handleCallback(a, status, s) = <<SkipPatch(p)>> \o Post("finish")
    BY <1>1, <1>4 DEF handleCallback, handleDeployerJobSuccess, handleDeployerJobFailure, handleStatusComplete,
       statusSuccessful, handleStatusFailure
  <2> HIDE DEF p
  <2>3. Leads(r, <<SkipPatch(p)>> \o Post("finish"), x, w)
    BY <1>4, <2>1, LeadsStatusEnd
  <2> QED BY <2>2, <2>3
<1> QED BY <1>2, <1>3, <1>4 DEF Living, Power

\* What polling brings.
LEMMA LeadsPolled ==
    ASSUME NEW r, NEW x \in Standings, NEW w, Rest(x, w), NEW a \in Living, r = ActionRun(a), x.acts[a] > 0,
           NEW s, NEW job
    PROVE  Leads(r, jobPolled(a, job, s), x, w)
<1>1. r.name = a /\ r # EventRun("create")
  BY DEF ActionRun, EventRun
<1>2. a \in Power => x.acts["provision"] = 0
  <2>1. x.acts["provision"] > 0 => x.acts["start"] = 0 /\ x.acts["stop"] = 0
    BY RestFacts
  <2>2. x.acts["provision"] \in {0, 1}
    BY RestFacts
  <2> QED BY <2>1, <2>2 DEF Power
<1>3. CASE job \in JobStatuses
  <2>1. Leads(r, handleCallback(a, job, s), x, w)
    BY <1>1, <1>2, <1>3, LeadsCallback
  <2> QED BY <1>3, <2>1 DEF jobPolled
<1>4. CASE job \notin JobStatuses
  <2>1. MayPost(r, x, w, "continue")
    BY PostingIs DEF Rest
  <2>2. Leads(r, Post("continue"), x, w)
    BY <2>1, LeadsPost
  <2> QED BY <1>4, <2>2 DEF jobPolled
<1> QED BY <1>3, <1>4

\* The status check.
LEMMA LeadsStatus ==
    ASSUME NEW r, NEW x \in Standings, NEW w, Rest(x, w), r = ActionRun("status"), x.acts["status"] > 0,
           NEW s, s.css = x.css
    PROVE  Leads(r, handleStatus(s), x, w)
<1>1. r.name = "status" /\ "status" \in Actions /\ "status" \in {"start", "stop", "status"}
      /\ "successful" \in JobStatuses \cup {"pending"} /\ KeepState \in SubjectStates \cup {KeepState}
      /\ "successful" \in JobStatuses /\ NoState \in SubjectStates
      /\ "running" \in JobStatuses \cup {"none", "pending", "running"}
  BY DEF ActionRun, Actions, JobStatuses, SubjectStates
<1>2. x.css \in {"pending", "running"} /\ x.acts["status"] = 1
  BY RestFacts
<1>3. Leads(r, checkDeployerJob("status"), x, w)
  BY <1>1, LeadsPoll
<1>4. Leads(r, statusSuccessful(NoPatch), x, w)
  <2> DEFINE p == [NoPatch EXCEPT !.css = "successful"]
  <2>1. HasMove(p, KeepState, "successful")
    BY <1>1, Moved
  <2> HIDE DEF p
  <2>2. Leads(r, <<SkipPatch(p)>> \o Post("finish"), x, w)
    BY <1>1, <2>1, LeadsStatusEnd
  <2> QED BY <2>2 DEF statusSuccessful, p
<1>5. Leads(r, launchAndPoll("status", s), x, w)
  <2> DEFINE y == Standing(x.state, "running", x.acts)
  <2>1. Shifted(x, KeepState, "running") = y /\ y \in Standings
    BY <1>1, ShiftedIs
  <2>2. y.state = x.state /\ y.css = "running" /\ y.acts = x.acts
    BY DEF Standing
  <2> HIDE DEF y
  <2>3. StateRests(y.state, y.acts, w.failed) /\ CheckRests(y.css, y.acts["status"], w.asked)
    BY <1>2, <2>2 DEF Rest, CheckRests
  <2>4. MayPost(r, y, w, "continue")
    BY <2>3, PostingIs
  <2>5. Leads(r, Post("continue"), Shifted(x, KeepState, "running"), w)
    BY <2>1, <2>4, LeadsPost
  <2> QED BY <1>1, <2>5, LeadsLaunchAndPoll
<1>6. Leads(r, runStatus(s), x, w)
  <2>1. Stamp("status") \in Seq(Still)
    BY <1>1, StampIs
  <2> DEFINE q == IF "status" \notin Disabled THEN launchAndPoll("status", s) ELSE statusSuccessful(NoPatch)
  <2>2. Leads(r, q, x, w)
    BY <1>4, <1>5
  <2> HIDE DEF q
  <2>3. Leads(r, Stamp("status") \o q, x, w)
    BY <2>1, <2>2, LeadsThrough
  <2> QED BY <2>3 DEF q, runStatus
<1>7. CASE s.css = "pending"
  BY <1>6, <1>7 DEF handleStatus
<1>8. CASE s.css = "running"
  BY <1>3, <1>4, <1>8 DEF handleStatus
<1> QED BY <1>2, <1>7, <1>8

(***************************************************************************)
(* Subject events.                                                         *)
(***************************************************************************)
\* A new subject is to be provisioned.
LEMMA LeadsCreate ==
    ASSUME NEW r, NEW x \in Standings, NEW w, Rest(x, w), r = EventRun("create"),
           x.state = NoState, \A a \in Actions : x.acts[a] = 0, NEW s, s.state = NoState
    PROVE  Leads(r, handleEventCreate(s), x, w)
<1> DEFINE st == Pending("provision")
           ac == x.acts
           bc == Queue(ac, "provision", {})
           y == Standing(st, x.css, ac)
           z == Standing(st, x.css, bc)
           p == [NoPatch EXCEPT !.state = st, !.uuid = TRUE]
<1>1. st \in Provisional /\ st \in SubjectStates /\ "provision" \in Actions /\ "fail" \in OnErrors
      /\ "none" \in JobStatuses \cup {"none", "pending", "running"} /\ r.kind = "event"
      /\ "none" \in {"none", "finish", "continue"}
  BY StatesApart DEF Provisional, OnErrors, EventRun, Actions
<1>2. HasMove(p, st, "keep")
  BY <1>1, Moved
<1>3. ac \in [Actions -> 0..MaxQueued] /\ \A a \in Actions : ac[a] = 0
  BY DEF Standings
<1>4. Shifted(x, st, "keep") = y /\ y \in Standings
  BY <1>1, ShiftedIs
<1>5. y.state = st /\ y.css = x.css /\ y.acts = ac /\ z.state = st /\ z.css = x.css /\ z.acts = bc
  BY DEF Standing
<1>6. CheckRests(x.css, ac["status"], w.asked)
  BY DEF Rest
<1> HIDE DEF ac, p, st
<1>7. /\ bc \in [Actions -> 0..MaxQueued] /\ bc["provision"] = 1
      /\ \A b \in Actions : b # "provision" => bc[b] = ac[b]
  BY <1>1, <1>3, QueueIs
<1> HIDE DEF bc
<1>8. /\ bc["destroy"] = 0 /\ bc["update"] = 0 /\ bc["start"] = 0 /\ bc["stop"] = 0
      /\ bc["status"] = ac["status"]
  BY <1>3, <1>7 DEF Actions
<1>9. z \in Standings
  BY <1>1, <1>7 DEF Standing, Standings
<1> HIDE DEF z
<1>10. StateRests(z.state, z.acts, w.failed) /\ CheckRests(z.css, z.acts["status"], w.asked)
  BY <1>1, <1>5, <1>6, <1>7, <1>8, RestProvision
<1>11. MayPost(r, z, w, "none")
  BY <1>1, <1>10, PostingIs
<1>12. Leads(r, Post("none"), z, w)
  BY <1>9, <1>11, LeadsPost
<1>13. z = Standing(y.state, y.css, Queue(y.acts, "provision", {}))
  BY <1>5 DEF z, bc
<1> HIDE DEF y
<1>14. Leads(r, <<Schedule("provision", {})>> \o Post("none"), y, w)
  BY <1>4, <1>12, <1>13, LeadsSchedule DEF Living, Power
<1>15. Leads(r, <<SkipPatch(p)>> \o (<<Schedule("provision", {})>> \o Post("none")), x, w)
  BY <1>1, <1>2, <1>4, <1>14, LeadsMove
<1>16. <<SkipPatch(p)>> \in Seq(Calls) /\ <<Schedule("provision", {})>> \in Seq(Calls) /\ Post("none") \in Seq(Calls)
  <2>1. Schedule("provision", {}) \in Calls
    BY <1>1, NoPatchIs DEF Schedule, Call, Calls
  <2> HIDE DEF Schedule
  <2>2. <<Schedule("provision", {})>> \in Seq(Calls)
    BY <2>1, Singleton
  <2> QED BY <1>1, <1>2, <2>2, CallsAre
<1>17. Leads(r, (<<SkipPatch(p)>> \o <<Schedule("provision", {})>>) \o Post("none"), x, w)
  BY <1>15, <1>16, LeadsGroup
<1>18. handleEventCreate(s) = (<<SkipPatch(p)>> \o <<Schedule("provision", {})>>) \o Post("none")
  BY DEF handleEventCreate, p, st
<1> QED BY <1>17, <1>18

\* A schedule is a call.
LEMMA ScheduleIs ==
    ASSUME NEW a \in Actions, NEW cancel \in SUBSET Actions PROVE <<Schedule(a, cancel)>> \in Seq(Calls)
<1>1. Schedule(a, cancel) \in Calls
  BY NoPatchIs DEF Schedule, Call, Calls
<1> HIDE DEF Schedule
<1> QED BY <1>1, Singleton

\* A status check is asked for.
LEMMA LeadsStatusCheck ==
    ASSUME NEW r, NEW x \in Standings, NEW w, Rest(x, w), r = EventRun("update"), w.asked,
           x.css \in {"none", "successful"}
    PROVE  Leads(r, scheduleStatusCheck \o Post("none"), x, w)
<1> DEFINE ac == x.acts
           bc == Queue(ac, "status", {})
           y == Standing(x.state, "pending", ac)
           z == Standing(x.state, "pending", bc)
           p == [NoPatch EXCEPT !.css = "pending"]
<1>1. "status" \in Actions /\ "fail" \in OnErrors /\ NoState \in SubjectStates
      /\ "pending" \in JobStatuses \cup {"none", "pending", "running"} /\ r.kind = "event"
      /\ "none" \in {"none", "finish", "continue"} /\ KeepState \in SubjectStates \cup {KeepState}
      /\ "pending" \in JobStatuses \cup {"pending"}
  BY DEF OnErrors, EventRun, Actions, SubjectStates
<1>2. HasMove(p, KeepState, "pending")
  BY <1>1, Moved
<1>3. ac \in [Actions -> 0..MaxQueued] /\ ac["status"] = 0
  BY RestFacts DEF Standings
<1>4. Shifted(x, KeepState, "pending") = y /\ y \in Standings
  BY <1>1, ShiftedIs
<1>5. y.state = x.state /\ y.css = "pending" /\ y.acts = ac /\ z.state = x.state /\ z.css = "pending" /\ z.acts = bc
  BY DEF Standing
<1>6. StateRests(x.state, ac, w.failed)
  BY DEF Rest
<1> HIDE DEF ac, p
<1>7. /\ bc \in [Actions -> 0..MaxQueued] /\ bc["status"] = 1
      /\ \A b \in Actions : b # "status" => bc[b] = ac[b]
  BY <1>1, <1>3, QueueIs
<1> HIDE DEF bc
<1>8. z \in Standings
  BY <1>1, <1>7 DEF Standing, Standings
<1> HIDE DEF z
<1>9. StateRests(z.state, z.acts, w.failed)
  BY <1>5, <1>6, <1>7, RestSame
<1>10. CheckRests(z.css, z.acts["status"], w.asked)
  BY <1>5, <1>7 DEF CheckRests
<1>11. MayPost(r, z, w, "none")
  BY <1>1, <1>9, <1>10, PostingIs
<1>12. Leads(r, Post("none"), z, w)
  BY <1>8, <1>11, LeadsPost
<1>13. z = Standing(y.state, y.css, Queue(y.acts, "status", {}))
  BY <1>5 DEF z, bc
<1> HIDE DEF y
<1>14. Leads(r, <<Schedule("status", {})>> \o Post("none"), y, w)
  BY <1>4, <1>12, <1>13, LeadsSchedule DEF Living, Power
<1>15. Leads(r, <<SkipPatch(p)>> \o (<<Schedule("status", {})>> \o Post("none")), x, w)
  BY <1>1, <1>2, <1>4, <1>14, LeadsMove
<1>16. <<SkipPatch(p)>> \in Seq(Calls) /\ <<Schedule("status", {})>> \in Seq(Calls) /\ Post("none") \in Seq(Calls)
  BY <1>1, <1>2, CallsAre, ScheduleIs
<1>17. Leads(r, (<<SkipPatch(p)>> \o <<Schedule("status", {})>>) \o Post("none"), x, w)
  BY <1>15, <1>16, LeadsGroup
<1>18. scheduleStatusCheck = <<SkipPatch(p)>> \o <<Schedule("status", {})>>
  BY Tuple2 DEF scheduleStatusCheck, p
<1> QED BY <1>17, <1>18

\* A start or stop is asked for.
LEMMA LeadsTurn ==
    ASSUME NEW r, NEW x \in Standings, NEW w, Rest(x, w), r = EventRun("update"), x.acts["provision"] = 0,
           NEW a \in Power, NEW q, \A y \in Standings : Rest(y, w) /\ y.css = x.css => Leads(r, q, y, w)
    PROVE  Leads(r, scheduleUpdateAction(a) \o q, x, w)
<1> DEFINE st == Pending(a)
           ac == x.acts
           C == {"start", "stop"}
           bc == Queue(ac, a, C)
           y == Standing(st, x.css, ac)
           z == Standing(st, x.css, bc)
           p == [NoPatch EXCEPT !.state = st]
<1>1. a \in Actions /\ "fail" \in OnErrors /\ st \in SubjectStates /\ C \in SUBSET Actions
      /\ "none" \in JobStatuses \cup {"none", "pending", "running"} /\ r # EventRun("create")
      /\ a \in Living /\ a # "provision"
  BY StatesApart DEF Power, OnErrors, Actions, EventRun, Living
<1>2. HasMove(p, st, "keep")
  BY <1>1, Moved
<1>3. /\ ac \in [Actions -> 0..MaxQueued] /\ ac["provision"] = 0 /\ ac["destroy"] = 0 /\ ac["update"] = 0
  BY RestFacts DEF Standings
<1>4. Shifted(x, st, "keep") = y /\ y \in Standings
  BY <1>1, ShiftedIs
<1>5. y.state = st /\ y.css = x.css /\ y.acts = ac /\ z.state = st /\ z.css = x.css /\ z.acts = bc
  BY DEF Standing
<1>6. CheckRests(x.css, ac["status"], w.asked)
  BY DEF Rest
<1> HIDE DEF ac, p, C
<1>7. /\ bc \in [Actions -> 0..MaxQueued] /\ bc[a] > 0
      /\ \A b \in Actions : b # a /\ b \notin C => bc[b] = ac[b]
  BY <1>1, <1>3, QueueIs
<1> HIDE DEF bc
<1>8. /\ bc["destroy"] = 0 /\ bc["update"] = 0 /\ bc["provision"] = 0 /\ bc["status"] = ac["status"]
  BY <1>3, <1>7 DEF Actions, Power, C
<1>9. z \in Standings
  BY <1>1, <1>7 DEF Standing, Standings
<1> HIDE DEF z
<1>10. StateRests(z.state, z.acts, w.failed)
  <2>1. st \in {Pending(a), Running(a)} /\ st # Running(a)
    BY StatesApart
  <2> HIDE DEF st
  <2> QED BY <1>5, <1>7, <1>8, <2>1, RestPower
<1>11. Rest(z, w)
  BY <1>5, <1>6, <1>8, <1>10 DEF Rest
<1>12. Leads(r, q, z, w)
  BY <1>5, <1>9, <1>11
<1>13. z = Standing(y.state, y.css, Queue(y.acts, a, C))
  BY <1>5 DEF z, bc
<1> HIDE DEF y, st
<1>14. Leads(r, <<Schedule(a, C)>> \o q, y, w)
  <2>1. y.acts["provision"] = 0
    BY <1>3, <1>5
  <2> QED BY <1>1, <1>4, <1>12, <1>13, <2>1, LeadsSchedule
<1>15. Leads(r, <<SkipPatch(p)>> \o (<<Schedule(a, C)>> \o q), x, w)
  BY <1>1, <1>2, <1>4, <1>14, LeadsMove
<1>16. <<SkipPatch(p)>> \in Seq(Calls) /\ <<Schedule(a, C)>> \in Seq(Calls) /\ q \in Seq(Calls)
  BY <1>1, <1>2, <1>12, CallsAre, ScheduleIs, LeadsHead
<1>17. Leads(r, (<<SkipPatch(p)>> \o <<Schedule(a, C)>>) \o q, x, w)
  BY <1>15, <1>16, LeadsGroup
<1>18. scheduleUpdateAction(a) = <<SkipPatch(p)>> \o <<Schedule(a, C)>>
  BY Tuple2 DEF scheduleUpdateAction, p, C, st
<1> QED BY <1>17, <1>18

\* An update event.
LEMMA LeadsUpdate ==
    ASSUME Equipped, NEW r, NEW x \in Standings, NEW w, Rest(x, w), r = EventRun("update"),
           NEW s, s.state = x.state, s.css = x.css, s.asked # 0 => w.asked, w.asked => s.asked # 0
    PROVE  Leads(r, handleEventUpdate(s), x, w)
<1> DEFINE a == determineUpdateAction(s)
           turn == IF a \in GovActions THEN scheduleUpdateAction(a) ELSE <<>>
           check == IF "status" \in GovActions /\ shouldScheduleStatus(s) THEN scheduleStatusCheck ELSE <<>>
           q == check \o Post("none")
<1>1. handleEventUpdate(s) = (turn \o check) \o Post("none")
  BY DEF handleEventUpdate
<1>2. r.kind = "event" /\ "none" \in {"none", "finish", "continue"} /\ <<>> \in Seq(Still)
  BY DEF EventRun
<1>3. Post("none") \in Seq(Calls) /\ check \in Seq(Calls)
  <2> DEFINE p == [NoPatch EXCEPT !.css = "pending"]
  <2>1. KeepState \in SubjectStates \cup {KeepState} /\ "pending" \in JobStatuses \cup {"pending"}
        /\ "status" \in Actions
    BY DEF Actions
  <2>2. HasMove(p, KeepState, "pending")
    BY <2>1, Moved
  <2> HIDE DEF p
  <2>3. <<SkipPatch(p)>> \in Seq(Calls) /\ <<Schedule("status", {})>> \in Seq(Calls)
    BY <2>1, <2>2, CallsAre, ScheduleIs
  <2>4. scheduleStatusCheck = <<SkipPatch(p)>> \o <<Schedule("status", {})>>
    BY Tuple2 DEF scheduleStatusCheck, p
  <2>5. scheduleStatusCheck \in Seq(Calls)
    BY <2>3, <2>4, Concat
  <2> QED BY <1>2, <2>5, CallsAre
<1>4. ASSUME NEW y \in Standings, Rest(y, w), y.css = x.css PROVE Leads(r, q, y, w)
  <2>1. CASE "status" \in GovActions /\ shouldScheduleStatus(s)
    <3>1. w.asked /\ y.css \in {"none", "successful"}
      <4>1. x.css = "pending" => w.asked
        BY RestFacts
      <4> QED BY <1>4, <2>1, <4>1 DEF shouldScheduleStatus
    <3>2. Leads(r, scheduleStatusCheck \o Post("none"), y, w)
      BY <1>4, <3>1, LeadsStatusCheck
    <3> QED BY <2>1, <3>2
  <2>2. CASE ~("status" \in GovActions /\ shouldScheduleStatus(s))
    <3>1. MayPost(r, y, w, "none")
      BY <1>2, <1>4, PostingIs DEF Rest
    <3>2. Leads(r, Post("none"), y, w)
      BY <1>4, <3>1, LeadsPost
    <3>3. Leads(r, <<>> \o Post("none"), y, w)
      BY <1>2, <3>2, LeadsThrough
    <3> QED BY <2>2, <3>3
  <2> QED BY <2>1, <2>2
<1>5. q \in Seq(Calls)
  BY <1>3, Concat
<1> HIDE DEF check, q
<1>6. Leads(r, turn \o q, x, w) /\ turn \in Seq(Calls)
  <2>1. CASE a \in GovActions
    <3>1. a \in Power /\ x.state \in {Started, Stopped}
      <4>1. "none" \notin GovActions /\ "update" \notin GovActions
        BY GovernorAssumption DEF Equipped, Actions
      <4> QED BY <2>1, <4>1 DEF determineUpdateAction, Power
    <3> HIDE DEF a
    <3>2. x.acts["provision"] = 0
      <4>1. x.state \notin Provisional
        BY <3>1, StatesApart DEF Restful
      <4> QED BY <4>1, RestFacts
    <3>3. Leads(r, scheduleUpdateAction(a) \o q, x, w)
      BY <1>4, <3>1, <3>2, LeadsTurn
    <3>4. scheduleUpdateAction(a) \in Seq(Calls)
      <4> DEFINE p == [NoPatch EXCEPT !.state = Pending(a)]
                 C == {"start", "stop"}
      <4>1. Pending(a) \in SubjectStates /\ a \in Actions /\ C \in SUBSET Actions
        BY <3>1, StatesApart DEF Power, Actions
      <4>2. HasMove(p, Pending(a), "keep")
        BY <4>1, Moved
      <4>3. scheduleUpdateAction(a) = <<SkipPatch(p)>> \o <<Schedule(a, C)>>
        BY Tuple2 DEF scheduleUpdateAction
      <4> HIDE DEF p, C
      <4>4. <<SkipPatch(p)>> \in Seq(Calls) /\ <<Schedule(a, C)>> \in Seq(Calls)
        BY <4>1, <4>2, CallsAre, ScheduleIs
      <4> QED BY <4>3, <4>4, Concat
    <3>5. turn = scheduleUpdateAction(a)
      BY <2>1 DEF a
    <3> QED BY <3>3, <3>4, <3>5
  <2>2. CASE a \notin GovActions
    <3>1. Leads(r, q, x, w)
      BY <1>4
    <3>2. Leads(r, <<>> \o q, x, w)
      BY <1>2, <3>1, LeadsThrough
    <3>3. turn = <<>> /\ <<>> \in Seq(Calls)
      BY <2>2
    <3> HIDE DEF turn
    <3> QED BY <3>2, <3>3
  <2> QED BY <2>1, <2>2
<1> HIDE DEF turn
<1>7. Leads(r, (turn \o check) \o Post("none"), x, w)
  <2>1. Leads(r, turn \o (check \o Post("none")), x, w)
    BY <1>6 DEF q
  <2> QED BY <1>3, <1>6, <2>1, LeadsGroup
<1> QED BY <1>1, <1>7

(***************************************************************************)
(* The steps of a handler, while no call fails.                            *)
(***************************************************************************)
LEMMA NowType == ASSUME IInv PROVE Now \in Standings
BY DEF IInv, Sound, Types, Now, Standing, Standings

\* A call that neither patches nor schedules leaves the subject where it stands.
LEMMA EffectQuiet ==
    ASSUME NEW x \in Standings, NEW c, c.op \notin {"patch", "schedule"} PROVE Effect(x, c) = x
<1>1. Effect(x, c) = Standing(x.state, x.css, x.acts)
  BY DEF Effect
<1> QED BY <1>1 DEF Standing, Standings

\* The run in execution has calls to make, and the first of them leads to rest.
LEMMA CourseHead ==
    ASSUME IInv, Unstuck, todo # <<>>
    PROVE  /\ run # NoRun /\ "create" \notin events /\ Head(todo) \in Calls /\ Now \in Standings
           /\ Leads(run, todo, Now, Means)
           /\ \/ Closes(run, Now, Means, Head(todo))
              \/ Goes(run, Now, Means, Head(todo)) /\ Leads(run, Tail(todo), Effect(Now, Head(todo)), Means)
<1>1. run # NoRun
  BY DEF IInv, Sound, Types
<1>2. Leads(run, todo, Now, Means)
  BY <1>1 DEF Unstuck, Course
<1>3. "create" \notin events
  BY <1>1 DEF Unstuck, Fresh
<1> QED BY <1>1, <1>2, <1>3, LeadsHead

\* Something outside may only begin to fail.
LEMMA MeansAre ==
    /\ (Means.asked <=> subj.asked # 0) /\ (Means.failed <=> used.failure > 0)
    /\ (Means'.asked <=> subj'.asked # 0) /\ (Means'.failed <=> used'.failure > 0)
<1>1. ASSUME NEW a \in BOOLEAN, NEW f \in BOOLEAN
      PROVE  ([asked |-> a, failed |-> f].asked <=> a) /\ ([asked |-> a, failed |-> f].failed <=> f)
  OBVIOUS
<1> DEFINE a == subj.asked # 0
           f == used.failure > 0
<1>2. (Means.asked <=> a) /\ (Means.failed <=> f)
  <2>1. a \in BOOLEAN /\ f \in BOOLEAN /\ Means = [asked |-> a, failed |-> f]
    BY DEF Means
  <2> HIDE DEF a, f
  <2> QED BY <1>1, <2>1
<1>3. (Means'.asked <=> a') /\ (Means'.failed <=> f')
  <2> DEFINE b == subj'.asked # 0
             g == used'.failure > 0
  <2>1. b \in BOOLEAN /\ g \in BOOLEAN /\ Means' = [asked |-> b, failed |-> g]
    BY DEF Means
  <2>2. (b <=> a') /\ (g <=> f')
    OBVIOUS
  <2> HIDE DEF a, f, b, g
  <2> QED BY <1>1, <2>1, <2>2
<1> QED BY <1>2, <1>3

LEMMA MeansGrow ==
    ASSUME IInv, Onwards, subj'.asked = subj.asked \/ subj'.asked # 0
    PROVE  More(Means, Means')
<1>1. used.failure \in Nat /\ used'.failure \in Nat
  BY DEF IInv, Sound, Types, Onwards
<1> QED BY <1>1, MeansAre DEF Onwards, More

\* A handler goes on.
LEMMA Carried ==
    ASSUME Unstuck, run # NoRun, UNCHANGED <<acts, callbacks, run, gone, stuck>>,
           events' \subseteq events \cup {"update"}, Leads(run, todo', Now', Means')
    PROVE  Unstuck'
<1>1. "create" \notin events /\ "create" \notin events' /\ "delete" \notin events'
  BY DEF Unstuck, Fresh, Named
<1>2. ~gone' /\ stuck' = {}
  BY DEF Unstuck
<1>3. Fresh'
  BY <1>1 DEF Fresh
<1>4. Named'
  BY <1>1 DEF Unstuck, Named
<1>5. Infancy'
  <2>1. Infant' => Infant
    BY <1>1 DEF Infant
  <2> QED BY <2>1 DEF Unstuck, Infancy
<1>6. Course'
  BY DEF Course
<1> QED BY <1>2, <1>3, <1>4, <1>5, <1>6 DEF Unstuck

\* It goes on without a change of the subject or its actions.
LEMMA CarriedQuietly ==
    ASSUME IInv, Onwards, Unstuck, todo # <<>>, UNCHANGED <<subj, events, acts, callbacks, run, gone, stuck>>,
           Leads(run, todo', Now, Means)
    PROVE  Unstuck'
<1>1. Now' = Now /\ More(Means, Means') /\ run # NoRun
  BY MeansGrow, CourseHead DEF Now
<1>2. Leads(run, todo', Now', Means')
  <2>1. Leads(run, todo', Now, Means')
    BY <1>1, LeadsMore
  <2> QED BY <1>1, <2>1
<1> QED BY <1>1, <1>2, Carried

\* A patch.
LEMMA MergedAsked == ASSUME IInv, NEW p \in Patches PROVE Merged(p).asked = subj.asked
<1> DEFINE st == IF p.state = KeepState THEN subj.state ELSE p.state
           de == IF p.desired = "keep" THEN subj.desired ELSE p.desired
           cs == IF p.css = "keep" THEN subj.css ELSE p.css
           v == IF p.vars = "keep" THEN subj.vars
                ELSE [edit |-> snap.vars.edit, forensics |-> subj.vars.forensics \/ p.vars = "forensics"]
           uu == subj.uuid \/ p.uuid
<1>1. subj \in Subjects
  BY DEF IInv, Sound, Types, Subjects
<1>2. Merged(p) = [subj EXCEPT !.state = st, !.desired = de, !.css = cs, !.vars = v, !.uuid = uu]
  BY <1>1 DEF Merged, Subjects
<1> HIDE DEF st, de, cs, v, uu
<1> QED BY <1>1, <1>2 DEF Subjects

LEMMA SubjectUpdateLeads ==
    ASSUME IInv, Onwards, Unstuck, SubjectUpdate, used'.fault = 0 PROVE Unstuck'
<1> DEFINE c == Head(todo)
           p == c.patch
<1>1. /\ todo # <<>> /\ c.op = "patch" /\ UNCHANGED <<acts, stuck, callbacks, gone, run>>
      /\ Apply(p) /\ todo' = Tail(todo)
  BY NoFault DEF SubjectUpdate, At, Does, Succeeds, Continue, anarchy, sandbox
<1>2. /\ run # NoRun /\ c \in Calls /\ Now \in Standings
      /\ Leads(run, Tail(todo), Effect(Now, c), Means)
  BY <1>1, CourseHead DEF Closes
<1>3. p \in Patches
  BY <1>2 DEF Calls
<1> HIDE DEF c, p
<1>4. PatchFacts(p) /\ subj'.asked = subj.asked
  <2>1. PatchFacts(p)
    BY <1>1, <1>3, PatchIsApplied
  <2>2. subj' = Merged(p)
    BY <1>1 DEF Apply
  <2> QED BY <1>3, <2>1, <2>2, MergedAsked
<1>5. Now' = Effect(Now, c)
  <2>1. Effect(Now, c) = Standing(IF p.state # KeepState THEN p.state ELSE subj.state,
                                  IF p.css # "keep" THEN p.css ELSE subj.css, acts)
    BY <1>1 DEF Effect, Now, Standing, p
  <2>2. Now' = Standing(subj'.state, subj'.css, acts)
    BY <1>1 DEF Now, Standing
  <2> QED BY <1>4, <2>1, <2>2 DEF PatchFacts
<1>6. More(Means, Means')
  BY <1>4, MeansGrow
<1>7. Leads(run, todo', Now', Means')
  <2>1. Leads(run, Tail(todo), Effect(Now, c), Means')
    BY <1>2, <1>6, LeadsMore
  <2> QED BY <1>1, <1>5, <2>1
<1>8. events' \subseteq events \cup {"update"}
  BY <1>4 DEF PatchFacts
<1> QED BY <1>1, <1>2, <1>7, <1>8, Carried

\* An action is scheduled.
LEMMA ScheduleActionLeads ==
    ASSUME IInv, Onwards, Unstuck, ScheduleAction, used'.fault = 0 PROVE Unstuck'
<1> DEFINE c == Head(todo)
           a == c.act
           bc == Queue(acts, a, c.cancel)
<1>1. /\ todo # <<>> /\ c.op = "schedule" /\ UNCHANGED <<subj, events, callbacks, gone, run>>
      /\ acts' = Scheduled(a, c.cancel) /\ stuck' = stuck \ c.cancel /\ todo' = Tail(todo)
  BY NoFault DEF ScheduleAction, At, Does, Succeeds, Continue, subject, sandbox
<1>2. /\ run # NoRun /\ c \in Calls /\ Now \in Standings /\ Goes(run, Now, Means, c) /\ "create" \notin events
      /\ Leads(run, Tail(todo), Effect(Now, c), Means)
  BY <1>1, CourseHead DEF Closes
<1>3. acts' = bc /\ Now.acts = acts
  BY <1>1 DEF Scheduled, Queue, Now, Standing
<1>4. /\ a \in Living /\ (a \in Power => acts["provision"] = 0 /\ run # EventRun("create"))
      /\ (a = "provision" => run = EventRun("create"))
  BY <1>1, <1>2, <1>3 DEF Goes
<1>5. acts \in [Actions -> 0..MaxQueued]
  BY DEF IInv, Sound, Types
<1> HIDE DEF c
<1>6. /\ \A b \in Actions : b # a /\ b \in c.cancel => bc[b] = 0
      /\ \A b \in Actions : b # a /\ b \notin c.cancel => bc[b] = acts[b]
  BY <1>5, QueueIs
<1> HIDE DEF bc, a
<1>7. \A b \in Actions : b # a /\ acts[b] = 0 => acts'[b] = 0
  BY <1>3, <1>6
<1>8. ~gone' /\ stuck' = {} /\ Fresh'
  BY <1>1, <1>2 DEF Unstuck, Fresh
<1>9. Named'
  <2>1. a \notin {"destroy", "update"} /\ {"destroy", "update"} \subseteq Actions
    BY <1>4 DEF Living, Actions
  <2> QED BY <1>1, <1>7, <2>1 DEF Unstuck, Named
<1>10. Infancy'
  <2> SUFFICES ASSUME Infant' PROVE acts'["start"] = 0 /\ acts'["stop"] = 0
                                    /\ \A d \in callbacks \cup {run} : d.name \notin Power
    BY <1>1 DEF Infancy
  <2>1. run = EventRun("create") \/ acts'["provision"] > 0
    BY <1>1, <1>2 DEF Infant
  <2>2. Infant /\ a \notin Power
    <3>1. CASE a = "provision"
      BY <1>4, <3>1 DEF Infant, Power
    <3>2. CASE a # "provision"
      <4>1. acts["provision"] = 0 => acts'["provision"] = 0
        BY <1>7, <3>2, ActionNames
      <4>2. acts["provision"] \in Nat
        BY <1>5, ActionNames, LifecycleAssumption
      <4> QED BY <1>4, <2>1, <4>1, <4>2 DEF Infant
    <3> QED BY <3>1, <3>2
  <2>3. /\ acts["start"] = 0 /\ acts["stop"] = 0
        /\ \A d \in callbacks \cup {run} : d.name \notin Power
    BY <2>2 DEF Unstuck, Infancy
  <2>4. a # "start" /\ a # "stop" /\ "start" \in Actions /\ "stop" \in Actions
    BY <2>2 DEF Power, Actions
  <2> QED BY <1>7, <2>3, <2>4
<1>11. Course'
  <2>1. Effect(Now, c) = Standing(subj.state, subj.css, bc)
    BY <1>1 DEF Effect, Now, Standing, bc, a
  <2>2. Now' = Standing(subj.state, subj.css, acts')
    BY <1>1 DEF Now, Standing
  <2>3. Now' = Effect(Now, c)
    BY <1>3, <2>1, <2>2
  <2>4. More(Means, Means')
    BY <1>1, MeansGrow
  <2>5. Leads(run, Tail(todo), Effect(Now, c), Means')
    BY <1>2, <2>4, LeadsMore
  <2> QED BY <1>1, <1>2, <2>3, <2>5 DEF Course
<1> QED BY <1>8, <1>9, <1>10, <1>11 DEF Unstuck

\* A launch; cancelling jobs and releasing a placement are for a subject that goes.
LEMMA LaunchJobLeads ==
    ASSUME IInv, Onwards, Unstuck, LaunchJob, used'.fault = 0 PROVE Unstuck'
<1>1. /\ todo # <<>> /\ Head(todo).op = "launch" /\ todo' = Tail(todo)
      /\ UNCHANGED <<subj, events, acts, callbacks, run, gone, stuck>>
  BY NoFault DEF LaunchJob, At, Does, Succeeds, Continue, subject, anarchy, sandbox
<1>2. Now \in Standings /\ Leads(run, Tail(todo), Effect(Now, Head(todo)), Means)
  BY <1>1, CourseHead DEF Closes
<1>3. Effect(Now, Head(todo)) = Now
  BY <1>1, <1>2, EffectQuiet
<1>4. Leads(run, todo', Now, Means)
  BY <1>1, <1>2, <1>3
<1> QED BY <1>1, <1>4, CarriedQuietly

LEMMA NoneParts == ASSUME IInv, Unstuck PROVE ~CancelJobs /\ ~ReleasePlacement
BY CourseHead DEF Closes, Goes, CancelJobs, ReleasePlacement, At

\* A poll.
LEMMA PollJobLeads == ASSUME IInv, Onwards, Unstuck, PollJob, used'.fault = 0 PROVE Unstuck'
<1> DEFINE a == Head(todo).act
<1>1. /\ todo # <<>> /\ Head(todo).op = "poll" /\ todo' = jobPolled(a, tower[a].job, snap)
      /\ UNCHANGED <<subj, events, acts, callbacks, run, gone, stuck>>
  BY NoFault DEF PollJob, At, Continue, subject, anarchy, sandbox
<1>2. Now \in Standings /\ run = ActionRun(a) /\ Rest(Now, Means) /\ Now.acts[a] > 0
  BY <1>1, CourseHead DEF Closes, Goes
<1>3. a \in Living
  <2>1. run.kind = "action" /\ run.name = a
    BY <1>2 DEF ActionRun
  <2> QED BY <2>1 DEF Unstuck, Named
<1> HIDE DEF a
<1>4. Leads(run, jobPolled(a, tower[a].job, snap), Now, Means)
  BY <1>2, <1>3, LeadsPolled
<1> QED BY <1>1, <1>4, CarriedQuietly

\* The answers about the placement.
LEMMA GetPlacementLeads ==
    ASSUME Equipped, IInv, Onwards, Unstuck, GetPlacement, used'.fault = 0 PROVE Unstuck'
<1> DEFINE t == Tail(todo)
           u == updateSubjectSandboxVars("ignore")
<1>1. /\ todo # <<>> /\ Head(todo).op = "get"
      /\ todo' = IF Head(todo).act = "provision" THEN placedOrNot(placement, t)
                 ELSE IF placement = "success" THEN u \o t ELSE t
      /\ UNCHANGED <<subj, events, acts, callbacks, run, gone, stuck>>
  BY NoFault DEF GetPlacement, At, Continue, subject, anarchy, sandbox
<1>2. Now \in Standings /\ Leads(run, t, Effect(Now, Head(todo)), Means) /\ Goes(run, Now, Means, Head(todo))
  BY <1>1, CourseHead DEF Closes
<1>3. Leads(run, t, Now, Means)
  <2>1. Effect(Now, Head(todo)) = Now
    BY <1>1, <1>2, EffectQuiet
  <2> QED BY <1>2, <2>1
<1> HIDE DEF t
<1>4. placement \in PlacementStatuses
  BY DEF IInv, Sound, Types
<1>5. Head(todo).act = "provision" => Leads(run, placedOrNot(placement, t), Now, Means)
  <2>1. Head(todo).act = "provision" => Provides(run, Now, Means)
    BY <1>1, <1>2 DEF Goes, Looks, Provides
  <2> QED BY <1>3, <1>4, <2>1, LeadsPlaced
<1>6. Leads(run, u \o t, Now, Means)
  <2> DEFINE n == [NoPatch EXCEPT !.vars = "same"]
  <2>1. HasMove(n, KeepState, "keep") /\ "ignore" \in OnErrors
    BY ActionNames, Moved DEF OnErrors
  <2> HIDE DEF n
  <2>2. <<[SkipPatch(n) EXCEPT !.onError = "ignore"]>> \in Seq(Still)
    BY <2>1, StillCalls DEF HasMove
  <2>3. u \in Seq(Still)
    BY <2>2 DEF updateSubjectSandboxVars, n
  <2> HIDE DEF u
  <2> QED BY <1>3, <2>3, LeadsThrough
<1> HIDE DEF u
<1>7. Leads(run, todo', Now, Means)
  BY <1>1, <1>3, <1>5, <1>6
<1> QED BY <1>1, <1>7, CarriedQuietly

LEMMA BookingLeads ==
    ASSUME Equipped, IInv, Onwards, Unstuck, GetBooked \/ CheckQueue \/ BookPlacement, used'.fault = 0
    PROVE  Unstuck'
<1> DEFINE t == Tail(todo)
           c == Head(todo)
<1>1. /\ todo # <<>> /\ c.op \in {"book", "reget", "checkQueue"}
      /\ UNCHANGED <<subj, events, acts, callbacks, run, gone, stuck>>
  BY DEF GetBooked, CheckQueue, BookPlacement, At, subject, anarchy, sandbox
<1>2. /\ Provides(run, Now, Means) /\ Now \in Standings /\ run # NoRun
      /\ c.op # "checkQueue" => Leads(run, t, Now, Means)
  <2>1. CASE c.op = "checkQueue"
    BY <1>1, <2>1, CourseHead DEF Closes, Goes, Provides
  <2>2. CASE c.op # "checkQueue"
    <3>1. /\ Now \in Standings /\ Leads(run, t, Effect(Now, c), Means) /\ Goes(run, Now, Means, c)
          /\ run # NoRun
      BY <1>1, <2>2, CourseHead DEF Closes
    <3>2. Effect(Now, c) = Now
      BY <1>1, <3>1, EffectQuiet
    <3> QED BY <1>1, <2>2, <3>1, <3>2 DEF Goes, Looks, Provides
  <2> QED BY <2>1, <2>2
<1> HIDE DEF t
<1>3. placement \in PlacementStatuses /\ "absent" \in PlacementStatuses /\ "error" \in PlacementStatuses
  BY DEF IInv, Sound, Types, PlacementStatuses
<1>4. ASSUME NEW s, Leads(run, s, Now, Means), Continue(s) PROVE Unstuck'
  <2>1. Leads(run, todo', Now, Means)
    BY <1>4 DEF Continue
  <2> QED BY <1>1, <2>1, CarriedQuietly
<1>5. CASE GetBooked
  <2>1. c.op = "reget" /\ (Continue(bookedAgain(placement, t)) \/ Continue(bookedAgain("absent", t)))
    BY <1>5, NoFault DEF GetBooked, At, t
  <2>2. Leads(run, bookedAgain(placement, t), Now, Means) /\ Leads(run, bookedAgain("absent", t), Now, Means)
    BY <1>2, <1>3, <2>1, LeadsPlaced
  <2> QED BY <1>4, <2>1, <2>2
<1>6. CASE CheckQueue
  <2>1. Continue(queueChecked(placement, snap))
    BY <1>6, NoFault DEF CheckQueue
  <2>2. Leads(run, queueChecked(placement, snap), Now, Means)
    BY <1>2, <1>3, LeadsQueueCheck
  <2> QED BY <1>4, <2>1, <2>2
<1>7. CASE BookPlacement
  <2>1. c.op = "book" /\ Leads(run, t, Now, Means)
    BY <1>2, <1>7 DEF BookPlacement, At
  <2>2. \/ \E st \in PlacementStatuses \ {"absent"} : Continue(booked(st, t))
        \/ Continue(booked("refused", t))
        \/ Continue(booked("invalid", t)) /\ Spend("failure", MaxFailures)
    <3>1. CASE \E st \in IF placement = "absent" THEN NotReady \cup {"success"} ELSE {placement} :
                 Continue(booked(st, t))
      BY <1>3, <3>1 DEF PlacementStatuses, NotReady
    <3>2. CASE \E st \in {"invalid", "refused", "error"} : Continue(booked(st, t)) /\ Spend("failure", MaxFailures)
      BY <3>2 DEF PlacementStatuses
    <3> QED BY <1>7, <3>1, <3>2, NoFault DEF BookPlacement, t
  <2>3. Leads(run, booked("refused", t), Now, Means)
    BY <1>2, <1>3, <2>1, LeadsPlaced
  <2>4. \A st \in PlacementStatuses \ {"absent"} : Leads(run, booked(st, t), Now, Means)
    BY <1>2, <2>1, LeadsPlaced
  <2>5. ASSUME Continue(booked("invalid", t)), Spend("failure", MaxFailures) PROVE Unstuck'
    <3>1. SandboxInUse
      BY <1>1, <2>1, HeadOK DEF Allowed, MayBook
    <3>2. More(Means, Means') /\ Now' = Now
      BY <1>1, MeansGrow DEF Now
    <3>3. Means'.failed
      <4>1. used'.failure # 0 /\ used'.failure \in Nat
        <5>1. used'["failure"] # 0 /\ Onwards
          BY <2>5, SpendMore
        <5> QED BY <5>1 DEF Onwards
      <4> QED BY <4>1, MeansAre
    <3>4. Provides(run, Now, Means')
      BY <1>2, <3>2, RestMore DEF Provides
    <3> DEFINE v == Means'
    <3>5. Leads(run, t, Now, v)
      BY <2>1, <3>2, LeadsMore
    <3>6. Leads(run, booked("invalid", t), Now, v)
      <4>1. Provides(run, Now, v) /\ v.failed
        BY <3>3, <3>4
      <4> HIDE DEF v
      <4> QED BY <1>3, <3>1, <3>5, <4>1, LeadsPlaced
    <3>7. Leads(run, todo', Now', Means')
      BY <2>5, <3>2, <3>6 DEF Continue
    <3> QED BY <1>1, <1>2, <3>7, Carried
  <2> QED BY <1>4, <2>2, <2>3, <2>4, <2>5
<1> QED BY <1>5, <1>6, <1>7

\* The calls to the sandbox API about the placement's power.
LEMMA PowerCallLeads ==
    ASSUME IInv, Onwards, Unstuck, PowerPlacement \/ AwaitRequest, used'.fault = 0 PROVE Unstuck'
<1> DEFINE c == Head(todo)
           a == c.act
           f == c.onError
           t == Tail(todo)
           h == Handled(c, t)
<1>1. /\ todo # <<>> /\ c.op \in {"power", "await"}
      /\ UNCHANGED <<subj, events, acts, callbacks, run, gone, stuck>>
  BY DEF PowerPlacement, AwaitRequest, At, subject, anarchy, sandbox
<1>2. /\ Now \in Standings /\ Goes(run, Now, Means, c) /\ Leads(run, t, Effect(Now, c), Means)
  BY <1>1, CourseHead DEF Closes
<1>3. /\ a \in Power /\ f \in {"ignore", "finish"} /\ (f = "finish" => MayPost(run, Now, Means, "finish"))
  BY <1>1, <1>2 DEF Goes
<1>4. Leads(run, t, Now, Means)
  <2>1. Effect(Now, c) = Now
    BY <1>1, <1>2, EffectQuiet
  <2> QED BY <1>2, <2>1
<1>5. /\ \/ Continue(h) \/ Continue(Recovery(c, t))
         \/ Continue(requested(a, f, TRUE) \o t) \/ Continue(requested(a, f, FALSE) \o t)
         \/ Continue(requestEnded(c, power.ended, t, h))
  BY NoFault DEF PowerPlacement, AwaitRequest
<1>6. ASSUME NEW s, Leads(run, s, Now, Means), Continue(s) PROVE Unstuck'
  <2>1. Leads(run, todo', Now, Means)
    BY <1>6 DEF Continue
  <2> QED BY <1>1, <2>1, CarriedQuietly
<1>7. Leads(run, h, Now, Means)
  <2>1. CASE f = "ignore"
    BY <1>4, <2>1 DEF Handled
  <2>2. CASE f = "finish"
    <3>1. h = Post("finish")
      BY <2>2 DEF Handled
    <3>2. Leads(run, Post("finish"), Now, Means)
      BY <1>2, <1>3, <2>2, LeadsPost
    <3> QED BY <3>1, <3>2
  <2> QED BY <1>3, <2>1, <2>2
<1>8. Recovery(c, t) = (IF c.traced THEN recordSandboxActionFailure(a) ELSE <<>>) \o h
  BY DEF Recovery
<1>9. requestEnded(c, power.ended, t, h) = IF power.ended = "success"
                                            THEN recordSandboxJobOutcome(a, "successful", f) \o t
                                            ELSE recordSandboxActionFailure(a) \o h
  BY DEF requestEnded
<1> HIDE DEF t, h, a, f, c
<1>10. ASSUME NEW s, Leads(run, s, Now, Means)
       PROVE  /\ \A async \in BOOLEAN : Leads(run, requested(a, f, async) \o s, Now, Means)
              /\ Leads(run, recordSandboxJobOutcome(a, "successful", f) \o s, Now, Means)
              /\ Leads(run, recordSandboxActionFailure(a) \o s, Now, Means)
              /\ Leads(run, <<>> \o s, Now, Means)
  <2>1. <<>> \in Seq(Still)
    OBVIOUS
  <2>2. Leads(run, <<>> \o s, Now, Means)
    BY <1>10, <2>1, LeadsThrough
  <2>3. /\ \A async \in BOOLEAN : Leads(run, requested(a, f, async) \o s, Now, Means)
        /\ Leads(run, recordSandboxJobOutcome(a, "successful", f) \o s, Now, Means)
        /\ Leads(run, recordSandboxActionFailure(a) \o s, Now, Means)
    BY <1>2, <1>3, <1>10, LeadsPower
  <2> QED BY <2>2, <2>3
<1>11. Leads(run, requested(a, f, TRUE) \o t, Now, Means) /\ Leads(run, requested(a, f, FALSE) \o t, Now, Means)
  <2>1. TRUE \in BOOLEAN /\ FALSE \in BOOLEAN
    OBVIOUS
  <2> QED BY <1>4, <1>10, <2>1
<1>12. Leads(run, Recovery(c, t), Now, Means)
  <2>1. Leads(run, recordSandboxActionFailure(a) \o h, Now, Means) /\ Leads(run, <<>> \o h, Now, Means)
    BY <1>7, <1>10
  <2>2. CASE c.traced
    BY <1>8, <2>1, <2>2
  <2>3. CASE ~c.traced
    BY <1>8, <2>1, <2>3
  <2> QED BY <2>2, <2>3
<1>13. Leads(run, requestEnded(c, power.ended, t, h), Now, Means)
  BY <1>4, <1>7, <1>9, <1>10
<1> QED BY <1>5, <1>6, <1>7, <1>11, <1>12, <1>13

\* The result is posted, and the subject comes to rest.
LEMMA PostResultLeads ==
    ASSUME IInv, Onwards, Unstuck, PostResult, used'.fault = 0 PROVE Unstuck'
<1> DEFINE d == Head(todo).act
           bc == IF d = "finish" THEN Taken(acts, run.name) ELSE acts
<1>1. /\ todo # <<>> /\ Head(todo).op = "post" /\ run' = NoRun /\ UNCHANGED <<subj, events, callbacks>>
      /\ gone' = (d = "delete")
      /\ acts' = IF \/ d = "finish" /\ run.name \in Actions
                    \/ d = "none" /\ run.kind = "action" /\ acts[run.name] > 0
                 THEN Ended(run.name) ELSE acts
      /\ stuck' = IF d = "none" /\ run.kind = "action" /\ acts[run.name] > 0
                  THEN stuck \cup {run.name} ELSE stuck
  BY DEF PostResult, At, sandbox
<1>2. /\ run # NoRun /\ "create" \notin events /\ Now \in Standings /\ MayPost(run, Now, Means, d)
  BY <1>1, CourseHead DEF Closes, Goes
<1>3. acts \in [Actions -> 0..MaxQueued] /\ acts \in [Actions -> Nat] /\ Now.acts = acts
  BY LifecycleAssumption DEF IInv, Sound, Types, Now, Standing
<1>4. /\ d \in {"none", "finish", "continue"}
      /\ d = "none" /\ run.kind = "action" => acts[run.name] = 0
      /\ Rest(Posting(run, Now, d), Means)
  BY <1>2, <1>3 DEF MayPost
<1> HIDE DEF d
<1>5. acts' = bc
  <2>1. CASE d = "finish" /\ run.name \in Actions
    <3>1. acts' = Ended(run.name)
      BY <1>1, <2>1
    <3>2. Ended(run.name) = Taken(acts, run.name)
      <4> DEFINE u == IF acts[run.name] > 0 THEN acts[run.name] - 1 ELSE 0
      <4>1. Ended(run.name) = [acts EXCEPT ![run.name] = u]
        BY DEF Ended
      <4> HIDE DEF u
      <4>2. Ended(run.name) = [b \in Actions |-> IF b = run.name THEN u ELSE acts[b]]
        BY <1>3, <4>1
      <4>3. ASSUME NEW b \in Actions
            PROVE (IF b = run.name THEN u ELSE acts[b]) = (IF b = run.name /\ acts[b] > 0 THEN acts[b] - 1 ELSE acts[b])
        BY <1>3 DEF u
      <4> QED BY <4>2, <4>3 DEF Taken
    <3> QED BY <2>1, <3>1, <3>2
  <2>2. CASE d = "finish" /\ run.name \notin Actions
    <3>1. acts' = acts
      BY <1>1, <2>2
    <3>2. Taken(acts, run.name) = acts
      BY <1>3, <2>2 DEF Taken
    <3> QED BY <2>2, <3>1, <3>2
  <2>3. CASE d # "finish"
    BY <1>1, <1>4, <2>3
  <2> QED BY <2>1, <2>2, <2>3
<1>6. \A b \in Actions : acts'[b] <= acts[b] /\ acts'[b] \in Nat
  <2>1. \A b \in Actions : Taken(acts, run.name)[b] <= acts[b] /\ Taken(acts, run.name)[b] \in Nat
    <3> DEFINE tk == Taken(acts, run.name)
    <3>1. tk \in [Actions -> Nat] /\ \A b \in Actions : tk[b] <= acts[b]
      BY <1>3, TakenIs
    <3> HIDE DEF tk
    <3>2. \A b \in Actions : tk[b] <= acts[b] /\ tk[b] \in Nat
      BY <3>1
    <3> QED BY <3>2 DEF tk
  <2>2. \A b \in Actions : acts[b] <= acts[b] /\ acts[b] \in Nat
    BY <1>3
  <2>3. CASE d = "finish"
    BY <1>5, <2>1, <2>3
  <2>4. CASE d # "finish"
    BY <1>5, <2>2, <2>4
  <2> QED BY <2>3, <2>4
<1>7. ~gone' /\ stuck' = {} /\ Fresh'
  <2>1. d # "delete"
    BY <1>4
  <2>2. ~(d = "none" /\ run.kind = "action" /\ acts[run.name] > 0)
    BY <1>4
  <2>3. ~gone'
    BY <1>1, <2>1
  <2>4. stuck' = {}
    BY <1>1, <2>2 DEF Unstuck
  <2>5. Fresh'
    BY <1>1, <1>2 DEF Fresh
  <2> QED BY <2>3, <2>4, <2>5
<1>8. \A b \in Actions : acts[b] = 0 => acts'[b] = 0
  <2> SUFFICES ASSUME NEW b \in Actions, acts[b] = 0 PROVE acts'[b] = 0
    OBVIOUS
  <2>1. acts'[b] <= 0 /\ acts'[b] \in Nat
    BY <1>6
  <2> QED BY <2>1
<1>9. {"destroy", "update", "start", "stop", "provision"} \subseteq Actions /\ NoRun.name \notin Power
      /\ NoRun.kind \notin {"callback", "action"} /\ NoRun # EventRun("delete") /\ NoRun # EventRun("create")
  BY DEF Actions, NoRun, Power, EventRun
<1>10. Named'
  BY <1>1, <1>8, <1>9 DEF Unstuck, Named
<1>11. Infancy'
  <2> SUFFICES ASSUME Infant' PROVE acts'["start"] = 0 /\ acts'["stop"] = 0
                                    /\ \A e \in callbacks \cup {NoRun} : e.name \notin Power
    BY <1>1 DEF Infancy
  <2>1. acts'["provision"] > 0
    BY <1>1, <1>2, <1>9 DEF Infant
  <2>2. acts["provision"] > 0
    <3>1. acts'["provision"] <= acts["provision"] /\ acts'["provision"] \in Nat /\ acts["provision"] \in Nat
      BY <1>3, <1>6, <1>9
    <3> QED BY <2>1, <3>1
  <2>3. Infant
    BY <2>2 DEF Infant
  <2> QED BY <1>8, <1>9, <2>3 DEF Unstuck, Infancy
<1>12. Course'
  <2>1. Posting(run, Now, d) = Standing(subj.state, subj.css, bc)
    BY DEF Posting, Now, Standing
  <2>2. Now' = Standing(subj.state, subj.css, acts')
    BY <1>1 DEF Now, Standing
  <2>3. Now' = Posting(run, Now, d)
    BY <1>5, <2>1, <2>2
  <2>4. More(Means, Means')
    BY <1>1, MeansGrow
  <2>5. Rest(Now', Means')
    <3>1. Rest(Posting(run, Now, d), Means')
      BY <1>4, <2>4, RestMore
    <3> QED BY <2>3, <3>1
  <2> QED BY <1>1, <2>5 DEF Course
<1> QED BY <1>7, <1>10, <1>11, <1>12 DEF Unstuck

(***************************************************************************)
(* A run is dispatched.                                                    *)
(***************************************************************************)
LEMMA DispatchRunLeads ==
    ASSUME Equipped, IInv, Onwards, Unstuck, NEW r, DispatchRun(r) PROVE Unstuck'
<1>1. /\ todo = <<>> /\ run' = r /\ todo' = Dispatch(r, Payload) /\ UNCHANGED <<subj, acts, stuck, gone, used>>
      /\ events' = IF r.kind = "event" THEN events \ {r.name} ELSE events
      /\ callbacks' = callbacks \ {r}
  BY DEF DispatchRun
<1>2. run = NoRun
  BY <1>1, LeadsHead DEF Unstuck, Course
<1>3. r \in Waiting /\ Rest(Now, Means) /\ Now \in Standings
  BY <1>2, NowType DEF Unstuck, Course, DispatchRun
<1>4. acts \in [Actions -> Nat] /\ callbacks \subseteq CallbackRuns /\ events \subseteq {"create", "update", "delete"}
  BY LifecycleAssumption DEF IInv, Sound, Types
<1>5. /\ Payload.state = subj.state /\ Payload.css = subj.css /\ Payload.asked = subj.asked
      /\ Now.state = subj.state /\ Now.css = subj.css /\ Now.acts = acts
  BY DEF Payload, PayloadOf, Now, Standing
<1>6. Now' = Now /\ (Means'.asked <=> Means.asked) /\ More(Means, Means') /\ ~gone' /\ stuck' = {}
  <2>1. More(Means, Means')
    BY <1>1, MeansGrow
  <2> QED BY <1>1, <2>1, MeansAre DEF Now, Unstuck
<1> DEFINE t == Dispatch(r, Payload)
<1>7. ASSUME Leads(r, t, Now, Means), r # NoRun PROVE Course'
  <2>1. Leads(r, t, Now, Means')
    BY <1>6, <1>7, LeadsMore
  <2> QED BY <1>1, <1>6, <1>7, <2>1 DEF Course
<1>8. acts["destroy"] = 0 /\ acts["update"] = 0 /\ "delete" \notin events
      /\ \A c \in callbacks : c.kind \in {"callback", "action"} => c.name \in Living
  BY DEF Unstuck, Named
<1>9. CASE "create" \in events
  <2>1. events = {"create"} /\ callbacks = {} /\ subj.state = NoState /\ \A a \in Actions : acts[a] = 0
    BY <1>9 DEF Unstuck, Fresh
  <2>2. r = EventRun("create")
    <3>1. {a \in Actions : acts[a] > 0} = {}
      BY <2>1
    <3> QED BY <1>3, <2>1, <3>1 DEF Waiting, EventRun
  <2>3. /\ r # NoRun /\ r # EventRun("delete") /\ r.kind = "event" /\ r.name = "create" /\ r.name \notin Power
    BY <2>2 DEF EventRun, NoRun, Power
  <2>4. t = handleEventCreate(Payload)
    BY <2>3 DEF Dispatch
  <2>5. Leads(r, handleEventCreate(Payload), Now, Means)
    BY <1>3, <1>5, <2>1, <2>2, LeadsCreate
  <2> HIDE DEF t
  <2>6. Course'
    BY <1>7, <2>3, <2>4, <2>5
  <2>7. events' = {} /\ callbacks' = {}
    BY <1>1, <2>1, <2>3
  <2>8. Fresh' /\ Named'
    BY <1>1, <1>8, <2>3, <2>7 DEF Fresh, Named
  <2>9. Infancy'
    BY <1>1, <2>1, <2>3, <2>7 DEF Infancy, Actions
  <2> QED BY <1>6, <2>6, <2>8, <2>9 DEF Unstuck
<1>10. CASE "create" \notin events
  <2>1. \/ r = EventRun("update")
        \/ \E a \in Actions : acts[a] > 0 /\ r = ActionRun(a)
        \/ r \in callbacks
    BY <1>3, <1>4, <1>8, <1>10 DEF Waiting, EventRun, ActionRun
  <2>2. Infant <=> acts["provision"] > 0
    <3>1. run # EventRun("create")
      BY <1>2 DEF NoRun, EventRun
    <3> QED BY <1>10, <3>1 DEF Infant
  <2>3. ASSUME r = EventRun("update")
        PROVE  Leads(r, t, Now, Means) /\ r.kind = "event" /\ r.name \notin Power /\ r # EventRun("delete")
               /\ r # EventRun("create") /\ r # NoRun
    <3>1. r.kind = "event" /\ r.name = "update"
      BY <2>3 DEF EventRun
    <3>2. t = handleEventUpdate(Payload)
      BY <3>1 DEF Dispatch
    <3>3. Payload.asked # 0 <=> Means.asked
      BY <1>5, MeansAre
    <3> HIDE DEF t
    <3>4. Leads(r, handleEventUpdate(Payload), Now, Means)
      BY <1>3, <1>5, <2>3, <3>3, LeadsUpdate
    <3> QED BY <2>3, <3>1, <3>2, <3>4 DEF EventRun, NoRun, Power
  <2>4. ASSUME NEW a \in Actions, acts[a] > 0, r = ActionRun(a)
        PROVE  /\ Leads(r, t, Now, Means) /\ r.kind = "action" /\ r.name = a /\ a \in Living
               /\ Infant => a \notin Power
    <3>1. r.kind = "action" /\ r.name = a
      BY <2>4 DEF ActionRun
    <3>2. a \in Living
      BY <1>8, <2>4 DEF Actions, Living
    <3>3. Infant => a \notin Power
      BY <2>4 DEF Unstuck, Infancy, Power
    <3>4. CASE a = "provision"
      <4>1. t = handleProvision(Payload)
        BY <3>1, <3>4 DEF Dispatch
      <4>2. Provides(r, Now, Means)
        BY <1>3, <1>5, <2>4, <3>4 DEF Provides
      <4> HIDE DEF t
      <4>3. Leads(r, handleProvision(Payload), Now, Means)
        BY <1>5, <4>2, LeadsProvision
      <4> QED BY <3>1, <3>2, <3>3, <4>1, <4>3
    <3>5. CASE a \in Power
      <4>1. Powers(r, Now, Means, a)
        BY <1>3, <1>5, <2>4, <3>5 DEF Powers
      <4>2. Leads(r, Dispatch(r, Payload), Now, Means)
        BY <1>5, <4>1, LeadsStartStop
      <4> QED BY <3>1, <3>2, <3>3, <4>2
    <3>6. CASE a = "status"
      <4>1. t = handleStatus(Payload)
        BY <3>1, <3>6 DEF Dispatch
      <4> HIDE DEF t
      <4>2. Leads(r, handleStatus(Payload), Now, Means)
        BY <1>3, <1>5, <2>4, <3>6, LeadsStatus
      <4> QED BY <3>1, <3>2, <3>3, <4>1, <4>2
    <3> QED BY <3>2, <3>4, <3>5, <3>6 DEF Living, Power
  <2>5. ASSUME r \in callbacks
        PROVE  Leads(r, t, Now, Means) /\ r.kind = "callback" /\ r.name \in Living /\ (Infant => r.name \notin Power)
    <3>1. r.kind = "callback" /\ r.status \in JobStatuses
      BY <1>4, <2>5 DEF CallbackRuns
    <3>2. r.name \in Living /\ (Infant => r.name \notin Power)
      BY <1>8, <2>5, <3>1 DEF Unstuck, Infancy
    <3>3. r.name \in Power => Now.acts["provision"] = 0
      <4>1. r.name \in Power => ~(acts["provision"] > 0)
        BY <2>2, <3>2
      <4>2. acts["provision"] \in Nat
        BY <1>4, ActionNames
      <4> QED BY <1>5, <4>1, <4>2
    <3>4. t = handleCallback(r.name, r.status, Payload)
      BY <3>1 DEF Dispatch
    <3>5. r # EventRun("create")
      BY <3>1 DEF EventRun
    <3> HIDE DEF t
    <3>6. Leads(r, handleCallback(r.name, r.status, Payload), Now, Means)
      BY <1>3, <3>1, <3>2, <3>3, <3>5, LeadsCallback
    <3> QED BY <3>1, <3>2, <3>4, <3>6
  <2> HIDE DEF t
  <2>6. /\ Leads(r, t, Now, Means) /\ r # NoRun /\ r # EventRun("delete") /\ r # EventRun("create")
        /\ r.kind \in {"callback", "action"} => r.name \in Living
        /\ Infant => r.name \notin Power
    <3>1. ASSUME r.kind \in {"callback", "action"} PROVE r # NoRun /\ r # EventRun("delete") /\ r # EventRun("create")
      BY <3>1 DEF NoRun, EventRun
    <3>2. CASE r = EventRun("update")
      BY <2>3, <3>2
    <3>3. CASE \E a \in Actions : acts[a] > 0 /\ r = ActionRun(a)
      BY <2>4, <3>1, <3>3
    <3>4. CASE r \in callbacks
      BY <2>5, <3>1, <3>4
    <3> QED BY <2>1, <3>2, <3>3, <3>4
  <2>7. Course'
    BY <1>7, <2>6
  <2>8. events' \subseteq events /\ callbacks' \subseteq callbacks
    BY <1>1
  <2>9. Fresh' /\ Named'
    BY <1>1, <1>8, <1>10, <2>6, <2>8 DEF Fresh, Named
  <2>10. Infancy'
    <3> SUFFICES ASSUME Infant' PROVE acts["start"] = 0 /\ acts["stop"] = 0
                                      /\ \A c \in callbacks' \cup {r} : c.name \notin Power
      BY <1>1 DEF Infancy
    <3>1. Infant
      BY <1>1, <1>10, <2>6, <2>8 DEF Infant
    <3> QED BY <2>6, <2>8, <3>1 DEF Unstuck, Infancy
  <2> QED BY <1>6, <2>7, <2>9, <2>10 DEF Unstuck
<1> QED BY <1>9, <1>10

(***************************************************************************)
(* Tower, the sandbox API and the user.                                    *)
(***************************************************************************)
\* Whatever keeps the subject and its actions keeps the account.
LEMMA CourseStays ==
    ASSUME IInv, Onwards, Course, UNCHANGED <<acts, run, todo>>, subj'.state = subj.state, subj'.css = subj.css,
           subj'.asked = subj.asked \/ subj'.asked # 0
    PROVE  Course'
<1>1. Now' = Now /\ More(Means, Means')
  BY MeansGrow DEF Now
<1>2. CASE run = NoRun
  <2>1. Rest(Now, Means')
    BY <1>1, <1>2, RestMore DEF Course
  <2> QED BY <1>1, <1>2, <2>1 DEF Course
<1>3. CASE run # NoRun
  <2>1. Leads(run, todo, Now, Means')
    BY <1>1, <1>3, LeadsMore DEF Course
  <2> QED BY <1>1, <1>3, <2>1 DEF Course
<1> QED BY <1>2, <1>3

\* A step that leaves Anarchy, the subject and the runner alone.
LEMMA ElsewhereLeads ==
    ASSUME IInv, Onwards, Unstuck, UNCHANGED <<subj, events, acts, stuck, callbacks, gone, run, todo>>
    PROVE  Unstuck'
<1>1. Course'
  BY CourseStays DEF Unstuck
<1>2. Fresh' /\ Named' /\ Infancy'
  BY DEF Unstuck, Fresh, Named, Infancy, Infant
<1> QED BY <1>1, <1>2 DEF Unstuck

\* A job ends, and may call back.
LEMMA JobEndsLeads ==
    ASSUME IInv, Onwards, Unstuck, NEW a \in Actions, JobEnds(a) \/ OrphanEnds(a)
    PROVE  Unstuck'
<1>1. UNCHANGED <<subj, events, acts, stuck, gone, run, todo>>
  BY EndFacts
<1>2. \A c \in callbacks' : c \in callbacks \/ (acts[a] > 0 /\ c.kind = "callback" /\ c.name = a)
  BY EndFacts DEF Callback
<1>3. Course'
  BY <1>1, CourseStays DEF Unstuck
<1>4. Fresh'
  <2> SUFFICES ASSUME "create" \in events PROVE Fresh'
    BY <1>1 DEF Fresh
  <2>1. callbacks = {} /\ acts[a] = 0
    BY DEF Unstuck, Fresh
  <2>2. callbacks' = {}
    BY <1>2, <2>1
  <2> QED BY <1>1, <2>2 DEF Unstuck, Fresh
<1>5. acts[a] > 0 => a \in Living
  <2> SUFFICES ASSUME acts[a] > 0 PROVE a \in Living
    OBVIOUS
  <2>1. a # "destroy" /\ a # "update"
    BY DEF Unstuck, Named
  <2> QED BY <2>1 DEF Actions, Living
<1>6. Named'
  BY <1>1, <1>2, <1>5 DEF Unstuck, Named
<1>7. Infancy'
  <2> SUFFICES ASSUME Infant PROVE Infancy'
    BY <1>1 DEF Infancy, Infant
  <2>1. acts["start"] = 0 /\ acts["stop"] = 0 /\ \A c \in callbacks \cup {run} : c.name \notin Power
    BY DEF Unstuck, Infancy
  <2>2. acts[a] > 0 => a \notin Power
    BY <2>1 DEF Power
  <2> QED BY <1>1, <1>2, <2>1, <2>2 DEF Infancy
<1> QED BY <1>1, <1>3, <1>4, <1>6, <1>7 DEF Unstuck

\* The user asks for something.
LEMMA UserLeads ==
    ASSUME IInv, Onwards, Unstuck, EditJobVars \/ SetDesiredState \/ AskStatus
    PROVE  Unstuck'
<1>1. subj \in Subjects
  BY DEF IInv, Sound, Types, Subjects
<1>2. /\ UNCHANGED <<acts, stuck, callbacks, gone, run, todo>>
      /\ events' = events \cup {"update"} /\ subj.state # NoState
      /\ subj'.state = subj.state /\ subj'.css = subj.css
      /\ subj'.asked = subj.asked \/ subj'.asked # 0
  <2>1. CASE SetDesiredState
    <3>1. PICK want : Request([subj EXCEPT !.desired = want])
      BY <2>1 DEF SetDesiredState
    <3> QED BY <1>1, <3>1 DEF Request, Subjects, anarchy, sandbox, runner
  <2>2. CASE AskStatus
    <3>1. Request([subj EXCEPT !.asked = subj.asked + 1]) /\ subj.asked \in Nat
      BY <1>1, <2>2 DEF AskStatus, Subjects
    <3>2. subj' = [subj EXCEPT !.asked = subj.asked + 1]
      BY <3>1 DEF Request
    <3>3. subj'.state = subj.state /\ subj'.css = subj.css /\ subj'.asked = subj.asked + 1
      BY <1>1, <3>2 DEF Subjects
    <3>4. subj'.asked # 0
      BY <3>1, <3>3
    <3>5. UNCHANGED <<acts, stuck, callbacks, gone, run, todo>> /\ events' = events \cup {"update"} /\ subj.state # NoState
      BY <3>1 DEF Request, anarchy, sandbox, runner
    <3> QED BY <3>3, <3>4, <3>5
  <2>3. CASE EditJobVars
    <3>1. PICK vars1 : Request([subj EXCEPT !.vars = vars1])
      BY <2>3 DEF EditJobVars
    <3> QED BY <1>1, <3>1 DEF Request, Subjects, anarchy, sandbox, runner
  <2> QED BY <2>1, <2>2, <2>3
<1>3. "create" \notin events /\ "create" \notin events' /\ "delete" \notin events'
  BY <1>2 DEF Unstuck, Fresh, Named
<1>4. Course'
  BY <1>2, CourseStays DEF Unstuck
<1>5. Fresh' /\ Named' /\ Infancy'
  BY <1>2, <1>3 DEF Unstuck, Fresh, Named, Infancy, Infant
<1> QED BY <1>2, <1>4, <1>5 DEF Unstuck

(***************************************************************************)
(* Every step.                                                             *)
(***************************************************************************)
\* A subject that is being deleted stays so.
LEMMA DeletingStays == ASSUME IInv, [Next]_vars PROVE subj.deleting => subj'.deleting
<1>1. subj \in Subjects
  BY DEF IInv, Sound, Types, Subjects
<1>2. ASSUME NEW p PROVE Merged(p).deleting = subj.deleting
  <2> DEFINE st == IF p.state = KeepState THEN subj.state ELSE p.state
             de == IF p.desired = "keep" THEN subj.desired ELSE p.desired
             cs == IF p.css = "keep" THEN subj.css ELSE p.css
             v == IF p.vars = "keep" THEN subj.vars
                  ELSE [edit |-> snap.vars.edit, forensics |-> subj.vars.forensics \/ p.vars = "forensics"]
             uu == subj.uuid \/ p.uuid
  <2>1. Merged(p) = [subj EXCEPT !.state = st, !.desired = de, !.css = cs, !.vars = v, !.uuid = uu]
    BY <1>1 DEF Merged, Subjects
  <2> HIDE DEF st, de, cs, v, uu
  <2> QED BY <1>1, <2>1 DEF Subjects
<1>3. CASE SubjectUpdate
  <2>1. subj' = subj \/ subj' = Merged(Head(todo).patch)
    BY <1>3 DEF SubjectUpdate, Does, Apply, subject
  <2> QED BY <1>2, <2>1
<1>4. CASE ScheduleAction \/ LaunchJob \/ CancelJobs \/ PollJob \/ GetPlacement \/ GetBooked \/ CheckQueue
           \/ BookPlacement \/ PowerPlacement \/ AwaitRequest \/ ReleasePlacement \/ PostResult \/ Abandon
           \/ DispatchNext \/ (\E a \in Actions : JobEnds(a) \/ OrphanEnds(a)) \/ PlacementMoves \/ RequestEnds
           \/ TokenVanishes \/ UNCHANGED vars
  <2>1. subj' = subj
    BY <1>4 DEF ScheduleAction, LaunchJob, CancelJobs, PollJob, GetPlacement, GetBooked, CheckQueue,
       BookPlacement, PowerPlacement, AwaitRequest, ReleasePlacement, PostResult, Abandon, DispatchNext,
       DispatchRun, JobEnds, OrphanEnds, JobEnded, PlacementMoves, RequestEnds, TokenVanishes, subject, vars
  <2> QED BY <2>1
<1>5. CASE EditJobVars \/ SetDesiredState \/ AskStatus \/ DeleteSubject
  BY <1>5 DEF EditJobVars, SetDesiredState, AskStatus, DeleteSubject, Request
<1> QED BY <1>3, <1>4, <1>5 DEF Next, HandlerStep, Environment

LEMMA NextLeads == ASSUME Equipped, IInv, LInv, [Next]_vars PROVE LInv'
<1> SUFFICES ASSUME Live' PROVE Unstuck'
  BY DEF LInv
<1>1. Onwards
  BY UsedGrows
<1>2. used'.fault = 0 /\ used.fault = 0 /\ ~subj.deleting
  BY <1>1, DeletingStays DEF Live, Onwards
<1>3. Unstuck
  BY <1>2 DEF LInv, Live
<1>4. CASE DispatchNext
  BY <1>1, <1>3, <1>4, DispatchRunLeads DEF DispatchNext
<1>5. CASE HandlerStep
  <2>1. ~CancelJobs /\ ~ReleasePlacement
    BY <1>3, NoneParts
  <2>2. CASE SubjectUpdate \/ ScheduleAction \/ LaunchJob \/ PollJob \/ GetPlacement \/ PostResult
    BY <1>1, <1>2, <1>3, <2>2, SubjectUpdateLeads, ScheduleActionLeads, LaunchJobLeads, PollJobLeads,
       GetPlacementLeads, PostResultLeads
  <2>3. CASE GetBooked \/ CheckQueue \/ BookPlacement
    BY <1>1, <1>2, <1>3, <2>3, BookingLeads
  <2>4. CASE PowerPlacement \/ AwaitRequest
    BY <1>1, <1>2, <1>3, <2>4, PowerCallLeads
  <2> QED BY <1>5, <2>1, <2>2, <2>3, <2>4 DEF HandlerStep
<1>6. ~Abandon
  BY <1>2, NoFault DEF Abandon
<1>7. CASE Environment
  <2>1. CASE PlacementMoves \/ RequestEnds \/ TokenVanishes
    <3>1. UNCHANGED <<subj, events, acts, stuck, callbacks, gone, run, todo>>
      BY <2>1 DEF PlacementMoves, RequestEnds, TokenVanishes, subject, anarchy, sandbox, runner
    <3> QED BY <1>1, <1>3, <3>1, ElsewhereLeads
  <2>2. CASE \E a \in Actions : JobEnds(a) \/ OrphanEnds(a)
    BY <1>1, <1>3, <2>2, JobEndsLeads
  <2>3. CASE EditJobVars \/ SetDesiredState \/ AskStatus
    BY <1>1, <1>3, <2>3, UserLeads
  <2>4. ~DeleteSubject
    <3> SUFFICES ASSUME DeleteSubject PROVE subj'.deleting
      BY DEF Live
    <3>1. subj \in Subjects /\ subj' = [subj EXCEPT !.deleting = TRUE]
      BY DEF DeleteSubject, IInv, Sound, Types, Subjects
    <3> QED BY <3>1 DEF Subjects
  <2> QED BY <1>7, <2>1, <2>2, <2>3, <2>4 DEF Environment
<1>8. CASE UNCHANGED vars
  BY <1>1, <1>3, <1>8, ElsewhereLeads DEF vars
<1> QED BY <1>4, <1>5, <1>6, <1>7, <1>8 DEF Next

(***************************************************************************)
(* The theorems.                                                           *)
(***************************************************************************)
LEMMA PendingInit == Init => LInv
<1> SUFFICES ASSUME Init PROVE Unstuck
  BY DEF LInv
<1>1. /\ subj = NewSubject /\ acts = [a \in Actions |-> 0] /\ stuck = {} /\ events = {"create"}
      /\ callbacks = {} /\ gone = FALSE /\ run = NoRun
  BY DEF Init
<1>2. subj.state = NoState /\ subj.css = "none" /\ \A a \in Actions : acts[a] = 0
  BY <1>1 DEF NewSubject
<1>3. NoRun.kind = "none" /\ NoRun.name = "none" /\ \A e : NoRun # EventRun(e)
  BY DEF NoRun, EventRun
<1>4. {"destroy", "update", "start", "stop", "provision", "status"} \subseteq Actions /\ "none" \notin Power
  BY DEF Actions, Power
<1>5. Fresh /\ Named /\ Infancy
  BY <1>1, <1>2, <1>3, <1>4 DEF Fresh, Named, Infancy
<1>6. Rest(Now, Means)
  <2>1. Now.state = NoState /\ Now.css = "none" /\ Now.acts = acts
    BY <1>2 DEF Now, Standing
  <2>2. StateRests(NoState, acts, Means.failed)
    <3>1. NoState \in Restful
      BY DEF Restful
    <3>2. \A a \in Actions : NoState # Pending(a) /\ NoState # Running(a)
      BY <3>1, StatesApart
    <3> QED BY <1>2, <1>4, <3>2 DEF StateRests, Power
  <2>3. CheckRests("none", acts["status"], Means.asked)
    BY <1>2, <1>4 DEF CheckRests
  <2> QED BY <2>1, <2>2, <2>3 DEF Rest
<1> QED BY <1>1, <1>5, <1>6 DEF Unstuck, Course

\* While no call has failed, an action of a live subject is never left by a handler that
\* returns without a directive: the handlers do so for callbacks and events only, and for
\* an action that they have canceled before, whatever job fails, calls back late or is
\* overtaken by a request (handleProvision, handleStart, handleStop, handleStatus,
\* retryOrPivot).  This is proved for every governor without an update action whose
\* disabled actions the sandbox API carries out; a start or stop that nobody carries out
\* is left (runStart, runStop).
THEOREM NothingIsStuck == ASSUME Equipped PROVE Spec => []NoStuck
<1>1. Init => LInv
  BY PendingInit
<1>2. LInv /\ IInv /\ [Next]_vars => LInv'
  BY NextLeads
<1>3. LInv => NoStuck
  BY DEF LInv, Live, Unstuck, NoStuck
<1> QED BY <1>1, <1>2, <1>3, Invariance, PTL DEF Spec

\* While no call has failed, the subject does not come to rest pending or running, nor its
\* status check: who leaves it so has scheduled the action that will see to it, and does
\* not finish that action (handleEventCreate, handleEventUpdate, retryOrPivot,
\* handleStatusFailure).  A governor with sandboxes may do so once something outside has
\* failed: a booking whose request is not valid finishes the provision and leaves the
\* subject provision-pending (sandboxBook).  This is proved for every governor with
\* deployers for start and stop and no update action.
THEOREM PendingIsSeenTo ==
    ASSUME PowerDeployed, "provision" \in Disabled => SandboxInUse
    PROVE  Spec => []((SandboxInUse => used.failure = 0) => PendingIsScheduledUnfailed)
<1> DEFINE Seen == (SandboxInUse => used.failure = 0) => PendingIsScheduledUnfailed
<1>1. Equipped
  BY DEF Equipped, PowerDeployed
<1>2. Init => LInv /\ WInv
  BY PendingInit, WakeupInit
<1>3. LInv /\ WInv /\ IInv /\ [Next]_vars => LInv' /\ WInv'
  BY <1>1, NextLeads, NextFits, Recall, NextWakes, NextAttends DEF WInv
<1>4. LInv /\ WInv /\ IInv => Seen
  <2> SUFFICES ASSUME LInv, WInv, IInv, SandboxInUse => used.failure = 0, used.fault = 0, Quiescent
               PROVE  (\A a \in Actions : subj.state \notin {Pending(a), Running(a)})
                      /\ subj.css \notin {"pending", "running"}
    BY DEF PendingIsScheduledUnfailed, PendingIsScheduled
  <2>1. run = NoRun /\ ~gone /\ events = {} /\ \A a \in Actions : acts[a] = 0
    BY DEF Quiescent
  <2>2. ~subj.deleting
    <3>1. NoRun # EventRun("delete") /\ acts["destroy"] = 0
      BY <2>1 DEF NoRun, EventRun, Actions
    <3> QED BY <2>1, <3>1 DEF WInv, Attended
  <2>3. Rest(Now, Means)
    BY <2>1, <2>2 DEF LInv, Live, Unstuck, Course
  <2>4. Now.state = subj.state /\ Now.css = subj.css /\ Now.acts = acts
    BY DEF Now, Standing
  <2>5. StateRests(subj.state, acts, Means.failed) /\ CheckRests(subj.css, acts["status"], Means.asked)
    BY <2>3, <2>4 DEF Rest
  <2>6. ~(SandboxInUse /\ Means.failed)
    BY MeansAre
  <2>7. ASSUME NEW a \in Actions PROVE subj.state \notin {Pending(a), Running(a)}
    BY <2>1, <2>5, <2>6, <2>7 DEF StateRests
  <2>8. subj.css \notin {"pending", "running"}
    <3>1. acts["status"] = 0
      BY <2>1 DEF Actions
    <3> QED BY <2>5, <3>1 DEF CheckRests
  <2> QED BY <2>7, <2>8
<1> QED BY <1>2, <1>3, <1>4, Invariance, PTL DEF Spec
=============================================================================
