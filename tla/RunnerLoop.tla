----------------------------- MODULE RunnerLoop -----------------------------
(***************************************************************************)
(* The polling loop of babylon-runner (internal/runner/runner.go): each    *)
(* pod of the Deployment long-polls Anarchy for a run, dispatches it to a  *)
(* handler, posts the result with retries, and reports its readiness to a  *)
(* probe that may look at any moment.                                      *)
(*                                                                         *)
(* Anarchy is external: what it does with a run is taken from the protocol *)
(* the runner follows (GET /run, POST /run/{name}) and from the comments   *)
(* that say what happens to a failed or unreported run ("will be           *)
(* re-dispatched").  A handler is one step here; Lifecycle opens it.       *)
(***************************************************************************)
EXTENDS Naturals

CONSTANTS
    Pods,             \* the runner pods sharing the queue
    Runs,             \* the names of the runs Anarchy has to get executed
    MaxPollFailures,  \* Config.MaxPollFailures
    MaxRetries,       \* maxRetries of postResult (10 in the code)
    MaxErrors,        \* model bound: where the count of failures saturates
    MaxFaults,        \* model bound: failed calls, failed handlers and crashes
    NoRun             \* "no run in hand"

ASSUME LoopAssumption ==
    /\ MaxPollFailures \in Nat \ {0}      \* 0 acts as 1: the first failure counts 1
    /\ MaxRetries \in Nat
    /\ MaxErrors \in Nat
    /\ MaxPollFailures < MaxErrors
    /\ MaxFaults \in Nat
    /\ NoRun \notin Runs
    /\ Pods \cap {"pending", "done"} = {}

VARIABLES
    pc,         \* where each pod is in Run, pollOnce, getRun and postResult
    ready,      \* Runner.ready, read by /readyz at any moment
    errors,     \* Runner.consecutiveErrors
    holding,    \* the run whose payload the pod works on
    result,     \* rc.Result.Status of that run
    attempt,    \* attempt of postResult
    cancelled,  \* the context is done (SIGTERM)
    srv,        \* Anarchy: "pending", "done", or the pod the run is assigned to
    handled,    \* history: the runs a handler finished without an error
    faults      \* model bound: the faults so far

podVars == <<pc, ready, errors, holding, result, attempt, cancelled>>
vars == <<pc, ready, errors, holding, result, attempt, cancelled, srv, handled,
          faults>>

Init ==
    /\ pc = [p \in Pods |-> "top"]
    /\ ready = [p \in Pods |-> FALSE]
    /\ errors = [p \in Pods |-> 0]
    /\ holding = [p \in Pods |-> NoRun]
    /\ result = [p \in Pods |-> "successful"]
    /\ attempt = [p \in Pods |-> 0]
    /\ cancelled = [p \in Pods |-> FALSE]
    /\ srv = [r \in Runs |-> "pending"]
    /\ handled = {}
    /\ faults = 0

\* A fault is either a call that fails because the context is done, which
\* costs nothing, or an outage, of which the model allows MaxFaults.
Fault(p) ==
    \/ cancelled[p] /\ UNCHANGED faults
    \/ faults < MaxFaults /\ faults' = faults + 1

(***************************************************************************)
(* Run and pollOnce.                                                       *)
(***************************************************************************)

\* Run's two selects: a done context ends the loop before a poll and instead of
\* the wait after a failed one.  Mutant: the case breaks out of the select only.
UnlessDoneBreaks(p, next) == next

UnlessDone(p, next) == IF cancelled[p] THEN "stopped" ELSE next

Poll(p) ==
    /\ pc[p] = "top"
    /\ pc' = [pc EXCEPT ![p] = UnlessDone(p, "polling")]
    /\ UNCHANGED <<ready, errors, holding, result, attempt, cancelled, srv, handled, faults>>

\* pollOnce, poll error: count it, and give up readiness at the threshold.
\* Past MaxErrors the count saturates: every value there acts alike, and the
\* code's int32 would need centuries of five-second polls to wrap.
Counted(n) == IF n < MaxErrors THEN n + 1 ELSE n

\* Mutants: the threshold compares the count before the failure; readiness goes
\* with the first failure.
PollErrorLate(p) ==
    /\ errors' = [errors EXCEPT ![p] = Counted(@)]
    /\ ready' = [ready EXCEPT ![p] = @ /\ errors[p] < MaxPollFailures]
    /\ pc' = [pc EXCEPT ![p] = "sleep"]

PollErrorEager(p) ==
    /\ errors' = [errors EXCEPT ![p] = Counted(@)]
    /\ ready' = [ready EXCEPT ![p] = FALSE]
    /\ pc' = [pc EXCEPT ![p] = "sleep"]

PollError(p) ==
    /\ errors' = [errors EXCEPT ![p] = Counted(@)]
    /\ ready' = [ready EXCEPT ![p] = @ /\ Counted(errors[p]) < MaxPollFailures]
    /\ pc' = [pc EXCEPT ![p] = "sleep"]

\* Run: after a poll error the loop waits PollingInterval; when the timer and
\* the context are both due, select takes either.  Mutant: the loop gives up at
\* the threshold while the process lives on.
SleepForever(p) ==
    /\ pc[p] = "sleep"
    /\ errors[p] < MaxPollFailures
    /\ pc' = [pc EXCEPT ![p] = UnlessDone(p, "top")]
    /\ UNCHANGED <<ready, errors, holding, result, attempt, cancelled, srv, handled, faults>>

Sleep(p) ==
    /\ pc[p] = "sleep"
    /\ \E next \in {"top", UnlessDone(p, "top")} : pc' = [pc EXCEPT ![p] = next]
    /\ UNCHANGED <<ready, errors, holding, result, attempt, cancelled, srv, handled, faults>>

(***************************************************************************)
(* getRun.                                                                 *)
(***************************************************************************)

\* 200 with a run: Anarchy has assigned it; the body is not decoded yet.
GetRun(p, r) ==
    /\ pc[p] = "polling"
    /\ ~cancelled[p]
    /\ srv[r] = "pending"
    /\ srv' = [srv EXCEPT ![r] = p]
    /\ holding' = [holding EXCEPT ![p] = r]
    /\ ready' = [ready EXCEPT ![p] = TRUE]
    /\ pc' = [pc EXCEPT ![p] = "decoding"]
    /\ UNCHANGED <<errors, result, attempt, cancelled, handled, faults>>

\* 204, 408, or 200 with no run name: nothing to do.
GetNothing(p) ==
    /\ pc[p] = "polling"
    /\ ~cancelled[p]
    /\ ready' = [ready EXCEPT ![p] = TRUE]
    /\ errors' = [errors EXCEPT ![p] = 0]
    /\ pc' = [pc EXCEPT ![p] = "top"]
    /\ UNCHANGED <<holding, result, attempt, cancelled, srv, handled, faults>>

\* 403, any other status, or a transport error.  The answer that is lost may
\* be the one that assigned a run.
GetFails(p) ==
    /\ pc[p] = "polling"
    /\ Fault(p)
    /\ PollError(p)
    /\ \/ UNCHANGED srv
       \/ \E r \in Runs : srv[r] = "pending" /\ srv' = [srv EXCEPT ![r] = p]
    /\ UNCHANGED <<holding, result, attempt, cancelled, handled>>

\* The payload decodes: pollOnce resets the count and dispatches the run with
\* a result that says "successful" until a handler says otherwise.
Decode(p) ==
    /\ pc[p] = "decoding"
    /\ errors' = [errors EXCEPT ![p] = 0]
    /\ result' = [result EXCEPT ![p] = "successful"]
    /\ pc' = [pc EXCEPT ![p] = "handling"]
    /\ UNCHANGED <<ready, holding, attempt, cancelled, srv, handled, faults>>

\* The payload does not decode: a poll error, with ready already set.
DecodeFails(p) ==
    /\ pc[p] = "decoding"
    /\ Fault(p)
    /\ PollError(p)
    /\ holding' = [holding EXCEPT ![p] = NoRun]
    /\ UNCHANGED <<result, attempt, cancelled, srv, handled>>

(***************************************************************************)
(* Dispatch and postResult.                                                *)
(***************************************************************************)

\* The handler returns; an error, an unknown handler and a panic all make the
\* result "failed".  Mutant: a panic is recovered but the result keeps the
\* status it was made with.
HandleForgivesPanic(p) ==
    /\ pc[p] = "handling"
    /\ \/ handled' = handled \cup {holding[p]} /\ UNCHANGED faults
       \/ Fault(p) /\ UNCHANGED handled
    /\ attempt' = [attempt EXCEPT ![p] = 0]
    /\ pc' = [pc EXCEPT ![p] = "posting"]
    /\ UNCHANGED <<ready, errors, holding, result, cancelled, srv>>

Handle(p) ==
    /\ pc[p] = "handling"
    /\ \/ /\ handled' = handled \cup {holding[p]}
          /\ UNCHANGED <<result, faults>>
       \/ /\ Fault(p)
          /\ result' = [result EXCEPT ![p] = "failed"]
          /\ UNCHANGED handled
    /\ attempt' = [attempt EXCEPT ![p] = 0]
    /\ pc' = [pc EXCEPT ![p] = "posting"]
    /\ UNCHANGED <<ready, errors, holding, cancelled, srv>>

\* What the POST does in Anarchy, external: the result of the run's own pod is
\* taken; a failed run is dispatched again.
Applied(p) ==
    [srv EXCEPT ![holding[p]] =
        IF @ # p THEN @ ELSE IF result[p] = "successful" THEN "done" ELSE "pending"]

\* pollOnce forgets the run when postResult returns, whatever it returns.
Forget(p) ==
    /\ pc' = [pc EXCEPT ![p] = "top"]
    /\ holding' = [holding EXCEPT ![p] = NoRun]
    /\ UNCHANGED <<ready, errors, result, attempt, cancelled, handled>>

\* 2xx.
PostAccepted(p) ==
    /\ pc[p] = "posting"
    /\ ~cancelled[p]
    /\ srv[holding[p]] = p
    /\ srv' = Applied(p)
    /\ Forget(p)
    /\ UNCHANGED faults

\* 4xx is final; Anarchy gives it for a run that is not the pod's any more.
PostRejected(p) ==
    /\ pc[p] = "posting"
    /\ ~cancelled[p]
    /\ IF srv[holding[p]] # p THEN UNCHANGED faults ELSE Fault(p)
    /\ Forget(p)
    /\ UNCHANGED srv

\* A transport error or 5xx, before or after Anarchy took the result: retried
\* until MaxRetries retries are spent.
\* Mutant: the run is executed again when the retries are spent, although
\* Anarchy may have taken the result and given the run to another pod.
PostFailsReruns(p) ==
    /\ pc[p] = "posting"
    /\ Fault(p)
    /\ \/ UNCHANGED srv
       \/ ~cancelled[p] /\ srv' = Applied(p)
    /\ pc' = [pc EXCEPT ![p] = IF attempt[p] = MaxRetries THEN "handling" ELSE "backoff"]
    /\ UNCHANGED <<ready, errors, holding, result, attempt, cancelled, handled>>

\* Mutant: the loop condition admits one attempt too many.
PostFailsOnceMore(p) ==
    /\ pc[p] = "posting"
    /\ Fault(p)
    /\ \/ UNCHANGED srv
       \/ ~cancelled[p] /\ srv' = Applied(p)
    /\ IF attempt[p] > MaxRetries
       THEN Forget(p)
       ELSE /\ pc' = [pc EXCEPT ![p] = "backoff"]
            /\ UNCHANGED <<ready, errors, holding, result, attempt, cancelled, handled>>

PostFails(p) ==
    /\ pc[p] = "posting"
    /\ Fault(p)
    /\ \/ UNCHANGED srv
       \/ ~cancelled[p] /\ srv' = Applied(p)
    /\ IF attempt[p] = MaxRetries
       THEN Forget(p)
       ELSE /\ pc' = [pc EXCEPT ![p] = "backoff"]
            /\ UNCHANGED <<ready, errors, holding, result, attempt, cancelled, handled>>

\* The delay before the next attempt; a done context ends postResult here,
\* unless the timer is due as well and select takes that.
Backoff(p) ==
    /\ pc[p] = "backoff"
    /\ \/ cancelled[p] /\ Forget(p)
       \/ /\ pc' = [pc EXCEPT ![p] = "posting"]
          /\ attempt' = [attempt EXCEPT ![p] = @ + 1]
          /\ UNCHANGED <<ready, errors, holding, result, cancelled, handled>>
    /\ UNCHANGED <<srv, faults>>

(***************************************************************************)
(* The platform and Anarchy.                                               *)
(***************************************************************************)

\* SIGTERM: main cancels the context.
Shutdown(p) ==
    /\ ~cancelled[p]
    /\ faults < MaxFaults
    /\ faults' = faults + 1
    /\ cancelled' = [cancelled EXCEPT ![p] = TRUE]
    /\ UNCHANGED <<pc, ready, errors, holding, result, attempt, srv, handled>>

\* The process dies at any point.
Crash(p) ==
    /\ pc[p] # "stopped"
    /\ faults < MaxFaults
    /\ faults' = faults + 1
    /\ pc' = [pc EXCEPT ![p] = "stopped"]
    /\ holding' = [holding EXCEPT ![p] = NoRun]
    /\ UNCHANGED <<ready, errors, result, attempt, cancelled, srv, handled>>

\* Kubernetes starts the container again: New.
Restart(p) ==
    /\ pc[p] = "stopped"
    /\ pc' = [pc EXCEPT ![p] = "top"]
    /\ ready' = [ready EXCEPT ![p] = FALSE]
    /\ errors' = [errors EXCEPT ![p] = 0]
    /\ cancelled' = [cancelled EXCEPT ![p] = FALSE]
    /\ UNCHANGED <<holding, result, attempt, srv, handled, faults>>

\* Anarchy, external: a run whose pod does not work on it any more is
\* dispatched again.
Redispatch(r) ==
    /\ srv[r] \in Pods
    /\ holding[srv[r]] # r
    /\ srv' = [srv EXCEPT ![r] = "pending"]
    /\ UNCHANGED <<podVars, handled, faults>>

PodStep(p) ==
    \/ Poll(p) \/ Sleep(p)
    \/ (\E r \in Runs : GetRun(p, r)) \/ GetNothing(p) \/ GetFails(p)
    \/ Decode(p) \/ DecodeFails(p) \/ Handle(p)
    \/ PostAccepted(p) \/ PostRejected(p) \/ PostFails(p) \/ Backoff(p)

Environment ==
    \/ \E p \in Pods : Shutdown(p) \/ Crash(p) \/ Restart(p)
    \/ \E r \in Runs : Redispatch(r)

Next == (\E p \in Pods : PodStep(p)) \/ Environment

Spec == Init /\ [][Next]_vars

\* Anarchy answers a poll with a pending run sooner or later, re-dispatches
\* what was dropped, the kubelet restarts a stopped container, and a loop that
\* can step steps.
Fairness ==
    /\ \A p \in Pods : WF_vars(PodStep(p)) /\ WF_vars(Restart(p))
    /\ \A r \in Runs : WF_vars(Redispatch(r))
    /\ \A r \in Runs : SF_vars(\E p \in Pods : GetRun(p, r))

FairSpec == Spec /\ Fairness

(***************************************************************************)
(* Properties.                                                             *)
(***************************************************************************)

PCs == {"top", "polling", "decoding", "handling", "posting", "backoff",
        "sleep", "stopped"}

\* Every variable has its type.
TypeOK ==
    /\ pc \in [Pods -> PCs]
    /\ ready \in [Pods -> BOOLEAN]
    /\ errors \in [Pods -> 0..MaxErrors]
    /\ holding \in [Pods -> Runs \cup {NoRun}]
    /\ result \in [Pods -> {"successful", "failed"}]
    /\ attempt \in [Pods -> 0..MaxRetries]
    /\ cancelled \in [Pods -> BOOLEAN]
    /\ srv \in [Runs -> Pods \cup {"pending", "done"}]
    /\ handled \in SUBSET Runs
    /\ faults \in 0..MaxFaults

\* A pod that has counted MaxPollFailures consecutive failures is not ready,
\* whatever the poll was answered before, except between the 200 header and the
\* end of the decoding (getRun sets ready before it decodes the payload).
ReadinessFollowsFailures ==
    \A p \in Pods :
        /\ errors[p] >= MaxPollFailures
        /\ pc[p] \notin {"decoding", "stopped"}
        => ~ready[p]

\* Two pods never run a handler for the same run at the same time, whatever
\* was lost, retried or re-dispatched.
HandlersExclusive ==
    \A p, q \in Pods :
        /\ p # q
        /\ pc[p] \in {"decoding", "handling"}
        /\ pc[q] \in {"decoding", "handling"}
        => holding[p] # holding[q]

\* A pod that works on a run or reports it has one in hand.
HoldsRun ==
    \A p \in Pods :
        pc[p] \in {"decoding", "handling", "posting", "backoff"} => holding[p] \in Runs

\* The run a handler works on is still assigned to the handler's pod.
HandlerOwnsRun ==
    \A p \in Pods :
        pc[p] \in {"decoding", "handling"} => srv[holding[p]] = p

\* Readiness is given up only by the poll error that reaches the threshold or
\* by a restart; a single failed poll never makes a ready pod unready early.
UnreadyOnlyAtThreshold ==
    [][\A p \in Pods :
         ready[p] /\ ~ready'[p] => \/ errors'[p] >= MaxPollFailures
                                   \/ pc[p] = "stopped"]_vars

\* Anarchy counts a run as done only when a handler went through it without an
\* error or a panic, whatever was retried or re-dispatched on the way.
DoneMeansHandled == \A r \in Runs : srv[r] = "done" => r \in handled

\* What DoneMeansHandled needs to be inductive: the result that a pod is about
\* to post, or to post again, is the one its handler left.
ResultIsHandlers ==
    \A p \in Pods :
        pc[p] \in {"posting", "backoff"} /\ result[p] = "successful"
        => holding[p] \in handled

\* What TypeOK needs to be inductive: postResult waits only for an attempt it
\* still has.
AttemptsLeft == \A p \in Pods : pc[p] = "backoff" => attempt[p] < MaxRetries

\* The inductive invariant of the proofs.
LoopInv ==
    /\ TypeOK
    /\ AttemptsLeft
    /\ HoldsRun
    /\ ReadinessFollowsFailures
    /\ HandlerOwnsRun
    /\ ResultIsHandlers
    /\ DoneMeansHandled

\* However often results are lost, pods crash or polls fail, every run is
\* executed and reported in the end.
EveryRunDone == \A r \in Runs : <>(srv[r] = "done")

\* SIGTERM ends the loop: no wait, retry or poll outlives the context.
ShutdownEnds == \A p \in Pods : cancelled[p] ~> (pc[p] = "stopped")

(***************************************************************************)
(* What the documentation says of MAX_POLL_FAILURES.                       *)
(***************************************************************************)

\* README.md:200: "Consecutive failures before exit".  A pod that exits at the
\* threshold never counts one failure more.
ExitsAtThreshold == \A p \in Pods : errors[p] <= MaxPollFailures
=============================================================================
