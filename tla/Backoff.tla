------------------------------ MODULE Backoff ------------------------------
(***************************************************************************)
(* How long an action of the runner waits before it is dispatched again:   *)
(* the interval lists taken from the environment at start-up, the counts   *)
(* an action carries in its vars, and the conversion of an interval to the *)
(* time given to Anarchy.  One action is followed through the launches,    *)
(* polls and failures of its Tower jobs (internal/handler/check_deployer). *)
(*                                                                         *)
(* Anarchy merges the vars of a continue directive into the action's vars  *)
(* (external), so a count survives the directives that do not mention it.  *)
(***************************************************************************)
EXTENDS Integers, Sequences

CONSTANTS
    Entries,           \* what an item of an interval list may be, trimmed
    ParseDuration,     \* time.ParseDuration, in seconds; Invalid for an error
    Environments,      \* the lists the two environment variables may hold
    DefaultActionRetryIntervals,
    DefaultTowerPollIntervals,
    MaxCount           \* model bound: retries and polls that are counted

Invalid == -1
Blank == ""

ASSUME BackoffAssumption ==
    /\ ParseDuration \in [Entries -> Nat \cup {Invalid}]
    /\ Environments \subseteq Seq(Entries)
    /\ DefaultActionRetryIntervals \in Seq(Entries \ {Blank}) \ {<<>>}
    /\ DefaultTowerPollIntervals \in Seq(Entries \ {Blank}) \ {<<>>}
    /\ MaxCount \in Nat

VARIABLES
    retryIntervals,    \* config.ActionRetryIntervals
    pollIntervals,     \* config.TowerPollIntervals
    retryCount,        \* action_retry_count
    pollCount,         \* tower_poll_count
    next,              \* what the action does when it is dispatched
    after,             \* the delay of the last continue directive, in seconds
    lastRetry,         \* the delay of the last retry of a failed job
    lastPoll           \* the delay of the last poll of a job seen running

vars == <<retryIntervals, pollIntervals, retryCount, pollCount, next, after, lastRetry, lastPoll>>

OneMinute == 60
FiveMinutes == 300

Filled(env) == SelectSeq(env, LAMBDA e : e # Blank)

\* What SelectSeq does to the lists; the proofs need it of no other sequence.
ASSUME FilledAssumption ==
    \A env \in Environments : Filled(env) \in Seq(Entries \ {Blank})

\* Mutant: a list of blanks is a list.
envStringSliceOfBlanks(env, default) == IF env = <<>> THEN default ELSE Filled(env)

envStringSlice(env, default) == IF Filled(env) = <<>> THEN default ELSE Filled(env)

\* Mutant: the schedule starts again when it is used up.
actionRetryIntervalWraps(count, intervals) == intervals[(count % Len(intervals)) + 1]

actionRetryInterval(count, intervals) ==
    IF count < Len(intervals) THEN intervals[count + 1] ELSE intervals[Len(intervals)]

\* Mutant: the same for polls.
towerPollIntervalWraps(count, intervals) == intervals[(count % Len(intervals)) + 1]

towerPollInterval(count, intervals) ==
    IF count < Len(intervals) THEN intervals[count + 1] ELSE intervals[Len(intervals)]

\* The time from now that AfterTimestamp makes of an interval: what it cannot
\* parse is now.
AfterTimestamp(interval) ==
    IF ParseDuration[interval] = Invalid THEN 0 ELSE ParseDuration[interval]

Init ==
    /\ \E env \in Environments :
          retryIntervals = envStringSlice(env, DefaultActionRetryIntervals)
    /\ \E env \in Environments :
          pollIntervals = envStringSlice(env, DefaultTowerPollIntervals)
    /\ retryCount = 0 /\ pollCount = 0
    /\ next = "launch"
    /\ after = 0
    /\ lastRetry = 0
    /\ lastPoll = 0

\* A handler launches a Tower job.
launchAndContinue ==
    /\ next = "launch"
    /\ next' = "poll"
    /\ after' = AfterTimestamp(pollIntervals[1])
    /\ UNCHANGED <<retryIntervals, pollIntervals, retryCount, pollCount, lastRetry, lastPoll>>

\* checkDeployerJob: the status cannot be read.
StatusUnknown ==
    /\ next = "poll"
    /\ after' = FiveMinutes
    /\ UNCHANGED <<retryIntervals, pollIntervals, retryCount, pollCount, next, lastRetry, lastPoll>>

\* checkDeployerJob: the job still runs.
continueWithTowerPoll ==
    /\ next = "poll"
    /\ pollCount < MaxCount
    /\ after' = AfterTimestamp(towerPollInterval(pollCount, pollIntervals))
    /\ lastPoll' = after'
    /\ pollCount' = pollCount + 1
    /\ UNCHANGED <<retryIntervals, pollIntervals, retryCount, next, lastRetry>>

\* The job was canceled: a fixed minute, and the retry is not counted.
retryCanceled ==
    /\ next = "poll"
    /\ next' = "launch"
    /\ after' = OneMinute
    /\ UNCHANGED <<retryIntervals, pollIntervals, retryCount, pollCount, lastRetry, lastPoll>>

\* The job failed.  continueWithRetry counts the retry, handleUpdateFailure not.
RetryAfter(counted) ==
    /\ next = "poll"
    /\ next' = "launch"
    /\ after' = AfterTimestamp(actionRetryInterval(retryCount, retryIntervals))
    /\ lastRetry' = after'
    /\ retryCount' = IF counted THEN retryCount + 1 ELSE retryCount
    /\ UNCHANGED <<retryIntervals, pollIntervals, pollCount, lastPoll>>

continueWithRetry == retryCount < MaxCount /\ RetryAfter(TRUE)

retryUpdate == RetryAfter(FALSE)

\* The job succeeded, or nobody wants the action any more.
FinishAction ==
    /\ next = "poll"
    /\ next' = "finished"
    /\ UNCHANGED <<retryIntervals, pollIntervals, retryCount, pollCount, after, lastRetry, lastPoll>>

Next ==
    \/ launchAndContinue \/ StatusUnknown \/ continueWithTowerPoll
    \/ retryCanceled \/ continueWithRetry \/ retryUpdate \/ FinishAction

Spec == Init /\ [][Next]_vars

(***************************************************************************)
(* Properties.                                                             *)
(***************************************************************************)
Ascending(intervals) ==
    \A i, j \in DOMAIN intervals :
        i < j => AfterTimestamp(intervals[i]) <= AfterTimestamp(intervals[j])

\* The lists a runner starts with are never empty, however the environment is
\* filled in, so that every handler's look at its first item finds one.
TypeOK ==
    /\ retryIntervals \in Seq(Entries \ {Blank}) \ {<<>>}
    /\ pollIntervals \in Seq(Entries \ {Blank}) \ {<<>>}
    /\ retryCount \in 0..MaxCount
    /\ pollCount \in 0..MaxCount
    /\ next \in {"launch", "poll", "finished"}
    /\ after \in Nat
    /\ lastRetry \in Nat
    /\ lastPoll \in Nat

\* Whatever comes between two failures of an action's jobs (polls, cancellations,
\* unreadable statuses), the second retry waits no less than the first, if the
\* configured delays ascend.
RetriesBackOff ==
    [][Ascending(retryIntervals) => lastRetry' >= lastRetry]_vars

\* The polls of an action's jobs get no more frequent, over all its jobs, if the
\* configured intervals ascend.
PollsBackOff ==
    [][Ascending(pollIntervals) => lastPoll' >= lastPoll]_vars

\* An action that failed is retried after a delay, never at once.
RetryWaits == retryCount > 0 => lastRetry > 0
=============================================================================
