--------------------------- MODULE Backoff_proofs ---------------------------
(***************************************************************************)
(* Proofs about Backoff for any interval lists, any conversion of an       *)
(* interval to a delay and any number of retries and polls: the lists are  *)
(* usable, and no delay is shorter than the one before it.                 *)
(***************************************************************************)
EXTENDS Backoff, TLAPS

Lists == Seq(Entries \ {Blank}) \ {<<>>}

\* The delay that the next retry, and the next poll, will be given.
NextRetry == AfterTimestamp(actionRetryInterval(retryCount, retryIntervals))
NextPoll == AfterTimestamp(towerPollInterval(pollCount, pollIntervals))

\* The last delay is no longer than the next: what makes the two action
\* properties inductive.
DelaysInv ==
    /\ TypeOK
    /\ Ascending(retryIntervals) => lastRetry <= NextRetry
    /\ Ascending(pollIntervals) => lastPoll <= NextPoll

\* A filled-in list is used, and the default otherwise: neither is empty.
LEMMA envStringSliceIsList ==
    ASSUME NEW env \in Environments, NEW default \in Lists
    PROVE  envStringSlice(env, default) \in Lists
BY FilledAssumption DEF envStringSlice, Lists

\* An interval is converted to a number of seconds.
LEMMA AfterTimestampType ==
    ASSUME NEW interval \in Entries
    PROVE  AfterTimestamp(interval) \in Nat
BY BackoffAssumption DEF AfterTimestamp, Invalid

\* Whatever the count, an item of the list is taken.
LEMMA RetryIntervalType ==
    ASSUME NEW intervals \in Lists, NEW count \in Nat
    PROVE  /\ actionRetryInterval(count, intervals) \in Entries
           /\ AfterTimestamp(actionRetryInterval(count, intervals)) \in Nat
<1>1. actionRetryInterval(count, intervals) \in Entries
  BY DEF actionRetryInterval, Lists
<1> QED
  BY <1>1, AfterTimestampType

\* The two choices of an interval are one function of the count and the list.
LEMMA PollIntervalIsRetryInterval ==
    ASSUME NEW intervals, NEW count
    PROVE  towerPollInterval(count, intervals) = actionRetryInterval(count, intervals)
BY DEF towerPollInterval, actionRetryInterval

\* In an ascending list the next count is given no shorter a delay, also past
\* the end of the list.
LEMMA RetryIntervalAscends ==
    ASSUME NEW intervals \in Lists, NEW count \in Nat, Ascending(intervals)
    PROVE  AfterTimestamp(actionRetryInterval(count, intervals))
               <= AfterTimestamp(actionRetryInterval(count + 1, intervals))
<1> DEFINE at(c) == AfterTimestamp(actionRetryInterval(c, intervals))
<1>1. Len(intervals) \in Nat \ {0} /\ DOMAIN intervals = 1..Len(intervals)
  BY DEF Lists
<1>2. CASE count + 1 < Len(intervals)
  <2>1. actionRetryInterval(count, intervals) = intervals[count + 1]
    BY <1>1, <1>2 DEF actionRetryInterval
  <2>2. actionRetryInterval(count + 1, intervals) = intervals[count + 2]
    BY <1>1, <1>2 DEF actionRetryInterval
  <2> QED
    BY <1>1, <1>2, <2>1, <2>2 DEF Ascending
<1>3. CASE ~(count + 1 < Len(intervals))
  <2>1. actionRetryInterval(count + 1, intervals) = intervals[Len(intervals)]
    BY <1>1, <1>3 DEF actionRetryInterval
  <2>2. actionRetryInterval(count, intervals) = intervals[Len(intervals)]
    BY <1>1, <1>3 DEF actionRetryInterval
  <2>3. at(count) = at(count + 1)
    BY <2>1, <2>2
  <2>4. at(count) \in Nat
    BY RetryIntervalType
  <2> QED
    BY <2>3, <2>4
<1> QED
  BY <1>2, <1>3

\* The first delay has nothing before it.
LEMMA InitDelays == ASSUME Init PROVE DelaysInv
<1>1. PICK env \in Environments :
         retryIntervals = envStringSlice(env, DefaultActionRetryIntervals)
  BY DEF Init
<1>2. PICK penv \in Environments :
         pollIntervals = envStringSlice(penv, DefaultTowerPollIntervals)
  BY DEF Init
<1>3. retryIntervals \in Lists /\ pollIntervals \in Lists
  BY <1>1, <1>2, envStringSliceIsList, BackoffAssumption DEF Lists
<1>4. TypeOK
  BY <1>3, BackoffAssumption DEF Init, TypeOK, Lists
<1>5. lastRetry <= NextRetry
  BY <1>3, RetryIntervalType DEF Init, NextRetry
<1>6. lastPoll <= NextPoll
  BY <1>3, RetryIntervalType, PollIntervalIsRetryInterval DEF Init, NextPoll
<1> QED
  BY <1>4, <1>5, <1>6 DEF DelaysInv

\* What a retry leaves: its own delay as the last one, and a count that is given
\* no shorter one.
LEMMA RetryDelays ==
    ASSUME DelaysInv, continueWithRetry \/ retryUpdate
    PROVE  /\ DelaysInv'
           /\ Ascending(retryIntervals) => lastRetry' >= lastRetry
           /\ lastPoll' = lastPoll
<1> USE BackoffAssumption DEF DelaysInv, continueWithRetry, retryUpdate
<1>1. retryIntervals \in Lists /\ retryCount \in Nat
  BY DEF TypeOK, Lists
<1>2. NextRetry \in Nat /\ lastRetry' = NextRetry /\ after' = NextRetry
  BY <1>1, RetryIntervalType DEF RetryAfter, NextRetry
<1>3. TypeOK'
  BY <1>2 DEF RetryAfter, TypeOK
<1>4. retryIntervals' = retryIntervals /\ retryCount' \in {retryCount, retryCount + 1}
  BY DEF RetryAfter
<1>5. ASSUME Ascending(retryIntervals) PROVE lastRetry' <= NextRetry'
  <2>1. CASE retryCount' = retryCount
    BY <1>2, <1>4, <2>1 DEF NextRetry
  <2>2. CASE retryCount' = retryCount + 1
    BY <1>1, <1>2, <1>4, <1>5, <2>2, RetryIntervalAscends DEF NextRetry
  <2> QED
    BY <1>4, <2>1, <2>2
<1>6. Ascending(pollIntervals)' = Ascending(pollIntervals) /\ NextPoll' = NextPoll
         /\ lastPoll' = lastPoll
  BY DEF RetryAfter, NextPoll
<1>7. Ascending(retryIntervals)' = Ascending(retryIntervals)
  BY <1>4
<1>8. Ascending(retryIntervals) => lastRetry' >= lastRetry
  BY <1>2 DEF TypeOK
<1> QED
  BY <1>3, <1>5, <1>6, <1>7, <1>8

\* The same for a poll that finds the job running.
LEMMA PollDelays ==
    ASSUME DelaysInv, continueWithTowerPoll
    PROVE  /\ DelaysInv'
           /\ Ascending(pollIntervals) => lastPoll' >= lastPoll
           /\ lastRetry' = lastRetry
<1> USE BackoffAssumption DEF DelaysInv
<1>1. pollIntervals \in Lists /\ pollCount \in Nat
  BY DEF TypeOK, Lists
<1>2. NextPoll \in Nat /\ lastPoll' = NextPoll /\ after' = NextPoll
  BY <1>1, RetryIntervalType, PollIntervalIsRetryInterval
     DEF continueWithTowerPoll, NextPoll
<1>3. TypeOK'
  BY <1>2 DEF continueWithTowerPoll, TypeOK
<1>4. pollIntervals' = pollIntervals /\ pollCount' = pollCount + 1
  BY DEF continueWithTowerPoll
<1>5. ASSUME Ascending(pollIntervals) PROVE lastPoll' <= NextPoll'
  BY <1>1, <1>2, <1>4, <1>5, RetryIntervalAscends, PollIntervalIsRetryInterval
     DEF NextPoll
<1>6. Ascending(retryIntervals)' = Ascending(retryIntervals) /\ NextRetry' = NextRetry
         /\ lastRetry' = lastRetry
  BY DEF continueWithTowerPoll, NextRetry
<1>7. Ascending(pollIntervals)' = Ascending(pollIntervals)
  BY <1>4
<1>8. Ascending(pollIntervals) => lastPoll' >= lastPoll
  BY <1>2 DEF TypeOK
<1> QED
  BY <1>3, <1>5, <1>6, <1>7, <1>8

\* The steps that neither retry nor poll leave both delays and counts alone.
LEMMA OtherDelays ==
    ASSUME DelaysInv,
           launchAndContinue \/ StatusUnknown \/ retryCanceled \/ FinishAction
    PROVE  DelaysInv' /\ UNCHANGED <<lastRetry, lastPoll>>
<1>1. TypeOK'
  <2>1. pollIntervals[1] \in Entries
    BY DEF DelaysInv, TypeOK
  <2>2. after' \in Nat
    BY <2>1, AfterTimestampType DEF launchAndContinue, StatusUnknown, retryCanceled,
       FinishAction, FiveMinutes, OneMinute, DelaysInv, TypeOK
  <2> QED
    BY <2>2 DEF launchAndContinue, StatusUnknown, retryCanceled, FinishAction,
       DelaysInv, TypeOK
<1>2. UNCHANGED <<retryIntervals, pollIntervals, retryCount, pollCount, lastRetry, lastPoll>>
  BY DEF launchAndContinue, StatusUnknown, retryCanceled, FinishAction
<1> QED
  BY <1>1, <1>2 DEF DelaysInv, NextRetry, NextPoll

\* Every step keeps the invariant and shortens no delay.
LEMMA StepDelays ==
    ASSUME DelaysInv, [Next]_vars
    PROVE  /\ DelaysInv'
           /\ Ascending(retryIntervals) => lastRetry' >= lastRetry
           /\ Ascending(pollIntervals) => lastPoll' >= lastPoll
<1>1. lastRetry \in Nat /\ lastPoll \in Nat
  BY DEF DelaysInv, TypeOK
<1>2. CASE launchAndContinue \/ StatusUnknown \/ retryCanceled \/ FinishAction
  BY <1>1, <1>2, OtherDelays
<1>3. CASE continueWithTowerPoll
  BY <1>1, <1>3, PollDelays
<1>4. CASE continueWithRetry \/ retryUpdate
  BY <1>1, <1>4, RetryDelays
<1>5. CASE UNCHANGED vars
  BY <1>1, <1>5 DEF vars, DelaysInv, TypeOK, NextRetry, NextPoll
<1> QED
  BY <1>2, <1>3, <1>4, <1>5 DEF Next

\* No delay is ever longer than the one the count prescribes next.
THEOREM DelaysHold == Spec => []DelaysInv
<1>1. Init => DelaysInv
  BY InitDelays
<1>2. DelaysInv /\ [Next]_vars => DelaysInv'
  BY StepDelays
<1> QED
  BY <1>1, <1>2, PTL DEF Spec

\* The interval lists are never empty and the counts stay in their bounds,
\* whatever the environment holds.
THEOREM BackoffTypes == Spec => []TypeOK
<1>1. DelaysInv => TypeOK
  BY DEF DelaysInv
<1> QED
  BY <1>1, DelaysHold, PTL

\* The retries of an action back off if the configured delays ascend.
THEOREM RetriesBackOffAlways == Spec => RetriesBackOff
<1>1. DelaysInv /\ [Next]_vars
        => [Ascending(retryIntervals) => lastRetry' >= lastRetry]_vars
  BY StepDelays
<1> QED
  BY <1>1, DelaysHold, PTL DEF Spec, RetriesBackOff

\* The polls of an action back off if the configured intervals ascend.
THEOREM PollsBackOffAlways == Spec => PollsBackOff
<1>1. DelaysInv /\ [Next]_vars
        => [Ascending(pollIntervals) => lastPoll' >= lastPoll]_vars
  BY StepDelays
<1> QED
  BY <1>1, DelaysHold, PTL DEF Spec, PollsBackOff
=============================================================================
