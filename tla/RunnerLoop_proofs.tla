------------------------- MODULE RunnerLoop_proofs -------------------------
(***************************************************************************)
(* Proofs about RunnerLoop for any set of pods and runs and any            *)
(* thresholds.  LoopInv is inductive: its parts are proved one lemma each, *)
(* every lemma taking the steps of a pod apart action by action.           *)
(***************************************************************************)
EXTENDS RunnerLoop, TLAPS

\* The loop starts in a state of the invariant.
LEMMA InitLoopInv == ASSUME Init PROVE LoopInv
<1> USE LoopAssumption DEF Init
<1>1. TypeOK
  BY DEF TypeOK, PCs
<1>2. AttemptsLeft /\ HoldsRun /\ HandlerOwnsRun /\ ResultIsHandlers
  BY DEF AttemptsLeft, HoldsRun, HandlerOwnsRun, ResultIsHandlers
<1>3. ReadinessFollowsFailures /\ DoneMeansHandled
  BY DEF ReadinessFollowsFailures, DoneMeansHandled
<1> QED
  BY <1>1, <1>2, <1>3 DEF LoopInv

\* The types of the variables are preserved by every step of a pod.
LEMMA PodStepType ==
    ASSUME TypeOK, AttemptsLeft, HoldsRun, NEW p \in Pods, PodStep(p)
    PROVE  TypeOK'
<1> USE LoopAssumption DEF TypeOK, PCs
<1>1. CASE Poll(p)
  BY <1>1 DEF Poll, UnlessDone
<1>2. CASE Sleep(p)
  BY <1>2 DEF Sleep, UnlessDone
<1>3. CASE \E r \in Runs : GetRun(p, r)
  BY <1>3 DEF GetRun
<1>4. CASE GetNothing(p)
  BY <1>4 DEF GetNothing
<1>5. CASE GetFails(p)
  BY <1>5 DEF GetFails, Fault, PollError, Counted
<1>6. CASE Decode(p)
  BY <1>6 DEF Decode
<1>7. CASE DecodeFails(p)
  BY <1>7 DEF DecodeFails, Fault, PollError, Counted
<1>8. CASE Handle(p)
  BY <1>8 DEF Handle, Fault, HoldsRun
<1>9. CASE PostAccepted(p)
  BY <1>9 DEF PostAccepted, Applied, Forget, HoldsRun
<1>10. CASE PostRejected(p)
  BY <1>10 DEF PostRejected, Fault, Forget
<1>11. CASE PostFails(p)
  BY <1>11 DEF PostFails, Fault, Applied, Forget, HoldsRun
<1>12. CASE Backoff(p)
  BY <1>12 DEF Backoff, Forget, AttemptsLeft
<1> QED
  BY <1>1, <1>2, <1>3, <1>4, <1>5, <1>6, <1>7, <1>8, <1>9, <1>10, <1>11, <1>12
     DEF PodStep

\* The types of the variables are preserved by the platform and by Anarchy.
LEMMA EnvironmentType ==
    ASSUME TypeOK, Environment
    PROVE  TypeOK'
<1> USE LoopAssumption DEF TypeOK, PCs
<1>1. ASSUME NEW p \in Pods, Shutdown(p) PROVE TypeOK'
  BY <1>1 DEF Shutdown
<1>2. ASSUME NEW p \in Pods, Crash(p) PROVE TypeOK'
  BY <1>2 DEF Crash
<1>3. ASSUME NEW p \in Pods, Restart(p) PROVE TypeOK'
  BY <1>3 DEF Restart
<1>4. ASSUME NEW r \in Runs, Redispatch(r) PROVE TypeOK'
  BY <1>4 DEF Redispatch, podVars
<1> QED
  BY <1>1, <1>2, <1>3, <1>4 DEF Environment

\* What a pod holds, may still retry, and reports is preserved by its steps.
LEMMA PodStepHolds ==
    ASSUME TypeOK, AttemptsLeft, HoldsRun, ResultIsHandlers,
           NEW p \in Pods, PodStep(p)
    PROVE  (AttemptsLeft /\ HoldsRun /\ ResultIsHandlers)'
<1> USE LoopAssumption DEF TypeOK, AttemptsLeft, HoldsRun, ResultIsHandlers
<1>1. CASE Poll(p)
  BY <1>1 DEF Poll, UnlessDone
<1>2. CASE Sleep(p)
  BY <1>2 DEF Sleep, UnlessDone
<1>3. CASE \E r \in Runs : GetRun(p, r)
  BY <1>3 DEF GetRun
<1>4. CASE GetNothing(p)
  BY <1>4 DEF GetNothing
<1>5. CASE GetFails(p)
  BY <1>5 DEF GetFails, PollError
<1>6. CASE Decode(p)
  BY <1>6 DEF Decode
<1>7. CASE DecodeFails(p)
  BY <1>7 DEF DecodeFails, PollError
<1>8. CASE Handle(p)
  BY <1>8 DEF Handle
<1>9. CASE PostAccepted(p)
  BY <1>9 DEF PostAccepted, Forget
<1>10. CASE PostRejected(p)
  BY <1>10 DEF PostRejected, Forget
<1>11. CASE PostFails(p)
  BY <1>11 DEF PostFails, Forget
<1>12. CASE Backoff(p)
  BY <1>12 DEF Backoff, Forget
<1> QED
  BY <1>1, <1>2, <1>3, <1>4, <1>5, <1>6, <1>7, <1>8, <1>9, <1>10, <1>11, <1>12
     DEF PodStep

\* The same for the platform and Anarchy.
LEMMA EnvironmentHolds ==
    ASSUME TypeOK, AttemptsLeft, HoldsRun, ResultIsHandlers, Environment
    PROVE  (AttemptsLeft /\ HoldsRun /\ ResultIsHandlers)'
<1> USE DEF TypeOK, AttemptsLeft, HoldsRun, ResultIsHandlers
<1> DEFINE Kept == (AttemptsLeft /\ HoldsRun /\ ResultIsHandlers)'
<1>1. ASSUME NEW p \in Pods, Shutdown(p) PROVE Kept
  BY <1>1 DEF Shutdown
<1>2. ASSUME NEW p \in Pods, Crash(p) PROVE Kept
  BY <1>2 DEF Crash
<1>3. ASSUME NEW p \in Pods, Restart(p) PROVE Kept
  BY <1>3 DEF Restart
<1>4. ASSUME NEW r \in Runs, Redispatch(r) PROVE Kept
  BY <1>4 DEF Redispatch, podVars
<1> QED
  BY <1>1, <1>2, <1>3, <1>4 DEF Environment

\* A poll error at or past the threshold leaves the pod unready.
LEMMA PollErrorReadiness ==
    ASSUME TypeOK, NEW p \in Pods, PollError(p)
    PROVE  errors'[p] >= MaxPollFailures => ~ready'[p]
<1>1. errors'[p] = Counted(errors[p]) /\ errors'[p] \in Nat
  BY LoopAssumption DEF TypeOK, PollError, Counted
<1>2. errors'[p] >= MaxPollFailures <=> ~(Counted(errors[p]) < MaxPollFailures)
  BY <1>1, LoopAssumption
<1>3. ready' = [ready EXCEPT ![p] = ready[p] /\ Counted(errors[p]) < MaxPollFailures]
  BY DEF PollError
<1>4. ready'[p] = (ready[p] /\ Counted(errors[p]) < MaxPollFailures)
  BY <1>3 DEF TypeOK
<1> QED
  BY <1>2, <1>4, Zenon

\* Readiness follows the count of failures in every step.
LEMMA PodStepReadiness ==
    ASSUME TypeOK, ReadinessFollowsFailures, NEW p \in Pods, PodStep(p)
    PROVE  ReadinessFollowsFailures'
<1> USE LoopAssumption DEF TypeOK, ReadinessFollowsFailures
<1>1. CASE Poll(p)
  BY <1>1 DEF Poll, UnlessDone
<1>2. CASE Sleep(p)
  BY <1>2 DEF Sleep, UnlessDone
<1>3. CASE \E r \in Runs : GetRun(p, r)
  BY <1>3 DEF GetRun
<1>4. CASE GetNothing(p)
  BY <1>4 DEF GetNothing
<1>5. CASE GetFails(p)
  BY <1>5, PollErrorReadiness DEF GetFails, PollError
<1>6. CASE Decode(p)
  BY <1>6 DEF Decode
<1>7. CASE DecodeFails(p)
  BY <1>7, PollErrorReadiness DEF DecodeFails, PollError
<1>8. CASE Handle(p)
  BY <1>8 DEF Handle
<1>9. CASE PostAccepted(p)
  BY <1>9 DEF PostAccepted, Forget
<1>10. CASE PostRejected(p)
  BY <1>10 DEF PostRejected, Forget
<1>11. CASE PostFails(p)
  BY <1>11 DEF PostFails, Forget
<1>12. CASE Backoff(p)
  BY <1>12 DEF Backoff, Forget
<1> QED
  BY <1>1, <1>2, <1>3, <1>4, <1>5, <1>6, <1>7, <1>8, <1>9, <1>10, <1>11, <1>12
     DEF PodStep

\* The same for the platform and Anarchy.
LEMMA EnvironmentReadiness ==
    ASSUME TypeOK, ReadinessFollowsFailures, Environment
    PROVE  ReadinessFollowsFailures'
<1> USE LoopAssumption DEF TypeOK, ReadinessFollowsFailures
<1>1. ASSUME NEW p \in Pods, Shutdown(p) PROVE ReadinessFollowsFailures'
  BY <1>1 DEF Shutdown
<1>2. ASSUME NEW p \in Pods, Crash(p) PROVE ReadinessFollowsFailures'
  BY <1>2 DEF Crash
<1>3. ASSUME NEW p \in Pods, Restart(p) PROVE ReadinessFollowsFailures'
  BY <1>3 DEF Restart
<1>4. ASSUME NEW r \in Runs, Redispatch(r) PROVE ReadinessFollowsFailures'
  BY <1>4 DEF Redispatch, podVars
<1> QED
  BY <1>1, <1>2, <1>3, <1>4 DEF Environment

\* What a POST changes in Anarchy is the assignment of the pod's own run, and
\* it counts the run as done only if a handler went through it.
LEMMA AppliedOwnRun ==
    ASSUME TypeOK, ResultIsHandlers, NEW p \in Pods,
           pc[p] = "posting", holding[p] \in Runs, NEW r \in Runs
    PROVE  /\ srv[r] # p => Applied(p)[r] = srv[r]
           /\ Applied(p)[r] = "done" => srv[r] = "done" \/ r \in handled
BY LoopAssumption DEF TypeOK, ResultIsHandlers, Applied

\* A step of one pod leaves the runs of the other handlers assigned to them,
\* and no run is done without a handler.
LEMMA PodStepOwns ==
    ASSUME TypeOK, HoldsRun, HandlerOwnsRun, ResultIsHandlers, DoneMeansHandled,
           NEW p \in Pods, PodStep(p)
    PROVE  (HandlerOwnsRun /\ DoneMeansHandled)'
<1> USE LoopAssumption DEF TypeOK, HoldsRun, HandlerOwnsRun, DoneMeansHandled
<1>1. CASE Poll(p)
  BY <1>1 DEF Poll, UnlessDone
<1>2. CASE Sleep(p)
  BY <1>2 DEF Sleep, UnlessDone
<1>3. CASE \E r \in Runs : GetRun(p, r)
  BY <1>3 DEF GetRun
<1>4. CASE GetNothing(p)
  BY <1>4 DEF GetNothing
<1>5. CASE GetFails(p)
  BY <1>5 DEF GetFails, PollError
<1>6. CASE Decode(p)
  BY <1>6 DEF Decode
<1>7. CASE DecodeFails(p)
  BY <1>7 DEF DecodeFails, PollError
<1>8. CASE Handle(p)
  BY <1>8 DEF Handle
<1>9. CASE PostAccepted(p)
  BY <1>9, AppliedOwnRun DEF PostAccepted, Forget
<1>10. CASE PostRejected(p)
  BY <1>10 DEF PostRejected, Forget
<1>11. CASE PostFails(p)
  BY <1>11, AppliedOwnRun DEF PostFails, Forget
<1>12. CASE Backoff(p)
  BY <1>12 DEF Backoff, Forget
<1> QED
  BY <1>1, <1>2, <1>3, <1>4, <1>5, <1>6, <1>7, <1>8, <1>9, <1>10, <1>11, <1>12
     DEF PodStep

\* The same for the platform and Anarchy.
LEMMA EnvironmentOwns ==
    ASSUME TypeOK, HoldsRun, HandlerOwnsRun, DoneMeansHandled, Environment
    PROVE  (HandlerOwnsRun /\ DoneMeansHandled)'
<1> USE LoopAssumption DEF TypeOK, HoldsRun, HandlerOwnsRun, DoneMeansHandled
<1> DEFINE Kept == (HandlerOwnsRun /\ DoneMeansHandled)'
<1>1. ASSUME NEW p \in Pods, Shutdown(p) PROVE Kept
  BY <1>1 DEF Shutdown
<1>2. ASSUME NEW p \in Pods, Crash(p) PROVE Kept
  BY <1>2 DEF Crash
<1>3. ASSUME NEW p \in Pods, Restart(p) PROVE Kept
  BY <1>3 DEF Restart
<1>4. ASSUME NEW r \in Runs, Redispatch(r) PROVE Kept
  BY <1>4 DEF Redispatch, podVars
<1> QED
  BY <1>1, <1>2, <1>3, <1>4 DEF Environment

\* LoopInv is inductive.
LEMMA StepLoopInv ==
    ASSUME LoopInv, [Next]_vars
    PROVE  LoopInv'
<1> USE DEF LoopInv
<1>1. ASSUME NEW p \in Pods, PodStep(p) PROVE LoopInv'
  BY <1>1, PodStepType, PodStepHolds, PodStepReadiness, PodStepOwns
<1>2. CASE Environment
  BY <1>2, EnvironmentType, EnvironmentHolds, EnvironmentReadiness, EnvironmentOwns
<1>3. CASE UNCHANGED vars
  BY <1>3 DEF vars, TypeOK, AttemptsLeft, HoldsRun, ReadinessFollowsFailures,
              HandlerOwnsRun, ResultIsHandlers, DoneMeansHandled
<1> QED
  BY <1>1, <1>2, <1>3 DEF Next

\* The parts of the invariant hold in every reachable state.
THEOREM LoopInvHolds == Spec => []LoopInv
<1>1. Init => LoopInv
  BY InitLoopInv
<1>2. LoopInv /\ [Next]_vars => LoopInv'
  BY StepLoopInv
<1> QED
  BY <1>1, <1>2, PTL DEF Spec

\* Every variable keeps its type.
THEOREM TypeCorrect == Spec => []TypeOK
<1>1. LoopInv => TypeOK
  BY DEF LoopInv
<1> QED
  BY <1>1, LoopInvHolds, PTL

\* Two pods never run a handler for the same run: each would have it assigned.
THEOREM Exclusive == Spec => []HandlersExclusive
<1>1. LoopInv => HandlersExclusive
  BY DEF LoopInv, HandlerOwnsRun, HandlersExclusive
<1> QED
  BY <1>1, LoopInvHolds, PTL

\* A pod past the threshold is not ready.
THEOREM Readiness == Spec => []ReadinessFollowsFailures
<1>1. LoopInv => ReadinessFollowsFailures
  BY DEF LoopInv
<1> QED
  BY <1>1, LoopInvHolds, PTL

\* No run is done that no handler went through.
THEOREM DoneHandled == Spec => []DoneMeansHandled
<1>1. LoopInv => DoneMeansHandled
  BY DEF LoopInv
<1> QED
  BY <1>1, LoopInvHolds, PTL

\* A step of a pod takes its readiness only with the failure that reaches the
\* threshold, and leaves that of the other pods alone.
LEMMA PodStepUnready ==
    ASSUME TypeOK, NEW p \in Pods, PodStep(p),
           NEW q \in Pods, ready[q], ~ready'[q]
    PROVE  errors'[q] >= MaxPollFailures
<1> USE LoopAssumption DEF TypeOK
<1>1. ASSUME PollError(p) PROVE errors'[q] >= MaxPollFailures
  <2>1. ready' = [ready EXCEPT ![p] = ready[p] /\ Counted(errors[p]) < MaxPollFailures]
    BY <1>1 DEF PollError
  <2>2. q = p
    BY <2>1
  <2>3. ready'[p] = (ready[p] /\ Counted(errors[p]) < MaxPollFailures)
    BY <2>1
  <2>4. ~(Counted(errors[p]) < MaxPollFailures)
    BY <2>2, <2>3, Zenon
  <2>5. errors'[p] = Counted(errors[p]) /\ errors'[p] \in Nat
    BY <1>1 DEF PollError, Counted
  <2> QED
    BY <2>2, <2>4, <2>5
<1>2. CASE Poll(p) \/ Sleep(p)
  BY <1>2 DEF Poll, Sleep
<1>3. CASE (\E r \in Runs : GetRun(p, r)) \/ GetNothing(p)
  BY <1>3 DEF GetRun, GetNothing
<1>4. CASE GetFails(p) \/ DecodeFails(p)
  BY <1>1, <1>4 DEF GetFails, DecodeFails
<1>5. CASE Decode(p) \/ Handle(p)
  BY <1>5 DEF Decode, Handle
<1>6. CASE PostAccepted(p) \/ PostRejected(p) \/ PostFails(p) \/ Backoff(p)
  BY <1>6 DEF PostAccepted, PostRejected, PostFails, Backoff, Forget
<1> QED
  BY <1>2, <1>3, <1>4, <1>5, <1>6 DEF PodStep

\* Readiness is lost at the threshold or by a restart, and never before.
THEOREM UnreadyAtThreshold == Spec => UnreadyOnlyAtThreshold
<1> DEFINE Unready == \A p \in Pods :
              ready[p] /\ ~ready'[p] => errors'[p] >= MaxPollFailures \/ pc[p] = "stopped"
<1>1. ASSUME TypeOK, Next PROVE Unready
  <2>1. ASSUME NEW p \in Pods, PodStep(p) PROVE Unready
    BY <1>1, <2>1, PodStepUnready
  <2>2. CASE \E p \in Pods : Shutdown(p) \/ Crash(p)
    BY <2>2 DEF Shutdown, Crash
  <2>3. ASSUME NEW p \in Pods, Restart(p) PROVE Unready
    BY <1>1, <2>3 DEF Restart, TypeOK
  <2>4. CASE \E r \in Runs : Redispatch(r)
    BY <2>4 DEF Redispatch, podVars
  <2> QED
    BY <1>1, <2>1, <2>2, <2>3, <2>4 DEF Next, Environment
<1>2. TypeOK /\ [Next]_vars => [Unready]_vars
  BY <1>1
<1>3. Unready => \A p \in Pods :
         ready[p] /\ ~ready'[p] => \/ errors'[p] >= MaxPollFailures
                                   \/ pc[p] = "stopped"
  OBVIOUS
<1> HIDE DEF Unready
<1> QED
  BY <1>2, <1>3, TypeCorrect, PTL DEF Spec, UnreadyOnlyAtThreshold
=============================================================================
