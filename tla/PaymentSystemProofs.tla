------------------------ MODULE PaymentSystemProofs ------------------------
(***************************************************************************)
(* Theorems about PaymentSystem, for any jobs, executors, recovery workers,*)
(* faults and answers of bunq.                                             *)
(***************************************************************************)
EXTENDS PaymentSystem, TLAPS

-----------------------------------------------------------------------------
(* Runs and their successors *)

(* An attempt that is not the last allowed one has a next attempt, of the  *)
(* same job (uq_run_per_attempt names runs by job and attempt).            *)
LEMMA NextAttemptIsRun ==
    ASSUME NEW r \in Run, ~IsExhausted(r[2])
    PROVE  /\ NextAttempt(r) \in Run
           /\ NextAttempt(r) # r
           /\ NextAttempt(r)[1] = r[1]
           /\ NextAttempt(r)[2] = r[2] + 1
BY StoreAssumption DEF IsExhausted, StoreAssumption, Run, NextAttempt

(* The first attempt of every job is a run.                                *)
LEMMA FirstIsRun ==
    ASSUME NEW j \in Jobs
    PROVE  First(j) \in Run /\ First(j)[1] = j /\ First(j)[2] = 1
BY StoreAssumption DEF StoreAssumption, Run, First

(* A run has a job, a positive attempt number and a subscription.          *)
LEMMA RunParts ==
    ASSUME NEW r \in Run
    PROVE  /\ r[1] \in Jobs /\ r[2] \in Nat /\ r[2] >= 1 /\ r[2] <= MaxAttempts
           /\ SubscriptionOf(r) \in Subs
BY StoreAssumption DEF StoreAssumption, Run, SubscriptionOf

(* Runs of one job differ in their attempt.                                *)
LEMMA RunsDiffer ==
    ASSUME NEW r \in Run, NEW q \in Run, r[1] = q[1], r[2] = q[2]
    PROVE  r = q
<1>1. r = <<r[1], r[2]>> /\ q = <<q[1], q[2]>>
  BY DEF Run
<1>. QED  BY <1>1

(* No run is NoRun.                                                        *)
LEMMA NoRunIsNoRun == NoRun \notin Run
BY StoreAssumption DEF StoreAssumption, Run

-----------------------------------------------------------------------------
(* Type correctness *)

(* A worker holds a run exactly between its claim and its last transaction *)
Holding ==
    /\ \A e \in Executors : cur[e] # NoRun <=> pc[e] \notin {"idle", "batch"}
    /\ \A w \in Recoverers : claim[w] # NoRun <=> rpc[w] = "won"

(* Claims set what a worker holds, final transactions and faults clear it. *)
LEMMA HoldingInductive == TypeOK /\ Holding /\ [Next]_vars => Holding'
<1>. SUFFICES ASSUME TypeOK, Holding, [Next]_vars PROVE Holding'
  OBVIOUS
<1>. USE DEF TypeOK, ExecutorTypeOK, RecoveryTypeOK, Holding
<1>1. CASE UNCHANGED vars
  BY <1>1 DEF vars, executorVars, recoveryVars
<1>2. ASSUME NEW e \in Executors, ExecutorStep(e) PROVE Holding'
  <2>. UNCHANGED recoveryVars
    BY <1>2 DEF ExecutorStep
  <2>. USE DEF executorVars, recoveryVars
  <2>1. CASE FetchPendingRunIds(e)
    BY <2>1 DEF FetchPendingRunIds, GoTo
  <2>2. ASSUME NEW r \in batch[e], ClaimRun(e, r) PROVE Holding'
    BY <2>2, NoRunIsNoRun DEF ClaimRun, GoTo
  <2>3. ASSUME NEW r \in batch[e], SkipRun(e, r) PROVE Holding'
    BY <2>3 DEF SkipRun, TakeNext, GoTo
  <2>4. CASE LoadRun(e)
    BY <2>4 DEF LoadRun, Continue, GoTo
  <2>5. CASE CheckDagDependencies(e)
    BY <2>5 DEF CheckDagDependencies, Continue, GoTo
  <2>6. CASE FindIdempotencyKey(e)
    BY <2>6 DEF FindIdempotencyKey, Continue, GoTo
  <2>7. CASE CreatePayment(e)
    BY <2>7 DEF CreatePayment, Continue, GoTo
  <2>8. CASE MarkDagCancelled(e) \/ PersistSuccess(e) \/ ScheduleRetry(e) \/ GiveUp(e)
    BY <2>8 DEF MarkDagCancelled, PersistSuccess, ScheduleRetry, GiveUp, Finish, TakeNext, GoTo
  <2>. QED  BY <1>2, <2>1, <2>2, <2>3, <2>4, <2>5, <2>6, <2>7, <2>8 DEF ExecutorStep
<1>3. ASSUME NEW e \in Executors, ExecutorFault(e) PROVE Holding'
  BY <1>3 DEF ExecutorFault, ExecutorCrash, TransactionFails, Finish, TakeNext, GoTo, recoveryVars
<1>4. ASSUME NEW w \in Recoverers, RecoveryStep(w) PROVE Holding'
  <2>. UNCHANGED executorVars
    BY <1>4 DEF RecoveryStep
  <2>. USE DEF executorVars
  <2>1. CASE RecoverStuckRuns(w)
    BY <2>1 DEF RecoverStuckRuns, Reap
  <2>2. ASSUME NEW r \in candidates[w], ClaimStuckRun(w, r) PROVE Holding'
    BY <2>2, NoRunIsNoRun DEF ClaimStuckRun, Reap
  <2>3. CASE RequeueOrBury(w)
    BY <2>3 DEF RequeueOrBury, Reap
  <2>4. CASE ReadOrphanedJobs(w)
    BY <2>4 DEF ReadOrphanedJobs
  <2>5. ASSUME NEW j \in orphans[w],
               CancelOrphan(w, j) \/ KeepJob(w, j) \/ EvaluationRaises(w, j)
        PROVE  Holding'
    BY <2>5 DEF CancelOrphan, KeepJob, EvaluationRaises, Abort, Evaluated
  <2>. QED  BY <1>4, <2>1, <2>2, <2>3, <2>4, <2>5 DEF RecoveryStep
<1>5. ASSUME NEW w \in Recoverers, RecoveryFault(w) PROVE Holding'
  BY <1>5 DEF RecoveryFault, TickAborts, Abort, executorVars
<1>6. CASE Environment
  BY <1>6 DEF Environment, executorVars, recoveryVars
<1>. QED  BY <1>1, <1>2, <1>3, <1>4, <1>5, <1>6 DEF Next

(* What a worker holds is a run.                                           *)
LEMMA HeldIsRun ==
    ASSUME TypeOK, Holding
    PROVE  /\ \A e \in Executors : pc[e] \notin {"idle", "batch"} => cur[e] \in Run
           /\ \A w \in Recoverers : rpc[w] = "won" => claim[w] \in Run
BY DEF TypeOK, Holding, ExecutorTypeOK, RecoveryTypeOK

(* The dead letter transaction keeps the rows in their types.              *)
LEMMA MoveToDlqTyped ==
    ASSUME StoreTypeOK, NEW r \in Run, MoveToDlq(r)
    PROVE  StoreTypeOK'
<1>1. SubscriptionOf(r) \in Subs
  BY RunParts
<1>. QED
  BY <1>1 DEF StoreTypeOK, MoveToDlq, RunStatus, SubscriptionStatus

(* Every transaction of the workers keeps the rows, and every worker's     *)
(* local state, in their types.                                            *)
LEMMA TypeInductive == TypeOK /\ Holding /\ [Next]_vars => TypeOK'
<1>. SUFFICES ASSUME TypeOK, Holding, [Next]_vars PROVE TypeOK'
  OBVIOUS
<1>0. absent' \subseteq Jobs \X Jobs
  <2>1. ASSUME NEW j \in Jobs, InsertJob(j) PROVE absent' \subseteq Jobs \X Jobs
    BY <2>1, StoreAssumption DEF InsertJob, TypeOK, StoreAssumption
  <2>2. CASE UNCHANGED absent
    BY <2>2 DEF TypeOK
  <2>. QED
    BY <2>1, <2>2 DEF Next, ExecutorStep, ExecutorFault, RecoveryStep, RecoveryFault, Environment, vars
<1>. DEFINE Typed == StoreTypeOK /\ ExecutorTypeOK /\ RecoveryTypeOK
<1>. SUFFICES Typed'
  BY <1>0 DEF TypeOK
<1>. USE DEF TypeOK, StoreTypeOK, ExecutorTypeOK, RecoveryTypeOK
<1>1. CASE UNCHANGED vars
  BY <1>1 DEF vars, storeVars, executorVars, recoveryVars
<1>2. ASSUME NEW e \in Executors, ExecutorStep(e) PROVE Typed'
  <2>. UNCHANGED recoveryVars
    BY <1>2 DEF ExecutorStep
  <2>. USE DEF executorVars, recoveryVars, storeVars
  <2>1. CASE FetchPendingRunIds(e)
    BY <2>1 DEF FetchPendingRunIds, GoTo, PCs
  <2>2. ASSUME NEW r \in batch[e], ClaimRun(e, r) PROVE Typed'
    BY <2>2 DEF ClaimRun, GoTo, PCs, RunStatus
  <2>3. ASSUME NEW r \in batch[e], SkipRun(e, r) PROVE Typed'
    BY <2>3 DEF SkipRun, TakeNext, GoTo, PCs
  <2>4. CASE LoadRun(e)
    BY <2>4 DEF LoadRun, Continue, GoTo, PCs, Answers
  <2>5. CASE CheckDagDependencies(e)
    BY <2>5 DEF CheckDagDependencies, Continue, GoTo, PCs
  <2>6. CASE MarkDagCancelled(e)
    BY <2>6 DEF MarkDagCancelled, Finish, TakeNext, GoTo, PCs, RunStatus, JobStatus
  <2>7. CASE FindIdempotencyKey(e)
    BY <2>7 DEF FindIdempotencyKey, Continue, GoTo, PCs, Answers
  <2>8. CASE CreatePayment(e)
    <3>1. cur[e] \in Run
      BY <2>8, HeldIsRun DEF CreatePayment
    <3>2. \A b \in BunqBehaviour : b[2] \in Answers
      BY ExecutorAssumption DEF ExecutorAssumption
    <3>. QED
      BY <2>8, <3>1, <3>2 DEF CreatePayment, Continue, GoTo, PCs, Answers, Retryable
  <2>9. CASE PersistSuccess(e)
    <3>1. cur[e] \in Run
      BY <2>9, HeldIsRun DEF PersistSuccess
    <3>2. SubscriptionOf(cur[e]) \in Subs /\ cur[e][1] \in Jobs
      BY <3>1, RunParts
    <3>3. ExecutorTypeOK' /\ RecoveryTypeOK'
      BY <2>9 DEF PersistSuccess, Finish, TakeNext, GoTo, PCs
    <3>4. CASE cur[e] \in keys
      BY <2>9, <3>3, <3>4 DEF PersistSuccess
    <3>5. CASE cur[e] \notin keys
      <4>1. runStatus' = [runStatus EXCEPT ![cur[e]] = "SUCCEEDED"]
            /\ jobStatus' = [jobStatus EXCEPT ![cur[e][1]] = "DONE"]
            /\ lock' = [lock EXCEPT ![cur[e]] = "null"]
            /\ failures' = [failures EXCEPT ![SubscriptionOf(cur[e])] = 0]
            /\ keys' = keys \cup {cur[e]}
            /\ UNCHANGED <<retryAfter, subStatus, dlq>>
        BY <2>9, <3>5 DEF PersistSuccess
      <4>2. StoreTypeOK'
        BY <3>1, <3>2, <4>1 DEF RunStatus, JobStatus
      <4>. QED  BY <3>3, <4>2
    <3>. QED  BY <3>4, <3>5
  <2>10. CASE ScheduleRetry(e)
    BY <2>10, NextAttemptIsRun DEF ScheduleRetry, InsertRun, Finish, TakeNext, GoTo, PCs, RunStatus
  <2>11. CASE GiveUp(e)
    <3>1. cur[e] \in Run
      BY <2>11, HeldIsRun DEF GiveUp
    <3>2. SubscriptionOf(cur[e]) \in Subs
      BY <3>1, RunParts
    <3>. QED
      BY <2>11, <3>1, <3>2, MoveToDlqTyped DEF GiveUp, Finish, TakeNext, GoTo, PCs
  <2>. QED
    BY <1>2, <2>1, <2>2, <2>3, <2>4, <2>5, <2>6, <2>7, <2>8, <2>9, <2>10, <2>11 DEF ExecutorStep
<1>3. ASSUME NEW e \in Executors, ExecutorFault(e) PROVE Typed'
  <2>. UNCHANGED <<storeVars, recoveryVars, paid>>
    BY <1>3 DEF ExecutorFault, ExecutorCrash, TransactionFails, Finish
  <2>1. StoreTypeOK' /\ RecoveryTypeOK'
    BY DEF storeVars, recoveryVars
  <2>2. CASE ExecutorCrash(e)
    BY <2>1, <2>2 DEF ExecutorCrash, TakeNext, GoTo, PCs
  <2>3. CASE TransactionFails(e)
    BY <2>1, <2>3 DEF TransactionFails, Finish, TakeNext, GoTo, PCs
  <2>. QED  BY <1>3, <2>2, <2>3 DEF ExecutorFault
<1>4. ASSUME NEW w \in Recoverers, RecoveryStep(w) PROVE Typed'
  <2>. UNCHANGED executorVars
    BY <1>4 DEF RecoveryStep
  <2>. USE DEF executorVars, recoveryVars, storeVars
  <2>1. CASE RecoverStuckRuns(w)
    BY <2>1 DEF RecoverStuckRuns, Reap
  <2>2. ASSUME NEW r \in candidates[w], ClaimStuckRun(w, r) PROVE Typed'
    <3>1. CASE Stuck(r)
      <4>1. StoreTypeOK'
        <5>1. /\ runStatus' = [runStatus EXCEPT ![r] = "FAILED"]
              /\ lock' = [lock EXCEPT ![r] = "null"]
              /\ UNCHANGED <<retryAfter, jobStatus, subStatus, failures, keys, dlq>>
          BY <2>2, <3>1 DEF ClaimStuckRun
        <5>2. r \in Run
          OBVIOUS
        <5>. QED  BY <5>1, <5>2 DEF RunStatus
      <4>2. RecoveryTypeOK'
        <5>1. /\ rpc' = [rpc EXCEPT ![w] = "won"]
              /\ claim' = [claim EXCEPT ![w] = r]
              /\ candidates' = [candidates EXCEPT ![w] = @ \ {r}]
              /\ UNCHANGED orphans
          BY <2>2, <3>1 DEF ClaimStuckRun
        <5>2. r \in Run
          OBVIOUS
        <5>. QED  BY <5>1, <5>2
      <4>. QED  BY <4>1, <4>2
    <3>2. CASE ~Stuck(r)
      BY <2>2, <3>2 DEF ClaimStuckRun, Reap
    <3>. QED  BY <3>1, <3>2
  <2>3. CASE RequeueOrBury(w)
    <3>1. claim[w] \in Run
      BY <2>3, HeldIsRun DEF RequeueOrBury
    <3>2. CASE IsExhausted(claim[w][2])
      BY <2>3, <3>1, <3>2, MoveToDlqTyped DEF RequeueOrBury, Reap
    <3>3. CASE ~IsExhausted(claim[w][2])
      BY <2>3, <3>1, <3>3, NextAttemptIsRun DEF RequeueOrBury, Reap, InsertRun, RunStatus
    <3>. QED  BY <3>2, <3>3
  <2>4. CASE ReadOrphanedJobs(w)
    BY <2>4 DEF ReadOrphanedJobs
  <2>5. ASSUME NEW j \in orphans[w], CancelOrphan(w, j) PROVE Typed'
    BY <2>5 DEF CancelOrphan, Evaluated, RunStatus, JobStatus
  <2>6. ASSUME NEW j \in orphans[w], KeepJob(w, j) PROVE Typed'
    BY <2>6 DEF KeepJob, Evaluated
  <2>7. ASSUME NEW j \in orphans[w], EvaluationRaises(w, j) PROVE Typed'
    BY <2>7 DEF EvaluationRaises, Abort
  <2>. QED
    BY <1>4, <2>1, <2>2, <2>3, <2>4, <2>5, <2>6, <2>7 DEF RecoveryStep
<1>5. ASSUME NEW w \in Recoverers, RecoveryFault(w) PROVE Typed'
  BY <1>5 DEF RecoveryFault, TickAborts, Abort, executorVars, storeVars
<1>6. CASE Environment
  <2>. UNCHANGED <<executorVars, recoveryVars>>
    BY <1>6 DEF Environment
  <2>. USE DEF executorVars, recoveryVars, storeVars
  <2>1. ASSUME NEW j \in Jobs, CreateJob(j) PROVE Typed'
    BY <2>1, FirstIsRun DEF CreateJob, InsertRun, JobStatus, RunStatus
  <2>2. ASSUME NEW r \in Run, BackoffElapses(r) \/ LockExpires(r) PROVE Typed'
    BY <2>2 DEF BackoffElapses, LockExpires
  <2>. QED  BY <1>6, <2>1, <2>2 DEF Environment, InsertJob
<1>. QED  BY <1>1, <1>2, <1>3, <1>4, <1>5, <1>6 DEF Next

(* Holding and the types hold in every state.                              *)
LEMMA InitTyped == Init => TypeOK /\ Holding
BY DEF Init, TypeOK, StoreTypeOK, StoreInit, ExecutorTypeOK, ExecutorInit, RecoveryTypeOK,
       RecoveryInit, Holding, RunStatus, JobStatus, SubscriptionStatus, PCs, Answers

(* Both facts, as an invariant of the workers' steps.                      *)
LEMMA TypedAlways == Spec => [](TypeOK /\ Holding)
<1>1. TypeOK /\ Holding /\ [Next]_vars => (TypeOK /\ Holding)'
  BY TypeInductive, HoldingInductive
<1>. QED  BY InitTyped, <1>1, PTL DEF Spec

(* TypeOK: every row and every worker's memory keeps its type, whatever    *)
(* the interleaving, the failures and the number of workers.               *)
THEOREM TypeCorrect == Spec => []TypeOK
BY TypedAlways, PTL

-----------------------------------------------------------------------------
(* One attempt at a time, one executor per attempt *)

(* A run that a worker holds was claimed and is never PENDING again; no    *)
(* key is stored for it while an executor holds it; recovery's transaction *)
(* 2 finds it no longer RUNNING, whatever a late executor did.             *)
ClaimedOnce ==
    /\ \A e \in Executors : cur[e] # NoRun =>
          runStatus[cur[e]] \notin {"NONE", "PENDING"} /\ cur[e] \notin keys
    /\ \A w \in Recoverers : claim[w] # NoRun =>
          runStatus[claim[w]] \notin {"NONE", "PENDING", "RUNNING"}
    /\ \A r \in keys : runStatus[r] \in {"SUCCEEDED", "DEAD"}

(* Rows of a job appear with the job, and in the order of the attempts.    *)
RowsInOrder ==
    \A q \in Run : Exists(q) =>
        jobStatus[q[1]] # "NONE" /\ \A r \in Run : Later(q, r) => Exists(r)

AttemptInv == TypeOK /\ Holding /\ ClaimedOnce /\ RowsInOrder
              /\ OneLiveAttempt /\ ExclusiveExecution

(* What any step does to the runs that exist: a claimed run never becomes  *)
(* claimable again, and one that is over is never RUNNING again.           *)
StatusesAdvance ==
    /\ \A r \in Run : Exists(r) => runStatus'[r] # "NONE"
    /\ \A r \in Run : runStatus[r] \notin {"NONE", "PENDING"} =>
                      runStatus'[r] \notin {"NONE", "PENDING"}
    /\ \A r \in Run : runStatus[r] \notin {"NONE", "PENDING", "RUNNING"} =>
                      runStatus'[r] \notin {"NONE", "PENDING", "RUNNING"}
    /\ \A j \in Jobs : jobStatus[j] # "NONE" => jobStatus'[j] # "NONE"

(* A row that appears is the first attempt of a new job, or the attempt    *)
(* after one that is over when the step ends.                              *)
RowsAppearInOrder ==
    \A q \in Run : ~Exists(q) /\ runStatus'[q] # "NONE" =>
        \/ q[2] = 1 /\ jobStatus'[q[1]] # "NONE"
        \/ \E r \in Run : /\ Exists(r) /\ ~IsExhausted(r[2])
                          /\ q = NextAttempt(r)
                          /\ runStatus'[r] \notin {"PENDING", "RUNNING"}

(* Every transaction changes the statuses in one of the ways above.        *)
LEMMA StatusStep ==
    ASSUME TypeOK, Holding, ClaimedOnce, Next
    PROVE  StatusesAdvance /\ RowsAppearInOrder
<1>. USE DEF TypeOK, StoreTypeOK, StatusesAdvance, RowsAppearInOrder, Exists
<1>0. ASSUME UNCHANGED <<runStatus, jobStatus>> PROVE StatusesAdvance /\ RowsAppearInOrder
  BY <1>0
<1>1. ASSUME NEW e \in Executors, ExecutorStep(e)
      PROVE  StatusesAdvance /\ RowsAppearInOrder
  <2>1. CASE \/ FetchPendingRunIds(e)
             \/ \E r \in batch[e] : SkipRun(e, r)
             \/ LoadRun(e) \/ CheckDagDependencies(e) \/ FindIdempotencyKey(e) \/ CreatePayment(e)
    BY <1>0, <2>1 DEF FetchPendingRunIds, SkipRun, LoadRun, CheckDagDependencies,
                      FindIdempotencyKey, CreatePayment, Continue, storeVars
  <2>2. ASSUME NEW r \in batch[e], ClaimRun(e, r)
        PROVE  StatusesAdvance /\ RowsAppearInOrder
    BY <2>2 DEF ClaimRun
  <2>3. CASE MarkDagCancelled(e)
    <3>1. cur[e] \in Run /\ runStatus[cur[e]] \notin {"NONE", "PENDING"}
      BY <2>3, HeldIsRun, NoRunIsNoRun DEF MarkDagCancelled, ClaimedOnce
    <3>. QED  BY <2>3, <3>1 DEF MarkDagCancelled
  <2>4. CASE PersistSuccess(e)
    <3>1. cur[e] \in Run /\ runStatus[cur[e]] \notin {"NONE", "PENDING"}
      BY <2>4, HeldIsRun, NoRunIsNoRun DEF PersistSuccess, ClaimedOnce
    <3>. QED  BY <2>4, <3>1 DEF PersistSuccess, storeVars
  <2>5. CASE ScheduleRetry(e)
    <3>1. cur[e] \in Run /\ runStatus[cur[e]] \notin {"NONE", "PENDING"}
      BY <2>5, HeldIsRun, NoRunIsNoRun DEF ScheduleRetry, ClaimedOnce
    <3>2. /\ NextAttempt(cur[e]) \in Run /\ NextAttempt(cur[e]) # cur[e]
          /\ ~IsExhausted(cur[e][2])
      BY <2>5, <3>1, NextAttemptIsRun DEF ScheduleRetry
    <3>. QED  BY <2>5, <3>1, <3>2 DEF ScheduleRetry, InsertRun
  <2>6. CASE GiveUp(e)
    <3>1. cur[e] \in Run /\ runStatus[cur[e]] \notin {"NONE", "PENDING"}
      BY <2>6, HeldIsRun, NoRunIsNoRun DEF GiveUp, ClaimedOnce
    <3>. QED  BY <2>6, <3>1 DEF GiveUp, MoveToDlq
  <2>. QED  BY <1>1, <2>1, <2>2, <2>3, <2>4, <2>5, <2>6 DEF ExecutorStep
<1>2. ASSUME NEW e \in Executors, ExecutorFault(e)
      PROVE  StatusesAdvance /\ RowsAppearInOrder
  BY <1>0, <1>2 DEF ExecutorFault, ExecutorCrash, TransactionFails, storeVars
<1>3. ASSUME NEW w \in Recoverers, RecoveryStep(w)
      PROVE  StatusesAdvance /\ RowsAppearInOrder
  <2>1. CASE \/ RecoverStuckRuns(w) \/ ReadOrphanedJobs(w)
             \/ \E j \in orphans[w] : KeepJob(w, j) \/ EvaluationRaises(w, j)
    BY <1>0, <2>1 DEF RecoverStuckRuns, ReadOrphanedJobs, KeepJob, EvaluationRaises, Abort, storeVars
  <2>2. ASSUME NEW r \in candidates[w], ClaimStuckRun(w, r)
        PROVE  StatusesAdvance /\ RowsAppearInOrder
    BY <2>2 DEF ClaimStuckRun, Stuck, storeVars
  <2>3. CASE RequeueOrBury(w)
    <3>1. claim[w] \in Run /\ runStatus[claim[w]] \notin {"NONE", "PENDING", "RUNNING"}
      BY <2>3, HeldIsRun, NoRunIsNoRun DEF RequeueOrBury, ClaimedOnce
    <3>2. CASE IsExhausted(claim[w][2])
      BY <2>3, <3>1, <3>2 DEF RequeueOrBury, MoveToDlq
    <3>3. CASE ~IsExhausted(claim[w][2])
      <4>1. NextAttempt(claim[w]) \in Run /\ NextAttempt(claim[w]) # claim[w]
        BY <3>1, <3>3, NextAttemptIsRun
      <4>. QED  BY <2>3, <3>1, <3>3, <4>1 DEF RequeueOrBury, InsertRun
    <3>. QED  BY <3>2, <3>3
  <2>4. ASSUME NEW j \in orphans[w], CancelOrphan(w, j)
        PROVE  StatusesAdvance /\ RowsAppearInOrder
    BY <2>4 DEF CancelOrphan
  <2>. QED  BY <1>3, <2>1, <2>2, <2>3, <2>4 DEF RecoveryStep
<1>4. ASSUME NEW w \in Recoverers, RecoveryFault(w)
      PROVE  StatusesAdvance /\ RowsAppearInOrder
  BY <1>0, <1>4 DEF RecoveryFault, TickAborts, Abort, storeVars
<1>5. CASE Environment
  <2>1. ASSUME NEW j \in Jobs, CreateJob(j) PROVE StatusesAdvance /\ RowsAppearInOrder
    BY <2>1, FirstIsRun DEF CreateJob, InsertRun
  <2>2. ASSUME NEW r \in Run, BackoffElapses(r) \/ LockExpires(r)
        PROVE  StatusesAdvance /\ RowsAppearInOrder
    BY <1>0, <2>2 DEF BackoffElapses, LockExpires
  <2>. QED  BY <1>5, <2>1, <2>2 DEF Environment, InsertJob
<1>. QED  BY <1>1, <1>2, <1>3, <1>4, <1>5 DEF Next

(* Every earlier attempt of a row that appears exists, and is over.        *)
LEMMA NewRowFollows ==
    ASSUME TypeOK, Holding, ClaimedOnce, RowsInOrder, OneLiveAttempt, Next,
           NEW q \in Run, ~Exists(q), Exists(q)', NEW r \in Run, Later(q, r)
    PROVE  Exists(r) /\ runStatus'[r] \notin {"PENDING", "RUNNING"}
<1>. StatusesAdvance /\ RowsAppearInOrder
  BY StatusStep
<1>. USE DEF TypeOK, StoreTypeOK, StatusesAdvance, RowsAppearInOrder, RowsInOrder,
             OneLiveAttempt, NoneAfter, Exists, Active
<1>1. PICK x \in Run : /\ Exists(x) /\ ~IsExhausted(x[2]) /\ q = NextAttempt(x)
                       /\ runStatus'[x] \notin {"PENDING", "RUNNING"}
  BY RunParts DEF Later
<1>2. x[1] = r[1] /\ x[2] >= r[2] /\ x[2] \in Nat /\ r[2] \in Nat
  BY <1>1, NextAttemptIsRun, RunParts DEF Later
<1>3. CASE x = r
  BY <1>1, <1>3
<1>4. CASE x # r
  <2>1. Later(x, r)
    <3>1. x[2] # r[2]
      BY <1>2, <1>4, RunsDiffer
    <3>2. x[2] > r[2]
      BY <1>2, <3>1
    <3>. QED  BY <1>2, <3>2, Zenon DEF Later
  <2>2. Exists(r) /\ runStatus[r] \notin {"PENDING", "RUNNING"}
    BY <1>1, <2>1
  <2>. QED  BY <2>2
<1>. QED  BY <1>3, <1>4

(* Hence an insert never finds a live attempt before it or a row after it. *)
LEMMA OrderInductive ==
    ASSUME TypeOK, Holding, ClaimedOnce, RowsInOrder, OneLiveAttempt, Next
    PROVE  RowsInOrder' /\ OneLiveAttempt'
<1>. StatusesAdvance /\ RowsAppearInOrder
  BY StatusStep
<1>. USE DEF TypeOK, StoreTypeOK, StatusesAdvance, RowsAppearInOrder, RowsInOrder,
             OneLiveAttempt, NoneAfter, Exists, Active
<1>1. ASSUME NEW q \in Run, ~Exists(q), Exists(q)', NEW r \in Run, Later(q, r)
      PROVE  Exists(r) /\ runStatus'[r] \notin {"PENDING", "RUNNING"}
  BY <1>1, NewRowFollows
<1>2. RowsInOrder'
  <2>1. ASSUME NEW q \in Run, Exists(q)' PROVE jobStatus'[q[1]] # "NONE"
    <3>1. CASE Exists(q)
      BY <3>1, RunParts
    <3>2. CASE ~Exists(q)
      <4>1. CASE q[2] = 1 /\ jobStatus'[q[1]] # "NONE"
        BY <4>1
      <4>2. ASSUME NEW r \in Run, Exists(r), ~IsExhausted(r[2]), q = NextAttempt(r)
            PROVE  jobStatus'[q[1]] # "NONE"
        BY <4>2, NextAttemptIsRun, RunParts
      <4>. QED  BY <2>1, <3>2, <4>1, <4>2
    <3>. QED  BY <3>1, <3>2
  <2>2. ASSUME NEW q \in Run, Exists(q)', NEW r \in Run, Later(q, r) PROVE Exists(r)'
    BY <1>1, <2>2
  <2>. QED  BY <2>1, <2>2 DEF Later
<1>3. OneLiveAttempt'
  <2>. SUFFICES ASSUME NEW r \in Run, Active(r)', NEW q \in Run, Later(q, r), Exists(q)'
                PROVE  FALSE
    BY DEF Later
  <2>1. Exists(q)
    BY <1>1
  <2>2. Exists(r)
    BY <2>1
  <2>. QED  BY <2>1, <2>2
<1>. QED  BY <1>2, <1>3

(* Only a claim gives a run to an executor, and only of a PENDING run.     *)
ExecutorsKeepOrClaim ==
    \A e \in Executors : cur'[e] # NoRun =>
        \/ cur'[e] = cur[e]
        \/ /\ runStatus[cur'[e]] = "PENDING" /\ runStatus'[cur'[e]] = "RUNNING"
           /\ \A f \in Executors \ {e} : cur'[f] = cur[f]

(* A stored key is new only for a run whose executor lets go of it.        *)
KeysAreStoredOnce ==
    \A r \in keys' \ keys : /\ runStatus'[r] = "SUCCEEDED"
                            /\ \E e \in Executors : /\ cur[e] = r /\ cur'[e] = NoRun
                                                    /\ \A f \in Executors \ {e} : cur'[f] = cur[f]

(* Every step either leaves what executors hold or is a claim or a release *)
LEMMA ClaimStep ==
    ASSUME TypeOK, Holding, Next
    PROVE  ExecutorsKeepOrClaim /\ KeysAreStoredOnce /\ keys \subseteq keys'
<1>. USE DEF TypeOK, StoreTypeOK, ExecutorTypeOK, ExecutorsKeepOrClaim, KeysAreStoredOnce
<1>1. ASSUME NEW e \in Executors, ExecutorStep(e)
      PROVE  ExecutorsKeepOrClaim /\ KeysAreStoredOnce /\ keys \subseteq keys'
  <2>1. CASE \/ FetchPendingRunIds(e)
             \/ LoadRun(e) \/ CheckDagDependencies(e) \/ FindIdempotencyKey(e) \/ CreatePayment(e)
    BY <2>1 DEF FetchPendingRunIds, LoadRun, CheckDagDependencies,
                FindIdempotencyKey, CreatePayment, Continue, storeVars
  <2>2. ASSUME NEW r \in batch[e], ClaimRun(e, r)
        PROVE  ExecutorsKeepOrClaim /\ KeysAreStoredOnce /\ keys \subseteq keys'
    BY <2>2 DEF ClaimRun
  <2>3. ASSUME NEW r \in batch[e], SkipRun(e, r)
        PROVE  ExecutorsKeepOrClaim /\ KeysAreStoredOnce /\ keys \subseteq keys'
    BY <2>3 DEF SkipRun, TakeNext, storeVars
  <2>4. CASE PersistSuccess(e)
    <3>1. cur[e] \in Run
      BY <2>4, HeldIsRun DEF PersistSuccess
    <3>. QED  BY <2>4, <3>1 DEF PersistSuccess, Finish, TakeNext, storeVars
  <2>5. CASE MarkDagCancelled(e) \/ ScheduleRetry(e)
    BY <2>5 DEF MarkDagCancelled, ScheduleRetry, Finish, TakeNext
  <2>6. CASE GiveUp(e)
    BY <2>6 DEF GiveUp, MoveToDlq, Finish, TakeNext
  <2>. QED  BY <1>1, <2>1, <2>2, <2>3, <2>4, <2>5, <2>6 DEF ExecutorStep
<1>2. ASSUME NEW e \in Executors, ExecutorFault(e)
      PROVE  ExecutorsKeepOrClaim /\ KeysAreStoredOnce /\ keys \subseteq keys'
  BY <1>2 DEF ExecutorFault, ExecutorCrash, TransactionFails, Finish, TakeNext, storeVars
<1>3. ASSUME NEW w \in Recoverers, RecoveryStep(w)
      PROVE  ExecutorsKeepOrClaim /\ KeysAreStoredOnce /\ keys \subseteq keys'
  <2>1. UNCHANGED executorVars
    BY <1>3 DEF RecoveryStep
  <2>2. UNCHANGED keys
    BY <1>3 DEF RecoveryStep, RecoverStuckRuns, ClaimStuckRun, RequeueOrBury, MoveToDlq,
                ReadOrphanedJobs, CancelOrphan, KeepJob, EvaluationRaises, Abort, storeVars
  <2>. QED  BY <2>1, <2>2 DEF executorVars
<1>4. ASSUME NEW w \in Recoverers, RecoveryFault(w)
      PROVE  ExecutorsKeepOrClaim /\ KeysAreStoredOnce /\ keys \subseteq keys'
  BY <1>4 DEF RecoveryFault, TickAborts, Abort, storeVars, executorVars
<1>5. CASE Environment
  BY <1>5 DEF Environment, InsertJob, CreateJob, BackoffElapses, LockExpires, executorVars
<1>. QED  BY <1>1, <1>2, <1>3, <1>4, <1>5 DEF Next

(* A claimed run is PENDING before, so nobody held it.                     *)
LEMMA ExclusiveInductive ==
    ASSUME TypeOK, Holding, ClaimedOnce, ExclusiveExecution, Next
    PROVE  ExclusiveExecution'
<1>1. ExecutorsKeepOrClaim
  BY ClaimStep
<1>. QED  BY <1>1 DEF ExecutorsKeepOrClaim, ExclusiveExecution, ClaimedOnce

(* What recovery holds, it took out of RUNNING by its compare-and-set.     *)
LEMMA RecoveryHolds ==
    ASSUME TypeOK, Holding, Next, NEW w \in Recoverers, claim'[w] # NoRun, claim'[w] # claim[w]
    PROVE  claim'[w] \in Run /\ runStatus'[claim'[w]] = "FAILED"
<1>. USE DEF TypeOK, StoreTypeOK, RecoveryTypeOK
<1>1. PICK v \in Recoverers : \E r \in candidates[v] : ClaimStuckRun(v, r) /\ Stuck(r)
  <2>1. ASSUME NEW e \in Executors, ExecutorStep(e) \/ ExecutorFault(e) PROVE FALSE
    BY <2>1 DEF ExecutorStep, ExecutorFault, recoveryVars
  <2>2. ASSUME Environment PROVE FALSE
    BY <2>2 DEF Environment, recoveryVars
  <2>3. ASSUME NEW v \in Recoverers, RecoveryFault(v) PROVE FALSE
    BY <2>3 DEF RecoveryFault, TickAborts, Abort
  <2>4. ASSUME NEW v \in Recoverers, RecoveryStep(v)
        PROVE  \E r \in candidates[v] : ClaimStuckRun(v, r) /\ Stuck(r)
    <3>1. ~(RecoverStuckRuns(v) \/ RequeueOrBury(v) \/ ReadOrphanedJobs(v))
      BY DEF RecoverStuckRuns, RequeueOrBury, ReadOrphanedJobs, Reap
    <3>2. ~(\E j \in orphans[v] : CancelOrphan(v, j) \/ KeepJob(v, j) \/ EvaluationRaises(v, j))
      BY DEF CancelOrphan, KeepJob, EvaluationRaises, Evaluated, Abort
    <3>3. ASSUME NEW r \in candidates[v], ClaimStuckRun(v, r) PROVE Stuck(r)
      BY <3>3 DEF ClaimStuckRun, Reap
    <3>. QED  BY <2>4, <3>1, <3>2, <3>3 DEF RecoveryStep
  <2>. QED  BY <2>1, <2>2, <2>3, <2>4 DEF Next
<1>. QED  BY <1>1 DEF ClaimStuckRun

(* A step that takes a run out of {SUCCEEDED, DEAD} would have to hold it. *)
LEMMA KeyedRunsStay ==
    ASSUME TypeOK, Holding, ClaimedOnce, Next, NEW r \in keys
    PROVE  runStatus'[r] \in {"SUCCEEDED", "DEAD"}
<1>. USE DEF TypeOK, StoreTypeOK, ClaimedOnce
<1>0. r \in Run /\ runStatus[r] \in {"SUCCEEDED", "DEAD"}
  OBVIOUS
<1>1. ASSUME NEW e \in Executors, ExecutorStep(e) PROVE runStatus'[r] \in {"SUCCEEDED", "DEAD"}
  <2>1. CASE \/ FetchPendingRunIds(e)
             \/ \E q \in batch[e] : SkipRun(e, q)
             \/ LoadRun(e) \/ CheckDagDependencies(e) \/ FindIdempotencyKey(e) \/ CreatePayment(e)
    BY <1>0, <2>1 DEF FetchPendingRunIds, SkipRun, LoadRun, CheckDagDependencies,
                      FindIdempotencyKey, CreatePayment, Continue, storeVars
  <2>2. ASSUME NEW q \in batch[e], ClaimRun(e, q) PROVE runStatus'[r] \in {"SUCCEEDED", "DEAD"}
    BY <1>0, <2>2 DEF ClaimRun
  <2>3. CASE MarkDagCancelled(e) \/ ScheduleRetry(e) \/ GiveUp(e) \/ PersistSuccess(e)
    <3>1. pc[e] \notin {"idle", "batch"}
      BY <2>3 DEF MarkDagCancelled, ScheduleRetry, GiveUp, PersistSuccess
    <3>2. cur[e] # NoRun
      BY <3>1 DEF Holding
    <3>3. cur[e] # r
      BY <3>2
    <3>4. CASE MarkDagCancelled(e) \/ PersistSuccess(e)
      BY <1>0, <3>3, <3>4 DEF MarkDagCancelled, PersistSuccess, storeVars
    <3>5. CASE ScheduleRetry(e)
      BY <1>0, <3>3, <3>5 DEF ScheduleRetry, InsertRun
    <3>6. CASE GiveUp(e)
      BY <1>0, <3>6 DEF GiveUp, MoveToDlq
    <3>. QED  BY <2>3, <3>4, <3>5, <3>6
  <2>. QED  BY <1>1, <2>1, <2>2, <2>3 DEF ExecutorStep
<1>2. ASSUME NEW e \in Executors, ExecutorFault(e) PROVE runStatus'[r] \in {"SUCCEEDED", "DEAD"}
  BY <1>0, <1>2 DEF ExecutorFault, ExecutorCrash, TransactionFails, storeVars
<1>3. ASSUME NEW w \in Recoverers, RecoveryStep(w) PROVE runStatus'[r] \in {"SUCCEEDED", "DEAD"}
  <2>1. CASE \/ RecoverStuckRuns(w) \/ ReadOrphanedJobs(w)
             \/ \E j \in orphans[w] : KeepJob(w, j) \/ EvaluationRaises(w, j)
    BY <1>0, <2>1 DEF RecoverStuckRuns, ReadOrphanedJobs, KeepJob, EvaluationRaises, Abort, storeVars
  <2>2. ASSUME NEW q \in candidates[w], ClaimStuckRun(w, q)
        PROVE  runStatus'[r] \in {"SUCCEEDED", "DEAD"}
    BY <1>0, <2>2 DEF ClaimStuckRun, Stuck, storeVars
  <2>3. CASE RequeueOrBury(w)
    BY <1>0, <2>3 DEF RequeueOrBury, MoveToDlq, InsertRun
  <2>4. ASSUME NEW j \in orphans[w], CancelOrphan(w, j) PROVE runStatus'[r] \in {"SUCCEEDED", "DEAD"}
    BY <1>0, <2>4 DEF CancelOrphan
  <2>. QED  BY <1>3, <2>1, <2>2, <2>3, <2>4 DEF RecoveryStep
<1>4. ASSUME NEW w \in Recoverers, RecoveryFault(w) PROVE runStatus'[r] \in {"SUCCEEDED", "DEAD"}
  BY <1>0, <1>4 DEF RecoveryFault, TickAborts, Abort, storeVars
<1>5. CASE Environment
  BY <1>0, <1>5 DEF Environment, InsertJob, CreateJob, InsertRun, BackoffElapses, LockExpires
<1>. QED  BY <1>1, <1>2, <1>3, <1>4, <1>5 DEF Next

(* So what a worker holds stays claimed, and unpaid in the ledger.         *)
LEMMA ClaimedInductive ==
    ASSUME TypeOK, Holding, ClaimedOnce, ExclusiveExecution, Next
    PROVE  ClaimedOnce'
<1>1. StatusesAdvance
  BY StatusStep
<1>2. ExecutorsKeepOrClaim /\ KeysAreStoredOnce
  BY ClaimStep
<1>. USE DEF TypeOK, StoreTypeOK, ExecutorTypeOK, RecoveryTypeOK
<1>3. TypeOK'
  BY TypeInductive
<1>4. ASSUME NEW e \in Executors, cur'[e] # NoRun
      PROVE  runStatus'[cur'[e]] \notin {"NONE", "PENDING"} /\ cur'[e] \notin keys'
  <2>1. cur'[e] \in Run
    BY <1>3, <1>4
  <2>2. CASE cur'[e] = cur[e]
    <3>1. runStatus[cur[e]] \notin {"NONE", "PENDING"} /\ cur[e] \notin keys
      BY <1>4, <2>2 DEF ClaimedOnce
    <3>2. cur[e] \notin keys' \ keys
      BY <1>2, <1>4, <2>2 DEF KeysAreStoredOnce, ExclusiveExecution
    <3>. QED  BY <1>1, <2>1, <2>2, <3>1, <3>2 DEF StatusesAdvance
  <2>3. CASE cur'[e] # cur[e]
    <3>1. runStatus[cur'[e]] = "PENDING" /\ runStatus'[cur'[e]] = "RUNNING"
      BY <1>2, <1>4, <2>3 DEF ExecutorsKeepOrClaim
    <3>2. cur'[e] \notin keys
      BY <3>1 DEF ClaimedOnce
    <3>3. cur'[e] \notin keys' \ keys
      BY <1>2, <3>1 DEF KeysAreStoredOnce
    <3>. QED  BY <3>1, <3>2, <3>3
  <2>. QED  BY <2>2, <2>3
<1>5. ASSUME NEW w \in Recoverers, claim'[w] # NoRun
      PROVE  runStatus'[claim'[w]] \notin {"NONE", "PENDING", "RUNNING"}
  <2>1. CASE claim'[w] = claim[w]
    BY <1>1, <1>5, <2>1 DEF StatusesAdvance, ClaimedOnce
  <2>2. CASE claim'[w] # claim[w]
    BY <1>5, <2>2, RecoveryHolds
  <2>. QED  BY <2>1, <2>2
<1>6. ASSUME NEW r \in keys' PROVE runStatus'[r] \in {"SUCCEEDED", "DEAD"}
  BY <1>2, <1>6, KeyedRunsStay DEF KeysAreStoredOnce
<1>. QED  BY <1>4, <1>5, <1>6 DEF ClaimedOnce

(* Nothing exists at the start.                                            *)
LEMMA AttemptInit == Init => AttemptInv
<1>1. Init => TypeOK /\ Holding
  BY InitTyped
<1>2. Init => ClaimedOnce /\ RowsInOrder /\ OneLiveAttempt /\ ExclusiveExecution
  BY DEF Init, StoreInit, ExecutorInit, RecoveryInit, ClaimedOnce, RowsInOrder,
         OneLiveAttempt, ExclusiveExecution, Exists, Active
<1>. QED  BY <1>1, <1>2 DEF AttemptInv

(* The parts together are inductive.                                       *)
LEMMA AttemptInductive == AttemptInv /\ [Next]_vars => AttemptInv'
<1>1. ASSUME AttemptInv, Next PROVE AttemptInv'
  BY <1>1, TypeInductive, HoldingInductive, ClaimedInductive, OrderInductive, ExclusiveInductive
  DEF AttemptInv
<1>2. ASSUME AttemptInv, UNCHANGED vars PROVE AttemptInv'
  <2>1. (TypeOK /\ Holding)'
    BY <1>2, TypeInductive, HoldingInductive DEF AttemptInv
  <2>. QED
    BY <1>2, <2>1 DEF AttemptInv, vars, storeVars, executorVars, recoveryVars, ClaimedOnce,
       RowsInOrder, OneLiveAttempt, NoneAfter, ExclusiveExecution, Exists, Active
<1>. QED  BY <1>1, <1>2

(* The whole inductive invariant holds in every reachable state.           *)
LEMMA AttemptInvAlways == Spec => []AttemptInv
BY AttemptInit, AttemptInductive, PTL DEF Spec

(* OneLiveAttempt: whatever late executors and recovery workers insert, at *)
(* most one attempt of a job is PENDING or RUNNING, and it is the last.    *)
THEOREM AttemptsDoNotOverlap == Spec => []OneLiveAttempt
<1>1. AttemptInv => OneLiveAttempt
  BY DEF AttemptInv
<1>. QED  BY <1>1, AttemptInvAlways, PTL

(* ExclusiveExecution: SKIP LOCKED, the re-check in the claim and the fact *)
(* that no run becomes PENDING again give each run to one executor.        *)
THEOREM ExecutorsDoNotShare == Spec => []ExclusiveExecution
<1>1. AttemptInv => ExclusiveExecution
  BY DEF AttemptInv
<1>. QED  BY <1>1, AttemptInvAlways, PTL

(* PrecheckFindsNothing: the idempotency pre-check of an executor never    *)
(* meets a stored key, since the run it holds was not executed before.     *)
THEOREM PrecheckIsIdle == Spec => []PrecheckFindsNothing
<1>1. AttemptInv => PrecheckFindsNothing
  BY DEF AttemptInv, Holding, ClaimedOnce, PrecheckFindsNothing
<1>. QED  BY <1>1, AttemptInvAlways, PTL

-----------------------------------------------------------------------------
(* The ledger *)

(* An executor takes its run for paid only after bunq executed a payment   *)
(* under the run's key.                                                    *)
CreatedIsPaid ==
    \A e \in Executors : answer[e] = "created" => pc[e] = "settle" /\ cur[e] \in paid

LedgerInv == AttemptInv /\ CreatedIsPaid /\ LedgerSound

(* A step that records no payment calls nothing paid.                      *)
NothingRecorded ==
    /\ keys' = keys
    /\ \A r \in Run : runStatus'[r] = "SUCCEEDED" => runStatus[r] = "SUCCEEDED"
    /\ \A j \in Jobs : jobStatus'[j] = "DONE" => jobStatus[j] = "DONE"

(* A step that records one does it for a run whose answer is "created".    *)
PaymentRecorded ==
    \E e \in Executors :
        /\ answer[e] = "created" /\ cur[e] \in Run
        /\ keys' = keys \cup {cur[e]}
        /\ runStatus' = [runStatus EXCEPT ![cur[e]] = "SUCCEEDED"]
        /\ jobStatus' = [jobStatus EXCEPT ![cur[e][1]] = "DONE"]

(* Every step is of one of the two kinds.                                  *)
LEMMA RecordStep ==
    ASSUME TypeOK, Holding, Next
    PROVE  NothingRecorded \/ PaymentRecorded
<1>. USE DEF TypeOK, StoreTypeOK, NothingRecorded
<1>0. ASSUME UNCHANGED storeVars PROVE NothingRecorded
  BY <1>0 DEF storeVars
<1>1. ASSUME NEW e \in Executors, ExecutorStep(e) PROVE NothingRecorded \/ PaymentRecorded
  <2>1. CASE \/ FetchPendingRunIds(e)
             \/ \E r \in batch[e] : SkipRun(e, r)
             \/ LoadRun(e) \/ CheckDagDependencies(e) \/ FindIdempotencyKey(e) \/ CreatePayment(e)
    BY <1>0, <2>1 DEF FetchPendingRunIds, SkipRun, LoadRun, CheckDagDependencies,
                      FindIdempotencyKey, CreatePayment, Continue, storeVars
  <2>2. ASSUME NEW r \in batch[e], ClaimRun(e, r) PROVE NothingRecorded
    BY <2>2 DEF ClaimRun
  <2>3. CASE MarkDagCancelled(e)
    BY <2>3 DEF MarkDagCancelled
  <2>4. CASE PersistSuccess(e)
    <3>1. cur[e] \in Run /\ answer[e] = "created"
      BY <2>4, HeldIsRun DEF PersistSuccess
    <3>2. CASE cur[e] \in keys
      BY <1>0, <2>4, <3>2 DEF PersistSuccess
    <3>3. CASE cur[e] \notin keys
      BY <2>4, <3>1, <3>3 DEF PersistSuccess, PaymentRecorded
    <3>. QED  BY <3>2, <3>3
  <2>5. CASE ScheduleRetry(e)
    BY <2>5 DEF ScheduleRetry, InsertRun
  <2>6. CASE GiveUp(e)
    BY <2>6 DEF GiveUp, MoveToDlq
  <2>. QED  BY <1>1, <2>1, <2>2, <2>3, <2>4, <2>5, <2>6 DEF ExecutorStep
<1>2. ASSUME NEW e \in Executors, ExecutorFault(e) PROVE NothingRecorded
  BY <1>0, <1>2 DEF ExecutorFault, ExecutorCrash, TransactionFails
<1>3. ASSUME NEW w \in Recoverers, RecoveryStep(w) PROVE NothingRecorded
  <2>1. CASE \/ RecoverStuckRuns(w) \/ ReadOrphanedJobs(w)
             \/ \E j \in orphans[w] : KeepJob(w, j) \/ EvaluationRaises(w, j)
    BY <1>0, <2>1 DEF RecoverStuckRuns, ReadOrphanedJobs, KeepJob, EvaluationRaises, Abort
  <2>2. ASSUME NEW r \in candidates[w], ClaimStuckRun(w, r) PROVE NothingRecorded
    BY <1>0, <2>2 DEF ClaimStuckRun
  <2>3. CASE RequeueOrBury(w)
    BY <2>3 DEF RequeueOrBury, MoveToDlq, InsertRun
  <2>4. ASSUME NEW j \in orphans[w], CancelOrphan(w, j) PROVE NothingRecorded
    BY <2>4 DEF CancelOrphan
  <2>. QED  BY <1>3, <2>1, <2>2, <2>3, <2>4 DEF RecoveryStep
<1>4. ASSUME NEW w \in Recoverers, RecoveryFault(w) PROVE NothingRecorded
  BY <1>0, <1>4 DEF RecoveryFault, TickAborts, Abort
<1>5. CASE Environment
  BY <1>5 DEF Environment, InsertJob, CreateJob, InsertRun, BackoffElapses, LockExpires
<1>. QED  BY <1>1, <1>2, <1>3, <1>4, <1>5 DEF Next

(* The key in the database or bunq's answer is what makes an answer        *)
(* "created", and every other step of an executor clears or keeps it.      *)
LEMMA CreatedInductive ==
    ASSUME TypeOK, Holding, ClaimedOnce, CreatedIsPaid, Next
    PROVE  CreatedIsPaid' /\ paid \subseteq paid'
<1>. USE DEF TypeOK, ExecutorTypeOK, CreatedIsPaid
<1>1. ASSUME NEW e \in Executors, ExecutorStep(e) PROVE CreatedIsPaid' /\ paid \subseteq paid'
  <2>1. CASE FetchPendingRunIds(e)
    BY <2>1 DEF FetchPendingRunIds, GoTo
  <2>2. ASSUME NEW r \in batch[e], ClaimRun(e, r) \/ SkipRun(e, r)
        PROVE  CreatedIsPaid' /\ paid \subseteq paid'
    BY <2>2 DEF ClaimRun, SkipRun, TakeNext, GoTo
  <2>3. CASE LoadRun(e) \/ CheckDagDependencies(e)
    BY <2>3 DEF LoadRun, CheckDagDependencies, Continue, GoTo
  <2>4. CASE FindIdempotencyKey(e)
    <3>1. cur[e] \notin keys
      BY <2>4 DEF FindIdempotencyKey, Holding, ClaimedOnce
    <3>. QED  BY <2>4, <3>1 DEF FindIdempotencyKey, Continue, GoTo
  <2>5. CASE CreatePayment(e)
    <3>1. PICK b \in BunqBehaviour :
              /\ paid' = IF b[1] THEN paid \cup {cur[e]} ELSE paid
              /\ Continue(e, "settle", b[2])
      BY <2>5 DEF CreatePayment
    <3>2. b[2] = "created" => b[1]
      BY ExecutorAssumption DEF ExecutorAssumption
    <3>. QED  BY <3>1, <3>2 DEF Continue, GoTo
  <2>6. CASE MarkDagCancelled(e) \/ PersistSuccess(e) \/ ScheduleRetry(e) \/ GiveUp(e)
    BY <2>6 DEF MarkDagCancelled, PersistSuccess, ScheduleRetry, GiveUp, Finish, TakeNext, GoTo
  <2>. QED  BY <1>1, <2>1, <2>2, <2>3, <2>4, <2>5, <2>6 DEF ExecutorStep
<1>2. ASSUME NEW e \in Executors, ExecutorFault(e) PROVE CreatedIsPaid' /\ paid \subseteq paid'
  BY <1>2 DEF ExecutorFault, ExecutorCrash, TransactionFails, Finish, TakeNext, GoTo
<1>3. CASE UNCHANGED executorVars
  BY <1>3 DEF executorVars
<1>. QED
  BY <1>1, <1>2, <1>3 DEF Next, RecoveryStep, RecoveryFault, Environment

(* A recorded payment is one whose answer was "created", hence executed.   *)
LEMMA LedgerInductive == LedgerInv /\ [Next]_vars => LedgerInv'
<1>1. AttemptInv /\ [Next]_vars => AttemptInv'
  BY AttemptInductive
<1>2. ASSUME LedgerInv, Next PROVE LedgerInv'
  <2>. USE DEF LedgerInv, AttemptInv
  <2>1. CreatedIsPaid' /\ paid \subseteq paid'
    BY <1>2, CreatedInductive
  <2>2. AttemptInv'
    BY <1>1, <1>2
  <2>3. \A r \in keys' : runStatus'[r] \in {"SUCCEEDED", "DEAD"}
    BY <2>2 DEF ClaimedOnce
  <2>4. CASE NothingRecorded
    BY <1>2, <2>1, <2>2, <2>3, <2>4 DEF NothingRecorded, LedgerSound, Recorded
  <2>5. CASE PaymentRecorded
    <3>1. PICK e \in Executors :
              /\ answer[e] = "created" /\ cur[e] \in Run
              /\ keys' = keys \cup {cur[e]}
              /\ runStatus' = [runStatus EXCEPT ![cur[e]] = "SUCCEEDED"]
              /\ jobStatus' = [jobStatus EXCEPT ![cur[e][1]] = "DONE"]
      BY <2>5 DEF PaymentRecorded
    <3>2. keys' \subseteq paid'
      BY <1>2, <2>1, <3>1 DEF CreatedIsPaid, LedgerSound
    <3>3. \A r \in Run : runStatus'[r] = "SUCCEEDED" => r \in keys'
      BY <1>2, <3>1 DEF TypeOK, StoreTypeOK, LedgerSound
    <3>4. \A j \in Jobs : jobStatus'[j] = "DONE" => Recorded(j)'
      BY <1>2, <3>1 DEF TypeOK, StoreTypeOK, LedgerSound, Recorded
    <3>. QED  BY <2>1, <2>2, <2>3, <3>2, <3>3, <3>4 DEF LedgerSound
  <2>. QED  BY <1>2, <2>2, <2>1, <2>4, <2>5, RecordStep
<1>3. ASSUME LedgerInv, UNCHANGED vars PROVE LedgerInv'
  BY <1>1, <1>3 DEF LedgerInv, CreatedIsPaid, LedgerSound, Recorded, vars, storeVars, executorVars
<1>. QED  BY <1>2, <1>3

(* LedgerSound: whatever fails or runs late, a stored key, a SUCCEEDED run *)
(* and a DONE job each stand for a payment bunq executed.                  *)
THEOREM LedgerIsSound == Spec => []LedgerSound
<1>1. Init => AttemptInv
  BY AttemptInit
<1>2. Init => LedgerInv
  BY <1>1 DEF LedgerInv, Init, StoreInit, ExecutorInit, CreatedIsPaid, LedgerSound
<1>3. LedgerInv => LedgerSound
  BY DEF LedgerInv
<1>. QED  BY <1>2, <1>3, LedgerInductive, PTL DEF Spec

-----------------------------------------------------------------------------
(* Locks *)

(* Every transaction that takes a run in or out of RUNNING writes its lock *)
(* in the same commit, and only locks of RUNNING runs expire.              *)
LEMMA LockInductive ==
    ASSUME TypeOK, Holding, RunningIsLocked, Next
    PROVE  RunningIsLocked'
<1>. USE DEF TypeOK, StoreTypeOK, RunningIsLocked
<1>0. ASSUME UNCHANGED storeVars PROVE RunningIsLocked'
  BY <1>0 DEF storeVars
<1>1. ASSUME NEW e \in Executors, ExecutorStep(e) PROVE RunningIsLocked'
  <2>1. CASE \/ FetchPendingRunIds(e)
             \/ \E r \in batch[e] : SkipRun(e, r)
             \/ LoadRun(e) \/ CheckDagDependencies(e) \/ FindIdempotencyKey(e) \/ CreatePayment(e)
    BY <1>0, <2>1 DEF FetchPendingRunIds, SkipRun, LoadRun, CheckDagDependencies,
                      FindIdempotencyKey, CreatePayment, Continue, storeVars
  <2>2. ASSUME NEW r \in batch[e], ClaimRun(e, r) PROVE RunningIsLocked'
    BY <2>2 DEF ClaimRun
  <2>3. CASE MarkDagCancelled(e)
    BY <2>3 DEF MarkDagCancelled
  <2>4. CASE PersistSuccess(e)
    <3>1. CASE cur[e] \in keys
      BY <1>0, <2>4, <3>1 DEF PersistSuccess
    <3>2. CASE cur[e] \notin keys
      BY <2>4, <3>2 DEF PersistSuccess
    <3>. QED  BY <3>1, <3>2
  <2>5. CASE ScheduleRetry(e)
    <3>1. cur[e] \in Run
      BY <2>5, HeldIsRun DEF ScheduleRetry
    <3>2. NextAttempt(cur[e]) \in Run /\ NextAttempt(cur[e]) # cur[e]
      BY <2>5, <3>1, NextAttemptIsRun DEF ScheduleRetry
    <3>. QED  BY <2>5, <3>1, <3>2 DEF ScheduleRetry, InsertRun
  <2>6. CASE GiveUp(e)
    BY <2>6 DEF GiveUp, MoveToDlq
  <2>. QED  BY <1>1, <2>1, <2>2, <2>3, <2>4, <2>5, <2>6 DEF ExecutorStep
<1>2. ASSUME NEW e \in Executors, ExecutorFault(e) PROVE RunningIsLocked'
  BY <1>0, <1>2 DEF ExecutorFault, ExecutorCrash, TransactionFails
<1>3. ASSUME NEW w \in Recoverers, RecoveryStep(w) PROVE RunningIsLocked'
  <2>1. CASE \/ RecoverStuckRuns(w) \/ ReadOrphanedJobs(w)
             \/ \E j \in orphans[w] : KeepJob(w, j) \/ EvaluationRaises(w, j)
    BY <1>0, <2>1 DEF RecoverStuckRuns, ReadOrphanedJobs, KeepJob, EvaluationRaises, Abort
  <2>2. ASSUME NEW r \in candidates[w], ClaimStuckRun(w, r) PROVE RunningIsLocked'
    BY <1>0, <2>2 DEF ClaimStuckRun
  <2>3. CASE RequeueOrBury(w)
    <3>1. CASE IsExhausted(claim[w][2])
      BY <2>3, <3>1 DEF RequeueOrBury, MoveToDlq
    <3>2. CASE ~IsExhausted(claim[w][2])
      BY <2>3, <3>2 DEF RequeueOrBury, InsertRun
    <3>. QED  BY <3>1, <3>2
  <2>4. ASSUME NEW j \in orphans[w], CancelOrphan(w, j) PROVE RunningIsLocked'
    BY <2>4 DEF CancelOrphan
  <2>. QED  BY <1>3, <2>1, <2>2, <2>3, <2>4 DEF RecoveryStep
<1>4. ASSUME NEW w \in Recoverers, RecoveryFault(w) PROVE RunningIsLocked'
  BY <1>0, <1>4 DEF RecoveryFault, TickAborts, Abort
<1>5. CASE Environment
  BY <1>5 DEF Environment, InsertJob, CreateJob, InsertRun, BackoffElapses, LockExpires
<1>. QED  BY <1>1, <1>2, <1>3, <1>4, <1>5 DEF Next

(* RunningIsLocked: recovery finds every run an executor left RUNNING, for *)
(* it has a lock that expires, and finds no other.                         *)
THEOREM StuckRunsAreVisible == Spec => []RunningIsLocked
<1>1. Init => TypeOK /\ Holding /\ RunningIsLocked
  BY InitTyped DEF Init, StoreInit, RunningIsLocked
<1>2. TypeOK /\ Holding /\ RunningIsLocked /\ [Next]_vars => RunningIsLocked'
  BY LockInductive DEF vars, storeVars, RunningIsLocked
<1>. QED  BY <1>1, <1>2, TypedAlways, PTL DEF Spec

-----------------------------------------------------------------------------
(* Backoffs *)

(* What was fetched, or taken over by recovery, has a row, and that row is *)
(* not one that an insert may still give a backoff.                        *)
FetchedIsDue ==
    /\ \A e \in Executors : \A r \in batch[e] : Exists(r)
    /\ \A w \in Recoverers : claim[w] # NoRun => retryAfter[claim[w]] # "waiting"

BackoffInv == FetchedIsDue /\ BackoffRespected

(* A row gets its backoff when it is inserted, and is fetched only later.  *)
LEMMA BackoffInductive ==
    ASSUME AttemptInv, BackoffInv, Next
    PROVE  BackoffInv'
<1>. USE DEF AttemptInv, TypeOK, StoreTypeOK, ExecutorTypeOK, RecoveryTypeOK
<1>. USE DEF BackoffInv, FetchedIsDue, BackoffRespected, Exists
<1>1. ASSUME NEW e \in Executors, ExecutorStep(e) PROVE BackoffInv'
  <2>. UNCHANGED <<rpc, candidates, claim, orphans>>
    BY <1>1 DEF ExecutorStep, recoveryVars
  <2>1. CASE FetchPendingRunIds(e)
    BY <2>1 DEF FetchPendingRunIds, Claimable, storeVars
  <2>2. ASSUME NEW r \in batch[e], ClaimRun(e, r) PROVE BackoffInv'
    BY <2>2 DEF ClaimRun
  <2>3. ASSUME NEW r \in batch[e], SkipRun(e, r) PROVE BackoffInv'
    BY <2>3, NoRunIsNoRun DEF SkipRun, TakeNext, storeVars
  <2>4. CASE LoadRun(e) \/ CheckDagDependencies(e) \/ FindIdempotencyKey(e) \/ CreatePayment(e)
    BY <2>4 DEF LoadRun, CheckDagDependencies, FindIdempotencyKey, CreatePayment, Continue, storeVars
  <2>5. CASE MarkDagCancelled(e)
    BY <2>5, HeldIsRun, NoRunIsNoRun DEF MarkDagCancelled, Finish, TakeNext
  <2>6. CASE PersistSuccess(e)
    <3>1. cur[e] \in Run
      BY <2>6, HeldIsRun DEF PersistSuccess
    <3>2. CASE cur[e] \in keys
      BY <2>6, <3>1, <3>2, NoRunIsNoRun DEF PersistSuccess, Finish, TakeNext, storeVars
    <3>3. CASE cur[e] \notin keys
      BY <2>6, <3>1, <3>3, NoRunIsNoRun DEF PersistSuccess, Finish, TakeNext
    <3>. QED  BY <3>2, <3>3
  <2>7. CASE ScheduleRetry(e)
    <3>1. /\ cur[e] \in Run /\ NextAttempt(cur[e]) \in Run
          /\ NextAttempt(cur[e]) # cur[e]
      BY <2>7, HeldIsRun, NextAttemptIsRun DEF ScheduleRetry
    <3>2. \A f \in Executors : cur[f] # NoRun => runStatus[cur[f]] # "NONE"
      BY DEF ClaimedOnce
    <3>3. \A w \in Recoverers : claim[w] # NoRun => runStatus[claim[w]] # "NONE"
      BY DEF ClaimedOnce
    <3>4. CASE runStatus[NextAttempt(cur[e])] = "NONE"
      BY <2>7, <3>1, <3>2, <3>3, <3>4, NoRunIsNoRun DEF ScheduleRetry, InsertRun, Finish, TakeNext
    <3>5. CASE runStatus[NextAttempt(cur[e])] # "NONE"
      BY <2>7, <3>1, <3>5, NoRunIsNoRun DEF ScheduleRetry, InsertRun, Finish, TakeNext
    <3>. QED  BY <3>4, <3>5
  <2>8. CASE GiveUp(e)
    BY <2>8, HeldIsRun, NoRunIsNoRun DEF GiveUp, MoveToDlq, Finish, TakeNext
  <2>. QED
    BY <1>1, <2>1, <2>2, <2>3, <2>4, <2>5, <2>6, <2>7, <2>8 DEF ExecutorStep
<1>2. ASSUME NEW e \in Executors, ExecutorFault(e) PROVE BackoffInv'
  <2>1. UNCHANGED <<storeVars, recoveryVars>>
    BY <1>2 DEF ExecutorFault, ExecutorCrash, TransactionFails
  <2>2. CASE ExecutorCrash(e)
    BY <2>1, <2>2, NoRunIsNoRun DEF ExecutorCrash, TakeNext, storeVars, recoveryVars
  <2>3. CASE TransactionFails(e)
    BY <2>1, <2>3, NoRunIsNoRun DEF TransactionFails, Finish, TakeNext, storeVars, recoveryVars
  <2>. QED  BY <1>2, <2>2, <2>3 DEF ExecutorFault
<1>3. ASSUME NEW w \in Recoverers, RecoveryStep(w) PROVE BackoffInv'
  <2>. UNCHANGED <<pc, batch, cur, answer, paid>>
    BY <1>3 DEF RecoveryStep, executorVars
  <2>1. CASE RecoverStuckRuns(w)
    BY <2>1 DEF RecoverStuckRuns, Reap, storeVars
  <2>2. ASSUME NEW r \in candidates[w], ClaimStuckRun(w, r) PROVE BackoffInv'
    <3>1. r \in Run
      OBVIOUS
    <3>2. CASE Stuck(r)
      <4>1. /\ runStatus' = [runStatus EXCEPT ![r] = "FAILED"]
            /\ claim' = [claim EXCEPT ![w] = r]
            /\ UNCHANGED retryAfter
        BY <2>2, <3>2 DEF ClaimStuckRun, Reap
      <4>2. retryAfter[r] # "waiting"
        BY <3>1, <3>2 DEF Stuck
      <4>3. FetchedIsDue'
        BY <3>1, <4>1, <4>2
      <4>4. BackoffRespected'
        BY <3>1, <4>1, <4>2
      <4>. QED  BY <4>3, <4>4
    <3>3. CASE ~Stuck(r)
      BY <2>2, <3>3 DEF ClaimStuckRun, Reap, storeVars
    <3>. QED  BY <3>2, <3>3
  <2>3. CASE RequeueOrBury(w)
    <3>0. claim' = [claim EXCEPT ![w] = NoRun]
      BY <2>3 DEF RequeueOrBury, Reap
    <3>1. claim[w] \in Run
      BY <2>3, HeldIsRun DEF RequeueOrBury
    <3>2. CASE IsExhausted(claim[w][2])
      <4>1. UNCHANGED retryAfter /\ runStatus' = [runStatus EXCEPT ![claim[w]] = "DEAD"]
        BY <2>3, <3>2 DEF RequeueOrBury, MoveToDlq
      <4>2. retryAfter[claim[w]] # "waiting"
        BY <3>1, NoRunIsNoRun
      <4>3. FetchedIsDue'
        BY <3>0, <3>1, <4>1
      <4>4. BackoffRespected'
        BY <3>1, <4>1, <4>2
      <4>. QED  BY <4>3, <4>4
    <3>3. CASE ~IsExhausted(claim[w][2])
      <4>1. InsertRun(runStatus, NextAttempt(claim[w]), "null") /\ NextAttempt(claim[w]) \in Run
        BY <2>3, <3>1, <3>3, NextAttemptIsRun DEF RequeueOrBury
      <4>2. FetchedIsDue'
        BY <3>0, <3>1, <4>1 DEF InsertRun
      <4>3. BackoffRespected'
        BY <4>1 DEF InsertRun
      <4>. QED  BY <4>2, <4>3
    <3>. QED  BY <3>2, <3>3
  <2>4. CASE ReadOrphanedJobs(w)
    BY <2>4 DEF ReadOrphanedJobs, storeVars
  <2>5. ASSUME NEW j \in orphans[w], CancelOrphan(w, j) PROVE BackoffInv'
    BY <2>5 DEF CancelOrphan, Evaluated
  <2>6. ASSUME NEW j \in orphans[w], KeepJob(w, j) \/ EvaluationRaises(w, j) PROVE BackoffInv'
    BY <2>6 DEF KeepJob, EvaluationRaises, Evaluated, Abort, storeVars
  <2>. QED  BY <1>3, <2>1, <2>2, <2>3, <2>4, <2>5, <2>6 DEF RecoveryStep
<1>4. ASSUME NEW w \in Recoverers, RecoveryFault(w) PROVE BackoffInv'
  BY <1>4 DEF RecoveryFault, TickAborts, Abort, storeVars, executorVars
<1>5. CASE Environment
  BY <1>5, FirstIsRun DEF Environment, InsertJob, CreateJob, InsertRun, BackoffElapses, LockExpires,
                          executorVars, recoveryVars
<1>. QED  BY <1>1, <1>2, <1>3, <1>4, <1>5 DEF Next

(* BackoffRespected: no attempt is in an executor's hands while its        *)
(* retry_after lies ahead, although a claim does not read retry_after.     *)
THEOREM BackoffsAreRespected == Spec => []BackoffRespected
<1>1. Init => BackoffInv
  BY DEF Init, StoreInit, ExecutorInit, RecoveryInit, BackoffInv, FetchedIsDue, BackoffRespected
<1>2. AttemptInv /\ BackoffInv /\ [Next]_vars => BackoffInv'
  BY BackoffInductive
  DEF vars, storeVars, executorVars, recoveryVars, BackoffInv, FetchedIsDue, BackoffRespected, Exists
<1>3. BackoffInv => BackoffRespected
  BY DEF BackoffInv
<1>. QED  BY <1>1, <1>2, <1>3, AttemptInvAlways, PTL DEF Spec

-----------------------------------------------------------------------------
(* No job is dropped *)

(* A dead run that an executor still holds was buried by recovery, which   *)
(* buries only exhausted runs: the executor will not schedule a retry.     *)
HeldDeadIsExhausted ==
    \A e \in Executors : cur[e] # NoRun /\ runStatus[cur[e]] = "DEAD" => IsExhausted(cur[e][2])

(* Somebody will go on with the run: an executor, or recovery.             *)
InHand(r) == Active(r) \/ \E w \in Recoverers : claim[w] = r

(* The last attempt of a job that is not over is in hand.                  *)
CarriedOn ==
    \A j \in Jobs : jobStatus[j] = "READY" =>
        \/ DeadLettered(j)
        \/ \E r \in Run : r[1] = j /\ Exists(r) /\ NoneAfter(r) /\ InHand(r)

(* A row appears PENDING.                                                  *)
LEMMA NewRowIsPending ==
    ASSUME TypeOK, Holding, ClaimedOnce, Next, NEW q \in Run, ~Exists(q), Exists(q)'
    PROVE  Active(q)'
<1>. USE DEF TypeOK, StoreTypeOK, Exists, Active
<1>0. ~UNCHANGED storeVars
  BY DEF storeVars
<1>1. ASSUME NEW e \in Executors, ExecutorStep(e) PROVE Active(q)'
  <2>1. ~ \/ FetchPendingRunIds(e)
          \/ \E r \in batch[e] : SkipRun(e, r)
          \/ LoadRun(e) \/ CheckDagDependencies(e) \/ FindIdempotencyKey(e) \/ CreatePayment(e)
    BY <1>0 DEF FetchPendingRunIds, SkipRun, LoadRun, CheckDagDependencies,
                FindIdempotencyKey, CreatePayment, Continue
  <2>2. ASSUME NEW r \in batch[e], ClaimRun(e, r) PROVE Active(q)'
    BY <2>2 DEF ClaimRun
  <2>3. ASSUME pc[e] \notin {"idle", "batch"} PROVE cur[e] \in Run /\ cur[e] # q
    BY <2>3, HeldIsRun DEF Holding, ClaimedOnce
  <2>4. CASE MarkDagCancelled(e)
    BY <2>3, <2>4 DEF MarkDagCancelled
  <2>5. CASE PersistSuccess(e)
    BY <1>0, <2>3, <2>5 DEF PersistSuccess
  <2>6. CASE ScheduleRetry(e)
    BY <2>3, <2>6 DEF ScheduleRetry, InsertRun
  <2>7. CASE GiveUp(e)
    BY <2>3, <2>7 DEF GiveUp, MoveToDlq
  <2>. QED  BY <1>1, <2>1, <2>2, <2>4, <2>5, <2>6, <2>7 DEF ExecutorStep
<1>2. ASSUME NEW e \in Executors, ExecutorFault(e) PROVE FALSE
  BY <1>0, <1>2 DEF ExecutorFault, ExecutorCrash, TransactionFails
<1>3. ASSUME NEW w \in Recoverers, RecoveryStep(w) PROVE Active(q)'
  <2>1. ~ \/ RecoverStuckRuns(w) \/ ReadOrphanedJobs(w)
          \/ \E j \in orphans[w] : KeepJob(w, j) \/ EvaluationRaises(w, j)
    BY <1>0 DEF RecoverStuckRuns, ReadOrphanedJobs, KeepJob, EvaluationRaises, Abort
  <2>2. ASSUME NEW r \in candidates[w], ClaimStuckRun(w, r) PROVE Active(q)'
    BY <1>0, <2>2 DEF ClaimStuckRun, Stuck
  <2>3. CASE RequeueOrBury(w)
    <3>1. claim[w] \in Run /\ claim[w] # q
      BY <2>3, HeldIsRun DEF RequeueOrBury, Holding, ClaimedOnce
    <3>. QED  BY <2>3, <3>1 DEF RequeueOrBury, MoveToDlq, InsertRun
  <2>4. ASSUME NEW j \in orphans[w], CancelOrphan(w, j) PROVE Active(q)'
    BY <2>4 DEF CancelOrphan
  <2>. QED  BY <1>3, <2>1, <2>2, <2>3, <2>4 DEF RecoveryStep
<1>4. ASSUME NEW w \in Recoverers, RecoveryFault(w) PROVE FALSE
  BY <1>0, <1>4 DEF RecoveryFault, TickAborts, Abort
<1>5. CASE Environment
  BY <1>5 DEF Environment, InsertJob, CreateJob, InsertRun, BackoffElapses, LockExpires
<1>. QED  BY <1>1, <1>2, <1>3, <1>4, <1>5 DEF Next

(* Unless a tick of recovery aborts, a last attempt that leaves the hands  *)
(* of its worker ends its job, goes to the dead letter queue or is         *)
(* followed by the next attempt in the same commit.                        *)
LEMMA HandedOn ==
    ASSUME AttemptInv, Next, "abort" \notin Faults,
           NEW r \in Run, Exists(r), NoneAfter(r), InHand(r), jobStatus'[r[1]] = "READY"
    PROVE  \/ InHand(r)' \/ runStatus'[r] = "DEAD"
           \/ ~IsExhausted(r[2]) /\ Exists(NextAttempt(r))'
<1>. DEFINE Goal == \/ InHand(r)' \/ runStatus'[r] = "DEAD"
                    \/ ~IsExhausted(r[2]) /\ Exists(NextAttempt(r))'
<1>. USE DEF AttemptInv, TypeOK, StoreTypeOK, RecoveryTypeOK, InHand, Active, Exists
<1>. r # NoRun /\ r[1] \in Jobs
  BY NoRunIsNoRun, RunParts
<1>0. ASSUME runStatus'[r] = runStatus[r], UNCHANGED claim PROVE Goal
  BY <1>0
<1>1. ASSUME NEW e \in Executors, ExecutorStep(e) PROVE Goal
  <2>. UNCHANGED claim
    BY <1>1 DEF ExecutorStep, recoveryVars
  <2>1. CASE \/ FetchPendingRunIds(e)
             \/ \E q \in batch[e] : SkipRun(e, q)
             \/ LoadRun(e) \/ CheckDagDependencies(e) \/ FindIdempotencyKey(e) \/ CreatePayment(e)
    BY <1>0, <2>1 DEF FetchPendingRunIds, SkipRun, LoadRun, CheckDagDependencies,
                      FindIdempotencyKey, CreatePayment, Continue, storeVars
  <2>2. ASSUME NEW q \in batch[e], ClaimRun(e, q) PROVE Goal
    BY <2>2 DEF ClaimRun
  <2>3. ASSUME pc[e] \notin {"idle", "batch"} PROVE cur[e] \in Run /\ cur[e][1] \in Jobs
    BY <2>3, HeldIsRun, RunParts
  <2>4. CASE MarkDagCancelled(e)
    BY <1>0, <2>3, <2>4 DEF MarkDagCancelled
  <2>5. CASE PersistSuccess(e)
    BY <1>0, <2>3, <2>5 DEF PersistSuccess, storeVars
  <2>6. CASE ScheduleRetry(e)
    <3>1. CASE r = cur[e]
      <4>1. ~IsExhausted(r[2]) /\ NextAttempt(r) \in Run /\ NextAttempt(r) # r
        BY <2>6, <3>1, NextAttemptIsRun DEF ScheduleRetry
      <4>2. Exists(NextAttempt(r))'
        BY <2>6, <3>1, <4>1 DEF ScheduleRetry, InsertRun
      <4>. QED  BY <4>1, <4>2
    <3>2. CASE r # cur[e]
      BY <1>0, <2>3, <2>6, <3>2 DEF ScheduleRetry, InsertRun
    <3>. QED  BY <3>1, <3>2
  <2>7. CASE GiveUp(e)
    BY <1>0, <2>3, <2>7 DEF GiveUp, MoveToDlq
  <2>. QED  BY <1>1, <2>1, <2>2, <2>4, <2>5, <2>6, <2>7 DEF ExecutorStep
<1>2. ASSUME NEW e \in Executors, ExecutorFault(e) PROVE Goal
  BY <1>0, <1>2 DEF ExecutorFault, ExecutorCrash, TransactionFails, storeVars, recoveryVars
<1>3. ASSUME NEW w \in Recoverers, RecoveryStep(w) PROVE Goal
  <2>0. ASSUME claim[w] = NoRun, runStatus'[r] = runStatus[r],
               \A v \in Recoverers \ {w} : claim'[v] = claim[v]
        PROVE  Goal
    BY <2>0
  <2>1. CASE RecoverStuckRuns(w)
    BY <2>0, <2>1 DEF RecoverStuckRuns, Reap, storeVars, Holding
  <2>2. ASSUME NEW q \in candidates[w], ClaimStuckRun(w, q) PROVE Goal
    <3>1. claim[w] = NoRun
      BY <2>2 DEF ClaimStuckRun, Holding
    <3>2. CASE Stuck(q)
      BY <2>0, <2>2, <3>1, <3>2 DEF ClaimStuckRun
    <3>3. CASE ~Stuck(q)
      BY <2>0, <2>2, <3>1, <3>3 DEF ClaimStuckRun, Reap, storeVars
    <3>. QED  BY <3>2, <3>3
  <2>3. CASE RequeueOrBury(w)
    <3>1. claim[w] \in Run /\ runStatus[claim[w]] \notin {"NONE", "PENDING", "RUNNING"}
      BY <2>3, HeldIsRun, NoRunIsNoRun DEF RequeueOrBury, ClaimedOnce
    <3>2. CASE r = claim[w]
      <4>1. CASE IsExhausted(r[2])
        BY <2>3, <3>2, <4>1 DEF RequeueOrBury, MoveToDlq
      <4>2. CASE ~IsExhausted(r[2])
        <5>1. NextAttempt(r) \in Run
          BY <4>2, NextAttemptIsRun
        <5>. QED  BY <2>3, <3>2, <4>2, <5>1 DEF RequeueOrBury, InsertRun
      <4>. QED  BY <4>1, <4>2
    <3>3. CASE r # claim[w]
      <4>1. runStatus'[r] = runStatus[r]
        BY <2>3, <3>1, <3>3 DEF RequeueOrBury, MoveToDlq, InsertRun
      <4>2. \A v \in Recoverers \ {w} : claim'[v] = claim[v]
        BY <2>3 DEF RequeueOrBury, Reap
      <4>. QED  BY <3>3, <4>1, <4>2
    <3>. QED  BY <3>2, <3>3
  <2>4. CASE ReadOrphanedJobs(w)
    BY <1>0, <2>4 DEF ReadOrphanedJobs, storeVars
  <2>5. ASSUME NEW j \in orphans[w], CancelOrphan(w, j) PROVE Goal
    BY <1>0, <2>5 DEF CancelOrphan, Evaluated
  <2>6. ASSUME NEW j \in orphans[w], KeepJob(w, j) PROVE Goal
    BY <1>0, <2>6 DEF KeepJob, Evaluated, storeVars
  <2>7. ASSUME NEW j \in orphans[w], EvaluationRaises(w, j) PROVE Goal
    BY <2>0, <2>7 DEF EvaluationRaises, Abort, storeVars, Holding
  <2>. QED  BY <1>3, <2>1, <2>2, <2>3, <2>4, <2>5, <2>6, <2>7 DEF RecoveryStep
<1>4. ASSUME NEW w \in Recoverers, RecoveryFault(w) PROVE Goal
  BY <1>4 DEF RecoveryFault
<1>5. CASE Environment
  BY <1>0, <1>5 DEF Environment, InsertJob, CreateJob, InsertRun, BackoffElapses, LockExpires, recoveryVars
<1>. QED  BY <1>1, <1>2, <1>3, <1>4, <1>5 DEF Next

(* A dead run of a job that goes on stays dead: who still holds it gives   *)
(* up, or ends the job.                                                    *)
LEMMA DeadStays ==
    ASSUME AttemptInv, HeldDeadIsExhausted, Next,
           NEW r \in Run, runStatus[r] = "DEAD", jobStatus'[r[1]] = "READY"
    PROVE  runStatus'[r] = "DEAD"
<1>. USE DEF AttemptInv, TypeOK, StoreTypeOK
<1>. r # NoRun /\ r[1] \in Jobs
  BY NoRunIsNoRun, RunParts
<1>1. ASSUME NEW e \in Executors, ExecutorStep(e) PROVE runStatus'[r] = "DEAD"
  <2>1. CASE \/ FetchPendingRunIds(e)
             \/ \E q \in batch[e] : SkipRun(e, q)
             \/ LoadRun(e) \/ CheckDagDependencies(e) \/ FindIdempotencyKey(e) \/ CreatePayment(e)
    BY <2>1 DEF FetchPendingRunIds, SkipRun, LoadRun, CheckDagDependencies,
                FindIdempotencyKey, CreatePayment, Continue, storeVars
  <2>2. ASSUME NEW q \in batch[e], ClaimRun(e, q) PROVE runStatus'[r] = "DEAD"
    BY <2>2 DEF ClaimRun
  <2>3. CASE MarkDagCancelled(e)
    BY <2>3, RunParts, HeldIsRun DEF MarkDagCancelled
  <2>4. CASE PersistSuccess(e)
    BY <2>4, RunParts, HeldIsRun DEF PersistSuccess, storeVars
  <2>5. CASE ScheduleRetry(e)
    <3>1. cur[e] # r
      BY <2>5 DEF ScheduleRetry, HeldDeadIsExhausted
    <3>. QED  BY <2>5, <3>1 DEF ScheduleRetry, InsertRun
  <2>6. CASE GiveUp(e)
    BY <2>6 DEF GiveUp, MoveToDlq
  <2>. QED  BY <1>1, <2>1, <2>2, <2>3, <2>4, <2>5, <2>6 DEF ExecutorStep
<1>2. ASSUME NEW e \in Executors, ExecutorFault(e) PROVE runStatus'[r] = "DEAD"
  BY <1>2 DEF ExecutorFault, ExecutorCrash, TransactionFails, storeVars
<1>3. ASSUME NEW w \in Recoverers, RecoveryStep(w) PROVE runStatus'[r] = "DEAD"
  <2>1. CASE \/ RecoverStuckRuns(w) \/ ReadOrphanedJobs(w)
             \/ \E j \in orphans[w] : KeepJob(w, j) \/ EvaluationRaises(w, j)
    BY <2>1 DEF RecoverStuckRuns, ReadOrphanedJobs, KeepJob, EvaluationRaises, Abort, storeVars
  <2>2. ASSUME NEW q \in candidates[w], ClaimStuckRun(w, q) PROVE runStatus'[r] = "DEAD"
    BY <2>2 DEF ClaimStuckRun, Stuck, storeVars
  <2>3. CASE RequeueOrBury(w)
    BY <2>3 DEF RequeueOrBury, MoveToDlq, InsertRun
  <2>4. ASSUME NEW j \in orphans[w], CancelOrphan(w, j) PROVE runStatus'[r] = "DEAD"
    BY <2>4 DEF CancelOrphan
  <2>. QED  BY <1>3, <2>1, <2>2, <2>3, <2>4 DEF RecoveryStep
<1>4. ASSUME NEW w \in Recoverers, RecoveryFault(w) PROVE runStatus'[r] = "DEAD"
  BY <1>4 DEF RecoveryFault, TickAborts, Abort, storeVars
<1>5. CASE Environment
  BY <1>5 DEF Environment, InsertJob, CreateJob, InsertRun, BackoffElapses, LockExpires
<1>. QED  BY <1>1, <1>2, <1>3, <1>4, <1>5 DEF Next

(* A run dies by an executor that lets go of it, or by recovery when it is *)
(* exhausted.                                                              *)
LEMMA DeathIsFinalOrExhausted ==
    ASSUME AttemptInv, Next, NEW r \in Run, runStatus[r] # "DEAD", runStatus'[r] = "DEAD"
    PROVE  \/ IsExhausted(r[2])
           \/ \A f \in Executors : cur'[f] # r
<1>. USE DEF AttemptInv, TypeOK, StoreTypeOK, ExecutorTypeOK
<1>. r # NoRun
  BY NoRunIsNoRun
<1>1. ASSUME NEW e \in Executors, ExecutorStep(e) PROVE \A f \in Executors : cur'[f] # r
  <2>1. ~ \/ FetchPendingRunIds(e)
          \/ \E q \in batch[e] : SkipRun(e, q) \/ ClaimRun(e, q)
          \/ LoadRun(e) \/ CheckDagDependencies(e) \/ FindIdempotencyKey(e) \/ CreatePayment(e)
          \/ MarkDagCancelled(e) \/ PersistSuccess(e) \/ ScheduleRetry(e)
    <3>1. ~ \/ FetchPendingRunIds(e) \/ LoadRun(e) \/ CheckDagDependencies(e)
            \/ FindIdempotencyKey(e) \/ CreatePayment(e)
      BY DEF FetchPendingRunIds, LoadRun, CheckDagDependencies, FindIdempotencyKey,
             CreatePayment, Continue, storeVars
    <3>2. ASSUME NEW q \in batch[e], SkipRun(e, q) \/ ClaimRun(e, q) PROVE FALSE
      BY <3>2 DEF SkipRun, ClaimRun, storeVars
    <3>3. ~MarkDagCancelled(e)
      BY DEF MarkDagCancelled
    <3>4. ~PersistSuccess(e)
      BY DEF PersistSuccess, storeVars
    <3>5. ~ScheduleRetry(e)
      BY DEF ScheduleRetry, InsertRun
    <3>. QED  BY <3>1, <3>2, <3>3, <3>4, <3>5
  <2>2. GiveUp(e)
    BY <1>1, <2>1 DEF ExecutorStep
  <2>3. cur[e] = r
    BY <2>2 DEF GiveUp, MoveToDlq
  <2>. QED  BY <2>2, <2>3 DEF GiveUp, Finish, TakeNext, ExclusiveExecution
<1>2. ASSUME NEW e \in Executors, ExecutorFault(e) PROVE FALSE
  BY <1>2 DEF ExecutorFault, ExecutorCrash, TransactionFails, storeVars
<1>3. ASSUME NEW w \in Recoverers, RecoveryStep(w) PROVE IsExhausted(r[2])
  <2>1. ~ \/ RecoverStuckRuns(w) \/ ReadOrphanedJobs(w)
          \/ \E q \in candidates[w] : ClaimStuckRun(w, q)
          \/ \E j \in orphans[w] : CancelOrphan(w, j) \/ KeepJob(w, j) \/ EvaluationRaises(w, j)
    <3>1. ~ \/ RecoverStuckRuns(w) \/ ReadOrphanedJobs(w)
      BY DEF RecoverStuckRuns, ReadOrphanedJobs, storeVars
    <3>2. ASSUME NEW q \in candidates[w], ClaimStuckRun(w, q) PROVE FALSE
      BY <3>2 DEF ClaimStuckRun, storeVars, RecoveryTypeOK
    <3>3. ASSUME NEW j \in orphans[w], CancelOrphan(w, j) PROVE FALSE
      BY <3>3 DEF CancelOrphan
    <3>4. ASSUME NEW j \in orphans[w], KeepJob(w, j) \/ EvaluationRaises(w, j) PROVE FALSE
      BY <3>4 DEF KeepJob, EvaluationRaises, Abort, storeVars
    <3>. QED  BY <3>1, <3>2, <3>3, <3>4
  <2>2. RequeueOrBury(w)
    BY <1>3, <2>1 DEF RecoveryStep
  <2>. QED  BY <2>2 DEF RequeueOrBury, MoveToDlq, InsertRun
<1>4. ASSUME NEW w \in Recoverers, RecoveryFault(w) PROVE FALSE
  BY <1>4 DEF RecoveryFault, TickAborts, Abort, storeVars
<1>5. ASSUME Environment PROVE FALSE
  BY <1>5 DEF Environment, InsertJob, CreateJob, InsertRun, BackoffElapses, LockExpires
<1>. QED  BY <1>1, <1>2, <1>3, <1>4, <1>5 DEF Next

(* Hence no executor retries what recovery buried.                         *)
LEMMA HeldDeadInductive ==
    ASSUME AttemptInv, HeldDeadIsExhausted, Next
    PROVE  HeldDeadIsExhausted'
<1>. SUFFICES ASSUME NEW e \in Executors, cur'[e] # NoRun, runStatus'[cur'[e]] = "DEAD"
              PROVE  IsExhausted(cur'[e][2])
  BY DEF HeldDeadIsExhausted, IsExhausted
<1>1. ExecutorsKeepOrClaim /\ TypeOK'
  BY ClaimStep, TypeInductive DEF AttemptInv
<1>2. cur'[e] \in Run /\ cur'[e] = cur[e]
  BY <1>1 DEF ExecutorsKeepOrClaim, TypeOK, ExecutorTypeOK
<1>3. CASE runStatus[cur[e]] = "DEAD"
  BY <1>2, <1>3 DEF HeldDeadIsExhausted
<1>4. CASE runStatus[cur[e]] # "DEAD"
  BY <1>2, <1>4, DeathIsFinalOrExhausted
<1>. QED  BY <1>3, <1>4

(* A job that becomes READY has a new row, its first attempt.              *)
LEMMA ReadyFromStart ==
    ASSUME AttemptInv, Next, NEW j \in Jobs, jobStatus[j] # "READY", jobStatus'[j] = "READY"
    PROVE  First(j) \in Run /\ ~Exists(First(j)) /\ Exists(First(j))'
<1>. USE DEF AttemptInv, TypeOK, StoreTypeOK
<1>1. ASSUME NEW e \in Executors, ExecutorStep(e) PROVE FALSE
  <2>1. ~(MarkDagCancelled(e) \/ ScheduleRetry(e) \/ GiveUp(e))
    BY DEF MarkDagCancelled, ScheduleRetry, GiveUp, MoveToDlq
  <2>2. ~PersistSuccess(e)
    BY DEF PersistSuccess, storeVars
  <2>3. ~(FetchPendingRunIds(e) \/ \E r \in batch[e] : ClaimRun(e, r) \/ SkipRun(e, r))
    BY DEF FetchPendingRunIds, ClaimRun, SkipRun, storeVars
  <2>4. ~(LoadRun(e) \/ CheckDagDependencies(e) \/ FindIdempotencyKey(e) \/ CreatePayment(e))
    BY DEF LoadRun, CheckDagDependencies, FindIdempotencyKey, CreatePayment, Continue, storeVars
  <2>. QED  BY <1>1, <2>1, <2>2, <2>3, <2>4 DEF ExecutorStep
<1>2. ASSUME NEW e \in Executors, ExecutorFault(e) PROVE FALSE
  BY <1>2 DEF ExecutorFault, ExecutorCrash, TransactionFails, storeVars
<1>3. ASSUME NEW w \in Recoverers, RecoveryStep(w) \/ RecoveryFault(w) PROVE FALSE
  <2>1. ~(RecoverStuckRuns(w) \/ ReadOrphanedJobs(w) \/ RequeueOrBury(w) \/ TickAborts(w))
    BY DEF RecoverStuckRuns, ReadOrphanedJobs, RequeueOrBury, MoveToDlq, TickAborts, Abort, storeVars
  <2>2. ASSUME NEW r \in candidates[w], ClaimStuckRun(w, r) PROVE FALSE
    BY <2>2 DEF ClaimStuckRun, storeVars
  <2>3. ASSUME NEW i \in orphans[w],
               CancelOrphan(w, i) \/ KeepJob(w, i) \/ EvaluationRaises(w, i)
        PROVE  FALSE
    BY <2>3 DEF CancelOrphan, KeepJob, EvaluationRaises, Abort, storeVars
  <2>. QED  BY <1>3, <2>1, <2>2, <2>3 DEF RecoveryStep, RecoveryFault
<1>4. CASE Environment
  <2>1. jobStatus[j] = "NONE" /\ InsertRun(runStatus, First(j), "null")
    BY <1>4 DEF Environment, InsertJob, CreateJob, BackoffElapses, LockExpires
  <2>2. First(j) \in Run /\ First(j)[1] = j
    BY FirstIsRun
  <2>3. ~Exists(First(j))
    BY <2>1, <2>2 DEF RowsInOrder
  <2>. QED  BY <2>1, <2>2, <2>3 DEF InsertRun, Exists
<1>. QED  BY <1>1, <1>2, <1>3, <1>4 DEF Next

(* So the last attempt of a job that is not over is always in hand.        *)
LEMMA CarriedOnInductive ==
    ASSUME AttemptInv, HeldDeadIsExhausted, CarriedOn, Next, "abort" \notin Faults
    PROVE  CarriedOn'
<1>. USE DEF AttemptInv
<1>. SUFFICES ASSUME NEW j \in Jobs, jobStatus'[j] = "READY"
              PROVE  \/ DeadLettered(j)'
                     \/ \E r \in Run : r[1] = j /\ Exists(r)' /\ NoneAfter(r)' /\ InHand(r)'
  BY DEF CarriedOn
<1>1. ASSUME NEW q \in Run, q[1] = j, ~Exists(q), Exists(q)'
      PROVE  Exists(q)' /\ NoneAfter(q)' /\ InHand(q)'
  <2>1. Active(q)'
    BY <1>1, NewRowIsPending
  <2>2. ASSUME NEW p \in Run, Later(p, q), Exists(p)' PROVE FALSE
    <3>1. CASE Exists(p)
      BY <1>1, <2>2, <3>1 DEF RowsInOrder
    <3>2. CASE ~Exists(p)
      BY <1>1, <2>2, <3>2, NewRowFollows
    <3>. QED  BY <3>1, <3>2
  <2>. QED  BY <1>1, <2>1, <2>2 DEF NoneAfter, InHand, Later
<1>2. CASE jobStatus[j] # "READY"
  BY <1>1, <1>2, ReadyFromStart, FirstIsRun
<1>3. CASE jobStatus[j] = "READY" /\ DeadLettered(j)
  BY <1>3, DeadStays DEF DeadLettered
<1>4. CASE jobStatus[j] = "READY" /\ ~DeadLettered(j)
  <2>1. PICK r \in Run : r[1] = j /\ Exists(r) /\ NoneAfter(r) /\ InHand(r)
    BY <1>4 DEF CarriedOn
  <2>2. CASE \E q \in Run : q[1] = j /\ ~Exists(q) /\ Exists(q)'
    BY <1>1, <2>2
  <2>3. CASE \A q \in Run : q[1] = j /\ Exists(q)' => Exists(q)
    <3>1. Exists(r)' /\ NoneAfter(r)'
      BY <2>1, <2>3, StatusStep DEF StatusesAdvance, NoneAfter, Later, Exists
    <3>2. ~(~IsExhausted(r[2]) /\ Exists(NextAttempt(r))')
      <4>. SUFFICES ASSUME ~IsExhausted(r[2]) PROVE ~Exists(NextAttempt(r))'
        OBVIOUS
      <4>1. NextAttempt(r) \in Run /\ NextAttempt(r)[1] = j /\ Later(NextAttempt(r), r)
        BY <2>1, NextAttemptIsRun, RunParts DEF Later
      <4>. QED  BY <2>1, <2>3, <4>1 DEF NoneAfter
    <3>3. InHand(r)' \/ runStatus'[r] = "DEAD"
      BY <2>1, <3>2, HandedOn
    <3>. QED  BY <2>1, <3>1, <3>3 DEF DeadLettered
  <2>. QED  BY <2>2, <2>3
<1>. QED  BY <1>2, <1>3, <1>4

(* NothingLost: unless a tick of recovery is cut short between its two     *)
(* transactions, a READY job has a live attempt, a dead letter entry or a  *)
(* recovery worker about to give it one of the two.                        *)
THEOREM NoJobIsDropped == ASSUME "abort" \notin Faults PROVE Spec => []NothingLost
<1>1. Init => HeldDeadIsExhausted /\ CarriedOn
  BY DEF Init, StoreInit, ExecutorInit, HeldDeadIsExhausted, CarriedOn
<1>2. AttemptInv /\ HeldDeadIsExhausted /\ CarriedOn /\ [Next]_vars
      => (HeldDeadIsExhausted /\ CarriedOn)'
  BY HeldDeadInductive, CarriedOnInductive
  DEF vars, storeVars, executorVars, recoveryVars, HeldDeadIsExhausted, CarriedOn,
      DeadLettered, NoneAfter, InHand, Active, Exists
<1>3. AttemptInv /\ CarriedOn => NothingLost
  BY NoRunIsNoRun DEF CarriedOn, NothingLost, InHand, Live
<1>. QED  BY <1>1, <1>2, <1>3, AttemptInvAlways, PTL DEF Spec
=============================================================================
