------------------------- MODULE TransactionProofs -------------------------
(***************************************************************************)
(* The steps of PaymentSystem, sorted by what they commit to the database, *)
(* and a property that holds however late, crashed or wrong the workers    *)
(* are: dependencies that have rows are paid first.                        *)
(***************************************************************************)
EXTENDS PaymentSystemProofs, FiniteSetTheorems

-----------------------------------------------------------------------------
(* What a step commits.  Each kind says which rows change, and how, and    *)
(* what the workers hold afterwards.                                       *)

OnlyRun(r) == \A q \in Run \ {r} : runStatus'[q] = runStatus[q]
OnlyJob(j) == \A i \in Jobs \ {j} : jobStatus'[i] = jobStatus[i]
Releases(e) == cur' = [cur EXCEPT ![e] = NoRun] /\ UNCHANGED claim
Unclaims(w) == claim' = [claim EXCEPT ![w] = NoRun] /\ UNCHANGED cur

(* The next attempt of r is inserted, if it does not exist. *)
OpensNext(r) ==
    /\ ~IsExhausted(r[2])
    /\ runStatus'[NextAttempt(r)] = IF Exists(NextAttempt(r)) THEN runStatus[NextAttempt(r)]
                                                              ELSE "PENDING"
    /\ \A q \in Run \ {r, NextAttempt(r)} : runStatus'[q] = runStatus[q]

(* Nothing but locks and backoffs; workers may let go of what they hold.   *)
CommitsNothing ==
    /\ UNCHANGED <<runStatus, jobStatus, subStatus, failures, keys, dlq>>
    /\ \A e \in Executors : cur'[e] \in {cur[e], NoRun}
    /\ \A w \in Recoverers : claim'[w] \in {claim[w], NoRun}
    /\ \A r \in Run : lock'[r] = lock[r] \/ "slow" \in Faults
                      \/ \A e \in Executors : cur[e] # r

Claims(e, r) ==
    /\ runStatus[r] = "PENDING" /\ runStatus'[r] = "RUNNING" /\ OnlyRun(r)
    /\ lock' = [lock EXCEPT ![r] = "held"]
    /\ cur' = [cur EXCEPT ![e] = r]
    /\ UNCHANGED <<jobStatus, subStatus, failures, keys, dlq, claim>>

CancelsOwnJob(e) ==
    /\ cur[e] \in Run
    /\ runStatus'[cur[e]] = "FAILED" /\ OnlyRun(cur[e])
    /\ lock' = [lock EXCEPT ![cur[e]] = "null"]
    /\ jobStatus'[cur[e][1]] = "CANCELLED" /\ OnlyJob(cur[e][1])
    /\ Releases(e)
    /\ UNCHANGED <<subStatus, failures, keys, dlq>>

Records(e) ==
    /\ cur[e] \in Run /\ answer[e] = "created"
    /\ keys' = keys \cup {cur[e]}
    /\ runStatus'[cur[e]] = "SUCCEEDED" /\ OnlyRun(cur[e])
    /\ lock' = [lock EXCEPT ![cur[e]] = "null"]
    /\ jobStatus'[cur[e][1]] = "DONE" /\ OnlyJob(cur[e][1])
    /\ failures' = [failures EXCEPT ![SubscriptionOf(cur[e])] = 0]
    /\ Releases(e)
    /\ UNCHANGED <<subStatus, dlq>>

Retries(e) ==
    /\ cur[e] \in Run
    /\ runStatus'[cur[e]] = "FAILED" /\ OpensNext(cur[e])
    /\ lock' = [lock EXCEPT ![cur[e]] = "null"]
    /\ Releases(e)
    /\ UNCHANGED <<jobStatus, subStatus, failures, keys, dlq>>

GivesUp(e) == cur[e] \in Run /\ MoveToDlq(cur[e]) /\ Releases(e)

TakesOver(w, r) ==
    /\ Stuck(r) /\ runStatus'[r] = "FAILED" /\ OnlyRun(r)
    /\ lock' = [lock EXCEPT ![r] = "null"]
    /\ claim' = [claim EXCEPT ![w] = r]
    /\ UNCHANGED <<jobStatus, subStatus, failures, keys, dlq, cur>>

Requeues(w) ==
    /\ claim[w] \in Run
    /\ runStatus'[claim[w]] = runStatus[claim[w]] /\ OpensNext(claim[w])
    /\ Unclaims(w)
    /\ UNCHANGED <<lock, jobStatus, subStatus, failures, keys, dlq>>

Buries(w) == claim[w] \in Run /\ MoveToDlq(claim[w]) /\ Unclaims(w)

CancelsOrphan(w, j) ==
    /\ j \in orphans[w] /\ \E d \in Deps[j] : DeadLettered(d)
    /\ jobStatus'[j] = "CANCELLED" /\ OnlyJob(j)
    /\ \A r \in Run : runStatus'[r] = IF r[1] = j /\ runStatus[r] = "PENDING"
                                      THEN "FAILED" ELSE runStatus[r]
    /\ UNCHANGED <<lock, subStatus, failures, keys, dlq, cur, claim>>

Creates(j) ==
    /\ jobStatus[j] = "NONE"
    /\ \A d \in Deps[j] : jobStatus[d] # "NONE" \/ <<j, d>> \in absent'
    /\ jobStatus'[j] = "READY" /\ OnlyJob(j)
    /\ ~Exists(First(j)) /\ runStatus'[First(j)] = "PENDING" /\ OnlyRun(First(j))
    /\ UNCHANGED <<lock, subStatus, failures, keys, dlq, cur, claim>>

Commits ==
    \/ CommitsNothing
    \/ \E e \in Executors : \/ \E r \in Run : Claims(e, r)
                            \/ CancelsOwnJob(e) \/ Records(e) \/ Retries(e) \/ GivesUp(e)
    \/ \E w \in Recoverers : \/ \E r \in Run : TakesOver(w, r)
                             \/ Requeues(w) \/ Buries(w)
                             \/ \E j \in Jobs : CancelsOrphan(w, j)
    \/ \E j \in Jobs : Creates(j)

(* The next attempt's row after an insert that meets st.                   *)
LEMMA InsertedNext ==
    ASSUME NEW st \in [Run -> RunStatus \cup {"NONE"}], NEW r \in Run, ~IsExhausted(r[2]),
           NEW after, InsertRun(st, NextAttempt(r), after)
    PROVE  /\ runStatus'[r] = st[r]
           /\ runStatus'[NextAttempt(r)] =
                IF st[NextAttempt(r)] = "NONE" THEN "PENDING" ELSE st[NextAttempt(r)]
           /\ \A q \in Run \ {NextAttempt(r)} : runStatus'[q] = st[q]
BY NextAttemptIsRun DEF InsertRun

(* Every step commits in one of these ways.                                *)
LEMMA EveryStepCommits ==
    ASSUME TypeOK, Holding, RowsInOrder, Next
    PROVE  Commits
<1>. USE DEF TypeOK, StoreTypeOK, ExecutorTypeOK, RecoveryTypeOK
<1>1. ASSUME NEW e \in Executors, ExecutorStep(e) PROVE Commits
  <2>. UNCHANGED <<rpc, candidates, claim, orphans>>
    BY <1>1 DEF ExecutorStep, recoveryVars
  <2>. USE DEF Releases
  <2>1. CASE FetchPendingRunIds(e) \/ \E r \in batch[e] : SkipRun(e, r)
    <3>1. CommitsNothing
      BY <2>1 DEF FetchPendingRunIds, SkipRun, TakeNext, storeVars, CommitsNothing
    <3>. QED  BY <3>1 DEF Commits
  <2>2. CASE LoadRun(e) \/ CheckDagDependencies(e) \/ FindIdempotencyKey(e) \/ CreatePayment(e)
    <3>1. CommitsNothing
      BY <2>2 DEF LoadRun, CheckDagDependencies, FindIdempotencyKey, CreatePayment, Continue,
                  storeVars, CommitsNothing
    <3>. QED  BY <3>1 DEF Commits
  <2>3. ASSUME NEW r \in batch[e], ClaimRun(e, r) PROVE Commits
    <3>1. r \in Run /\ Claims(e, r)
      BY <2>3 DEF ClaimRun, Claims, OnlyRun
    <3>. QED  BY <3>1 DEF Commits
  <2>4. ASSUME pc[e] \notin {"idle", "batch"} PROVE cur[e] \in Run /\ cur[e][1] \in Jobs
    BY <2>4, HeldIsRun, RunParts
  <2>5. CASE MarkDagCancelled(e)
    <3>1. CancelsOwnJob(e)
      BY <2>4, <2>5 DEF MarkDagCancelled, Finish, TakeNext, CancelsOwnJob, OnlyRun, OnlyJob
    <3>. QED  BY <3>1 DEF Commits
  <2>6. CASE PersistSuccess(e)
    <3>1. CASE cur[e] \in keys
      <4>1. CommitsNothing
        BY <2>6, <3>1 DEF PersistSuccess, Finish, TakeNext, storeVars, CommitsNothing
      <4>. QED  BY <4>1 DEF Commits
    <3>2. CASE cur[e] \notin keys
      <4>1. Records(e)
        BY <2>4, <2>6, <3>2 DEF PersistSuccess, Finish, TakeNext, Records, OnlyRun, OnlyJob
      <4>. QED  BY <4>1 DEF Commits
    <3>. QED  BY <3>1, <3>2
  <2>7. CASE ScheduleRetry(e)
    <3>. DEFINE st == [runStatus EXCEPT ![cur[e]] = "FAILED"]
    <3>1. cur[e] \in Run /\ ~IsExhausted(cur[e][2]) /\ InsertRun(st, NextAttempt(cur[e]), "waiting")
      BY <2>4, <2>7 DEF ScheduleRetry
    <3>2. st \in [Run -> RunStatus \cup {"NONE"}]
      BY DEF RunStatus
    <3>3. NextAttempt(cur[e]) \in Run /\ NextAttempt(cur[e]) # cur[e]
      BY <3>1, NextAttemptIsRun
    <3>4. runStatus'[cur[e]] = "FAILED" /\ OpensNext(cur[e])
      <4>1. st[cur[e]] = "FAILED" /\ \A q \in Run \ {cur[e]} : st[q] = runStatus[q]
        BY <3>1
      <4>2. /\ runStatus'[cur[e]] = st[cur[e]]
            /\ runStatus'[NextAttempt(cur[e])] =
                 IF st[NextAttempt(cur[e])] = "NONE" THEN "PENDING" ELSE st[NextAttempt(cur[e])]
            /\ \A q \in Run \ {NextAttempt(cur[e])} : runStatus'[q] = st[q]
        <5>. HIDE DEF st
        <5>. QED  BY <3>1, <3>2, InsertedNext
      <4>. HIDE DEF st
      <4>. QED  BY <3>1, <3>3, <4>1, <4>2 DEF OpensNext, Exists
    <3>5. Retries(e)
      BY <2>7, <3>1, <3>4 DEF ScheduleRetry, Finish, TakeNext, Retries
    <3>. QED  BY <3>5 DEF Commits
  <2>8. CASE GiveUp(e)
    <3>1. GivesUp(e)
      BY <2>4, <2>8 DEF GiveUp, Finish, TakeNext, GivesUp
    <3>. QED  BY <3>1 DEF Commits
  <2>. QED  BY <1>1, <2>1, <2>2, <2>3, <2>5, <2>6, <2>7, <2>8 DEF ExecutorStep
<1>2. ASSUME NEW e \in Executors, ExecutorFault(e) PROVE Commits
  <2>1. CommitsNothing
    BY <1>2 DEF ExecutorFault, ExecutorCrash, TransactionFails, Finish, TakeNext, storeVars,
                recoveryVars, CommitsNothing
  <2>. QED  BY <2>1 DEF Commits
<1>3. ASSUME NEW w \in Recoverers, RecoveryStep(w) PROVE Commits
  <2>. UNCHANGED <<pc, batch, cur, answer, paid>>
    BY <1>3 DEF RecoveryStep, executorVars
  <2>. USE DEF Unclaims
  <2>1. CASE RecoverStuckRuns(w) \/ ReadOrphanedJobs(w)
    <3>1. CommitsNothing
      BY <2>1 DEF RecoverStuckRuns, ReadOrphanedJobs, Reap, storeVars, CommitsNothing
    <3>. QED  BY <3>1 DEF Commits
  <2>2. ASSUME NEW j \in orphans[w], KeepJob(w, j) \/ EvaluationRaises(w, j) PROVE Commits
    <3>1. CommitsNothing
      BY <2>2 DEF KeepJob, EvaluationRaises, Evaluated, Abort, storeVars, CommitsNothing
    <3>. QED  BY <3>1 DEF Commits
  <2>3. ASSUME NEW r \in candidates[w], ClaimStuckRun(w, r) PROVE Commits
    <3>1. CASE Stuck(r)
      <4>1. r \in Run /\ TakesOver(w, r)
        BY <2>3, <3>1 DEF ClaimStuckRun, TakesOver, OnlyRun
      <4>. QED  BY <4>1 DEF Commits
    <3>2. CASE ~Stuck(r)
      <4>1. CommitsNothing
        BY <2>3, <3>2 DEF ClaimStuckRun, Reap, storeVars, CommitsNothing
      <4>. QED  BY <4>1 DEF Commits
    <3>. QED  BY <3>1, <3>2
  <2>4. CASE RequeueOrBury(w)
    <3>1. claim[w] \in Run /\ Unclaims(w)
      BY <2>4, HeldIsRun DEF RequeueOrBury, Reap
    <3>2. CASE IsExhausted(claim[w][2])
      <4>1. Buries(w)
        BY <2>4, <3>1, <3>2 DEF RequeueOrBury, Buries
      <4>. QED  BY <4>1 DEF Commits
    <3>3. CASE ~IsExhausted(claim[w][2])
      <4>1. InsertRun(runStatus, NextAttempt(claim[w]), "null")
        BY <2>4, <3>3 DEF RequeueOrBury
      <4>2. runStatus'[claim[w]] = runStatus[claim[w]] /\ OpensNext(claim[w])
        BY <3>1, <3>3, <4>1, InsertedNext DEF OpensNext, Exists
      <4>3. Requeues(w)
        BY <2>4, <3>1, <3>3, <4>2 DEF RequeueOrBury, Requeues
      <4>. QED  BY <4>3 DEF Commits
    <3>. QED  BY <3>2, <3>3
  <2>5. ASSUME NEW j \in orphans[w], CancelOrphan(w, j) PROVE Commits
    <3>1. PICK d \in Deps[j] : Cardinality(DeadRuns(d)) = 1
      BY <2>5 DEF CancelOrphan
    <3>2. DeadRuns(d) # {}
      <4>1. Cardinality({}) = 0
        BY FS_EmptySet
      <4>2. ASSUME DeadRuns(d) = {} PROVE FALSE
        <5>1. Cardinality(DeadRuns(d)) = 0
          BY <4>1, <4>2, Zenon
        <5>. QED  BY <3>1, <5>1
      <4>. QED  BY <4>2
    <3>3. DeadLettered(d)
      BY <3>2 DEF DeadRuns, DeadLettered
    <3>4. j \in Jobs /\ CancelsOrphan(w, j)
      BY <2>5, <3>3 DEF CancelOrphan, Evaluated, CancelsOrphan, OnlyJob
    <3>. QED  BY <3>4 DEF Commits
  <2>. QED  BY <1>3, <2>1, <2>2, <2>3, <2>4, <2>5 DEF RecoveryStep
<1>4. ASSUME NEW w \in Recoverers, RecoveryFault(w) PROVE Commits
  <2>1. CommitsNothing
    BY <1>4 DEF RecoveryFault, TickAborts, Abort, storeVars, executorVars, CommitsNothing
  <2>. QED  BY <2>1 DEF Commits
<1>5. CASE Environment
  <2>. UNCHANGED <<cur, claim>>
    BY <1>5 DEF Environment, executorVars, recoveryVars
  <2>1. ASSUME NEW j \in Jobs, InsertJob(j) PROVE Commits
    <3>1. First(j) \in Run /\ First(j)[1] = j
      BY FirstIsRun
    <3>2. ~Exists(First(j))
      BY <2>1, <3>1 DEF InsertJob, CreateJob, RowsInOrder
    <3>3. \A d \in Deps[j] : jobStatus[d] # "NONE" \/ <<j, d>> \in absent'
      BY <2>1 DEF InsertJob
    <3>4. Creates(j)
      BY <2>1, <3>1, <3>2, <3>3 DEF InsertJob, CreateJob, InsertRun, Creates, OnlyRun, OnlyJob, Exists
    <3>. QED  BY <3>4 DEF Commits
  <2>2. ASSUME NEW r \in Run, BackoffElapses(r) \/ LockExpires(r) PROVE Commits
    <3>1. CommitsNothing
      BY <2>2 DEF BackoffElapses, LockExpires, WorkingOn, CommitsNothing
    <3>. QED  BY <3>1 DEF Commits
  <2>. QED  BY <1>5, <2>1, <2>2 DEF Environment
<1>. QED  BY <1>1, <1>2, <1>3, <1>4, <1>5 DEF Next

-----------------------------------------------------------------------------
(* Dependencies *)

(* The rows a worker knows of exist, and so do those a job depends on but  *)
(* for the ones it was inserted before.                                    *)
RowsExist ==
    /\ \A w \in Recoverers : \A j \in orphans[w] : jobStatus[j] # "NONE"
    /\ \A j \in Jobs : jobStatus[j] # "NONE" =>
           \A d \in Deps[j] : jobStatus[d] # "NONE" \/ <<j, d>> \in absent

(* An executor that passed the dependency check holds a run whose          *)
(* dependencies are recorded, and what is recorded stays so; or they had   *)
(* no row when the job got its own, and may have had none at the check.    *)
DepsChecked ==
    \A e \in Executors : pc[e] \in {"precheck", "call"} =>
        \A d \in Deps[cur[e][1]] : Recorded(d) \/ <<cur[e][1], d>> \in absent

DependencyInv == RowsExist /\ DepsChecked /\ DependenciesPaidFirst

(* That a dependency came later is not forgotten. *)
LEMMA AbsentGrows ==
    ASSUME Next
    PROVE  absent \subseteq absent'
<1>1. ASSUME NEW j \in Jobs, InsertJob(j) PROVE absent \subseteq absent'
  BY <1>1 DEF InsertJob
<1>. QED
  BY <1>1 DEF Next, ExecutorStep, ExecutorFault, RecoveryStep, RecoveryFault, Environment

(* Rows of jobs appear by an insert only.                                  *)
LEMMA NewJobIsCreated ==
    ASSUME AttemptInv, RowsExist, Next, NEW j \in Jobs, jobStatus[j] = "NONE", jobStatus'[j] # "NONE"
    PROVE  Creates(j)
<1>. USE DEF OnlyJob
<1>1. Commits /\ RowsInOrder
  BY EveryStepCommits DEF AttemptInv
<1>2. ASSUME NEW e \in Executors, cur[e] \in Run, cur[e] # NoRun PROVE cur[e][1] # j
  BY <1>1, <1>2 DEF AttemptInv, ClaimedOnce, RowsInOrder, Exists
<1>3. \A e \in Executors : ~CancelsOwnJob(e) /\ ~Records(e)
  BY <1>2, NoRunIsNoRun DEF CancelsOwnJob, Records
<1>4. \A w \in Recoverers, i \in Jobs : ~CancelsOrphan(w, i)
  BY DEF CancelsOrphan, RowsExist
<1>5. \A i \in Jobs : Creates(i) => i = j
  BY DEF Creates
<1>. QED
  BY <1>1, <1>3, <1>4, <1>5
  DEF Commits, CommitsNothing, Claims, Retries, GivesUp, MoveToDlq, TakesOver, Requeues, Buries

(* A scan of recovery reads jobs that exist, and forgets them afterwards.  *)
LEMMA OrphansRead ==
    ASSUME TypeOK, Next, NEW w \in Recoverers, NEW j \in orphans'[w], j \notin orphans[w]
    PROVE  j \in Jobs /\ jobStatus[j] # "NONE"
<1>. USE DEF TypeOK, RecoveryTypeOK
<1>1. ~(\E e \in Executors : ExecutorStep(e) \/ ExecutorFault(e))
  BY DEF ExecutorStep, ExecutorFault, recoveryVars
<1>2. ~Environment
  BY DEF Environment, recoveryVars
<1>3. ~(\E v \in Recoverers : RecoveryFault(v))
  BY DEF RecoveryFault, TickAborts, Abort
<1>4. PICK v \in Recoverers : RecoveryStep(v)
  BY <1>1, <1>2, <1>3 DEF Next
<1>5. ~(RecoverStuckRuns(v) \/ \E r \in candidates[v] : ClaimStuckRun(v, r))
  BY DEF RecoverStuckRuns, ClaimStuckRun, Reap
<1>6. ~(RequeueOrBury(v) \/ \E i \in orphans[v] : CancelOrphan(v, i) \/ KeepJob(v, i)
                                                    \/ EvaluationRaises(v, i))
  BY DEF RequeueOrBury, CancelOrphan, KeepJob, EvaluationRaises, Reap, Evaluated, Abort
<1>7. ReadOrphanedJobs(v)
  BY <1>4, <1>5, <1>6 DEF RecoveryStep
<1>. QED  BY <1>7 DEF ReadOrphanedJobs

(* So RowsExist is inductive.                                              *)
LEMMA RowsExistInductive ==
    ASSUME AttemptInv, RowsExist, Next
    PROVE  RowsExist'
<1>1. TypeOK /\ TypeOK' /\ StatusesAdvance
  BY StatusStep, TypeInductive DEF AttemptInv
<1>2. ASSUME NEW w \in Recoverers, NEW j \in orphans'[w] PROVE jobStatus'[j] # "NONE"
  <2>1. j \in Jobs /\ jobStatus[j] # "NONE"
    BY <1>1, OrphansRead DEF RowsExist, TypeOK, RecoveryTypeOK
  <2>. QED  BY <1>1, <2>1 DEF StatusesAdvance
<1>3. ASSUME NEW j \in Jobs, jobStatus'[j] # "NONE", NEW d \in Deps[j]
      PROVE  jobStatus'[d] # "NONE" \/ <<j, d>> \in absent'
  <2>1. d \in Jobs
    BY StoreAssumption DEF StoreAssumption
  <2>2. jobStatus[d] # "NONE" \/ <<j, d>> \in absent'
    BY <1>3, NewJobIsCreated, AbsentGrows DEF RowsExist, Creates
  <2>. QED  BY <1>1, <2>1, <2>2 DEF StatusesAdvance
<1>. QED  BY <1>2, <1>3 DEF RowsExist

(* What is recorded stays recorded.                                        *)
LEMMA RecordedStays ==
    ASSUME TypeOK, Holding, Next, NEW j, Recorded(j)
    PROVE  Recorded(j)'
BY ClaimStep DEF Recorded

(* The check lets a run pass only when those of its dependencies' jobs     *)
(* that exist are DONE, hence recorded; a run without dependencies skips   *)
(* it.                                                                     *)
LEMMA DepsCheckedInductive ==
    ASSUME LedgerInv, DependencyInv, Next
    PROVE  DepsChecked'
<1>. USE DEF LedgerInv, AttemptInv, DependencyInv, TypeOK, ExecutorTypeOK
<1>1. ASSUME NEW e \in Executors, pc'[e] \in {"precheck", "call"}, pc'[e] = pc[e], cur'[e] = cur[e],
             NEW d \in Deps[cur'[e][1]]
      PROVE  Recorded(d)' \/ <<cur'[e][1], d>> \in absent'
  <2>1. Recorded(d) \/ <<cur[e][1], d>> \in absent
    BY <1>1 DEF DepsChecked
  <2>. QED  BY <1>1, <2>1, RecordedStays, AbsentGrows
<1>2. ASSUME NEW e \in Executors, ExecutorStep(e) PROVE DepsChecked'
  <2>1. CASE FetchPendingRunIds(e)
    BY <1>1, <2>1 DEF FetchPendingRunIds, GoTo, DepsChecked
  <2>2. ASSUME NEW r \in batch[e], ClaimRun(e, r) \/ SkipRun(e, r) PROVE DepsChecked'
    BY <1>1, <2>2 DEF ClaimRun, SkipRun, TakeNext, GoTo, DepsChecked
  <2>3. CASE LoadRun(e)
    BY <1>1, <2>3 DEF LoadRun, Continue, GoTo, DepsChecked
  <2>4. CASE CheckDagDependencies(e)
    <3>1. cur[e] \in Run /\ cur[e] # NoRun /\ cur[e][1] \in Jobs
      BY <2>4, HeldIsRun, NoRunIsNoRun, RunParts DEF CheckDagDependencies
    <3>2. Exists(cur[e])
      BY <3>1 DEF ClaimedOnce, Exists
    <3>3. jobStatus[cur[e][1]] # "NONE"
      BY <3>1, <3>2 DEF RowsInOrder
    <3>4. \A d \in Deps[cur[e][1]] :
             d \in Jobs /\ (jobStatus[d] # "NONE" \/ <<cur[e][1], d>> \in absent)
      BY <3>1, <3>3, StoreAssumption DEF RowsExist, StoreAssumption
    <3>5. ASSUME pc'[e] = "precheck", NEW d \in Deps[cur[e][1]]
          PROVE  Recorded(d)' \/ <<cur[e][1], d>> \in absent'
      <4>1. jobStatus[d] \in {"NONE", "DONE"}
        BY <2>4, <3>5 DEF CheckDagDependencies, Continue, GoTo
      <4>2. Recorded(d) \/ <<cur[e][1], d>> \in absent
        BY <3>4, <3>5, <4>1 DEF LedgerSound
      <4>. QED  BY <4>2, RecordedStays, AbsentGrows
    <3>6. pc'[e] # "call" /\ cur' = cur /\ \A f \in Executors \ {e} : pc'[f] = pc[f]
      BY <2>4 DEF CheckDagDependencies, Continue, GoTo
    <3>. QED  BY <1>1, <3>5, <3>6 DEF DepsChecked
  <2>5. CASE FindIdempotencyKey(e)
    <3>1. \A d \in Deps[cur[e][1]] : Recorded(d)' \/ <<cur[e][1], d>> \in absent'
      BY <2>5, RecordedStays, AbsentGrows DEF FindIdempotencyKey, DepsChecked
    <3>2. cur' = cur /\ \A f \in Executors \ {e} : pc'[f] = pc[f]
      BY <2>5 DEF FindIdempotencyKey, Continue, GoTo
    <3>. QED  BY <1>1, <3>1, <3>2 DEF DepsChecked
  <2>6. CASE CreatePayment(e)
    BY <1>1, <2>6 DEF CreatePayment, Continue, GoTo, DepsChecked
  <2>7. CASE MarkDagCancelled(e) \/ PersistSuccess(e) \/ ScheduleRetry(e) \/ GiveUp(e)
    BY <1>1, <2>7 DEF MarkDagCancelled, PersistSuccess, ScheduleRetry, GiveUp, Finish, TakeNext,
                      GoTo, DepsChecked
  <2>. QED  BY <1>2, <2>1, <2>2, <2>3, <2>4, <2>5, <2>6, <2>7 DEF ExecutorStep
<1>3. ASSUME NEW e \in Executors, ExecutorFault(e) PROVE DepsChecked'
  BY <1>1, <1>3 DEF ExecutorFault, ExecutorCrash, TransactionFails, Finish, TakeNext, GoTo, DepsChecked
<1>4. CASE UNCHANGED executorVars
  BY <1>1, <1>4 DEF executorVars, DepsChecked
<1>. QED
  BY <1>2, <1>3, <1>4 DEF Next, RecoveryStep, RecoveryFault, Environment

(* bunq pays only what an executor calls for, after the check.             *)
LEMMA NewPaymentIsCalled ==
    ASSUME TypeOK, Next, NEW r \in paid', r \notin paid
    PROVE  \E e \in Executors : pc[e] = "call" /\ cur[e] = r
<1>1. ASSUME NEW e \in Executors, ExecutorFault(e) PROVE FALSE
  BY <1>1 DEF ExecutorFault, ExecutorCrash, TransactionFails, Finish
<1>2. ASSUME NEW e \in Executors, ExecutorStep(e) PROVE CreatePayment(e)
  <2>1. ~(FetchPendingRunIds(e) \/ \E q \in batch[e] : ClaimRun(e, q) \/ SkipRun(e, q))
    BY DEF FetchPendingRunIds, ClaimRun, SkipRun
  <2>2. ~(LoadRun(e) \/ CheckDagDependencies(e) \/ FindIdempotencyKey(e))
    BY DEF LoadRun, CheckDagDependencies, FindIdempotencyKey
  <2>3. ~(MarkDagCancelled(e) \/ PersistSuccess(e) \/ ScheduleRetry(e) \/ GiveUp(e))
    BY DEF MarkDagCancelled, PersistSuccess, ScheduleRetry, GiveUp, Finish
  <2>. QED  BY <1>2, <2>1, <2>2, <2>3 DEF ExecutorStep
<1>3. ASSUME UNCHANGED executorVars PROVE FALSE
  BY <1>3 DEF executorVars
<1>4. PICK e \in Executors : CreatePayment(e)
  BY <1>1, <1>2, <1>3 DEF Next, RecoveryStep, RecoveryFault, Environment
<1>. QED  BY <1>4 DEF CreatePayment

(* The three parts together are inductive, given a sound ledger.           *)
LEMMA DependencyInductive ==
    ASSUME LedgerInv, DependencyInv, Next
    PROVE  DependencyInv'
<1>. USE DEF LedgerInv, AttemptInv, DependencyInv
<1>1. RowsExist' /\ DepsChecked'
  BY RowsExistInductive, DepsCheckedInductive
<1>2. ASSUME NEW r \in paid', NEW d \in Deps[r[1]]
      PROVE  Recorded(d)' \/ <<r[1], d>> \in absent'
  <2>1. Recorded(d) \/ <<r[1], d>> \in absent
    BY <1>2, NewPaymentIsCalled DEF DependenciesPaidFirst, DepsChecked
  <2>. QED  BY <2>1, RecordedStays, AbsentGrows
<1>. QED  BY <1>1, <1>2 DEF DependenciesPaidFirst

(* The ledger and the dependencies, in every reachable state.              *)
LEMMA DependencyInvAlways == Spec => [](LedgerInv /\ DependencyInv)
<1>1. Init => LedgerInv
  BY AttemptInit DEF LedgerInv, Init, StoreInit, ExecutorInit, CreatedIsPaid, LedgerSound
<1>2. Init => DependencyInv
  BY DEF Init, StoreInit, ExecutorInit, RecoveryInit, DependencyInv, RowsExist, DepsChecked,
         DependenciesPaidFirst
<1>3. LedgerInv /\ DependencyInv /\ [Next]_vars => DependencyInv'
  <2>1. LedgerInv /\ DependencyInv /\ Next => DependencyInv'
    BY DependencyInductive
  <2>2. DependencyInv /\ UNCHANGED vars => DependencyInv'
    BY DEF vars, storeVars, executorVars, recoveryVars, DependencyInv, RowsExist, DepsChecked,
           DependenciesPaidFirst, Recorded
  <2>. QED  BY <2>1, <2>2
<1>. QED  BY <1>1, <1>2, <1>3, LedgerInductive, PTL DEF Spec

(* DependenciesPaidFirst: bunq executes no payment of a job before one is  *)
(* in the ledger for each dependency that had a row when the job got its   *)
(* own, in whatever order rows are inserted, and whatever recovery, late   *)
(* executors and failed transactions do between the check and the call.    *)
THEOREM DependenciesComeFirst == Spec => []DependenciesPaidFirst
<1>1. DependencyInv => DependenciesPaidFirst
  BY DEF DependencyInv
<1>. QED  BY <1>1, DependencyInvAlways, PTL
=============================================================================
