--------------------------- MODULE PaymentSystem ---------------------------
(***************************************************************************)
(* Executors, recovery workers and the scheduler's inserts over one        *)
(* database, with time, crashes and database errors.                       *)
(*                                                                         *)
(* Faults says what may go wrong:                                          *)
(*   "slow"      an executor is still at work on a run whose lock expires  *)
(*   "crash"     an executor dies between two steps                        *)
(*   "db_error"  an executor's transaction fails and is rolled back        *)
(*   "abort"     a recovery tick dies, or is left by an exception          *)
(*   "unordered" a job is inserted before a job it depends on, or instead  *)
(***************************************************************************)
EXTENDS Executor, Recovery

CONSTANT Faults

ASSUME FaultAssumption ==
    Faults \subseteq {"slow", "crash", "db_error", "abort", "unordered"}

VARIABLE absent  \* history: <<job, dependency>> where the job was inserted first

vars == <<storeVars, executorVars, recoveryVars, absent>>

WorkingOn(e, r) == cur[e] = r

TypeOK == StoreTypeOK /\ ExecutorTypeOK /\ RecoveryTypeOK /\ absent \subseteq Jobs \X Jobs

Init == StoreInit /\ ExecutorInit /\ RecoveryInit /\ absent = {}

-----------------------------------------------------------------------------
(* Time passes a run's lock_expires_at: at any moment when executors may   *)
(* be slow, otherwise only when the executor that set it is gone.          *)
LockExpires(r) ==
    /\ lock[r] = "held"
    /\ "slow" \in Faults \/ \A e \in Executors : ~WorkingOn(e, r)
    /\ lock' = [lock EXCEPT ![r] = "expired"]
    /\ UNCHANGED <<runStatus, retryAfter, jobStatus, subStatus, failures, keys, dlq>>

(* A job's row is inserted, by the scheduler with no dependencies, or with *)
(* some by whoever keeps the DAG: the repository has no code that does.    *)
InsertJob(j) ==
    LET missing == {d \in Deps[j] : jobStatus[d] = "NONE"} IN
    /\ missing # {} => "unordered" \in Faults
    /\ CreateJob(j)
    /\ absent' = absent \cup ({j} \X missing)

ExecutorStep(e) ==
    /\ \/ FetchPendingRunIds(e)
       \/ \E r \in batch[e] : ClaimRun(e, r) \/ SkipRun(e, r)
       \/ LoadRun(e)
       \/ CheckDagDependencies(e)
       \/ MarkDagCancelled(e)
       \/ FindIdempotencyKey(e)
       \/ CreatePayment(e)
       \/ PersistSuccess(e)
       \/ ScheduleRetry(e)
       \/ GiveUp(e)
    /\ UNCHANGED <<recoveryVars, absent>>

ExecutorFault(e) ==
    /\ \/ "crash" \in Faults /\ ExecutorCrash(e)
       \/ "db_error" \in Faults /\ TransactionFails(e)
    /\ UNCHANGED <<recoveryVars, absent>>

RecoveryStep(w) ==
    /\ \/ RecoverStuckRuns(w)
       \/ \E r \in candidates[w] : ClaimStuckRun(w, r)
       \/ RequeueOrBury(w)
       \/ ReadOrphanedJobs(w)
       \/ \E j \in orphans[w] : CancelOrphan(w, j) \/ KeepJob(w, j) \/ EvaluationRaises(w, j)
    /\ UNCHANGED <<executorVars, absent>>

RecoveryFault(w) ==
    /\ "abort" \in Faults /\ TickAborts(w)
    /\ UNCHANGED <<executorVars, absent>>

Environment ==
    /\ \/ \E j \in Jobs : InsertJob(j)
       \/ (\E r \in Run : BackoffElapses(r) \/ LockExpires(r)) /\ UNCHANGED absent
    /\ UNCHANGED <<executorVars, recoveryVars>>

Next ==
    \/ \E e \in Executors : ExecutorStep(e) \/ ExecutorFault(e)
    \/ \E w \in Recoverers : RecoveryStep(w) \/ RecoveryFault(w)
    \/ Environment

Spec == Init /\ [][Next]_vars

-----------------------------------------------------------------------------
(* Safety *)

Later(q, r) == q[1] = r[1] /\ q[2] > r[2]
NoneAfter(r) == \A q \in Run : Later(q, r) => ~Exists(q)
Live(j) == \E r \in Run : r[1] = j /\ Active(r)
DeadLettered(j) == \E r \in Run : r[1] = j /\ runStatus[r] = "DEAD"
Recorded(j) == \E r \in keys : r[1] = j

(* One attempt of a job at a time: while an attempt is PENDING or RUNNING  *)
(* no later one exists, so an executor that answers late and a recovery    *)
(* that requeues the same run never open two attempts.                     *)
OneLiveAttempt ==
    \A r \in Run : Active(r) => NoneAfter(r)

(* No two executors ever work on the same run, although both may have      *)
(* fetched its id and although recovery may have taken it away from one.   *)
ExclusiveExecution ==
    \A e, f \in Executors : e # f /\ cur[e] # NoRun => cur[e] # cur[f]

(* An attempt whose retry_after lies ahead is in nobody's hands: claiming  *)
(* does not look at retry_after again, so a fetched id must not be delayed *)
(* later, by an insert that meets the existing row.                        *)
BackoffRespected ==
    \A r \in Run : retryAfter[r] = "waiting" =>
        /\ runStatus[r] \in {"PENDING", "FAILED"}
        /\ \A e \in Executors : r \notin batch[e] /\ cur[e] # r

(* What the database calls paid was paid: a stored key, a SUCCEEDED run    *)
(* and a DONE job each stand for a payment bunq executed, and a stored key *)
(* is only ever contradicted by the dead letter queue.                     *)
LedgerSound ==
    /\ keys \subseteq paid
    /\ \A r \in Run : runStatus[r] = "SUCCEEDED" => r \in keys
    /\ \A r \in keys : runStatus[r] \in {"SUCCEEDED", "DEAD"}
    /\ \A j \in Jobs : jobStatus[j] = "DONE" => Recorded(j)

(* The idempotency pre-check never finds a key: recovery opens a new       *)
(* attempt, so a run whose payment is recorded is never executed again,    *)
(* and the pre-check cannot be what saves a crashed run from a second call *)
PrecheckFindsNothing ==
    \A e \in Executors : pc[e] \in {"claimed", "deps", "precheck"} => cur[e] \notin keys

(* A RUNNING run always has a lock that time can expire, and nothing else  *)
(* does: recovery can see every run an executor left behind.               *)
RunningIsLocked ==
    \A r \in Run : runStatus[r] = "RUNNING" <=> lock[r] # "null"

(* A job that is neither DONE nor CANCELLED has a live attempt, or a dead  *)
(* letter entry for an operator, or a recovery worker about to give it one *)
(* of the two.  No job is silently dropped between two transactions.       *)
NothingLost ==
    \A j \in Jobs : jobStatus[j] = "READY" =>
        \/ Live(j) \/ DeadLettered(j)
        \/ \E w \in Recoverers : claim[w] # NoRun /\ claim[w][1] = j

(* Once the key of a payment is stored the job is over: the run stays      *)
(* SUCCEEDED and no other attempt is opened.                               *)
RecordedPaymentIsFinal ==
    \A r \in keys : runStatus[r] = "SUCCEEDED" /\ NoneAfter(r)

(* A run is DEAD exactly when it has its one dead letter entry.            *)
SingleDeadLetter ==
    \A r \in Run : dlq[r] = IF runStatus[r] = "DEAD" THEN 1 ELSE 0

(* "Payment submitted exactly once": bunq executes at most one payment for *)
(* a job, that is for a subscription and window.                           *)
PaidAtMostOnce ==
    \A r, q \in paid : r[1] = q[1] => r = q

(* CANCELLED means "upstream DAG permanently failed" (JobStatus): some     *)
(* dependency of the job went to the dead letter queue.                    *)
CancelledOnlyForDeadDependency ==
    \A j \in Jobs : jobStatus[j] = "CANCELLED" => \E d \in Deps[j] : DeadLettered(d)

(* A job is paid only after each dependency that had a row when the job    *)
(* was inserted.  The check passes over dependencies it finds no row of,   *)
(* so nothing more is true: a job inserted first may be paid first.        *)
DependenciesPaidFirst ==
    \A r \in paid : \A d \in Deps[r[1]] : Recorded(d) \/ <<r[1], d>> \in absent

-----------------------------------------------------------------------------
(* What a step may never do *)

(* Every change of a run's status is one the domain's state machine allows *)
Lifecycle == INSTANCE RunLifecycle WITH Runs <- Run, status <- runStatus
FollowsStateMachine == Lifecycle!Spec

(* A job that is DONE stays DONE, one that was dead-lettered is not paid   *)
(* after all, and one that is cancelled is neither: not when recovery and  *)
(* orphan scan use what they read before, not when a dependency fails.     *)
Outcome(j) == IF jobStatus[j] = "READY" /\ DeadLettered(j) THEN "DEAD" ELSE jobStatus[j]
Outcomes == [j \in Jobs |-> Outcome(j)]
JobOutcomes == INSTANCE JobLifecycle WITH outcome <- Outcomes
FollowsJobLifecycle == JobOutcomes!Spec

(* bunq executes no payment for a job that is over, recorded, dead or      *)
(* cancelled: what an executor found when it claimed the run, and when it  *)
(* checked the dependencies, still holds when it calls bunq.               *)
PaidOnlyWhileOpen ==
    [][\A r \in paid' \ paid : Outcome(r[1]) = "READY"]_vars

-----------------------------------------------------------------------------
(* Liveness *)

(* Processes keep taking steps, and time passes.  A claim that is possible *)
(* again and again is not lost for ever to crashes and skipped locks.      *)
Fairness ==
    /\ \A e \in Executors : WF_vars(ExecutorStep(e))
    /\ \A r \in Run : SF_vars((\E e \in Executors : ClaimRun(e, r))
                              /\ UNCHANGED <<recoveryVars, absent>>)
    /\ \A w \in Recoverers : WF_vars(RecoveryStep(w))
    /\ \A r \in Run : WF_vars((BackoffElapses(r) \/ LockExpires(r))
                              /\ UNCHANGED <<executorVars, recoveryVars, absent>>)

FairSpec == Spec /\ Fairness

(* Every job that was created ends DONE, CANCELLED or dead-lettered.       *)
JobsSettle ==
    \A j \in Jobs : jobStatus[j] = "READY" ~> (jobStatus[j] \in {"DONE", "CANCELLED"}
                                               \/ DeadLettered(j))

(* No run stays RUNNING for ever, whoever claimed it.                      *)
RunsEnd ==
    \A r \in Run : runStatus[r] = "RUNNING" ~> runStatus[r] # "RUNNING"
=============================================================================
