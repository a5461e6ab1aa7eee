------------------------------ MODULE JobStore ------------------------------
(***************************************************************************)
(* The PostgreSQL rows that the executors, the recovery worker and the     *)
(* scheduler share, and the transactions more than one of them runs.       *)
(*                                                                         *)
(* A job_runs row is named by <<job, attempt>>: uq_run_per_attempt lets a  *)
(* job have one row per attempt, and no code path updates either column.   *)
(* Each transaction of the source is one atomic operator: it consists of   *)
(* single-row UPDATEs by primary key and INSERTs guarded by a constraint,  *)
(* which READ COMMITTED serialises on the rows' locks.                     *)
(***************************************************************************)
EXTENDS Naturals

CONSTANTS
    Jobs,            \* scheduled_jobs ids (one per subscription and window)
    Subs,            \* subscription ids
    SubOf,           \* [Jobs -> Subs], scheduled_jobs.subscription_id
    Deps,            \* [Jobs -> SUBSET Jobs], scheduled_jobs.depends_on
    MaxAttempts,     \* RetryPolicy.max_attempts
    PauseThreshold,  \* CONSECUTIVE_FAILURE_PAUSE_THRESHOLD
    NoRun            \* a worker holds no run

ASSUME StoreAssumption ==
    /\ SubOf \in [Jobs -> Subs]
    /\ Deps \in [Jobs -> SUBSET Jobs]
    /\ MaxAttempts \in Nat \ {0}
    /\ PauseThreshold \in Nat \ {0}
    /\ NoRun \notin Jobs \X (1..MaxAttempts)

VARIABLES
    runStatus,   \* job_runs.status, "NONE" where the row does not exist
    lock,        \* job_runs.lock_expires_at: "null", "held" (in the future), "expired"
    retryAfter,  \* job_runs.retry_after: "null", "waiting" (in the future), "due"
    jobStatus,   \* scheduled_jobs.status, "NONE" where the row does not exist
    subStatus,   \* subscriptions.status
    failures,    \* subscriptions.consecutive_failures
    keys,        \* the runs that have an idempotency_keys row
    dlq          \* the number of dead_letter_entries rows of each run

storeVars == <<runStatus, lock, retryAfter, jobStatus, subStatus, failures, keys, dlq>>

Run == Jobs \X (1..MaxAttempts)
First(j) == <<j, 1>>
NextAttempt(r) == <<r[1], r[2] + 1>>
SubscriptionOf(r) == SubOf[r[1]]

RunStatus == {"PENDING", "RUNNING", "SUCCEEDED", "FAILED", "DEAD"}
JobStatus == {"PENDING", "BLOCKED", "READY", "DONE", "CANCELLED"}
SubscriptionStatus == {"ACTIVE", "PAUSED", "CANCELLED"}

Exists(r) == runStatus[r] # "NONE"
Active(r) == runStatus[r] \in {"PENDING", "RUNNING"}
IsExhausted(attempt) == attempt >= MaxAttempts

StoreTypeOK ==
    /\ runStatus \in [Run -> RunStatus \cup {"NONE"}]
    /\ lock \in [Run -> {"null", "held", "expired"}]
    /\ retryAfter \in [Run -> {"null", "waiting", "due"}]
    /\ jobStatus \in [Jobs -> JobStatus \cup {"NONE"}]
    /\ subStatus \in [Subs -> SubscriptionStatus]
    /\ failures \in [Subs -> Nat]
    /\ keys \subseteq Run
    /\ dlq \in [Run -> Nat]

StoreInit ==
    /\ runStatus = [r \in Run |-> "NONE"]
    /\ lock = [r \in Run |-> "null"]
    /\ retryAfter = [r \in Run |-> "null"]
    /\ jobStatus = [j \in Jobs |-> "NONE"]
    /\ subStatus = [s \in Subs |-> "ACTIVE"]
    /\ failures = [s \in Subs |-> 0]
    /\ keys = {}
    /\ dlq = [r \in Run |-> 0]

-----------------------------------------------------------------------------
(* Mutant of InsertRun: the row starts in a job status, not a run status. *)
InsertRunReady(st, r, after) ==
    /\ runStatus' = IF st[r] = "NONE" THEN [st EXCEPT ![r] = "READY"] ELSE st
    /\ retryAfter' = IF st[r] = "NONE" THEN [retryAfter EXCEPT ![r] = after]
                                       ELSE retryAfter

(* INSERT INTO job_runs ... ON CONFLICT ON CONSTRAINT uq_run_per_attempt   *)
(* DO NOTHING, after the statements of the transaction gave st.            *)
InsertRun(st, r, after) ==
    /\ runStatus' = IF st[r] = "NONE" THEN [st EXCEPT ![r] = "PENDING"] ELSE st
    /\ retryAfter' = IF st[r] = "NONE" THEN [retryAfter EXCEPT ![r] = after]
                                       ELSE retryAfter

(* Routing a run to the dead letter queue: status and lock whatever they   *)
(* are now, one more entry, one more consecutive failure, and the pause at *)
(* the threshold whatever the subscription's status is now.  The UPDATE of *)
(* the counter keeps the subscription's row locked until the commit.       *)
MoveToDlq(r) ==
    LET s == SubscriptionOf(r) IN
    /\ runStatus' = [runStatus EXCEPT ![r] = "DEAD"]
    /\ lock' = [lock EXCEPT ![r] = "null"]
    /\ dlq' = [dlq EXCEPT ![r] = @ + 1]
    /\ failures' = [failures EXCEPT ![s] = @ + 1]
    /\ subStatus' = IF failures[s] + 1 >= PauseThreshold
                    THEN [subStatus EXCEPT ![s] = "PAUSED"] ELSE subStatus
    /\ UNCHANGED <<retryAfter, jobStatus, keys>>

(* The scheduler's tick commits a job and its first run together, for a    *)
(* subscription that is ACTIVE.  depends_on is JSON without a foreign key: *)
(* nothing asks whether the jobs it names have rows.                       *)
CreateJob(j) ==
    /\ subStatus[SubOf[j]] = "ACTIVE"
    /\ jobStatus[j] = "NONE"
    /\ jobStatus' = [jobStatus EXCEPT ![j] = "READY"]
    /\ InsertRun(runStatus, First(j), "null")
    /\ UNCHANGED <<lock, subStatus, failures, keys, dlq>>

(* Time passes a run's retry_after. *)
BackoffElapses(r) ==
    /\ retryAfter[r] = "waiting"
    /\ retryAfter' = [retryAfter EXCEPT ![r] = "due"]
    /\ UNCHANGED <<runStatus, lock, jobStatus, subStatus, failures, keys, dlq>>
=============================================================================
