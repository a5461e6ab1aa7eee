------------------------------ MODULE Executor ------------------------------
(***************************************************************************)
(* app/workers/executor.py: ExecutorWorker, any number of processes.       *)
(*                                                                         *)
(* An executor fetches a batch of claimable run ids, then takes them one   *)
(* at a time through claim, reload, dependency check, idempotency          *)
(* pre-check, payment call and the final transaction.  Every transaction   *)
(* and the call are separate steps, so that other processes, time and      *)
(* failures come between any two of them.                                  *)
(***************************************************************************)
EXTENDS JobStore, FiniteSets

CONSTANTS
    Executors,
    BatchSize,        \* EXECUTOR_BATCH_SIZE
    SuspectConfig,    \* subscriptions whose payment_config may not parse
    BunqBehaviour     \* the <<executed, answer>> pairs a call may end with

Retryable == {"transient", "ambiguous", "error"}
Answers == Retryable \cup {"created", "rejected", "invalid_config"}

ASSUME ExecutorAssumption ==
    /\ BatchSize \in Nat \ {0}
    /\ BunqBehaviour \subseteq BOOLEAN \X (Answers \ {"invalid_config"})
    /\ \A b \in BunqBehaviour : /\ b[2] = "created" => b[1]
                                /\ b[2] = "rejected" => ~b[1]

VARIABLES
    pc,       \* where each executor is
    batch,    \* ids it fetched and has not processed
    cur,      \* the run it is processing, NoRun between two runs
    answer,   \* what the payment call, or the config parser, told it
    paid      \* external: runs whose idempotency key bunq has executed a payment for

executorVars == <<pc, batch, cur, answer, paid>>

PCs == {"idle", "batch", "claimed", "deps", "cancel", "precheck", "call", "settle"}

ExecutorTypeOK ==
    /\ pc \in [Executors -> PCs]
    /\ batch \in [Executors -> SUBSET Run]
    /\ cur \in [Executors -> Run \cup {NoRun}]
    /\ answer \in [Executors -> Answers \cup {"none"}]
    /\ paid \subseteq Run

ExecutorInit ==
    /\ pc = [e \in Executors |-> "idle"]
    /\ batch = [e \in Executors |-> {}]
    /\ cur = [e \in Executors |-> NoRun]
    /\ answer = [e \in Executors |-> "none"]
    /\ paid = {}

-----------------------------------------------------------------------------
(* Mutants of Claimable: retry_after ignored; only NULL accepted. *)
ClaimableInBackoff(r) == runStatus[r] = "PENDING"
ClaimableOnlyFresh(r) == runStatus[r] = "PENDING" /\ retryAfter[r] = "null"

(* PENDING, and retry_after NULL or past. *)
Claimable(r) == runStatus[r] = "PENDING" /\ retryAfter[r] # "waiting"

GoTo(e, label) == pc' = [pc EXCEPT ![e] = label]

(* The executor is done with one run, whatever the reason. *)
TakeNext(e, rest) ==
    /\ batch' = [batch EXCEPT ![e] = rest]
    /\ GoTo(e, IF rest = {} THEN "idle" ELSE "batch")
    /\ cur' = [cur EXCEPT ![e] = NoRun]
    /\ answer' = [answer EXCEPT ![e] = "none"]

Finish(e) == TakeNext(e, batch[e]) /\ UNCHANGED paid

(* The executor goes on with its run. *)
Continue(e, label, ans) ==
    /\ GoTo(e, label)
    /\ answer' = [answer EXCEPT ![e] = ans]
    /\ UNCHANGED <<batch, cur, storeVars>>

(* Rows another executor may hold locked for the length of a statement: it *)
(* is in a fetch, or about to claim the run.                               *)
LockedElsewhere(e, r) ==
    \E o \in Executors \ {e} : pc[o] = "idle" \/ (pc[o] = "batch" /\ r \in batch[o])

(* The batch query: the oldest claimable rows up to the limit, less those  *)
(* SKIP LOCKED leaves out.  Which rows are oldest is left open.            *)
FetchPendingRunIds(e) ==
    /\ pc[e] = "idle"
    /\ \E ids \in SUBSET {r \in Run : Claimable(r)} :
        /\ ids # {} /\ Cardinality(ids) <= BatchSize
        /\ batch' = [batch EXCEPT ![e] = ids]
    /\ GoTo(e, "batch")
    /\ UNCHANGED <<cur, answer, paid, storeVars>>

(* Mutants of ClaimRun: the status is not re-checked; no lock is written.  *)
ClaimRunUnchecked(e, r) ==
    /\ pc[e] = "batch" /\ r \in batch[e]
    /\ runStatus' = [runStatus EXCEPT ![r] = "RUNNING"]
    /\ lock' = [lock EXCEPT ![r] = "held"]
    /\ batch' = [batch EXCEPT ![e] = @ \ {r}]
    /\ cur' = [cur EXCEPT ![e] = r]
    /\ GoTo(e, "claimed")
    /\ UNCHANGED <<answer, paid, retryAfter, jobStatus, subStatus, failures, keys, dlq>>

ClaimRunWithoutLock(e, r) ==
    /\ runStatus[r] = "PENDING"
    /\ pc[e] = "batch" /\ r \in batch[e]
    /\ runStatus' = [runStatus EXCEPT ![r] = "RUNNING"]
    /\ batch' = [batch EXCEPT ![e] = @ \ {r}]
    /\ cur' = [cur EXCEPT ![e] = r]
    /\ GoTo(e, "claimed")
    /\ UNCHANGED <<answer, paid, lock, retryAfter, jobStatus, subStatus, failures, keys, dlq>>

(* Re-lock and claim one fetched row, if it is still PENDING.  retry_after *)
(* is not looked at again.                                                 *)
ClaimRun(e, r) ==
    /\ pc[e] = "batch" /\ r \in batch[e]
    /\ runStatus[r] = "PENDING"
    /\ runStatus' = [runStatus EXCEPT ![r] = "RUNNING"]
    /\ lock' = [lock EXCEPT ![r] = "held"]
    /\ batch' = [batch EXCEPT ![e] = @ \ {r}]
    /\ cur' = [cur EXCEPT ![e] = r]
    /\ GoTo(e, "claimed")
    /\ UNCHANGED <<answer, paid, retryAfter, jobStatus, subStatus, failures, keys, dlq>>

SkipRun(e, r) ==
    /\ pc[e] = "batch" /\ r \in batch[e]
    /\ runStatus[r] # "PENDING" \/ LockedElsewhere(e, r)
    /\ TakeNext(e, batch[e] \ {r})
    /\ UNCHANGED <<paid, storeVars>>

(* Reload run, job and subscription; parse the payment config, which a     *)
(* PATCH may have replaced since the last attempt.  Neither the job's nor  *)
(* the subscription's status is looked at.                                 *)
LoadRun(e) ==
    /\ pc[e] = "claimed"
    /\ \/ /\ SubscriptionOf(cur[e]) \in SuspectConfig
          /\ Continue(e, "settle", "invalid_config")
       \/ Continue(e, IF Deps[cur[e][1]] # {} THEN "deps" ELSE "precheck", "none")
    /\ UNCHANGED paid

(* Mutant of CheckDagDependencies: a job that is merely READY will do. *)
CheckDagDependenciesReady(e) ==
    /\ pc[e] = "deps"
    /\ Continue(e, IF \A d \in Deps[cur[e][1]] : jobStatus[d] \in {"NONE", "READY", "DONE"}
                   THEN "precheck" ELSE "cancel", "none")
    /\ UNCHANGED paid

(* Every dependency that has a row must be DONE. *)
CheckDagDependencies(e) ==
    /\ pc[e] = "deps"
    /\ Continue(e, IF \A d \in Deps[cur[e][1]] : jobStatus[d] \in {"NONE", "DONE"}
                   THEN "precheck" ELSE "cancel", "none")
    /\ UNCHANGED paid

MarkDagCancelled(e) ==
    /\ pc[e] = "cancel"
    /\ runStatus' = [runStatus EXCEPT ![cur[e]] = "FAILED"]
    /\ lock' = [lock EXCEPT ![cur[e]] = "null"]
    /\ jobStatus' = [jobStatus EXCEPT ![cur[e][1]] = "CANCELLED"]
    /\ Finish(e)
    /\ UNCHANGED <<retryAfter, subStatus, failures, keys, dlq>>

(* A stored key for this run skips the call: its payment id is used. *)
FindIdempotencyKey(e) ==
    /\ pc[e] = "precheck"
    /\ IF cur[e] \in keys THEN Continue(e, "settle", "created")
                          ELSE Continue(e, "call", "none")
    /\ UNCHANGED paid

(* Mutant of CreatePayment: an ambiguous answer is taken for a payment. *)
CreatePaymentOptimist(e) ==
    /\ pc[e] = "call"
    /\ \E b \in BunqBehaviour :
        /\ paid' = IF b[1] THEN paid \cup {cur[e]} ELSE paid
        /\ Continue(e, "settle", IF b[2] = "ambiguous" THEN "created" ELSE b[2])

(* The call to bunq under the key sha256(run id : attempt), which bunq     *)
(* executes at most once.  Whatever raises before the request is sent, as  *)
(* the client's construction may, is <<FALSE, "error">>.                   *)
CreatePayment(e) ==
    /\ pc[e] = "call"
    /\ \E b \in BunqBehaviour :
        /\ paid' = IF b[1] THEN paid \cup {cur[e]} ELSE paid
        /\ Continue(e, "settle", b[2])

(* One transaction: the key row is the gate, then run, job and failure     *)
(* counter are written whatever they hold.  A stored key rolls back all.   *)
PersistSuccess(e) ==
    LET r == cur[e] IN
    /\ pc[e] = "settle" /\ answer[e] = "created"
    /\ IF r \in keys THEN UNCHANGED storeVars
       ELSE /\ keys' = keys \cup {r}
            /\ runStatus' = [runStatus EXCEPT ![r] = "SUCCEEDED"]
            /\ lock' = [lock EXCEPT ![r] = "null"]
            /\ jobStatus' = [jobStatus EXCEPT ![r[1]] = "DONE"]
            /\ failures' = [failures EXCEPT ![SubscriptionOf(r)] = 0]
            /\ UNCHANGED <<retryAfter, subStatus, dlq>>
    /\ Finish(e)

(* Mutant of ScheduleRetry: the failed run keeps its status. *)
ScheduleRetryUnfailed(e) ==
    LET r == cur[e] IN
    /\ pc[e] = "settle"
    /\ answer[e] \in Retryable /\ ~IsExhausted(r[2])
    /\ InsertRun(runStatus, NextAttempt(r), "waiting")
    /\ Finish(e)
    /\ UNCHANGED <<lock, jobStatus, subStatus, failures, keys, dlq>>

(* A retryable failure with attempts left: FAILED, and the next attempt    *)
(* with a backoff, in one transaction.  Otherwise the dead letter queue.   *)
ScheduleRetry(e) ==
    LET r == cur[e] IN
    /\ pc[e] = "settle"
    /\ answer[e] \in Retryable /\ ~IsExhausted(r[2])
    /\ InsertRun([runStatus EXCEPT ![r] = "FAILED"], NextAttempt(r), "waiting")
    /\ lock' = [lock EXCEPT ![r] = "null"]
    /\ Finish(e)
    /\ UNCHANGED <<jobStatus, subStatus, failures, keys, dlq>>

GiveUp(e) ==
    LET r == cur[e] IN
    /\ pc[e] = "settle" /\ answer[e] # "created"
    /\ answer[e] \in Retryable => IsExhausted(r[2])
    /\ MoveToDlq(r)
    /\ Finish(e)

-----------------------------------------------------------------------------
(* A database error in any transaction: rolled back, logged, and the loop  *)
(* takes the next id.  The run stays as the last commit left it.           *)
TransactionFails(e) ==
    /\ pc[e] \notin {"idle", "batch", "call"}
    /\ Finish(e)
    /\ UNCHANGED storeVars

(* The process dies and is restarted with nothing in memory. *)
ExecutorCrash(e) ==
    /\ pc[e] # "idle"
    /\ TakeNext(e, {})
    /\ UNCHANGED <<paid, storeVars>>
=============================================================================
