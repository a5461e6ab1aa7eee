------------------------------ MODULE Recovery ------------------------------
(***************************************************************************)
(* app/workers/recovery.py: RecoveryWorker.                                *)
(*                                                                         *)
(* A tick reads the ids of expired RUNNING runs, claims each with a        *)
(* compare-and-set UPDATE in one transaction, and requeues or dead-letters *)
(* it in a second one; then it cancels jobs whose dependency is dead.      *)
(* Which process may tick is leader election's matter: here any member of  *)
(* Recoverers may, as when a deposed leader finishes a tick it began.      *)
(***************************************************************************)
EXTENDS JobStore, FiniteSets

CONSTANT Recoverers

VARIABLES
    rpc,         \* where each recovery worker is
    candidates,  \* run ids of this tick not yet processed
    claim,       \* the run whose compare-and-set it won, NoRun otherwise
    orphans      \* jobs this tick read and has not evaluated

recoveryVars == <<rpc, candidates, claim, orphans>>

RecoveryTypeOK ==
    /\ rpc \in [Recoverers -> {"idle", "reap", "won", "verify", "dag"}]
    /\ candidates \in [Recoverers -> SUBSET Run]
    /\ claim \in [Recoverers -> Run \cup {NoRun}]
    /\ orphans \in [Recoverers -> SUBSET Jobs]

RecoveryInit ==
    /\ rpc = [w \in Recoverers |-> "idle"]
    /\ candidates = [w \in Recoverers |-> {}]
    /\ claim = [w \in Recoverers |-> NoRun]
    /\ orphans = [w \in Recoverers |-> {}]

-----------------------------------------------------------------------------
(* Mutant of Stuck: the lock's expiry is not compared. *)
StuckIgnoringLock(r) == runStatus[r] = "RUNNING"

Stuck(r) == runStatus[r] = "RUNNING" /\ lock[r] = "expired"

(* Jobs with dependencies are looked at after the reaping, if there are any *)
NoDag == \A j \in Jobs : Deps[j] = {}

(* The runs of this tick are processed: go on with the rest. *)
Reap(w, rest) ==
    /\ candidates' = [candidates EXCEPT ![w] = rest]
    /\ claim' = [claim EXCEPT ![w] = NoRun]
    /\ rpc' = [rpc EXCEPT ![w] = IF rest # {} THEN "reap"
                                 ELSE IF NoDag THEN "idle" ELSE "verify"]
    /\ UNCHANGED orphans

(* SELECT of the stuck ids: a snapshot, no locks. *)
RecoverStuckRuns(w) ==
    LET stuck == {r \in Run : Stuck(r)} IN
    /\ rpc[w] = "idle"
    /\ stuck # {} \/ ~NoDag
    /\ Reap(w, stuck)
    /\ UNCHANGED storeVars

(* Transaction 1: RUNNING and expired becomes FAILED, or another process   *)
(* was first and the id is dropped.                                        *)
ClaimStuckRun(w, r) ==
    /\ rpc[w] = "reap" /\ r \in candidates[w]
    /\ \/ /\ Stuck(r)
          /\ runStatus' = [runStatus EXCEPT ![r] = "FAILED"]
          /\ lock' = [lock EXCEPT ![r] = "null"]
          /\ rpc' = [rpc EXCEPT ![w] = "won"]
          /\ claim' = [claim EXCEPT ![w] = r]
          /\ candidates' = [candidates EXCEPT ![w] = @ \ {r}]
          /\ UNCHANGED <<orphans, retryAfter, jobStatus, subStatus, failures, keys, dlq>>
       \/ /\ ~Stuck(r)
          /\ Reap(w, candidates[w] \ {r})
          /\ UNCHANGED storeVars

(* Mutants of RequeueOrBury: an exhausted run is dropped; the same run is  *)
(* put back to PENDING.                                                    *)
RequeueOnly(w) ==
    LET r == claim[w] IN
    /\ rpc[w] = "won"
    /\ \/ IsExhausted(r[2]) /\ UNCHANGED storeVars
       \/ /\ ~IsExhausted(r[2])
          /\ InsertRun(runStatus, NextAttempt(r), "null")
          /\ UNCHANGED <<lock, jobStatus, subStatus, failures, keys, dlq>>
    /\ Reap(w, candidates[w])

RequeueSameRun(w) ==
    LET r == claim[w] IN
    /\ rpc[w] = "won"
    /\ \/ IsExhausted(r[2]) /\ MoveToDlq(r)
       \/ /\ ~IsExhausted(r[2])
          /\ runStatus' = [runStatus EXCEPT ![r] = "PENDING"]
          /\ UNCHANGED <<lock, retryAfter, jobStatus, subStatus, failures, keys, dlq>>
    /\ Reap(w, candidates[w])

(* Transaction 2: the next attempt at once, or the dead letter queue. The  *)
(* run's status is not looked at again.                                    *)
RequeueOrBury(w) ==
    LET r == claim[w] IN
    /\ rpc[w] = "won"
    /\ \/ /\ IsExhausted(r[2])
          /\ MoveToDlq(r)
       \/ /\ ~IsExhausted(r[2])
          /\ InsertRun(runStatus, NextAttempt(r), "null")
          /\ UNCHANGED <<lock, jobStatus, subStatus, failures, keys, dlq>>
    /\ Reap(w, candidates[w])

(* Still the leader or not; if so, read the jobs that have dependencies.   *)
ReadOrphanedJobs(w) ==
    /\ rpc[w] = "verify"
    /\ \E jobs \in {{}, {j \in Jobs : Deps[j] # {} /\
                                jobStatus[j] \in {"PENDING", "READY", "BLOCKED"}}} :
        /\ orphans' = [orphans EXCEPT ![w] = jobs]
        /\ rpc' = [rpc EXCEPT ![w] = IF jobs = {} THEN "idle" ELSE "dag"]
    /\ UNCHANGED <<candidates, claim, storeVars>>

(* Mutant of DeadRuns: a failed attempt counts, although another follows.  *)
FailedRuns(j) == {r \in Run : r[1] = j /\ runStatus[r] \in {"FAILED", "DEAD"}}

DeadRuns(j) ==
    {r \in Run : r[1] = j /\ runStatus[r] = "DEAD"}

Evaluated(w, rest) ==
    /\ orphans' = [orphans EXCEPT ![w] = rest]
    /\ rpc' = [rpc EXCEPT ![w] = IF rest = {} THEN "idle" ELSE "dag"]
    /\ UNCHANGED <<candidates, claim>>

(* Cancel one job whose dependency has exactly one dead run.  The job's    *)
(* own status is the one read before; it is not looked at again.           *)
CancelOrphan(w, j) ==
    /\ rpc[w] = "dag" /\ j \in orphans[w]
    /\ \E d \in Deps[j] : jobStatus[d] # "NONE" /\ Cardinality(DeadRuns(d)) = 1
    /\ jobStatus' = [jobStatus EXCEPT ![j] = "CANCELLED"]
    /\ runStatus' = [r \in Run |-> IF r[1] = j /\ runStatus[r] = "PENDING"
                                   THEN "FAILED" ELSE runStatus[r]]
    /\ Evaluated(w, orphans[w] \ {j})
    /\ UNCHANGED <<lock, retryAfter, subStatus, failures, keys, dlq>>

KeepJob(w, j) ==
    /\ rpc[w] = "dag" /\ j \in orphans[w]
    /\ \A d \in Deps[j] : DeadRuns(d) = {}
    /\ Evaluated(w, orphans[w] \ {j})
    /\ UNCHANGED storeVars

(* The tick ends early: the process dies, or an exception leaves the tick  *)
(* and BaseWorker.run logs it.                                             *)
Abort(w) ==
    /\ rpc' = [rpc EXCEPT ![w] = "idle"]
    /\ candidates' = [candidates EXCEPT ![w] = {}]
    /\ claim' = [claim EXCEPT ![w] = NoRun]
    /\ orphans' = [orphans EXCEPT ![w] = {}]
    /\ UNCHANGED storeVars

(* scalar_one_or_none() raises when a dependency has two dead runs. *)
EvaluationRaises(w, j) ==
    /\ rpc[w] = "dag" /\ j \in orphans[w]
    /\ \E d \in Deps[j] : Cardinality(DeadRuns(d)) > 1
    /\ Abort(w)

TickAborts(w) == rpc[w] # "idle" /\ Abort(w)
=============================================================================
