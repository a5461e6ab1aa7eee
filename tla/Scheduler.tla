----------------------------- MODULE Scheduler -----------------------------
(***************************************************************************)
(* app/workers/scheduler.py: the tick of a process that believes to be the *)
(* leader.  LeaderElection shows that two processes may believe so at the  *)
(* same time; here any of them may tick at any moment, and a verify that   *)
(* fails is a tick that does not begin or is rolled back.                  *)
(***************************************************************************)
EXTENDS SubscriptionStore

CONSTANT Lookahead    \* SCHEDULER_LOOKAHEAD_S

ASSUME SchedulerAssumption == Lookahead \in Nat

VARIABLES
    tickPc,   \* "idle", "select" after the first verify, "write" with rows locked
    cutoff,   \* lookahead_cutoff
    due       \* the rows the tick's transaction selected, as the SELECT read them

schedulerVars == <<tickPc, cutoff, due>>

(* A function from the ids of the rows to what was read of them. *)
Rows == UNION {[S -> [next : Windows, cron : Crons, zone : Zones]] : S \in SUBSET Subs}
NoRows == [s \in {} |-> Unlocked]
Selected(p) == DOMAIN due[p]

SchedulerTypeOK ==
    /\ tickPc \in [Schedulers -> {"idle", "select", "write"}]
    /\ cutoff \in [Schedulers -> 0..(MaxTime + Lookahead)]
    /\ due \in [Schedulers -> Rows]

SchedulerInit ==
    /\ tickPc = [p \in Schedulers |-> "idle"]
    /\ cutoff = [p \in Schedulers |-> 0]
    /\ due = [p \in Schedulers |-> NoRows]

-----------------------------------------------------------------------------
(* The cutoff is computed and leadership verified before the session opens *)
BeginTick(p) ==
    /\ tickPc[p] = "idle"
    /\ tickPc' = [tickPc EXCEPT ![p] = "select"]
    /\ cutoff' = [cutoff EXCEPT ![p] = now + Lookahead]
    /\ UNCHANGED <<subscriptionVars, due>>

(* What the query finds: ACTIVE, within the cutoff, and locked by nobody.  *)
DueRows(p) ==
    {s \in Subs : status[s] = "ACTIVE" /\ nextFire[s] <= cutoff[p] /\ rowLock[s] = Unlocked}

Read(S) == [s \in S |-> [next |-> nextFire[s], cron |-> cron[s], zone |-> zone[s]]]

(* Mutant of SelectDue: without FOR UPDATE. *)
SelectUnlocked(p) ==
    /\ tickPc[p] = "select"
    /\ due' = [due EXCEPT ![p] = Read(DueRows(p))]
    /\ tickPc' = [tickPc EXCEPT ![p] = IF DueRows(p) = {} THEN "idle" ELSE "write"]
    /\ cutoff' = [cutoff EXCEPT ![p] = 0]
    /\ UNCHANGED <<now, rowVars, jobs, rowLock>>

(* SELECT ... FOR UPDATE SKIP LOCKED; without a row the tick ends. *)
SelectDue(p) ==
    /\ tickPc[p] = "select"
    /\ due' = [due EXCEPT ![p] = Read(DueRows(p))]
    /\ rowLock' = [s \in Subs |-> IF s \in DueRows(p) THEN p ELSE rowLock[s]]
    /\ tickPc' = [tickPc EXCEPT ![p] = IF DueRows(p) = {} THEN "idle" ELSE "write"]
    /\ cutoff' = [cutoff EXCEPT ![p] = 0]
    /\ UNCHANGED <<now, rowVars, jobs>>

(* Mutant of EndTransaction: the session is not closed. *)
LeaveTransactionOpen(p) ==
    /\ tickPc' = [tickPc EXCEPT ![p] = "idle"]
    /\ due' = [due EXCEPT ![p] = NoRows]
    /\ UNCHANGED <<cutoff, rowLock>>

(* The transaction is over: its row locks are gone and so is the tick. *)
EndTransaction(p) ==
    /\ tickPc' = [tickPc EXCEPT ![p] = "idle"]
    /\ due' = [due EXCEPT ![p] = NoRows]
    /\ rowLock' = [s \in Subs |-> IF rowLock[s] = p THEN Unlocked ELSE rowLock[s]]
    /\ UNCHANGED cutoff

(* _next_fire: a zone pytz does not know counts as UTC, and the occurrence *)
(* sought is the first after the present moment, not after next_fire_at.   *)
EffectiveZone(z) == IF z \in ValidZones THEN z ELSE UTC

(* Mutants of NextFireOf: the time zone of the row is ignored; the         *)
(* occurrence is sought after the cutoff.                                  *)
NextFireInUtc(row) == NextOccurrence(row.cron, UTC, now)
NextFireAfterCutoff(row) == NextOccurrence(row.cron, EffectiveZone(row.zone), now + Lookahead)

NextFireOf(row) ==
    NextOccurrence(row.cron, EffectiveZone(row.zone), now)

(* INSERT ... ON CONFLICT (fingerprint) DO NOTHING, with its first run: a  *)
(* job for the window of each row, as the SELECT read it.                  *)
InsertJobs(p) ==
    jobs' = [s \in Subs |->
               IF s \in Selected(p) /\ jobs[s][due[p][s].next] = 0
               THEN [jobs[s] EXCEPT ![due[p][s].next] = 1] ELSE jobs[s]]

(* next_fire_at moves on; an expression that is not accepted any more      *)
(* pauses the subscription instead.  Neither UPDATE looks at the row.      *)
AdvanceRows(p) ==
    /\ nextFire' = [s \in Subs |-> IF s \in Selected(p) /\ due[p][s].cron \in ValidCrons
                                   THEN NextFireOf(due[p][s]) ELSE nextFire[s]]
    /\ status' = [s \in Subs |-> IF s \in Selected(p) /\ due[p][s].cron \notin ValidCrons
                                 THEN "PAUSED" ELSE status[s]]

(* The second verify, a job for each selected row, and the commit. *)
CommitTick(p) ==
    /\ tickPc[p] = "write"
    /\ InsertJobs(p)
    /\ AdvanceRows(p)
    /\ EndTransaction(p)
    /\ UNCHANGED <<now, cron, zone, failures>>

(* The second verify fails, a statement raises, or the process is killed   *)
(* and PostgreSQL aborts its transaction.  (A tick that ends before its    *)
(* SELECT leaves no trace.)                                                *)
RollBack(p) ==
    /\ tickPc[p] = "write"
    /\ EndTransaction(p)
    /\ UNCHANGED <<now, rowVars, jobs>>
=============================================================================
