------------------------- MODULE SubscriptionStore -------------------------
(***************************************************************************)
(* The rows of the subscriptions table and the jobs made from them, with   *)
(* the clock that next_fire_at is compared with.                           *)
(*                                                                         *)
(* A cron expression in a time zone is the set of instants at which it     *)
(* fires; nothing is assumed of their distances, so that months, daylight  *)
(* saving and the like are covered.  A row lock is held by a scheduler     *)
(* from its SELECT ... FOR UPDATE to its commit; every other UPDATE of the *)
(* row waits for it, and a plain SELECT does not.                          *)
(***************************************************************************)
EXTENDS Naturals

CONSTANTS
    Subs,            \* subscription ids
    Crons,           \* cron expressions
    Zones,           \* time zone names
    ValidCrons,      \* those croniter accepts today
    ValidZones,      \* those pytz knows
    UTC,
    Occurrences,     \* [ValidCrons \X ValidZones -> SUBSET Nat]
    MaxTime,         \* bound of the model on the clock
    PauseThreshold,  \* CONSECUTIVE_FAILURE_PAUSE_THRESHOLD
    MaxFailures,     \* bound of the model on the failure counter
    Schedulers,      \* scheduler processes
    Unlocked         \* nobody holds the row lock

IsNext(n, fires, t) ==
    n \in fires /\ n > t /\ \A m \in fires : m > t => n <= m

ASSUME SubscriptionAssumption ==
    /\ ValidCrons \subseteq Crons
    /\ ValidZones \subseteq Zones /\ UTC \in ValidZones
    /\ MaxTime \in Nat
    /\ PauseThreshold \in Nat \ {0} /\ MaxFailures \in Nat
    /\ Unlocked \notin Schedulers
    /\ Occurrences \in [ValidCrons \X ValidZones -> SUBSET Nat]
    /\ \A k \in ValidCrons \X ValidZones : \A t \in 0..MaxTime :
           \E n \in Occurrences[k] : IsNext(n, Occurrences[k], t)

VARIABLES
    now,        \* the clock of the database's and the processes' hosts
    status,     \* subscriptions.status, "NONE" where the row does not exist
    cron,       \* subscriptions.cron_expression
    zone,       \* subscriptions.timezone
    nextFire,   \* subscriptions.next_fire_at
    failures,   \* subscriptions.consecutive_failures
    jobs,       \* the number of scheduled_jobs rows of a subscription and window
    rowLock     \* the scheduler whose transaction holds the row lock

rowVars == <<status, cron, zone, nextFire, failures>>
subscriptionVars == <<now, status, cron, zone, nextFire, failures, jobs, rowLock>>

SubscriptionStatus == {"ACTIVE", "PAUSED", "CANCELLED"}
Windows == {0} \cup UNION {Occurrences[k] : k \in ValidCrons \X ValidZones}

Exists(s) == status[s] # "NONE"
Writable(s) == Exists(s) /\ rowLock[s] = Unlocked

(* croniter(cron, now).get_next(): the first occurrence after an instant.  *)
NextOccurrence(c, z, t) ==
    CHOOSE n \in Occurrences[<<c, z>>] : IsNext(n, Occurrences[<<c, z>>], t)

SubscriptionTypeOK ==
    /\ now \in 0..MaxTime
    /\ status \in [Subs -> SubscriptionStatus \cup {"NONE"}]
    /\ cron \in [Subs -> Crons]
    /\ zone \in [Subs -> Zones]
    /\ nextFire \in [Subs -> Windows]
    /\ failures \in [Subs -> Nat]
    /\ jobs \in [Subs -> [Windows -> Nat]]
    /\ rowLock \in [Subs -> Schedulers \cup {Unlocked}]

(* A subscription is not there yet, or is left from a time when its cron   *)
(* expression was still accepted, and due.                                 *)
SubscriptionInit ==
    /\ now = 0
    /\ status \in [Subs -> {"NONE", "ACTIVE"}]
    /\ cron \in [Subs -> Crons]
    /\ \A s \in Subs : status[s] = "ACTIVE" => cron[s] \notin ValidCrons
    /\ \A s \in Subs : status[s] = "NONE" => cron[s] = CHOOSE c \in Crons : TRUE
    /\ zone = [s \in Subs |-> UTC]
    /\ nextFire = [s \in Subs |-> 0]
    /\ failures = [s \in Subs |-> 0]
    /\ jobs = [s \in Subs |-> [w \in Windows |-> 0]]
    /\ rowLock = [s \in Subs |-> Unlocked]

-----------------------------------------------------------------------------
(* Time passes, up to the bound of the model. *)
ClockAdvances ==
    /\ now < MaxTime
    /\ now' = now + 1
    /\ UNCHANGED <<rowVars, jobs, rowLock>>

(* _persist_success of a run of the subscription: the counter is reset,    *)
(* the status stays what it is.                                            *)
RunSucceeds(s) ==
    /\ Writable(s) /\ \E w \in Windows : jobs[s][w] > 0
    /\ failures' = [failures EXCEPT ![s] = 0]
    /\ UNCHANGED <<now, status, cron, zone, nextFire, jobs, rowLock>>

(* _move_to_dlq of a run of the subscription: one more consecutive failure *)
(* and, at the threshold, PAUSED whatever the status is now.               *)
RunDeadLettered(s) ==
    /\ Writable(s) /\ \E w \in Windows : jobs[s][w] > 0
    /\ failures[s] < MaxFailures
    /\ failures' = [failures EXCEPT ![s] = @ + 1]
    /\ status' = IF failures[s] + 1 >= PauseThreshold
                 THEN [status EXCEPT ![s] = "PAUSED"] ELSE status
    /\ UNCHANGED <<now, cron, zone, nextFire, jobs, rowLock>>
=============================================================================
