------------------------- MODULE SubscriptionSystem -------------------------
(***************************************************************************)
(* Schedulers, API requests and the outcomes of runs over one table of     *)
(* subscriptions, with time.                                               *)
(***************************************************************************)
EXTENDS Scheduler, SubscriptionApi

CONSTANT Never    \* no promise about the windows of the subscription

ASSUME NeverAssumption == Never \notin Nat

VARIABLES       \* history: what the properties remember
    closed,     \* subscriptions cancelled by a request and by none made ACTIVE since
    strays,     \* jobs off the schedule since a request last wrote the row
    since,      \* when the row last came to follow its schedule, or Never
    overrun     \* occurrences that came while the row was a whole period late

history == <<closed, strays, since, overrun>>
vars == <<subscriptionVars, schedulerVars, request, history>>

(* The instants at which the subscription, as its row is now, should fire. *)
Fires(s) == IF cron[s] \in ValidCrons THEN Occurrences[<<cron[s], EffectiveZone(zone[s])>>] ELSE {}

(* The row is ACTIVE and next_fire_at passes over no occurrence to come. *)
Follows(s) ==
    /\ status[s] = "ACTIVE"
    /\ nextFire[s] \in Fires(s)
    /\ \A m \in Fires(s) : m > now => m >= nextFire[s]

TypeOK ==
    /\ SubscriptionTypeOK /\ SchedulerTypeOK /\ ApiTypeOK
    /\ closed \in SUBSET Subs
    /\ strays \in [Subs -> Nat]
    /\ since \in [Subs -> Nat \cup {Never}]
    /\ overrun \in [Subs -> SUBSET Windows]

Init ==
    /\ SubscriptionInit /\ SchedulerInit /\ ApiInit
    /\ closed = {}
    /\ strays = [s \in Subs |-> 0]
    /\ since = [s \in Subs |-> Never]
    /\ overrun = [s \in Subs |-> {}]

-----------------------------------------------------------------------------
(* History of a step that passes time: an occurrence comes for which the   *)
(* row has not been made ready, being still at an earlier one.             *)
Overtaken(s) == since[s] # Never /\ now' \in Fires(s) /\ nextFire[s] < now'

TimePasses ==
    /\ ClockAdvances
    /\ overrun' = [s \in Subs |-> overrun[s] \cup IF Overtaken(s) THEN {now'} ELSE {}]
    /\ UNCHANGED <<schedulerVars, request, closed, strays, since>>

(* History of a request's UPDATE. *)
Rewritten(s) == \/ status'[s] # status[s]
                \/ cron'[s] # cron[s] \/ zone'[s] # zone[s] \/ nextFire'[s] # nextFire[s]

RequestWrites ==
    /\ ApiWrite
    /\ closed' = {s \in Subs : \/ status'[s] = "CANCELLED"
                               \/ s \in closed /\ status'[s] # "ACTIVE"}
    /\ strays' = [s \in Subs |-> IF Rewritten(s) THEN 0 ELSE strays[s]]
    /\ since' = [s \in Subs |-> IF ~Follows(s)' THEN Never
                                ELSE IF Rewritten(s) THEN now ELSE since[s]]
    /\ overrun' = [s \in Subs |-> IF Rewritten(s) THEN {} ELSE overrun[s]]
    /\ UNCHANGED schedulerVars

RequestReads ==
    /\ ApiRead \/ \E c \in Clients : RequestFails(c)
    /\ UNCHANGED <<schedulerVars, history>>

(* History of a tick's commit: it may make a job off the row's schedule.   *)
StrayJob(s) == \E w \in Windows \ Fires(s) : jobs'[s][w] # jobs[s][w]

TickCommits(p) ==
    /\ CommitTick(p)
    /\ strays' = [s \in Subs |-> strays[s] + IF StrayJob(s) THEN 1 ELSE 0]
    /\ since' = [s \in Subs |-> IF status'[s] # "ACTIVE" THEN Never
                                ELSE IF s \in Selected(p) /\ since[s] = Never THEN now ELSE since[s]]
    /\ UNCHANGED <<request, closed, overrun>>

TickGoesOn(p) ==
    /\ BeginTick(p) \/ SelectDue(p)
    /\ UNCHANGED <<request, history>>

TickFails(p) ==
    /\ RollBack(p)
    /\ UNCHANGED <<request, history>>

RunEnds ==
    /\ \E s \in Subs : RunSucceeds(s) \/ RunDeadLettered(s)
    /\ since' = [s \in Subs |-> IF status'[s] # "ACTIVE" THEN Never ELSE since[s]]
    /\ UNCHANGED <<schedulerVars, request, closed, strays, overrun>>

Next ==
    \/ TimePasses
    \/ RequestReads
    \/ RequestWrites
    \/ \E p \in Schedulers : TickGoesOn(p) \/ TickCommits(p) \/ TickFails(p)
    \/ RunEnds

Spec == Init /\ [][Next]_vars

(* Each scheduler process goes on ticking, leader or not as it believes,   *)
(* and not all its transactions are rolled back for ever.  Neither         *)
(* requests nor the clock are fair.                                        *)
Fairness ==
    \A p \in Schedulers : WF_vars(TickGoesOn(p)) /\ SF_vars(TickCommits(p))

FairSpec == Spec /\ Fairness

-----------------------------------------------------------------------------
(* Safety *)

(* A next_fire_at that a request left off the schedule, by a PATCH of the  *)
(* time zone alone or by an UPDATE that came after another request's, is   *)
(* followed once: the scheduler's next commit returns to the schedule.     *)
AtMostOneStray ==
    \A s \in Subs : strays[s] <= 1

(* From the moment an ACTIVE row follows its schedule, each occurrence     *)
(* that next_fire_at has passed has a job, unless the row was still at an  *)
(* earlier occurrence when it came.  Ticks, requests and their order lose  *)
(* no other window.                                                        *)
NoWindowLost ==
    \A s \in Subs : since[s] # Never =>
        \A m \in Fires(s) : since[s] < m /\ m < nextFire[s]
                            => jobs[s][m] > 0 \/ m \in overrun[s]

-----------------------------------------------------------------------------
(* What a step may never do *)

(* A job is made for the window, of the row as it is at the commit and of  *)
(* a subscription that is ACTIVE then: nothing a request wrote between the *)
(* tick's SELECT and its commit is passed over.  In particular a cancelled *)
(* subscription gets no job, auto-paused or not, until a request says so.  *)
JobsFollowTheRow ==
    [][\A s \in Subs, w \in Windows : jobs'[s][w] # jobs[s][w] =>
           status[s] = "ACTIVE" /\ w = nextFire[s] /\ s \notin closed]_vars

(* While a row follows its schedule no tick takes next_fire_at back: not   *)
(* although the next occurrence is sought from the present moment, before  *)
(* a window that the lookahead selected, and not by writing what follows   *)
(* from a row that a request has replaced since the SELECT.                *)
TickNeverGoesBack ==
    [][\A p \in Schedulers, s \in Subs : TickCommits(p) /\ since[s] # Never =>
           nextFire'[s] >= nextFire[s]]_vars

(* "Advance next_fire_at to the next cron occurrence": a tick's commit     *)
(* moves each row it selected on, or pauses it.                            *)
TickAdvances ==
    [][\A p \in Schedulers, s \in Subs : TickCommits(p) /\ s \in Selected(p) =>
           nextFire'[s] > nextFire[s] \/ status'[s] = "PAUSED"]_vars

-----------------------------------------------------------------------------
(* Liveness *)

(* A subscription that is due is processed, whoever holds or held its row  *)
(* lock, whatever zone or expression the row has.                          *)
Overdue(s) == status[s] = "ACTIVE" /\ nextFire[s] <= now
DueIsProcessed ==
    \A s \in Subs : Overdue(s) ~> ~Overdue(s)
=============================================================================
