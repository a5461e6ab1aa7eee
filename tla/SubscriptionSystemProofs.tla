---------------------- MODULE SubscriptionSystemProofs ----------------------
(***************************************************************************)
(* Theorems about SubscriptionSystem, for any set of subscriptions,        *)
(* schedulers, concurrent requests, time zones and cron expressions, any   *)
(* occurrences, lookahead and threshold.                                   *)
(***************************************************************************)
EXTENDS SubscriptionSystem, TLAPS

(* The rows a tick selected are its own until it commits, ACTIVE and as    *)
(* the SELECT read them: no request and no run can write them meanwhile.   *)
LockedRows ==
    \A p \in Schedulers : \A s \in Selected(p) :
        /\ rowLock[s] = p /\ status[s] = "ACTIVE"
        /\ due[p][s].next = nextFire[s]
        /\ due[p][s].cron = cron[s] /\ due[p][s].zone = zone[s]

(* Nothing but a request ends a cancellation.                              *)
ClosedIsNotActive == \A s \in closed : status[s] # "ACTIVE"

(* After a job off the schedule the row is back on it, or not ACTIVE until *)
(* a request says so.                                                      *)
StrayReturns ==
    \A s \in Subs : strays[s] > 0 => status[s] # "ACTIVE" \/ nextFire[s] \in Fires(s)

(* An occurrence that came and is not behind next_fire_at was overrun. *)
PassedAreOverrun ==
    \A s \in Subs : since[s] # Never =>
        \A m \in Fires(s) : since[s] < m /\ m <= now /\ nextFire[s] < m => m \in overrun[s]

RowInv == TypeOK /\ LockedRows /\ ClosedIsNotActive

-----------------------------------------------------------------------------
(* The next occurrence exists, is a window, and passes over none. *)
LEMMA NextOccurrenceIs ==
  ASSUME NEW c \in ValidCrons, NEW z \in ValidZones, NEW t \in 0..MaxTime
  PROVE  /\ NextOccurrence(c, z, t) \in Occurrences[<<c, z>>]
         /\ NextOccurrence(c, z, t) \in Windows
         /\ NextOccurrence(c, z, t) > t
         /\ \A m \in Occurrences[<<c, z>>] : m > t => NextOccurrence(c, z, t) <= m
<1>1. <<c, z>> \in ValidCrons \X ValidZones
  OBVIOUS
<1>2. PICK n \in Occurrences[<<c, z>>] : IsNext(n, Occurrences[<<c, z>>], t)
  BY <1>1, SubscriptionAssumption
<1>3. /\ NextOccurrence(c, z, t) \in Occurrences[<<c, z>>]
      /\ IsNext(NextOccurrence(c, z, t), Occurrences[<<c, z>>], t)
  BY <1>2 DEF NextOccurrence
<1>4. Occurrences[<<c, z>>] \subseteq Windows
  BY <1>1 DEF Windows
<1>5. QED
  BY <1>3, <1>4 DEF IsNext

LEMMA WindowsAreTimes == Windows \subseteq Nat
  BY SubscriptionAssumption DEF Windows

LEMMA ZoneIsValid ==
  ASSUME NEW z PROVE EffectiveZone(z) \in ValidZones
  BY SubscriptionAssumption DEF EffectiveZone

-----------------------------------------------------------------------------
(* What a tick has read *)

LEMMA RowsParts ==
  ASSUME NEW rows \in Rows
  PROVE  /\ DOMAIN rows \subseteq Subs
         /\ \A s \in DOMAIN rows : rows[s].next \in Windows
<1>1. PICK S \in SUBSET Subs : rows \in [S -> [next : Windows, cron : Crons, zone : Zones]]
  BY DEF Rows
<1>2. QED
  BY <1>1

LEMMA ReadIsRows ==
  ASSUME TypeOK, NEW S \in SUBSET Subs
  PROVE  Read(S) \in Rows /\ DOMAIN Read(S) = S
<1>1. Read(S) \in [S -> [next : Windows, cron : Crons, zone : Zones]]
  BY DEF Read, TypeOK, SubscriptionTypeOK
<1>2. QED
  BY <1>1 DEF Rows

LEMMA SelectedAreSubs ==
  ASSUME TypeOK, NEW p \in Schedulers
  PROVE  Selected(p) \subseteq Subs /\ \A s \in Selected(p) : due[p][s].next \in Windows
<1>1. due[p] \in Rows
  BY DEF TypeOK, SchedulerTypeOK
<1>2. QED
  BY <1>1, RowsParts DEF Selected

LEMMA NoRowsIsRows == NoRows \in Rows /\ DOMAIN NoRows = {}
<1>1. NoRows \in [{} -> [next : Windows, cron : Crons, zone : Zones]]
  BY DEF NoRows
<1>2. {} \in SUBSET Subs
  OBVIOUS
<1>3. QED
  BY <1>1, <1>2 DEF Rows

(* The rows of one tick are replaced, those of the others stay. *)
LEMMA SelectedStep ==
  ASSUME TypeOK, NEW p \in Schedulers, NEW rows, due' = [due EXCEPT ![p] = rows]
  PROVE  /\ Selected(p)' = DOMAIN rows /\ due'[p] = rows
         /\ \A q \in Schedulers \ {p} : Selected(q)' = Selected(q) /\ due'[q] = due[q]
<1>1. due'[p] = rows /\ \A q \in Schedulers \ {p} : due'[q] = due[q]
  BY DEF TypeOK, SchedulerTypeOK
<1>2. QED
  BY <1>1 DEF Selected

LEMMA SelectedKept ==
  ASSUME UNCHANGED due, NEW p \in Schedulers
  PROVE  Selected(p)' = Selected(p)
  BY DEF Selected

-----------------------------------------------------------------------------
(* Types *)

LEMMA InitType == Init => TypeOK
  BY SubscriptionAssumption, SchedulerAssumption, NoRowsIsRows
  DEF Init, SubscriptionInit, SchedulerInit, ApiInit, TypeOK, SubscriptionTypeOK,
      SchedulerTypeOK, ApiTypeOK, SubscriptionStatus, Windows

LEMMA RequestType ==
  ASSUME TypeOK, ApiWrite
  PROVE  SubscriptionTypeOK' /\ ApiTypeOK'
<1> USE DEF TypeOK, SubscriptionTypeOK, ApiTypeOK, SubscriptionStatus
<1> USE SubscriptionAssumption, ApiAssumption
<1>1. ASSUME NEW s \in Subs, DeleteSubscription(s) PROVE SubscriptionTypeOK' /\ ApiTypeOK'
  BY <1>1 DEF DeleteSubscription
<1>2. ASSUME NEW s \in Subs, NEW b \in Bodies, PatchFields(s, b)
      PROVE  SubscriptionTypeOK' /\ ApiTypeOK'
  BY <1>2 DEF PatchFields, WriteBody, Given, AcceptedBodies
<1>3. ASSUME NEW s \in Subs, NEW c \in ValidCrons, NEW z \in ValidZones, CreateSubscription(s, c, z)
      PROVE  SubscriptionTypeOK' /\ ApiTypeOK'
  BY <1>3, NextOccurrenceIs DEF CreateSubscription
<1>4. ASSUME NEW c \in Clients, PatchWrite(c) PROVE SubscriptionTypeOK' /\ ApiTypeOK'
  <2>1. request[c] \in Request
    BY <1>4 DEF PatchWrite
  <2>2. /\ request[c].sub \in Subs /\ request[c].next \in Windows
        /\ request[c].body \in AcceptedBodies
    BY <2>1 DEF Request, Nothing, AcceptedBodies
  <2>3. QED
    BY <1>4, <2>2 DEF PatchWrite, WriteBody, Given, AcceptedBodies
<1>5. ASSUME NEW c \in Clients, ResumeWrite(c) PROVE SubscriptionTypeOK' /\ ApiTypeOK'
  <2>1. request[c].sub \in Subs /\ request[c].next \in Windows
    BY <1>5 DEF ResumeWrite, Request
  <2>2. QED
    BY <1>5, <2>1 DEF ResumeWrite
<1>6. QED
  BY <1>1, <1>2, <1>3, <1>4, <1>5 DEF ApiWrite

LEMMA TypeStep ==
  ASSUME TypeOK, [Next]_vars
  PROVE  TypeOK'
<1> USE DEF TypeOK, SubscriptionTypeOK, SchedulerTypeOK, ApiTypeOK
<1>1. CASE TimePasses
  <2>1. \A s \in Subs : Overtaken(s) => now' \in Windows
    BY <1>1, SubscriptionAssumption, ZoneIsValid DEF TimePasses, Overtaken, Fires, Windows
  <2>2. QED
    BY <1>1, <2>1, SubscriptionAssumption DEF TimePasses, ClockAdvances, rowVars, schedulerVars
<1>2. CASE RequestReads
  <2>1. ASSUME NEW c \in Clients, NEW s \in Subs, ResumeRead(c, s) PROVE TypeOK'
    BY <1>2, <2>1, NextOccurrenceIs DEF RequestReads, ResumeRead, Request, subscriptionVars, schedulerVars, history
  <2>2. ASSUME NEW c \in Clients, NEW s \in Subs, NEW b \in Bodies, PatchRead(c, s, b) PROVE TypeOK'
    <3>1. b.cron \in ValidCrons
      BY <2>2, ApiAssumption DEF PatchRead, AcceptedBodies
    <3> DEFINE z == Given(b.zone, zone[s])
               r == [sub |-> s, op |-> "patch", body |-> b, next |-> NextOccurrence(b.cron, z, now)]
    <3>2. z \in ValidZones /\ request' = [request EXCEPT ![c] = r] /\ UNCHANGED subscriptionVars
      BY <2>2 DEF PatchRead
    <3>3. NextOccurrence(b.cron, z, now) \in Windows
      BY <3>1, <3>2, NextOccurrenceIs
    <3>4. r \in Request
      BY <3>3 DEF Request
    <3> HIDE DEF r
    <3>5. ApiTypeOK'
      BY <3>2, <3>4
    <3>6. QED
      BY <1>2, <3>2, <3>5 DEF RequestReads, subscriptionVars, schedulerVars, history
  <2>3. ASSUME NEW c \in Clients, RequestFails(c) PROVE TypeOK'
    BY <1>2, <2>3 DEF RequestReads, RequestFails, subscriptionVars, schedulerVars, history
  <2>4. QED
    BY <1>2, <2>1, <2>2, <2>3 DEF RequestReads, ApiRead
<1>3. CASE RequestWrites
  <2>1. SubscriptionTypeOK' /\ ApiTypeOK'
    BY <1>3, RequestType DEF RequestWrites
  <2>2. QED
    BY <1>3, <2>1 DEF RequestWrites, schedulerVars
<1>4. ASSUME NEW p \in Schedulers, TickGoesOn(p) PROVE TypeOK'
  <2>1. CASE BeginTick(p)
    BY <1>4, <2>1, SubscriptionAssumption, SchedulerAssumption
    DEF TickGoesOn, BeginTick, subscriptionVars, history
  <2>2. CASE SelectDue(p)
    <3>1. Read(DueRows(p)) \in Rows
      BY ReadIsRows DEF DueRows
    <3>2. QED
      BY <1>4, <2>2, <3>1, SubscriptionAssumption, SchedulerAssumption
      DEF TickGoesOn, SelectDue, rowVars, history
  <2>3. QED
    BY <1>4, <2>1, <2>2 DEF TickGoesOn
<1>5. ASSUME NEW p \in Schedulers, TickCommits(p) PROVE TypeOK'
  <2>1. \A s \in Selected(p) : due[p][s].cron \in ValidCrons => NextFireOf(due[p][s]) \in Windows
    BY NextOccurrenceIs, ZoneIsValid DEF NextFireOf
  <2>2. jobs' \in [Subs -> [Windows -> Nat]]
    BY <1>5, SelectedAreSubs DEF TickCommits, CommitTick, InsertJobs
  <2>3. nextFire' \in [Subs -> Windows] /\ status' \in [Subs -> SubscriptionStatus \cup {"NONE"}]
    BY <1>5, <2>1 DEF TickCommits, CommitTick, AdvanceRows, SubscriptionStatus
  <2>4. since' \in [Subs -> Nat \cup {Never}] /\ strays' \in [Subs -> Nat]
    BY <1>5, SubscriptionAssumption DEF TickCommits
  <2>5. QED
    BY <1>5, <2>2, <2>3, <2>4, NoRowsIsRows DEF TickCommits, CommitTick, EndTransaction
<1>6. ASSUME NEW p \in Schedulers, TickFails(p) PROVE TypeOK'
  BY <1>6, NoRowsIsRows DEF TickFails, RollBack, EndTransaction, rowVars, history
<1>7. CASE RunEnds
  <2>1. ASSUME NEW s \in Subs, RunSucceeds(s) PROVE TypeOK'
    BY <1>7, <2>1 DEF RunEnds, RunSucceeds, schedulerVars
  <2>2. ASSUME NEW s \in Subs, RunDeadLettered(s) PROVE TypeOK'
    BY <1>7, <2>2 DEF RunEnds, RunDeadLettered, schedulerVars, SubscriptionStatus
  <2>3. QED
    BY <1>7, <2>1, <2>2 DEF RunEnds
<1>8. CASE UNCHANGED vars
  BY <1>8 DEF vars, subscriptionVars, schedulerVars, history
<1>9. QED
  BY <1>1, <1>2, <1>3, <1>4, <1>5, <1>6, <1>7, <1>8 DEF Next

(* The rows, the requests and the ticks stay within their types; in        *)
(* particular next_fire_at is always an occurrence of some schedule.       *)
THEOREM SubscriptionsTypeCorrect == Spec => []TypeOK
  BY InitType, TypeStep, PTL DEF Spec

-----------------------------------------------------------------------------
(* What steps do to rows and jobs *)

(* A step that is neither a request's UPDATE nor a tick's commit moves no  *)
(* row along its schedule and makes no job; it may pause a subscription.   *)
LEMMA QuietStep ==
  ASSUME TypeOK, [Next]_vars, ~RequestWrites, \A p \in Schedulers : ~TickCommits(p)
  PROVE  /\ UNCHANGED <<cron, zone, nextFire, jobs, strays, closed>>
         /\ \A s \in Subs : \/ status'[s] = status[s]
                            \/ status'[s] = "PAUSED" /\ status[s] # "NONE"
         /\ \A s \in Subs : since'[s] = since[s] \/ since'[s] = Never
<1> USE DEF TypeOK, SubscriptionTypeOK
<1>1. CASE TimePasses
  BY <1>1 DEF TimePasses, ClockAdvances, rowVars
<1>2. CASE RequestReads
  BY <1>2 DEF RequestReads, ApiRead, ResumeRead, PatchRead, RequestFails, subscriptionVars, history
<1>3. ASSUME NEW p \in Schedulers, TickGoesOn(p) \/ TickFails(p)
      PROVE UNCHANGED <<cron, zone, nextFire, jobs, strays, closed, status, since>>
  BY <1>3 DEF TickGoesOn, TickFails, BeginTick, SelectDue, RollBack, subscriptionVars, rowVars, history
<1>4. ASSUME NEW s \in Subs, RunSucceeds(s) \/ RunDeadLettered(s)
      PROVE  /\ UNCHANGED <<cron, zone, nextFire, jobs>>
             /\ \A r \in Subs : \/ status'[r] = status[r]
                                \/ status'[r] = "PAUSED" /\ status[r] # "NONE"
  BY <1>4 DEF RunSucceeds, RunDeadLettered, Writable, Exists
<1>5. CASE RunEnds
  <2>1. UNCHANGED <<strays, closed>> /\ \A s \in Subs : since'[s] = since[s] \/ since'[s] = Never
    BY <1>5 DEF RunEnds
  <2>2. QED
    BY <1>4, <1>5, <2>1 DEF RunEnds
<1>6. CASE UNCHANGED vars
  BY <1>6 DEF vars, subscriptionVars, history
<1>7. QED
  BY <1>1, <1>2, <1>3, <1>5, <1>6 DEF Next

(* A request's UPDATE makes no job, takes no time, and leaves alone the    *)
(* rows that are locked.                                                   *)
LEMMA RequestStep ==
  ASSUME TypeOK, ApiWrite
  PROVE  /\ UNCHANGED <<now, jobs, rowLock>>
         /\ \A s \in Subs :
               \/ /\ status'[s] = status[s] /\ nextFire'[s] = nextFire[s]
                  /\ cron'[s] = cron[s] /\ zone'[s] = zone[s]
               \/ ~Exists(s) \/ Writable(s)
<1> USE DEF TypeOK, SubscriptionTypeOK, ApiTypeOK, Exists, Writable
<1> USE SubscriptionAssumption, ApiAssumption
<1> DEFINE Goal ==
         /\ UNCHANGED <<now, jobs, rowLock>>
         /\ \A s \in Subs :
               \/ /\ status'[s] = status[s] /\ nextFire'[s] = nextFire[s]
                  /\ cron'[s] = cron[s] /\ zone'[s] = zone[s]
               \/ ~Exists(s) \/ Writable(s)
<1>1. ASSUME NEW s \in Subs, DeleteSubscription(s) PROVE Goal
  BY <1>1 DEF DeleteSubscription
<1>2. ASSUME NEW s \in Subs, NEW b \in Bodies, PatchFields(s, b) PROVE Goal
  BY <1>2 DEF PatchFields, WriteBody, Given, AcceptedBodies, SubscriptionStatus
<1>3. ASSUME NEW s \in Subs, NEW c \in ValidCrons, NEW z \in ValidZones, CreateSubscription(s, c, z)
      PROVE  Goal
  BY <1>3 DEF CreateSubscription
<1>4. ASSUME NEW c \in Clients, PatchWrite(c) PROVE Goal
  <2>1. request[c] \in Request
    BY <1>4 DEF PatchWrite
  <2>2. request[c].sub \in Subs /\ request[c].body \in AcceptedBodies
    BY <2>1 DEF Request, Nothing, AcceptedBodies
  <2>3. QED
    BY <1>4, <2>2 DEF PatchWrite, WriteBody, Given, AcceptedBodies, SubscriptionStatus
<1>5. ASSUME NEW c \in Clients, ResumeWrite(c) PROVE Goal
  <2>1. request[c].sub \in Subs
    BY <1>5 DEF ResumeWrite, Request
  <2>2. QED
    BY <1>5, <2>1 DEF ResumeWrite
<1>6. QED
  BY <1>1, <1>2, <1>3, <1>4, <1>5 DEF ApiWrite

LEMMA InitRows == Init => RowInv
<1> SUFFICES ASSUME Init PROVE RowInv
  OBVIOUS
<1>1. \A p \in Schedulers : Selected(p) = {}
  BY NoRowsIsRows DEF Init, SchedulerInit, Selected
<1>2. QED
  BY <1>1, InitType DEF Init, RowInv, LockedRows, ClosedIsNotActive

(* A step that selects nothing and leaves the locked rows alone. *)
LEMMA LockedKept ==
  ASSUME TypeOK, LockedRows, UNCHANGED due,
         \A s \in Subs : rowLock[s] # Unlocked /\ status[s] = "ACTIVE" =>
             /\ rowLock'[s] = rowLock[s] /\ status'[s] = status[s]
             /\ nextFire'[s] = nextFire[s] /\ cron'[s] = cron[s] /\ zone'[s] = zone[s]
  PROVE  LockedRows'
<1> SUFFICES ASSUME NEW p \in Schedulers, NEW s \in Selected(p)'
             PROVE  /\ rowLock'[s] = p /\ status'[s] = "ACTIVE"
                    /\ due'[p][s].next = nextFire'[s]
                    /\ due'[p][s].cron = cron'[s] /\ due'[p][s].zone = zone'[s]
  BY DEF LockedRows
<1>1. s \in Selected(p) /\ s \in Subs
  BY SelectedKept, SelectedAreSubs
<1>2. /\ rowLock[s] = p /\ status[s] = "ACTIVE"
      /\ due[p][s].next = nextFire[s] /\ due[p][s].cron = cron[s] /\ due[p][s].zone = zone[s]
  BY <1>1 DEF LockedRows
<1>3. QED
  BY <1>1, <1>2, SubscriptionAssumption

(* A step that ends one tick and leaves the rows of the others alone. *)
LEMMA LockedEnds ==
  ASSUME TypeOK, LockedRows, NEW p \in Schedulers, due' = [due EXCEPT ![p] = NoRows],
         UNCHANGED <<cron, zone>>,
         \A s \in Subs \ Selected(p) : /\ rowLock[s] # p => rowLock'[s] = rowLock[s]
                                       /\ status'[s] = status[s] /\ nextFire'[s] = nextFire[s]
  PROVE  LockedRows'
<1> SUFFICES ASSUME NEW q \in Schedulers, NEW s \in Selected(q)'
             PROVE  /\ rowLock'[s] = q /\ status'[s] = "ACTIVE"
                    /\ due'[q][s].next = nextFire'[s]
                    /\ due'[q][s].cron = cron'[s] /\ due'[q][s].zone = zone'[s]
  BY DEF LockedRows
<1>1. q # p /\ s \in Selected(q) /\ due'[q] = due[q]
  <2>1. /\ Selected(p)' = DOMAIN NoRows
        /\ \A o \in Schedulers \ {p} : Selected(o)' = Selected(o) /\ due'[o] = due[o]
    BY SelectedStep
  <2>2. q # p
    BY <2>1, NoRowsIsRows
  <2>. QED  BY <2>1, <2>2
<1>2. s \in Subs
  BY <1>1, SelectedAreSubs
<1>3. /\ rowLock[s] = q /\ status[s] = "ACTIVE"
      /\ due[q][s].next = nextFire[s] /\ due[q][s].cron = cron[s] /\ due[q][s].zone = zone[s]
  BY <1>1 DEF LockedRows
<1>4. s \notin Selected(p)
  BY <1>1, <1>3 DEF LockedRows
<1>5. QED
  BY <1>1, <1>2, <1>3, <1>4

LEMMA RowStep ==
  ASSUME RowInv, [Next]_vars
  PROVE  RowInv'
<1>t. TypeOK /\ LockedRows /\ ClosedIsNotActive /\ closed \in SUBSET Subs
  BY DEF RowInv, TypeOK
<1> DEFINE Goal == LockedRows' /\ ClosedIsNotActive'
<1> SUFFICES Goal
  BY TypeStep DEF RowInv
<1>1. CASE TimePasses
  BY <1>1, <1>t, LockedKept DEF TimePasses, ClockAdvances, rowVars, schedulerVars, ClosedIsNotActive
<1>2. CASE RequestReads
  BY <1>2, <1>t, LockedKept DEF RequestReads, ApiRead, ResumeRead, PatchRead, RequestFails,
     subscriptionVars, schedulerVars, history, ClosedIsNotActive
<1>3. CASE RequestWrites
  <2>1. LockedRows'
    BY <1>3, <1>t, RequestStep, LockedKept DEF RequestWrites, schedulerVars, Exists, Writable
  <2>2. ClosedIsNotActive'
    BY <1>3 DEF RequestWrites, ClosedIsNotActive
  <2>3. QED
    BY <2>1, <2>2
<1>4. ASSUME NEW p \in Schedulers, TickGoesOn(p) PROVE Goal
  <2>1. CASE BeginTick(p)
    BY <1>4, <1>t, <2>1, LockedKept
    DEF TickGoesOn, BeginTick, subscriptionVars, history, ClosedIsNotActive
  <2>2. CASE SelectDue(p)
    <3>1. /\ due' = [due EXCEPT ![p] = Read(DueRows(p))]
          /\ rowLock' = [s \in Subs |-> IF s \in DueRows(p) THEN p ELSE rowLock[s]]
          /\ UNCHANGED <<status, cron, zone, nextFire, closed>>
      BY <1>4, <2>2 DEF TickGoesOn, SelectDue, rowVars, history
    <3>2. DOMAIN Read(DueRows(p)) = DueRows(p) /\ DueRows(p) \subseteq Subs
      BY <1>t, ReadIsRows DEF DueRows
    <3>3. \A s \in DueRows(p) : /\ rowLock[s] = Unlocked /\ status[s] = "ACTIVE"
                                /\ Read(DueRows(p))[s].next = nextFire[s]
                                /\ Read(DueRows(p))[s].cron = cron[s]
                                /\ Read(DueRows(p))[s].zone = zone[s]
      BY DEF DueRows, Read
    <3>4. /\ Selected(p)' = DueRows(p) /\ due'[p] = Read(DueRows(p))
          /\ \A q \in Schedulers \ {p} : Selected(q)' = Selected(q) /\ due'[q] = due[q]
      BY <1>t, <3>1, <3>2, SelectedStep
    <3>5. ASSUME NEW q \in Schedulers, NEW s \in Selected(q)'
          PROVE  /\ rowLock'[s] = q /\ status'[s] = "ACTIVE"
                 /\ due'[q][s].next = nextFire'[s]
                 /\ due'[q][s].cron = cron'[s] /\ due'[q][s].zone = zone'[s]
      <4>1. CASE q = p
        BY <3>1, <3>2, <3>3, <3>4, <3>5, <4>1
      <4>2. CASE q # p
        <5>1. s \in Selected(q) /\ s \in Subs /\ due'[q] = due[q]
          BY <1>t, <3>4, <3>5, <4>2, SelectedAreSubs
        <5>2. /\ rowLock[s] = q /\ status[s] = "ACTIVE" /\ due[q][s].next = nextFire[s]
              /\ due[q][s].cron = cron[s] /\ due[q][s].zone = zone[s]
          BY <1>t, <5>1 DEF LockedRows
        <5>3. s \notin DueRows(p)
          BY <3>3, <5>2, SubscriptionAssumption
        <5>4. QED
          BY <3>1, <5>1, <5>2, <5>3
      <4>3. QED
        BY <4>1, <4>2
    <3>6. QED
      BY <1>t, <3>1, <3>5 DEF LockedRows, ClosedIsNotActive
  <2>3. QED
    BY <1>4, <2>1, <2>2 DEF TickGoesOn
<1>5. ASSUME NEW p \in Schedulers, TickCommits(p) PROVE Goal
  <2>1. /\ due' = [due EXCEPT ![p] = NoRows] /\ UNCHANGED <<cron, zone, closed>>
        /\ \A s \in Subs : rowLock[s] # p => rowLock'[s] = rowLock[s]
    BY <1>5 DEF TickCommits, CommitTick, EndTransaction
  <2>2. \A s \in Subs : /\ s \notin Selected(p) => status'[s] = status[s] /\ nextFire'[s] = nextFire[s]
                        /\ status'[s] = status[s] \/ status'[s] = "PAUSED"
    BY <1>5 DEF TickCommits, CommitTick, AdvanceRows
  <2>3. LockedRows'
    BY <1>t, <2>1, <2>2, LockedEnds
  <2>4. QED
    BY <1>t, <2>1, <2>2, <2>3 DEF ClosedIsNotActive
<1>6. ASSUME NEW p \in Schedulers, TickFails(p) PROVE Goal
  <2>1. /\ due' = [due EXCEPT ![p] = NoRows] /\ UNCHANGED <<status, cron, zone, nextFire, closed>>
        /\ \A s \in Subs : rowLock[s] # p => rowLock'[s] = rowLock[s]
    BY <1>6 DEF TickFails, RollBack, EndTransaction, rowVars, history
  <2>2. LockedRows'
    BY <1>t, <2>1, LockedEnds
  <2>3. QED
    BY <1>t, <2>1, <2>2 DEF ClosedIsNotActive
<1>7. CASE RunEnds
  <2>1. UNCHANGED <<due, closed>>
    BY <1>7 DEF RunEnds, schedulerVars
  <2>2. ASSUME NEW s \in Subs, RunSucceeds(s) \/ RunDeadLettered(s)
        PROVE  /\ UNCHANGED <<cron, zone, nextFire, rowLock>>
               /\ \A r \in Subs : \/ status'[r] = status[r]
                                  \/ status'[r] = "PAUSED" /\ rowLock[r] = Unlocked
    BY <1>t, <2>2 DEF TypeOK, SubscriptionTypeOK, RunSucceeds, RunDeadLettered, Writable
  <2>3. LockedRows' /\ ClosedIsNotActive'
    BY <1>7, <1>t, <2>1, <2>2, LockedKept DEF RunEnds, ClosedIsNotActive
  <2>4. QED
    BY <2>3
<1>8. CASE UNCHANGED vars
  BY <1>8, <1>t, LockedKept DEF vars, subscriptionVars, schedulerVars, history, ClosedIsNotActive
<1>9. QED
  BY <1>1, <1>2, <1>3, <1>4, <1>5, <1>6, <1>7, <1>8 DEF Next

LEMMA RowInvariance == Spec => []RowInv
  BY InitRows, RowStep, PTL DEF Spec

-----------------------------------------------------------------------------
(* Schedules *)

LEMMA FiresKept ==
  ASSUME NEW s \in Subs, cron'[s] = cron[s], zone'[s] = zone[s]
  PROVE  Fires(s)' = Fires(s)
  BY DEF Fires, EffectiveZone

(* A commit puts the rows it selected at their next occurrence, or pauses. *)
LEMMA CommitStep ==
  ASSUME RowInv, NEW p \in Schedulers, TickCommits(p), NEW s \in Subs
  PROVE  /\ cron' = cron /\ zone' = zone /\ now' = now
         /\ Fires(s)' = Fires(s) /\ Fires(s) \subseteq Windows
         /\ s \notin Selected(p) => /\ status'[s] = status[s] /\ nextFire'[s] = nextFire[s]
                               /\ jobs'[s] = jobs[s]
         /\ s \in Selected(p) /\ cron[s] \notin ValidCrons => status'[s] = "PAUSED"
         /\ s \in Selected(p) /\ cron[s] \in ValidCrons =>
               /\ nextFire'[s] \in Fires(s) /\ nextFire'[s] > now
               /\ \A m \in Fires(s) : m > now => nextFire'[s] <= m
               /\ jobs'[s][nextFire[s]] > 0
         /\ \A w \in Windows : jobs[s][w] > 0 => jobs'[s][w] > 0
         /\ \A w \in Windows : jobs'[s][w] # jobs[s][w] => s \in Selected(p) /\ w = nextFire[s]
<1> USE DEF RowInv, TypeOK, SubscriptionTypeOK, SchedulerTypeOK
<1>0. s \in Selected(p) => /\ due[p][s].next = nextFire[s]
                             /\ due[p][s].cron = cron[s] /\ due[p][s].zone = zone[s]
  BY DEF LockedRows
<1>1. cron' = cron /\ zone' = zone /\ now' = now
  BY DEF TickCommits, CommitTick
<1>2. Fires(s)' = Fires(s)
  BY <1>1, FiresKept
<1>3. Fires(s) \subseteq Windows
  BY ZoneIsValid DEF Fires, Windows
<1>4. s \notin Selected(p) => status'[s] = status[s] /\ nextFire'[s] = nextFire[s] /\ jobs'[s] = jobs[s]
  BY DEF TickCommits, CommitTick, AdvanceRows, InsertJobs
<1>5. s \in Selected(p) /\ cron[s] \notin ValidCrons => status'[s] = "PAUSED"
  BY <1>0 DEF TickCommits, CommitTick, AdvanceRows
<1>6. ASSUME s \in Selected(p), cron[s] \in ValidCrons
      PROVE  /\ nextFire'[s] \in Fires(s) /\ nextFire'[s] > now
             /\ \A m \in Fires(s) : m > now => nextFire'[s] <= m
  <2>1. nextFire'[s] = NextOccurrence(cron[s], EffectiveZone(zone[s]), now)
    BY <1>0, <1>6 DEF TickCommits, CommitTick, AdvanceRows, NextFireOf
  <2>2. Fires(s) = Occurrences[<<cron[s], EffectiveZone(zone[s])>>]
    BY <1>6 DEF Fires
  <2>3. QED
    BY <1>6, <2>1, <2>2, NextOccurrenceIs, ZoneIsValid
<1>7. /\ \A w \in Windows : jobs[s][w] > 0 => jobs'[s][w] > 0
      /\ \A w \in Windows : jobs'[s][w] # jobs[s][w] => s \in Selected(p) /\ w = nextFire[s]
      /\ s \in Selected(p) => jobs'[s][nextFire[s]] > 0
  BY <1>0 DEF TickCommits, CommitTick, InsertJobs
<1>8. QED
  BY <1>1, <1>2, <1>3, <1>4, <1>5, <1>6, <1>7

(* A job is made for the row as it is at the commit, of a subscription     *)
(* that is ACTIVE and not cancelled: the row lock keeps requests out.      *)
THEOREM JobsFollowRows == Spec => JobsFollowTheRow
<1> DEFINE Made == \A s \in Subs, w \in Windows : jobs'[s][w] # jobs[s][w] =>
                      status[s] = "ACTIVE" /\ w = nextFire[s] /\ s \notin closed
<1>1. RowInv /\ [Next]_vars => [Made]_vars
  <2> SUFFICES ASSUME RowInv, [Next]_vars PROVE Made
    OBVIOUS
  <2> USE DEF RowInv
  <2>1. CASE RequestWrites
    BY <2>1, RequestStep DEF RequestWrites
  <2>2. ASSUME NEW p \in Schedulers, TickCommits(p) PROVE Made
    BY <2>2, CommitStep DEF LockedRows, ClosedIsNotActive
  <2>3. CASE ~RequestWrites /\ \A p \in Schedulers : ~TickCommits(p)
    BY <2>3, QuietStep
  <2>4. QED
    BY <2>1, <2>2, <2>3
<1>2. QED
  BY <1>1, RowInvariance, PTL DEF Spec, JobsFollowTheRow

LEMMA StrayStep ==
  ASSUME RowInv, AtMostOneStray, StrayReturns, [Next]_vars
  PROVE  AtMostOneStray' /\ StrayReturns'
<1> USE DEF AtMostOneStray, StrayReturns
<1>1. CASE RequestWrites
  <2>1. ASSUME NEW s \in Subs, ~Rewritten(s)
        PROVE  /\ strays'[s] = strays[s] /\ Fires(s)' = Fires(s)
               /\ status'[s] = status[s] /\ nextFire'[s] = nextFire[s]
    BY <1>1, <2>1, FiresKept DEF RequestWrites, Rewritten
  <2>2. ASSUME NEW s \in Subs, Rewritten(s) PROVE strays'[s] = 0
    BY <1>1, <2>2 DEF RequestWrites
  <2>3. QED
    BY <2>1, <2>2
<1>2. ASSUME NEW p \in Schedulers, TickCommits(p) PROVE AtMostOneStray' /\ StrayReturns'
  <2> SUFFICES ASSUME NEW s \in Subs
               PROVE  /\ strays'[s] <= 1
                      /\ strays'[s] > 0 => status'[s] # "ACTIVE" \/ nextFire'[s] \in Fires(s)'
    OBVIOUS
  <2>1. /\ strays[s] \in Nat
        /\ strays'[s] = strays[s] + IF StrayJob(s) THEN 1 ELSE 0
        /\ StrayJob(s) => nextFire[s] \notin Fires(s)
    BY <1>2, CommitStep DEF TickCommits, StrayJob, RowInv, TypeOK
  <2>2. CASE s \in Selected(p)
    BY <1>2, <2>1, <2>2, CommitStep DEF RowInv, LockedRows
  <2>3. CASE s \notin Selected(p)
    BY <1>2, <2>1, <2>3, CommitStep DEF StrayJob
  <2>4. QED
    BY <2>2, <2>3
<1>3. CASE ~RequestWrites /\ \A p \in Schedulers : ~TickCommits(p)
  <2>1. TypeOK
    BY DEF RowInv
  <2>2. /\ UNCHANGED <<cron, zone, nextFire, strays>>
        /\ \A s \in Subs : status'[s] = status[s] \/ status'[s] = "PAUSED"
    BY <1>3, <2>1, QuietStep
  <2>3. \A s \in Subs : Fires(s)' = Fires(s)
    BY <2>2, FiresKept
  <2>4. QED
    BY <2>2, <2>3
<1>4. QED
  BY <1>1, <1>2, <1>3

(* A next_fire_at that requests left off the schedule is followed once.    *)
THEOREM StraysAreFollowedOnce == Spec => []AtMostOneStray
<1>1. Init => AtMostOneStray /\ StrayReturns
  BY DEF Init, AtMostOneStray, StrayReturns
<1>2. QED
  BY <1>1, StrayStep, RowInvariance, PTL DEF Spec

LEMMA WindowStep ==
  ASSUME RowInv, NoWindowLost, PassedAreOverrun, [Next]_vars
  PROVE  NoWindowLost' /\ PassedAreOverrun'
<1> DEFINE Kept(s) == since'[s] # Never =>
                /\ \A m \in Fires(s)' : since'[s] < m /\ m < nextFire'[s]
                                          => jobs'[s][m] > 0 \/ m \in overrun'[s]
                /\ \A m \in Fires(s)' : since'[s] < m /\ m <= now' /\ nextFire'[s] < m
                                          => m \in overrun'[s]
<1> SUFFICES ASSUME NEW s \in Subs PROVE Kept(s)
  BY DEF NoWindowLost, PassedAreOverrun
<1>t. TypeOK
  BY DEF RowInv
<1>n. /\ now \in Nat /\ nextFire[s] \in Nat /\ nextFire[s] \in Windows
      /\ since[s] # Never => since[s] \in Nat
  <2>1. now \in Nat
    <3>1. now \in 0..MaxTime
      BY <1>t DEF TypeOK, SubscriptionTypeOK
    <3>2. QED
      BY <3>1
  <2>2. nextFire[s] \in Windows /\ since[s] \in Nat \cup {Never}
    BY <1>t DEF TypeOK, SubscriptionTypeOK
  <2>3. QED
    BY <2>1, <2>2, WindowsAreTimes
<1>a. Fires(s) \subseteq Windows /\ Fires(s) \subseteq Nat
  <2>1. Fires(s) \subseteq Windows
    BY ZoneIsValid DEF Fires, Windows
  <2>2. QED
    BY <2>1, WindowsAreTimes
<1>b. since[s] # Never =>
        /\ \A m \in Fires(s) : since[s] < m /\ m < nextFire[s]
                                 => jobs[s][m] > 0 \/ m \in overrun[s]
        /\ \A m \in Fires(s) : since[s] < m /\ m <= now /\ nextFire[s] < m => m \in overrun[s]
  BY DEF NoWindowLost, PassedAreOverrun
<1>1. CASE TimePasses
  <2>1. UNCHANGED <<cron, zone, nextFire, jobs, since>> /\ now' = now + 1
    BY <1>1 DEF TimePasses, ClockAdvances, rowVars
  <2>2. Fires(s)' = Fires(s)
    BY <2>1, FiresKept
  <2>3. /\ \A m \in overrun[s] : m \in overrun'[s]
        /\ since[s] # Never /\ now' \in Fires(s) /\ nextFire[s] < now' => now' \in overrun'[s]
    BY <1>1 DEF TimePasses, Overtaken
  <2>4. QED
    BY <1>a, <1>b, <1>n, <2>1, <2>2, <2>3
<1>2. CASE RequestWrites
  <2>0. UNCHANGED <<now, jobs>>
    BY <1>2, <1>t, RequestStep DEF RequestWrites
  <2>1. CASE ~Rewritten(s)
    <3>1. /\ Fires(s)' = Fires(s) /\ nextFire'[s] = nextFire[s]
          /\ overrun'[s] = overrun[s]
          /\ since'[s] = since[s] \/ since'[s] = Never
      BY <1>2, <2>1, FiresKept DEF RequestWrites, Rewritten
    <3>2. QED
      BY <1>b, <2>0, <3>1
  <2>2. CASE Rewritten(s)
    <3>1. since'[s] # Never => Follows(s)' /\ since'[s] = now
      BY <1>2, <2>2 DEF RequestWrites
    <3>2. Fires(s)' \subseteq Nat /\ nextFire'[s] \in Nat
      BY <1>t, TypeStep, ZoneIsValid, SubscriptionAssumption, WindowsAreTimes
      DEF Fires, TypeOK, SubscriptionTypeOK
    <3>3. QED
      BY <1>n, <2>0, <3>1, <3>2 DEF Follows
  <2>3. QED
    BY <2>1, <2>2
<1>3. ASSUME NEW p \in Schedulers, TickCommits(p) PROVE Kept(s)
  <2>1. /\ overrun' = overrun /\ now' = now /\ Fires(s)' = Fires(s)
        /\ \A w \in Windows : jobs[s][w] > 0 => jobs'[s][w] > 0
    BY <1>3, CommitStep DEF TickCommits
  <2>2. since'[s] = IF status'[s] # "ACTIVE" THEN Never
                    ELSE IF s \in Selected(p) /\ since[s] = Never THEN now ELSE since[s]
    BY <1>3 DEF TickCommits
  <2>3. CASE s \notin Selected(p)
    BY <1>3, <1>a, <1>b, <2>1, <2>2, <2>3, CommitStep
  <2>4. CASE s \in Selected(p) /\ cron[s] \notin ValidCrons
    BY <1>3, <2>2, <2>4, CommitStep
  <2>5. CASE s \in Selected(p) /\ cron[s] \in ValidCrons
    <3>1. /\ nextFire'[s] \in Fires(s) /\ nextFire'[s] > now
          /\ \A m \in Fires(s) : m > now => nextFire'[s] <= m
          /\ jobs'[s][nextFire[s]] > 0
      BY <1>3, <2>5, CommitStep
    <3>2. CASE since[s] = Never
      BY <1>a, <1>n, <2>1, <2>2, <3>1, <3>2
    <3>3. CASE since[s] # Never
      <4>1. \A m \in Fires(s) : since[s] < m /\ m < nextFire'[s]
                                => jobs'[s][m] > 0 \/ m \in overrun[s]
        BY <1>a, <1>b, <1>n, <2>1, <3>1, <3>3
      <4>2. \A m \in Fires(s) : ~(m <= now /\ nextFire'[s] < m)
        BY <1>a, <1>n, <3>1
      <4>3. QED
        BY <2>1, <2>2, <3>3, <4>1, <4>2
    <3>4. QED
      BY <3>2, <3>3
  <2>6. QED
    BY <2>3, <2>4, <2>5
<1>4. CASE /\ ~TimePasses /\ ~RequestWrites
           /\ \A p \in Schedulers : ~TickCommits(p)
  <2>1. /\ UNCHANGED <<cron, zone, nextFire, jobs>>
        /\ since'[s] = since[s] \/ since'[s] = Never
    BY <1>4, <1>t, QuietStep
  <2>2. UNCHANGED <<now, overrun>>
    BY <1>4 DEF Next, RequestReads, ApiRead, ResumeRead, PatchRead, RequestFails, TickGoesOn,
                BeginTick, SelectDue, TickFails, RollBack, RunEnds, RunSucceeds,
                RunDeadLettered, subscriptionVars, rowVars, history, vars
  <2>3. Fires(s)' = Fires(s)
    BY <2>1, FiresKept
  <2>4. QED
    BY <1>b, <2>1, <2>2, <2>3
<1>5. QED
  BY <1>1, <1>2, <1>3, <1>4

(* From the moment a row follows its schedule no window is passed without  *)
(* a job, unless it came while the row was still at an earlier one.        *)
THEOREM WindowsAreNotLost == Spec => []NoWindowLost
<1>1. Init => NoWindowLost /\ PassedAreOverrun
  BY DEF Init, NoWindowLost, PassedAreOverrun
<1>2. QED
  BY <1>1, WindowStep, RowInvariance, PTL DEF Spec

(* While a row follows its schedule next_fire_at passes over no occurrence *)
(* to come.                                                                *)
NothingSkipped ==
    \A s \in Subs : since[s] # Never => \A m \in Fires(s) : m > now => m >= nextFire[s]

LEMMA NothingSkippedStep ==
  ASSUME RowInv, NothingSkipped, [Next]_vars
  PROVE  NothingSkipped'
<1>t. TypeOK
  BY DEF RowInv
<1> SUFFICES ASSUME NEW s \in Subs, since'[s] # Never
             PROVE  \A m \in Fires(s)' : m > now' => m >= nextFire'[s]
  BY DEF NothingSkipped
<1>1. CASE RequestWrites
  BY <1>1 DEF RequestWrites, Follows
<1>2. ASSUME NEW p \in Schedulers, TickCommits(p)
      PROVE  \A m \in Fires(s)' : m > now' => m >= nextFire'[s]
  <2>1. since'[s] = IF status'[s] # "ACTIVE" THEN Never
                    ELSE IF s \in Selected(p) /\ since[s] = Never THEN now ELSE since[s]
    BY <1>2 DEF TickCommits
  <2>2. CASE s \notin Selected(p)
    BY <1>2, <2>1, <2>2, CommitStep DEF NothingSkipped
  <2>3. CASE s \in Selected(p)
    <3>1. cron[s] \in ValidCrons
      BY <1>2, <2>1, <2>3, CommitStep
    <3>2. /\ now' = now /\ Fires(s)' = Fires(s) /\ Fires(s) \subseteq Windows
          /\ nextFire'[s] \in Fires(s) /\ \A m \in Fires(s) : m > now => nextFire'[s] <= m
      BY <1>2, <2>3, <3>1, CommitStep
    <3>3. QED
      BY <3>2, WindowsAreTimes
  <2>4. QED
    BY <2>2, <2>3
<1>3. CASE ~RequestWrites /\ \A p \in Schedulers : ~TickCommits(p)
  <2>1. UNCHANGED <<cron, zone, nextFire>> /\ since[s] # Never
    BY <1>3, <1>t, QuietStep
  <2>2. Fires(s)' = Fires(s) /\ Fires(s) \subseteq Nat
    BY <2>1, FiresKept, ZoneIsValid, SubscriptionAssumption DEF Fires
  <2>3. now \in Nat /\ (now' = now \/ now' = now + 1)
    <3>1. now' = now \/ now' = now + 1
      BY <1>3 DEF Next, TimePasses, ClockAdvances, RequestReads, ApiRead, ResumeRead, PatchRead,
                  RequestFails, TickGoesOn, BeginTick, SelectDue, TickFails, RollBack, RunEnds,
                  RunSucceeds, RunDeadLettered, subscriptionVars, rowVars, vars
    <3>2. now \in 0..MaxTime
      BY <1>t DEF TypeOK, SubscriptionTypeOK
    <3>3. QED
      BY <3>1, <3>2
  <2>4. QED
    BY <2>1, <2>2, <2>3 DEF NothingSkipped
<1>4. QED
  BY <1>1, <1>2, <1>3

(* No tick takes the next_fire_at of a row that follows its schedule back, *)
(* whatever the lookahead: what a commit writes is an occurrence to come,  *)
(* and next_fire_at, which the row lock keeps as the tick read it, passes  *)
(* over none of those.                                                     *)
THEOREM TicksDoNotGoBack == Spec => TickNeverGoesBack
<1> DEFINE Kept == \A p \in Schedulers, s \in Subs : TickCommits(p) /\ since[s] # Never =>
                      nextFire'[s] >= nextFire[s]
<1>1. Init => NothingSkipped
  BY DEF Init, NothingSkipped
<1>2. RowInv /\ NothingSkipped /\ [Next]_vars => [Kept]_vars
  <2> SUFFICES ASSUME RowInv, NothingSkipped, NEW p \in Schedulers, NEW s \in Subs,
                      TickCommits(p), since[s] # Never
               PROVE  nextFire'[s] >= nextFire[s]
    OBVIOUS
  <2>1. nextFire[s] \in Nat
    BY WindowsAreTimes DEF RowInv, TypeOK, SubscriptionTypeOK
  <2>2. CASE s \in Selected(p) /\ cron[s] \in ValidCrons
    <3>1. nextFire'[s] \in Fires(s) /\ nextFire'[s] > now
      BY <2>2, CommitStep
    <3>2. QED
      BY <3>1 DEF NothingSkipped
  <2>3. CASE ~(s \in Selected(p) /\ cron[s] \in ValidCrons)
    <3>1. nextFire'[s] = nextFire[s]
      BY <2>3 DEF TickCommits, CommitTick, AdvanceRows, RowInv, LockedRows
    <3>2. QED
      BY <2>1, <3>1
  <2>4. QED
    BY <2>2, <2>3
<1>3. QED
  BY <1>1, <1>2, NothingSkippedStep, RowInvariance, PTL DEF Spec, TickNeverGoesBack

-----------------------------------------------------------------------------
(* The lookahead *)

(* The cutoff of a tick, and what it selected by it, is no further ahead   *)
(* of the clock than the lookahead: time only passes, and the row lock     *)
(* keeps next_fire_at where the SELECT found it.                           *)
SelectedSoon ==
    /\ \A p \in Schedulers : tickPc[p] = "select" => cutoff[p] <= now + Lookahead
    /\ \A p \in Schedulers : \A s \in Selected(p) : nextFire[s] <= now + Lookahead

LEMMA SelectedSoonStep ==
  ASSUME RowInv, SelectedSoon, [Next]_vars
  PROVE  SelectedSoon'
<1>t. TypeOK
  BY DEF RowInv
<1>n. /\ now \in Nat /\ Lookahead \in Nat
      /\ cutoff \in [Schedulers -> Nat]
      /\ \A s \in Subs : nextFire[s] \in Nat
      /\ due \in [Schedulers -> Rows] /\ \A p \in Schedulers : Selected(p) \subseteq Subs
      /\ tickPc \in [Schedulers -> {"idle", "select", "write"}]
  <2>1. now \in 0..MaxTime /\ cutoff \in [Schedulers -> 0..(MaxTime + Lookahead)]
    BY <1>t DEF TypeOK, SubscriptionTypeOK, SchedulerTypeOK
  <2>2. \A s \in Subs : nextFire[s] \in Windows
    BY <1>t DEF TypeOK, SubscriptionTypeOK
  <2>3. /\ due \in [Schedulers -> Rows] /\ \A p \in Schedulers : Selected(p) \subseteq Subs
        /\ tickPc \in [Schedulers -> {"idle", "select", "write"}]
    BY <1>t, SelectedAreSubs DEF TypeOK, SchedulerTypeOK
  <2>4. now \in Nat
    BY <2>1
  <2>5. cutoff \in [Schedulers -> Nat]
    BY <2>1
  <2>6. \A s \in Subs : nextFire[s] \in Nat
    BY <2>2, WindowsAreTimes
  <2>7. QED
    BY <2>3, <2>4, <2>5, <2>6, SchedulerAssumption
<1>1. CASE TimePasses
  <2>1. /\ now' = now + 1 /\ UNCHANGED <<tickPc, cutoff, nextFire>>
        /\ \A p \in Schedulers : Selected(p)' = Selected(p)
    BY <1>1, SelectedKept DEF TimePasses, ClockAdvances, rowVars, schedulerVars
  <2>2. QED
    BY <1>n, <2>1 DEF SelectedSoon
<1>2. CASE RequestWrites
  <2>1. UNCHANGED <<now, schedulerVars>>
    BY <1>2, <1>t, RequestStep DEF RequestWrites
  <2>2. ASSUME NEW p \in Schedulers, NEW s \in Selected(p) PROVE nextFire'[s] = nextFire[s]
    <3>1. s \in Subs /\ Exists(s) /\ ~Writable(s)
      BY <1>n, SubscriptionAssumption DEF RowInv, LockedRows, Exists, Writable
    <3>2. QED
      BY <1>2, <1>t, <3>1, RequestStep DEF RequestWrites
  <2>3. \A p \in Schedulers : Selected(p)' = Selected(p)
    BY <2>1, SelectedKept DEF schedulerVars
  <2>4. QED
    BY <2>1, <2>2, <2>3 DEF SelectedSoon, schedulerVars
<1>3. ASSUME NEW p \in Schedulers, TickCommits(p) PROVE SelectedSoon'
  <2>1. /\ now' = now /\ cutoff' = cutoff
        /\ due' = [due EXCEPT ![p] = NoRows] /\ tickPc' = [tickPc EXCEPT ![p] = "idle"]
    BY <1>3 DEF TickCommits, CommitTick, EndTransaction
  <2>2. ASSUME NEW q \in Schedulers, NEW s \in Selected(q)' PROVE nextFire'[s] = nextFire[s] /\ s \in Selected(q)
    <3>1. q # p /\ s \in Selected(q) /\ s \in Subs
      BY <1>n, <1>t, <2>1, <2>2, NoRowsIsRows, SelectedStep
    <3>2. s \notin Selected(p)
      BY <3>1 DEF RowInv, LockedRows
    <3>3. QED
      BY <1>3, <3>1, <3>2, CommitStep
  <2>3. \A q \in Schedulers : tickPc'[q] = "select" => tickPc[q] = "select"
    BY <1>n, <2>1
  <2>4. \A q \in Schedulers : tickPc'[q] = "select" => cutoff'[q] <= now' + Lookahead
    BY <2>1, <2>3 DEF SelectedSoon
  <2>5. \A q \in Schedulers : \A s \in Selected(q)' : nextFire'[s] <= now' + Lookahead
    <3> SUFFICES ASSUME NEW q \in Schedulers, NEW s \in Selected(q)'
                 PROVE  nextFire'[s] <= now' + Lookahead
      OBVIOUS
    <3>1. nextFire[s] <= now + Lookahead
      BY <2>2 DEF SelectedSoon
    <3>2. QED
      BY <2>1, <2>2, <3>1
  <2>6. QED
    BY <2>4, <2>5 DEF SelectedSoon
<1>4. ASSUME NEW p \in Schedulers, TickGoesOn(p) PROVE SelectedSoon'
  <2>1. CASE BeginTick(p)
    <3>1. /\ \A q \in Schedulers : Selected(q)' = Selected(q)
          /\ UNCHANGED <<now, nextFire>>
      BY <2>1, SelectedKept DEF BeginTick, subscriptionVars
    <3>2. \A q \in Schedulers : tickPc'[q] = "select" => cutoff'[q] <= now + Lookahead
      BY <1>n, <2>1 DEF SelectedSoon, BeginTick
    <3>3. QED
      BY <3>1, <3>2 DEF SelectedSoon
  <2>2. CASE SelectDue(p)
    <3>1. DOMAIN Read(DueRows(p)) = DueRows(p)
      BY <1>t, ReadIsRows DEF DueRows
    <3>2. \A s \in DueRows(p) : tickPc[p] = "select" /\ nextFire[s] <= cutoff[p]
      BY <2>2 DEF SelectDue, DueRows
    <3>3. /\ due' = [due EXCEPT ![p] = Read(DueRows(p))] /\ cutoff' = [cutoff EXCEPT ![p] = 0]
          /\ \A q \in Schedulers : tickPc'[q] = "select" => q # p /\ tickPc[q] = "select"
          /\ UNCHANGED <<now, nextFire>>
      BY <1>n, <2>2 DEF SelectDue, rowVars
    <3>4. \A s \in DueRows(p) : s \in Subs /\ nextFire[s] <= now + Lookahead
      BY <1>n, <3>2 DEF SelectedSoon, DueRows
    <3>5. \A q \in Schedulers : \A s \in Selected(q)' : nextFire[s] <= now + Lookahead
      <4>1. Selected(p)' = DueRows(p) /\ \A q \in Schedulers \ {p} : Selected(q)' = Selected(q)
        BY <1>t, <3>1, <3>3, SelectedStep
      <4>2. QED
        BY <3>4, <4>1 DEF SelectedSoon
    <3>6. \A q \in Schedulers : tickPc'[q] = "select" => cutoff'[q] = cutoff[q]
      BY <1>n, <3>3
    <3>7. QED
      BY <3>3, <3>5, <3>6 DEF SelectedSoon
  <2>3. QED
    BY <1>4, <2>1, <2>2 DEF TickGoesOn
<1>5. ASSUME NEW p \in Schedulers, TickFails(p) PROVE SelectedSoon'
  <2>1. /\ due' = [due EXCEPT ![p] = NoRows] /\ tickPc' = [tickPc EXCEPT ![p] = "idle"]
        /\ UNCHANGED <<now, cutoff, nextFire>>
    BY <1>5 DEF TickFails, RollBack, EndTransaction, rowVars
  <2>2. \A q \in Schedulers : tickPc'[q] = "select" => tickPc[q] = "select"
    BY <1>n, <2>1
  <2>3. \A q \in Schedulers : \A s \in Selected(q)' : s \in Selected(q)
    BY <1>t, <2>1, NoRowsIsRows, SelectedStep
  <2>4. QED
    BY <2>1, <2>2, <2>3 DEF SelectedSoon
<1>6. CASE RequestReads \/ RunEnds \/ UNCHANGED vars
  <2>1. UNCHANGED <<now, nextFire, tickPc, cutoff, due>>
    BY <1>6 DEF RequestReads, ApiRead, ResumeRead, PatchRead, RequestFails, RunEnds,
                RunSucceeds, RunDeadLettered, subscriptionVars, schedulerVars, vars
  <2>2. \A p \in Schedulers : Selected(p)' = Selected(p)
    BY <2>1, SelectedKept
  <2>3. QED
    BY <2>1, <2>2 DEF SelectedSoon
<1>7. QED
  BY <1>1, <1>2, <1>3, <1>4, <1>5, <1>6 DEF Next

(* "Advance next_fire_at to the next cron occurrence" holds of every tick  *)
(* if SCHEDULER_LOOKAHEAD_S is 0: a commit takes the first occurrence      *)
(* after the present moment, and only the lookahead selects a row that is  *)
(* still ahead of it.                                                      *)
THEOREM TicksAdvance ==
  ASSUME Lookahead = 0
  PROVE  Spec => TickAdvances
<1> DEFINE Advances == \A p \in Schedulers, s \in Subs : TickCommits(p) /\ s \in Selected(p) =>
                          nextFire'[s] > nextFire[s] \/ status'[s] = "PAUSED"
<1>1. Init => SelectedSoon
  BY NoRowsIsRows DEF Init, SchedulerInit, SelectedSoon, Selected
<1>2. RowInv /\ SelectedSoon /\ [Next]_vars => [Advances]_vars
  <2> SUFFICES ASSUME RowInv, SelectedSoon, NEW p \in Schedulers, NEW s \in Subs,
                      TickCommits(p), s \in Selected(p), status'[s] # "PAUSED"
               PROVE  nextFire'[s] > nextFire[s]
    OBVIOUS
  <2>1. nextFire[s] <= now + Lookahead
    BY DEF SelectedSoon
  <2>2. cron[s] \in ValidCrons
    BY CommitStep
  <2>3. nextFire'[s] > now /\ nextFire'[s] \in Windows
    BY <2>2, CommitStep
  <2>4. now \in 0..MaxTime /\ nextFire[s] \in Windows
    BY DEF RowInv, TypeOK, SubscriptionTypeOK
  <2>5. now \in Nat /\ nextFire[s] \in Nat /\ nextFire'[s] \in Nat
    <3>1. now \in Nat
      BY <2>4
    <3>2. QED
      BY <2>3, <2>4, <3>1, WindowsAreTimes
  <2>6. nextFire[s] <= now
    BY <2>1, <2>5
  <2>7. QED
    BY <2>3, <2>5, <2>6
<1>3. QED
  BY <1>1, <1>2, SelectedSoonStep, RowInvariance, PTL DEF Spec, TickAdvances
=============================================================================
