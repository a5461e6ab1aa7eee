-------------------------- MODULE SubscriptionApi --------------------------
(***************************************************************************)
(* app/api/routes/subscriptions.py.  A request that writes something it    *)
(* computed from what it read is two steps: the SELECT, after which        *)
(* compute_next_fire takes the clock, and the UPDATE with its commit.  In  *)
(* between the row may change, and the UPDATE may wait for a row lock.     *)
(*                                                                         *)
(* Requests that change nothing (404, 422, a zone pytz does not know in    *)
(* compute_next_fire) are not steps.                                       *)
(***************************************************************************)
EXTENDS SubscriptionStore

CONSTANTS
    Clients,    \* requests in flight at the same time
    Bodies,     \* PATCH bodies: records of cron, zone and status
    Absent,     \* a field the body does not name
    NoRequest

(* SubscriptionUpdate validates the cron expression, the handler validates *)
(* the status, and nobody the time zone.                                   *)
AcceptedBodies ==
    [cron : ValidCrons \cup {Absent}, zone : Zones \cup {Absent},
     status : SubscriptionStatus \cup {Absent}]

ASSUME ApiAssumption ==
    /\ Absent \notin Crons \cup Zones \cup SubscriptionStatus
    /\ Bodies \subseteq AcceptedBodies

VARIABLE request    \* what a request in flight is about to write

Nothing == [cron |-> Absent, zone |-> Absent, status |-> Absent]

Request == [sub : Subs, op : {"patch", "resume"}, body : Bodies \cup {Nothing}, next : Windows]

ApiTypeOK == request \in [Clients -> Request \cup {NoRequest}]

ApiInit == request = [c \in Clients |-> NoRequest]

-----------------------------------------------------------------------------
Given(value, old) == IF value = Absent THEN old ELSE value

(* POST /: the row is inserted ACTIVE, with the next occurrence from now.  *)
CreateSubscription(s, c, z) ==
    /\ ~Exists(s)
    /\ status' = [status EXCEPT ![s] = "ACTIVE"]
    /\ cron' = [cron EXCEPT ![s] = c]
    /\ zone' = [zone EXCEPT ![s] = z]
    /\ nextFire' = [nextFire EXCEPT ![s] = NextOccurrence(c, z, now)]
    /\ UNCHANGED <<now, failures, jobs, rowLock, request>>

(* The columns a PATCH body names; next_fire_at only with a cron expression *)
WriteBody(s, b) ==
    /\ status' = [status EXCEPT ![s] = Given(b.status, @)]
    /\ cron' = [cron EXCEPT ![s] = Given(b.cron, @)]
    /\ zone' = [zone EXCEPT ![s] = Given(b.zone, @)]

(* PATCH without a cron expression writes nothing that depends on the row. *)
PatchFields(s, b) ==
    /\ b.cron = Absent
    /\ Writable(s)
    /\ WriteBody(s, b)
    /\ UNCHANGED <<now, nextFire, failures, jobs, rowLock, request>>

(* PATCH with one computes next_fire_at in the zone of the body or, failing *)
(* that, of the row it read.                                               *)
PatchRead(c, s, b) ==
    LET z == Given(b.zone, zone[s]) IN
    /\ request[c] = NoRequest
    /\ b.cron # Absent /\ Exists(s) /\ z \in ValidZones
    /\ request' = [request EXCEPT ![c] =
          [sub |-> s, op |-> "patch", body |-> b, next |-> NextOccurrence(b.cron, z, now)]]
    /\ UNCHANGED subscriptionVars

PatchWrite(c) ==
    /\ request[c] # NoRequest /\ request[c].op = "patch"
    /\ LET s == request[c].sub IN
       /\ Writable(s)
       /\ WriteBody(s, request[c].body)
       /\ nextFire' = [nextFire EXCEPT ![s] = request[c].next]
    /\ request' = [request EXCEPT ![c] = NoRequest]
    /\ UNCHANGED <<now, failures, jobs, rowLock>>

(* Mutant of DeleteSubscription: a status no other code knows. *)
DeleteSoftly(s) ==
    /\ Writable(s)
    /\ status' = [status EXCEPT ![s] = "DELETED"]
    /\ UNCHANGED <<now, cron, zone, nextFire, failures, jobs, rowLock, request>>

(* DELETE: whatever the status is. *)
DeleteSubscription(s) ==
    /\ Writable(s)
    /\ status' = [status EXCEPT ![s] = "CANCELLED"]
    /\ UNCHANGED <<now, cron, zone, nextFire, failures, jobs, rowLock, request>>

(* POST /resume does not look at the status it read, nor does its UPDATE.  *)
ResumeRead(c, s) ==
    /\ request[c] = NoRequest
    /\ Exists(s) /\ cron[s] \in ValidCrons /\ zone[s] \in ValidZones
    /\ request' = [request EXCEPT ![c] =
          [sub |-> s, op |-> "resume", body |-> Nothing,
           next |-> NextOccurrence(cron[s], zone[s], now)]]
    /\ UNCHANGED subscriptionVars

ResumeWrite(c) ==
    /\ request[c] # NoRequest /\ request[c].op = "resume"
    /\ LET s == request[c].sub IN
       /\ Writable(s)
       /\ status' = [status EXCEPT ![s] = "ACTIVE"]
       /\ failures' = [failures EXCEPT ![s] = 0]
       /\ nextFire' = [nextFire EXCEPT ![s] = request[c].next]
    /\ request' = [request EXCEPT ![c] = NoRequest]
    /\ UNCHANGED <<now, cron, zone, jobs, rowLock>>

(* The connection or the API process goes away, and get_db rolls back. *)
RequestFails(c) ==
    /\ request[c] # NoRequest
    /\ request' = [request EXCEPT ![c] = NoRequest]
    /\ UNCHANGED subscriptionVars

ApiRead == \E c \in Clients, s \in Subs :
    ResumeRead(c, s) \/ \E b \in Bodies : PatchRead(c, s, b)

ApiWrite ==
    \/ \E s \in Subs : DeleteSubscription(s) \/ \E b \in Bodies : PatchFields(s, b)
    \/ \E s \in Subs, c \in ValidCrons, z \in ValidZones : CreateSubscription(s, c, z)
    \/ \E c \in Clients : PatchWrite(c) \/ ResumeWrite(c)
=============================================================================
