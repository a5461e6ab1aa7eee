--------------------------- MODULE LeaderElection ---------------------------
(***************************************************************************)
(* app/infrastructure/redis/leader.py, as the ticks of the scheduler and   *)
(* of the recovery worker use it.  Both roles compete for the one key      *)
(* REDIS_LEADER_KEY; a process is told apart by its token.                 *)
(*                                                                         *)
(* A tick of a process that is not leader tries SET NX and, in a second    *)
(* command, INCR of the epoch; the tick of a leader verifies the key and   *)
(* writes to the database.  The heartbeat task runs beside the ticks.      *)
(***************************************************************************)
EXTENDS Naturals

CONSTANTS
    Procs,          \* scheduler and recovery processes
    None,           \* the key does not exist
    Ghost,          \* the key holds the token of a process that is gone
    MaxEpoch,       \* bound of the model on the epoch counter
    Disturbances    \* what may go wrong: "stall", "crash", "redis_error"

ASSUME ElectionAssumption ==
    /\ None \notin Procs /\ Ghost \notin Procs /\ None # Ghost
    /\ MaxEpoch \in Nat
    /\ Disturbances \subseteq {"stall", "crash", "redis_error"}

VARIABLES
    key,         \* the token in REDIS_LEADER_KEY
    counter,     \* REDIS_LEADER_EPOCH_KEY
    pc,          \* "idle", "incr" after SET NX, "verify", "write" after a good verify
    isLeader,    \* _is_leader
    epoch,       \* _epoch
    heartbeat,   \* _heartbeat_task is running
    lastEpoch,   \* epoch of the latest write to the database
    lapsed       \* history: lost the key to its TTL while renewing it or before INCR

vars == <<key, counter, pc, isLeader, epoch, heartbeat, lastEpoch, lapsed>>

TypeOK ==
    /\ key \in Procs \cup {None, Ghost}
    /\ counter \in 0..MaxEpoch
    /\ pc \in [Procs -> {"idle", "incr", "verify", "write"}]
    /\ isLeader \in [Procs -> BOOLEAN]
    /\ epoch \in [Procs -> 0..MaxEpoch]
    /\ heartbeat \in [Procs -> BOOLEAN]
    /\ lastEpoch \in 0..MaxEpoch
    /\ lapsed \in SUBSET Procs

Init ==
    /\ key = None /\ counter = 0 /\ lastEpoch = 0 /\ lapsed = {}
    /\ pc = [p \in Procs |-> "idle"]
    /\ isLeader = [p \in Procs |-> FALSE]
    /\ epoch = [p \in Procs |-> 0]
    /\ heartbeat = [p \in Procs |-> FALSE]

-----------------------------------------------------------------------------
GoTo(p, label) == pc' = [pc EXCEPT ![p] = label]

(* is_leader is cleared and the heartbeat task ends. *)
StepDown(p) ==
    /\ isLeader' = [isLeader EXCEPT ![p] = FALSE]
    /\ heartbeat' = [heartbeat EXCEPT ![p] = FALSE]
    /\ lapsed' = lapsed \ {p}

(* Mutant of SetKey: SET without NX. *)
SetKeyAnyway(p) ==
    /\ pc[p] = "idle" /\ ~isLeader[p]
    /\ key' = p
    /\ lapsed' = lapsed \ {p}
    /\ GoTo(p, "incr")
    /\ UNCHANGED <<counter, isLeader, epoch, heartbeat, lastEpoch>>

(* SET key token NX PX: only a key that does not exist.  A process whose   *)
(* own token is still there after a failed INCR does not get it either.    *)
SetKey(p) ==
    /\ pc[p] = "idle" /\ ~isLeader[p]
    /\ key = None
    /\ key' = p
    /\ lapsed' = lapsed \ {p}
    /\ GoTo(p, "incr")
    /\ UNCHANGED <<counter, isLeader, epoch, heartbeat, lastEpoch>>

(* Mutants of IncrementEpoch: the epoch is counted in the process; the     *)
(* result of INCR is incremented again.                                    *)
IncrementOwnEpoch(p) ==
    /\ pc[p] = "incr" /\ epoch[p] < MaxEpoch
    /\ epoch' = [epoch EXCEPT ![p] = @ + 1]
    /\ isLeader' = [isLeader EXCEPT ![p] = TRUE]
    /\ heartbeat' = [heartbeat EXCEPT ![p] = TRUE]
    /\ GoTo(p, "verify")
    /\ UNCHANGED <<key, counter, lastEpoch, lapsed>>

IncrementEpochTwice(p) ==
    /\ pc[p] = "incr" /\ counter < MaxEpoch
    /\ counter' = counter + 1
    /\ epoch' = [epoch EXCEPT ![p] = counter + 2]
    /\ isLeader' = [isLeader EXCEPT ![p] = TRUE]
    /\ heartbeat' = [heartbeat EXCEPT ![p] = TRUE]
    /\ GoTo(p, "verify")
    /\ UNCHANGED <<key, lastEpoch, lapsed>>

(* INCR of the epoch; then, without a look at the key, leader. *)
IncrementEpoch(p) ==
    /\ pc[p] = "incr" /\ counter < MaxEpoch
    /\ counter' = counter + 1
    /\ epoch' = [epoch EXCEPT ![p] = counter + 1]
    /\ isLeader' = [isLeader EXCEPT ![p] = TRUE]
    /\ heartbeat' = [heartbeat EXCEPT ![p] = TRUE]
    /\ GoTo(p, "verify")
    /\ UNCHANGED <<key, lastEpoch, lapsed>>

(* Mutant of Verify: the token read is not compared. *)
VerifyNothing(p) ==
    /\ pc[p] = "verify" \/ (pc[p] = "idle" /\ isLeader[p])
    /\ GoTo(p, "write")
    /\ UNCHANGED <<key, counter, isLeader, epoch, heartbeat, lastEpoch, lapsed>>

(* verify_still_leader: GET the key and compare.  The heartbeat may have   *)
(* cleared is_leader since the tick began.                                 *)
Verify(p) ==
    /\ pc[p] = "verify" \/ (pc[p] = "idle" /\ isLeader[p])
    /\ \/ /\ isLeader[p] /\ key = p
          /\ GoTo(p, "write")
          /\ UNCHANGED <<isLeader, heartbeat, lapsed>>
       \/ /\ ~(isLeader[p] /\ key = p)
          /\ StepDown(p)
          /\ GoTo(p, "idle")
    /\ UNCHANGED <<key, counter, epoch, lastEpoch>>

(* The tick's transaction commits.  The epoch goes into the row; nothing   *)
(* compares it with anything.                                              *)
Write(p) ==
    /\ pc[p] = "write"
    /\ lastEpoch' = epoch[p]
    /\ GoTo(p, "idle")
    /\ UNCHANGED <<key, counter, isLeader, epoch, heartbeat, lapsed>>

(* The renewal script finds another token, or none.  A renewal that finds  *)
(* its own extends the TTL and changes nothing here.                       *)
HeartbeatLost(p) ==
    /\ heartbeat[p] /\ key # p
    /\ StepDown(p)
    /\ UNCHANGED <<key, counter, pc, epoch, lastEpoch>>

(* Mutant of Release: DEL without the comparison. *)
ReleaseAny(p) ==
    /\ pc[p] = "idle" /\ isLeader[p]
    /\ StepDown(p)
    /\ key' = None
    /\ UNCHANGED <<counter, pc, epoch, lastEpoch>>

(* release(): end the heartbeat, delete the key if it is still ours.  It   *)
(* comes between two ticks, as in the class's usage example.               *)
Release(p) ==
    /\ pc[p] = "idle" /\ isLeader[p]
    /\ StepDown(p)
    /\ key' = IF key = p THEN None ELSE key
    /\ UNCHANGED <<counter, pc, epoch, lastEpoch>>

-----------------------------------------------------------------------------
(* Mutant of KeyExpires: SET without PX, the key has no TTL. *)
KeyStays == FALSE /\ UNCHANGED vars

(* Nobody extends the TTL, and nobody is about to begin. *)
Unrenewed ==
    key = Ghost \/ (key \in Procs /\ ~heartbeat[key] /\ pc[key] # "incr")

(* The TTL runs out: when nobody renews the key, or, with "stall", when    *)
(* its owner is kept from renewing it in time.  SET and INCR follow each   *)
(* other within the TTL unless the process stalls.                         *)
KeyExpires ==
    /\ key # None
    /\ "stall" \in Disturbances \/ Unrenewed
    /\ key' = None
    /\ lapsed' = lapsed \cup {p \in Procs : key = p /\ (heartbeat[p] \/ pc[p] = "incr")}
    /\ UNCHANGED <<counter, pc, isLeader, epoch, heartbeat, lastEpoch>>

(* A Redis error in INCR leaves the key set and the process not leader; in *)
(* the renewal it ends the heartbeat task, and is_leader stays set; in the *)
(* verify the tick fails and is_leader stays set.                          *)
RedisError(p) ==
    /\ "redis_error" \in Disturbances
    /\ \/ pc[p] \in {"incr", "verify"} /\ GoTo(p, "idle") /\ UNCHANGED heartbeat
       \/ heartbeat[p] /\ heartbeat' = [heartbeat EXCEPT ![p] = FALSE] /\ UNCHANGED pc
    /\ UNCHANGED <<key, counter, isLeader, epoch, lastEpoch, lapsed>>

(* The process dies and is restarted with a new token. *)
Crash(p) ==
    /\ "crash" \in Disturbances
    /\ key' = IF key = p THEN Ghost ELSE key
    /\ StepDown(p)
    /\ epoch' = [epoch EXCEPT ![p] = 0]
    /\ GoTo(p, "idle")
    /\ UNCHANGED <<counter, lastEpoch>>

-----------------------------------------------------------------------------
Tick(p) == SetKey(p) \/ IncrementEpoch(p) \/ Verify(p) \/ Write(p)

Next ==
    \/ \E p \in Procs : Tick(p) \/ HeartbeatLost(p) \/ Release(p) \/ RedisError(p) \/ Crash(p)
    \/ KeyExpires

Spec == Init /\ [][Next]_vars

(* Ticks and heartbeats go on, and a TTL nobody extends runs out; that of  *)
(* a healthy leader need not.  Not every acquisition fails between SET and *)
(* INCR.                                                                   *)
Fairness ==
    /\ \A p \in Procs : WF_vars(Tick(p)) /\ WF_vars(HeartbeatLost(p))
    /\ SF_vars(\E p \in Procs : IncrementEpoch(p))
    /\ WF_vars(Unrenewed /\ KeyExpires)

FairSpec == Spec /\ Fairness

(* The deployment of docker-compose.yml: nobody releases the key. *)
SteadySpec ==
    Init /\ [][Next /\ \A p \in Procs : ~Release(p)]_vars /\ Fairness

-----------------------------------------------------------------------------
(* Safety *)

(* No two terms share an epoch, whatever stalls between SET and INCR.      *)
EpochsUnique ==
    \A p, q \in Procs : p # q /\ epoch[p] = epoch[q] => epoch[p] = 0

(* A leader whose heartbeat runs holds the key, unless it was kept from    *)
(* renewing it for a whole TTL: nobody else's SET, DEL, failed acquisition *)
(* or restart takes it away.                                               *)
HealthyLeaderHoldsKey ==
    \A p \in Procs : isLeader[p] /\ heartbeat[p] /\ p \notin lapsed => key = p

(* At most one process is past its verify and before its write.            *)
SingleWriter ==
    \A p, q \in Procs : pc[p] = "write" /\ pc[q] = "write" => p = q

(* The fencing token of the key's owner is the highest of all leaders',   *)
(* but for one that stalled between its SET and its INCR.                  *)
HolderHasHighestEpoch ==
    \A p, q \in Procs : isLeader[p] /\ isLeader[q] /\ key = p /\ q \notin lapsed
                           => epoch[p] >= epoch[q]

(* Leaders whose heartbeat runs and renewed in time write in the order of  *)
(* their terms: never an older epoch over a newer one, whoever wrote that. *)
HealthyWritesInOrder ==
    [][\A p \in Procs : Write(p) /\ isLeader[p] /\ heartbeat[p] /\ p \notin lapsed
                        => lastEpoch' >= lastEpoch]_vars

-----------------------------------------------------------------------------
(* Liveness *)

(* A process that lost the key finds out, by heartbeat or by its next tick *)
DeposedStepDown ==
    \A p \in Procs : isLeader[p] /\ key # p ~> ~(isLeader[p] /\ key # p)

(* The key of a dead process does not keep leadership vacant for ever (as  *)
(* long as the model's epoch bound leaves a term to begin).                *)
LeadershipRecovers ==
    key = Ghost ~> (\E p \in Procs : isLeader[p]) \/ counter = MaxEpoch

(* Each of the processes, hence each of the two roles, gets to do its work *)
EveryRoleWorks ==
    \A p \in Procs : []<>(pc[p] = "write")
=============================================================================
