------------------------ MODULE LeaderElectionProofs ------------------------
(***************************************************************************)
(* Theorems about LeaderElection, for any set of processes, any bound on   *)
(* the epochs and any disturbances, stalls beyond the TTL included.        *)
(***************************************************************************)
EXTENDS LeaderElection, TLAPS

(* Epochs come from the counter. *)
EpochsCounted ==
    /\ \A p \in Procs : epoch[p] <= counter
    /\ lastEpoch <= counter

(* A heartbeat belongs to a leader, and an acquisition to a process that   *)
(* is none.                                                                *)
Roles ==
    \A p \in Procs : /\ heartbeat[p] => isLeader[p]
                     /\ pc[p] = "incr" => ~isLeader[p]

(* Between SET and INCR the key is still there, unless its TTL ran out. *)
AcquirerHoldsKey ==
    \A p \in Procs : pc[p] = "incr" /\ p \notin lapsed => key = p

(* No write of another process that is under way, or done, has an epoch    *)
(* above that of the leader who holds the key.                             *)
HolderAboveWrites ==
    \A p \in Procs : key = p /\ isLeader[p] =>
        /\ lastEpoch <= epoch[p]
        /\ \A q \in Procs : pc[q] = "write" => epoch[q] <= epoch[p]

ElectionInv ==
    /\ TypeOK /\ EpochsCounted /\ Roles /\ AcquirerHoldsKey
    /\ EpochsUnique /\ HealthyLeaderHoldsKey /\ HolderHasHighestEpoch
    /\ HolderAboveWrites

USE ElectionAssumption

-----------------------------------------------------------------------------
LEMMA InitInv == Init => ElectionInv
  BY DEF Init, ElectionInv, TypeOK, EpochsCounted, Roles, AcquirerHoldsKey,
         EpochsUnique, HealthyLeaderHoldsKey, HolderHasHighestEpoch, HolderAboveWrites

(* The part of the invariant that speaks of no epoch. *)
LEMMA KeyStep ==
  ASSUME TypeOK, Roles, AcquirerHoldsKey, HealthyLeaderHoldsKey, [Next]_vars
  PROVE  TypeOK' /\ Roles' /\ AcquirerHoldsKey' /\ HealthyLeaderHoldsKey'
<1> USE DEF TypeOK, Roles, AcquirerHoldsKey, HealthyLeaderHoldsKey, GoTo
<1>1. ASSUME NEW p \in Procs, SetKey(p)
      PROVE  TypeOK' /\ Roles' /\ AcquirerHoldsKey' /\ HealthyLeaderHoldsKey'
  BY <1>1 DEF SetKey
<1>2. ASSUME NEW p \in Procs, IncrementEpoch(p)
      PROVE  TypeOK' /\ Roles' /\ AcquirerHoldsKey' /\ HealthyLeaderHoldsKey'
  BY <1>2 DEF IncrementEpoch
<1>3. ASSUME NEW p \in Procs, Verify(p)
      PROVE  TypeOK' /\ Roles' /\ AcquirerHoldsKey' /\ HealthyLeaderHoldsKey'
  <2>1. CASE isLeader[p] /\ key = p
    BY <1>3, <2>1 DEF Verify, StepDown
  <2>2. CASE ~(isLeader[p] /\ key = p)
    BY <1>3, <2>2 DEF Verify, StepDown
  <2>3. QED
    BY <2>1, <2>2
<1>4. ASSUME NEW p \in Procs, Write(p)
      PROVE  TypeOK' /\ Roles' /\ AcquirerHoldsKey' /\ HealthyLeaderHoldsKey'
  BY <1>4 DEF Write
<1>5. ASSUME NEW p \in Procs, HeartbeatLost(p)
      PROVE  TypeOK' /\ Roles' /\ AcquirerHoldsKey' /\ HealthyLeaderHoldsKey'
  BY <1>5 DEF HeartbeatLost, StepDown
<1>6. ASSUME NEW p \in Procs, Release(p)
      PROVE  TypeOK' /\ Roles' /\ AcquirerHoldsKey' /\ HealthyLeaderHoldsKey'
  BY <1>6 DEF Release, StepDown
<1>7. ASSUME NEW p \in Procs, RedisError(p)
      PROVE  TypeOK' /\ Roles' /\ AcquirerHoldsKey' /\ HealthyLeaderHoldsKey'
  BY <1>7 DEF RedisError
<1>8. ASSUME NEW p \in Procs, Crash(p)
      PROVE  TypeOK' /\ Roles' /\ AcquirerHoldsKey' /\ HealthyLeaderHoldsKey'
  BY <1>8 DEF Crash, StepDown
<1>9. CASE KeyExpires
  BY <1>9 DEF KeyExpires
<1>10. CASE UNCHANGED vars
  BY <1>10 DEF vars
<1>11. QED
  BY <1>1, <1>2, <1>3, <1>4, <1>5, <1>6, <1>7, <1>8, <1>9, <1>10 DEF Next, Tick

(* The part that does. *)
LEMMA EpochStep ==
  ASSUME ElectionInv, [Next]_vars
  PROVE  /\ EpochsCounted' /\ EpochsUnique' /\ HolderHasHighestEpoch'
         /\ HolderAboveWrites'
<1> DEFINE Goal == /\ EpochsCounted' /\ EpochsUnique' /\ HolderHasHighestEpoch'
                   /\ HolderAboveWrites'
<1> USE DEF ElectionInv, TypeOK, EpochsCounted, EpochsUnique, HolderHasHighestEpoch,
            HolderAboveWrites, GoTo
<1>1. ASSUME NEW p \in Procs, SetKey(p) PROVE Goal
  BY <1>1 DEF SetKey
<1>2. ASSUME NEW p \in Procs, IncrementEpoch(p) PROVE Goal
  BY <1>2 DEF IncrementEpoch, AcquirerHoldsKey
<1>3. ASSUME NEW p \in Procs, Verify(p) PROVE Goal
  BY <1>3 DEF Verify, StepDown
<1>4. ASSUME NEW p \in Procs, Write(p) PROVE Goal
  BY <1>4 DEF Write
<1>5. ASSUME NEW p \in Procs, HeartbeatLost(p) PROVE Goal
  BY <1>5 DEF HeartbeatLost, StepDown
<1>6. ASSUME NEW p \in Procs, Release(p) PROVE Goal
  BY <1>6 DEF Release, StepDown
<1>7. ASSUME NEW p \in Procs, RedisError(p) PROVE Goal
  BY <1>7 DEF RedisError
<1>8. ASSUME NEW p \in Procs, Crash(p) PROVE Goal
  BY <1>8 DEF Crash, StepDown
<1>9. CASE KeyExpires
  BY <1>9 DEF KeyExpires
<1>10. CASE UNCHANGED vars
  BY <1>10 DEF vars
<1>11. QED
  BY <1>1, <1>2, <1>3, <1>4, <1>5, <1>6, <1>7, <1>8, <1>9, <1>10 DEF Next, Tick

LEMMA Invariance == Spec => []ElectionInv
<1>1. ElectionInv /\ [Next]_vars => ElectionInv'
  BY KeyStep, EpochStep DEF ElectionInv
<1>2. QED
  BY InitInv, <1>1, PTL DEF Spec

-----------------------------------------------------------------------------
(* The state stays within its types, the bound of the model included. *)
THEOREM ElectionTypeCorrect == Spec => []TypeOK
<1>1. ElectionInv => TypeOK
  BY DEF ElectionInv
<1>2. QED
  BY Invariance, <1>1, PTL

(* Two commands for one acquisition, and yet no two processes ever hold    *)
(* the same fencing token.                                                 *)
THEOREM FencingTokensDiffer == Spec => []EpochsUnique
<1>1. ElectionInv => EpochsUnique
  BY DEF ElectionInv
<1>2. QED
  BY Invariance, <1>1, PTL

(* A leader that renews in time is not deposed by others' SET, DEL, failed *)
(* acquisition or restart.                                                 *)
THEOREM RenewingLeaderIsSafe == Spec => []HealthyLeaderHoldsKey
<1>1. ElectionInv => HealthyLeaderHoldsKey
  BY DEF ElectionInv
<1>2. QED
  BY Invariance, <1>1, PTL

(* The key's owner has the highest token, but for a process that stalled   *)
(* between its SET and its INCR.                                           *)
THEOREM OwnerHasHighestToken == Spec => []HolderHasHighestEpoch
<1>1. ElectionInv => HolderHasHighestEpoch
  BY DEF ElectionInv
<1>2. QED
  BY Invariance, <1>1, PTL

(* A write of a leader that renews in time never has an older token than   *)
(* the write before it, whoever made that.                                 *)
THEOREM TokensWrittenInOrder == Spec => HealthyWritesInOrder
<1>1. ElectionInv /\ [Next]_vars
        => [\A p \in Procs : Write(p) /\ isLeader[p] /\ heartbeat[p] /\ p \notin lapsed
                             => lastEpoch' >= lastEpoch]_vars
  BY DEF ElectionInv, TypeOK, HealthyLeaderHoldsKey, HolderAboveWrites, Write
<1>2. QED
  BY Invariance, <1>1, PTL DEF Spec, HealthyWritesInOrder

-----------------------------------------------------------------------------
(* When there is one writer *)

(* No process is kept from renewing for a whole TTL, and Redis answers.    *)
Undisturbed == Disturbances \cap {"stall", "redis_error"} = {}

(* Then a leader's heartbeat runs as long as it is leader, and nothing     *)
(* deposes a leader between its verify and its write.                      *)
SteadyLeaders ==
    /\ lapsed = {}
    /\ \A p \in Procs : isLeader[p] => heartbeat[p]
    /\ \A p \in Procs : pc[p] = "write" => isLeader[p]

(* A leader then loses the key by its own release or crash only.           *)
LEMMA SteadyStep ==
  ASSUME ElectionInv, SteadyLeaders, [Next]_vars, Undisturbed
  PROVE  SteadyLeaders'
<1> USE DEF ElectionInv, TypeOK, Roles, SteadyLeaders, GoTo
<1>0. \A p \in Procs : isLeader[p] => key = p
  BY DEF HealthyLeaderHoldsKey
<1>1. ASSUME NEW p \in Procs, SetKey(p) PROVE SteadyLeaders'
  BY <1>1 DEF SetKey
<1>2. ASSUME NEW p \in Procs, IncrementEpoch(p) PROVE SteadyLeaders'
  BY <1>2 DEF IncrementEpoch
<1>3. ASSUME NEW p \in Procs, Verify(p) PROVE SteadyLeaders'
  BY <1>3 DEF Verify, StepDown
<1>4. ASSUME NEW p \in Procs, Write(p) PROVE SteadyLeaders'
  BY <1>4 DEF Write
<1>5. ASSUME NEW p \in Procs, HeartbeatLost(p) PROVE SteadyLeaders'
  BY <1>0, <1>5 DEF HeartbeatLost
<1>6. ASSUME NEW p \in Procs, Release(p) PROVE SteadyLeaders'
  BY <1>6 DEF Release, StepDown
<1>7. ASSUME NEW p \in Procs, RedisError(p) PROVE FALSE
  BY <1>7 DEF RedisError, Undisturbed
<1>8. ASSUME NEW p \in Procs, Crash(p) PROVE SteadyLeaders'
  BY <1>8 DEF Crash, StepDown
<1>9. CASE KeyExpires
  BY <1>9 DEF KeyExpires, Unrenewed, Undisturbed
<1>10. CASE UNCHANGED vars
  BY <1>10 DEF vars
<1>11. QED
  BY <1>1, <1>2, <1>3, <1>4, <1>5, <1>6, <1>7, <1>8, <1>9, <1>10 DEF Next, Tick

(* SingleWriter: processes that crash and restart at will, but renew in    *)
(* time and reach Redis, never have two of them between verify and write.  *)
(* The run SplitBrain shows what one failed renewal changes.               *)
THEOREM OneWriter ==
  ASSUME Undisturbed
  PROVE  Spec => []SingleWriter
<1>1. Init => SteadyLeaders
  BY DEF Init, SteadyLeaders
<1>2. ElectionInv /\ SteadyLeaders /\ [Next]_vars => SteadyLeaders'
  BY SteadyStep
<1>3. ElectionInv /\ SteadyLeaders => SingleWriter
  BY DEF ElectionInv, SteadyLeaders, HealthyLeaderHoldsKey, SingleWriter
<1>4. QED
  BY <1>1, <1>2, <1>3, Invariance, PTL DEF Spec
=============================================================================
