------------------------ MODULE TimelyPaymentProofs ------------------------
(***************************************************************************)
(* Theorems about PaymentSystem when no executor outlives its lock: what   *)
(* the expiry of five minutes is chosen for.  Crashes, database errors and *)
(* cut ticks remain, in any number, and bunq answers as it likes.          *)
(***************************************************************************)
EXTENDS TransactionProofs

-----------------------------------------------------------------------------
(* An executor still owns the run it works on.                             *)
OwnedByExecutor ==
    \A e \in Executors : cur[e] # NoRun =>
        runStatus[cur[e]] = "RUNNING" /\ lock[cur[e]] = "held"

(* Between recovery's two transactions the run is FAILED, it is its job's  *)
(* last one, and no other recovery worker holds it.                        *)
OwnedByRecovery ==
    \A w \in Recoverers : claim[w] # NoRun =>
        /\ runStatus[claim[w]] = "FAILED" /\ NoneAfter(claim[w])
        /\ \A v \in Recoverers \ {w} : claim[v] # claim[w]

(* Every attempt of a job but the last one FAILED.                         *)
EarlierFailed ==
    \A q, r \in Run : Later(q, r) /\ Exists(q) => runStatus[r] = "FAILED"

TimelyInv == OwnedByExecutor /\ OwnedByRecovery /\ EarlierFailed

-----------------------------------------------------------------------------
(* Runs of one job *)

(* The next attempt comes after its predecessor.                           *)
LEMMA NextIsLater ==
    ASSUME NEW r \in Run, ~IsExhausted(r[2])
    PROVE  NextAttempt(r) \in Run /\ Later(NextAttempt(r), r)
BY NextAttemptIsRun, RunParts DEF Later

(* Between a run and its next attempt there is none.                       *)
LEMMA BeforeNext ==
    ASSUME NEW x \in Run, ~IsExhausted(x[2]), NEW r \in Run, Later(NextAttempt(x), r)
    PROVE  r = x \/ Later(x, r)
<1>1. NextAttempt(x)[1] = x[1] /\ NextAttempt(x)[2] = x[2] + 1
  BY NextAttemptIsRun
<1>2. r[1] = x[1] /\ r[2] <= x[2]
  BY <1>1, RunParts DEF Later
<1>3. CASE r[2] = x[2]
  BY <1>2, <1>3, RunsDiffer
<1>4. CASE r[2] # x[2]
  BY <1>2, <1>4, RunParts DEF Later
<1>. QED  BY <1>3, <1>4

(* Two runs of one job are in order.                                       *)
LEMMA InOrder ==
    ASSUME NEW q \in Run, NEW r \in Run, q[1] = r[1], q # r
    PROVE  Later(q, r) \/ Later(r, q)
BY RunsDiffer, RunParts DEF Later

-----------------------------------------------------------------------------
(* What a step does when nobody is late *)

(* Whoever holds a run holds the last one of its job.                      *)
LEMMA HeldIsLast ==
    ASSUME AttemptInv, TimelyInv
    PROVE  /\ \A e \in Executors : cur[e] \in Run =>
                runStatus[cur[e]] = "RUNNING" /\ lock[cur[e]] = "held" /\ NoneAfter(cur[e])
           /\ \A w \in Recoverers : claim[w] \in Run =>
                runStatus[claim[w]] = "FAILED" /\ NoneAfter(claim[w])
BY NoRunIsNoRun DEF AttemptInv, TimelyInv, OwnedByExecutor, OwnedByRecovery, OneLiveAttempt, Active

(* Each status changes as the state machine allows, and only the last      *)
(* attempt of a job dies.                                                  *)
Moves(r) ==
    \/ runStatus'[r] = runStatus[r]
    \/ runStatus[r] = "NONE" /\ runStatus'[r] = "PENDING"
    \/ runStatus[r] = "PENDING" /\ runStatus'[r] \in {"RUNNING", "FAILED"}
    \/ runStatus[r] = "RUNNING" /\ runStatus'[r] \in {"SUCCEEDED", "FAILED", "DEAD"}
    \/ runStatus[r] = "FAILED" /\ runStatus'[r] = "DEAD" /\ NoneAfter(r)

(* The row after one that is held is new.                                  *)
LEMMA NextIsNew ==
    ASSUME NEW r \in Run, NoneAfter(r), OpensNext(r)
    PROVE  /\ ~Exists(NextAttempt(r)) /\ runStatus'[NextAttempt(r)] = "PENDING"
           /\ NextAttempt(r) \in Run /\ NextAttempt(r) # r
BY NextIsLater, NextAttemptIsRun DEF OpensNext, NoneAfter

(* Every run moves so, in every step.                                      *)
LEMMA TimelyMoves ==
    ASSUME AttemptInv, TimelyInv, Next, NEW r \in Run
    PROVE  Moves(r)
<1>1. Commits
  BY EveryStepCommits DEF AttemptInv
<1>. runStatus \in [Run -> RunStatus \cup {"NONE"}]
  BY DEF AttemptInv, TypeOK, StoreTypeOK
<1>. USE DEF Moves, OnlyRun
<1>2. ASSUME NEW e \in Executors, CancelsOwnJob(e) \/ Records(e) PROVE Moves(r)
  BY <1>2, HeldIsLast DEF CancelsOwnJob, Records
<1>3. ASSUME NEW e \in Executors, Retries(e) PROVE Moves(r)
  BY <1>3, HeldIsLast, NextIsNew DEF Retries, OpensNext, Exists
<1>4. ASSUME NEW e \in Executors, GivesUp(e) PROVE Moves(r)
  BY <1>4, HeldIsLast DEF GivesUp, MoveToDlq
<1>5. ASSUME NEW w \in Recoverers, Requeues(w) PROVE Moves(r)
  BY <1>5, HeldIsLast, NextIsNew DEF Requeues, OpensNext, Exists
<1>6. ASSUME NEW w \in Recoverers, Buries(w) PROVE Moves(r)
  BY <1>6, HeldIsLast DEF Buries, MoveToDlq
<1>7. ASSUME NEW w \in Recoverers, NEW j \in Jobs, CancelsOrphan(w, j) PROVE Moves(r)
  BY <1>7 DEF CancelsOrphan
<1>8. ASSUME NEW j \in Jobs, Creates(j) PROVE Moves(r)
  BY <1>8, FirstIsRun DEF Creates, Exists
<1>9. ASSUME NEW e \in Executors, NEW q \in Run, Claims(e, q) PROVE Moves(r)
  BY <1>9 DEF Claims
<1>10. ASSUME NEW w \in Recoverers, NEW q \in Run, TakesOver(w, q) PROVE Moves(r)
  BY <1>10 DEF TakesOver, Stuck
<1>. QED
  BY <1>1, <1>2, <1>3, <1>4, <1>5, <1>6, <1>7, <1>8, <1>9, <1>10 DEF Commits, CommitsNothing

(* A new row is a first attempt, or follows one that was in hand, is       *)
(* FAILED now and is in nobody's hands any more.                           *)
LEMMA TimelyRow ==
    ASSUME AttemptInv, TimelyInv, Next, NEW q \in Run, ~Exists(q), Exists(q)'
    PROVE  \/ q[2] = 1 /\ jobStatus[q[1]] = "NONE"
           \/ \E x \in Run : /\ ~IsExhausted(x[2]) /\ q = NextAttempt(x)
                             /\ Exists(x) /\ InHand(x) /\ runStatus'[x] = "FAILED"
                             /\ \A w \in Recoverers : claim'[w] # x
<1>1. Commits
  BY EveryStepCommits DEF AttemptInv
<1>. USE DEF OnlyRun, Exists
<1>. q # NoRun /\ NoRun \notin Run
  BY NoRunIsNoRun
<1>2. ASSUME NEW e \in Executors, Retries(e)
      PROVE  /\ ~IsExhausted(cur[e][2]) /\ q = NextAttempt(cur[e])
             /\ Exists(cur[e]) /\ InHand(cur[e]) /\ runStatus'[cur[e]] = "FAILED"
             /\ \A w \in Recoverers : claim'[w] # cur[e]
  <2>1. cur[e] \in Run /\ runStatus[cur[e]] = "RUNNING"
    BY <1>2, HeldIsLast DEF Retries
  <2>2. \A w \in Recoverers : claim[w] # cur[e]
    BY <2>1, HeldIsLast
  <2>3. ~IsExhausted(cur[e][2]) /\ q = NextAttempt(cur[e]) /\ runStatus'[cur[e]] = "FAILED"
    BY <1>2, <2>1 DEF Retries, OpensNext
  <2>. QED  BY <1>2, <2>1, <2>2, <2>3 DEF Retries, Releases, InHand, Active
<1>3. ASSUME NEW w \in Recoverers, Requeues(w)
      PROVE  /\ ~IsExhausted(claim[w][2]) /\ q = NextAttempt(claim[w])
             /\ Exists(claim[w]) /\ InHand(claim[w]) /\ runStatus'[claim[w]] = "FAILED"
             /\ \A v \in Recoverers : claim'[v] # claim[w]
  <2>1. claim[w] \in Run /\ runStatus[claim[w]] = "FAILED"
    BY <1>3, HeldIsLast DEF Requeues
  <2>2. \A v \in Recoverers \ {w} : claim[v] # claim[w]
    BY <2>1 DEF TimelyInv, OwnedByRecovery
  <2>3. ~IsExhausted(claim[w][2]) /\ q = NextAttempt(claim[w]) /\ runStatus'[claim[w]] = "FAILED"
    BY <1>3, <2>1 DEF Requeues, OpensNext
  <2>4. \A v \in Recoverers : claim'[v] # claim[w]
    BY <1>3, <2>1, <2>2 DEF Requeues, Unclaims, AttemptInv, TypeOK, RecoveryTypeOK
  <2>. QED  BY <2>1, <2>3, <2>4 DEF InHand
<1>4. ASSUME NEW j \in Jobs, Creates(j) PROVE q[2] = 1 /\ jobStatus[q[1]] = "NONE"
  BY <1>4, FirstIsRun DEF Creates
<1>5. ~CommitsNothing
  BY DEF CommitsNothing
<1>6. ASSUME NEW e \in Executors, CancelsOwnJob(e) \/ Records(e) PROVE FALSE
  BY <1>6, HeldIsLast DEF CancelsOwnJob, Records
<1>. runStatus \in [Run -> RunStatus \cup {"NONE"}]
  BY DEF AttemptInv, TypeOK, StoreTypeOK
<1>7. ASSUME NEW e \in Executors, GivesUp(e) PROVE FALSE
  BY <1>7, HeldIsLast DEF GivesUp, MoveToDlq
<1>8. ASSUME NEW w \in Recoverers, Buries(w) PROVE FALSE
  BY <1>8, HeldIsLast DEF Buries, MoveToDlq
<1>9. \A w \in Recoverers, j \in Jobs : ~CancelsOrphan(w, j)
  BY DEF CancelsOrphan
<1>10. \A r \in Run : \A e \in Executors : ~Claims(e, r)
  BY DEF Claims
<1>11. \A r \in Run : \A w \in Recoverers : ~TakesOver(w, r)
  BY DEF TakesOver, Stuck
<1>. QED
  <2>1. CASE \E e \in Executors : Retries(e)
    BY <1>2, <2>1 DEF Retries
  <2>2. CASE \E w \in Recoverers : Requeues(w)
    BY <1>3, <2>2 DEF Requeues
  <2>3. CASE \E j \in Jobs : Creates(j)
    BY <1>4, <2>3
  <2>. QED
    BY <1>1, <1>5, <1>6, <1>7, <1>8, <1>9, <1>10, <1>11, <2>1, <2>2, <2>3 DEF Commits

-----------------------------------------------------------------------------
(* Ownership is inductive *)

(* A FAILED run with a successor is left alone.                            *)
LEMMA EarlierInductive ==
    ASSUME AttemptInv, TimelyInv, Next
    PROVE  EarlierFailed'
<1>. SUFFICES ASSUME NEW q \in Run, NEW r \in Run, Later(q, r), Exists(q)'
              PROVE  runStatus'[r] = "FAILED"
  BY DEF EarlierFailed, Later
<1>1. ASSUME NEW p \in Run, Exists(p), Later(p, r) PROVE runStatus'[r] = "FAILED"
  <2>1. runStatus[r] = "FAILED" /\ ~NoneAfter(r)
    BY <1>1 DEF TimelyInv, EarlierFailed, NoneAfter
  <2>. QED  BY <2>1, TimelyMoves DEF Moves
<1>2. CASE Exists(q)
  BY <1>1, <1>2
<1>3. CASE ~Exists(q)
  <2>1. q[2] # 1
    BY RunParts DEF Later
  <2>2. PICK x \in Run : /\ ~IsExhausted(x[2]) /\ q = NextAttempt(x)
                         /\ Exists(x) /\ runStatus'[x] = "FAILED"
    BY <1>3, <2>1, TimelyRow
  <2>3. r = x \/ Later(x, r)
    BY <2>2, BeforeNext
  <2>. QED  BY <1>1, <2>2, <2>3
<1>. QED  BY <1>2, <1>3

(* The run an executor works on leaves RUNNING by that executor's own      *)
(* transaction only: its lock does not expire, so recovery cannot take it. *)
LEMMA OwnedInductive ==
    ASSUME AttemptInv, TimelyInv, Next, "slow" \notin Faults
    PROVE  OwnedByExecutor'
<1>. SUFFICES ASSUME NEW e \in Executors, cur'[e] # NoRun
              PROVE  runStatus'[cur'[e]] = "RUNNING" /\ lock'[cur'[e]] = "held"
  BY DEF OwnedByExecutor
<1>1. Commits /\ ExecutorsKeepOrClaim /\ ExclusiveExecution
  BY EveryStepCommits, ClaimStep DEF AttemptInv
<1>. /\ cur \in [Executors -> Run \cup {NoRun}]
     /\ runStatus \in [Run -> RunStatus \cup {"NONE"}]
     /\ lock \in [Run -> {"null", "held", "expired"}]
  BY DEF AttemptInv, TypeOK, StoreTypeOK, ExecutorTypeOK
<1>2. ASSUME NEW f \in Executors, NEW r \in Run, Claims(f, r), cur'[e] # cur[e]
      PROVE  runStatus'[cur'[e]] = "RUNNING" /\ lock'[cur'[e]] = "held"
  BY <1>2 DEF Claims
<1>3. ASSUME cur'[e] # cur[e] PROVE \E f \in Executors : \E r \in Run : Claims(f, r)
  <2>1. runStatus[cur'[e]] = "PENDING" /\ runStatus'[cur'[e]] = "RUNNING"
    BY <1>1, <1>3 DEF ExecutorsKeepOrClaim
  <2>2. ~CommitsNothing
    BY <1>3 DEF CommitsNothing
  <2>3. \A f \in Executors : ~(CancelsOwnJob(f) \/ Records(f) \/ Retries(f) \/ GivesUp(f))
    BY <1>3 DEF CancelsOwnJob, Records, Retries, GivesUp, Releases
  <2>4. \A w \in Recoverers : ~(Requeues(w) \/ Buries(w))
    BY <1>3 DEF Requeues, Buries, Unclaims
  <2>5. \A w \in Recoverers : \A r \in Run : ~TakesOver(w, r)
    BY <1>3 DEF TakesOver
  <2>6. \A w \in Recoverers : \A j \in Jobs : ~CancelsOrphan(w, j)
    BY <1>3 DEF CancelsOrphan
  <2>7. \A j \in Jobs : ~Creates(j)
    BY <1>3 DEF Creates
  <2>. QED  BY <1>1, <2>2, <2>3, <2>4, <2>5, <2>6, <2>7 DEF Commits
<1>4. ASSUME cur'[e] = cur[e] PROVE runStatus'[cur[e]] = "RUNNING" /\ lock'[cur[e]] = "held"
  <2>. DEFINE r == cur[e]
            Kept == runStatus'[r] = "RUNNING" /\ lock'[r] = "held"
  <2>0. /\ r \in Run /\ r # NoRun
        /\ runStatus[r] = "RUNNING" /\ lock[r] = "held" /\ NoneAfter(r)
        /\ \A f \in Executors \ {e} : cur[f] # r
    BY <1>1, <1>4, HeldIsLast DEF ExclusiveExecution
  <2>1. CASE CommitsNothing
    BY <2>0, <2>1 DEF CommitsNothing
  <2>2. ASSUME NEW f \in Executors, NEW q \in Run, Claims(f, q) PROVE Kept
    BY <2>0, <2>2 DEF Claims, OnlyRun
  <2>3. ASSUME NEW f \in Executors, Releases(f) PROVE cur[f] # r
    BY <1>4, <2>0, <2>3 DEF Releases
  <2>4. ASSUME NEW f \in Executors, CancelsOwnJob(f) \/ Records(f) PROVE Kept
    BY <2>0, <2>3, <2>4 DEF CancelsOwnJob, Records, OnlyRun
  <2>5. ASSUME NEW f \in Executors, Retries(f) PROVE Kept
    <3>1. cur[f] # r /\ NoneAfter(cur[f]) /\ cur[f] \in Run
      BY <2>3, <2>5, HeldIsLast DEF Retries
    <3>2. r # NextAttempt(cur[f])
      BY <2>0, <2>5, <3>1, NextIsNew DEF Retries, Exists
    <3>. QED  BY <2>0, <2>5, <3>1, <3>2 DEF Retries, OpensNext
  <2>6. ASSUME NEW f \in Executors, GivesUp(f) PROVE Kept
    BY <2>0, <2>3, <2>6 DEF GivesUp, MoveToDlq
  <2>7. ASSUME NEW w \in Recoverers, NEW q \in Run, TakesOver(w, q) PROVE Kept
    BY <2>0, <2>7 DEF TakesOver, Stuck, OnlyRun
  <2>8. ASSUME NEW w \in Recoverers, Requeues(w) PROVE Kept
    <3>1. claim[w] \in Run /\ claim[w] # r /\ NoneAfter(claim[w])
      BY <2>0, <2>8, HeldIsLast DEF Requeues
    <3>2. r # NextAttempt(claim[w])
      BY <2>0, <2>8, <3>1, NextIsNew DEF Requeues, Exists
    <3>. QED  BY <2>0, <2>8, <3>1, <3>2 DEF Requeues, OpensNext
  <2>9. ASSUME NEW w \in Recoverers, Buries(w) PROVE Kept
    <3>1. claim[w] \in Run /\ claim[w] # r
      BY <2>0, <2>9, HeldIsLast DEF Buries
    <3>. QED  BY <2>0, <2>9, <3>1 DEF Buries, MoveToDlq
  <2>10. ASSUME NEW w \in Recoverers, NEW j \in Jobs, CancelsOrphan(w, j) PROVE Kept
    BY <2>0, <2>10 DEF CancelsOrphan
  <2>11. ASSUME NEW j \in Jobs, Creates(j) PROVE Kept
    BY <2>0, <2>11, FirstIsRun DEF Creates, OnlyRun, Exists
  <2>. QED
    BY <1>1, <2>1, <2>2, <2>4, <2>5, <2>6, <2>7, <2>8, <2>9, <2>10, <2>11 DEF Commits
<1>. QED  BY <1>2, <1>3, <1>4

(* Only the compare-and-set gives a run to recovery.                       *)
LEMMA NewClaim ==
    ASSUME AttemptInv, Next, NEW w \in Recoverers, claim'[w] # NoRun, claim'[w] # claim[w]
    PROVE  claim'[w] \in Run /\ TakesOver(w, claim'[w])
<1>1. Commits
  BY EveryStepCommits DEF AttemptInv
<1>. claim \in [Recoverers -> Run \cup {NoRun}]
  BY DEF AttemptInv, TypeOK, RecoveryTypeOK
<1>2. ~CommitsNothing
  BY DEF CommitsNothing
<1>3. \A f \in Executors : ~(CancelsOwnJob(f) \/ Records(f) \/ Retries(f) \/ GivesUp(f))
  BY DEF CancelsOwnJob, Records, Retries, GivesUp, Releases
<1>4. \A f \in Executors : \A r \in Run : ~Claims(f, r)
  BY DEF Claims
<1>5. \A v \in Recoverers : ~(Requeues(v) \/ Buries(v))
  BY DEF Requeues, Buries, Unclaims
<1>6. \A v \in Recoverers : \A j \in Jobs : ~CancelsOrphan(v, j)
  BY DEF CancelsOrphan
<1>7. \A j \in Jobs : ~Creates(j)
  BY DEF Creates
<1>8. PICK v \in Recoverers : \E r \in Run : TakesOver(v, r)
  BY <1>1, <1>2, <1>3, <1>4, <1>5, <1>6, <1>7 DEF Commits
<1>9. PICK r \in Run : TakesOver(v, r)
  BY <1>8
<1>10. v = w /\ claim'[w] = r
  BY <1>9 DEF TakesOver
<1>. QED  BY <1>9, <1>10

(* What recovery holds stays FAILED and last, until recovery lets go of it *)
LEMMA ReapedInductive ==
    ASSUME AttemptInv, TimelyInv, Next
    PROVE  OwnedByRecovery'
<1>. SUFFICES ASSUME NEW w \in Recoverers, claim'[w] # NoRun
              PROVE  /\ runStatus'[claim'[w]] = "FAILED"
                     /\ \A q \in Run : Later(q, claim'[w]) => runStatus'[q] = "NONE"
                     /\ \A v \in Recoverers \ {w} : claim'[v] # claim'[w]
  BY DEF OwnedByRecovery, NoneAfter, Exists, Later
<1>. DEFINE r == claim'[w]
<1>. /\ claim \in [Recoverers -> Run \cup {NoRun}]
     /\ runStatus \in [Run -> RunStatus \cup {"NONE"}]
  BY DEF AttemptInv, TypeOK, StoreTypeOK, RecoveryTypeOK
<1>1. r \in Run /\ (r # claim[w] => TakesOver(w, r))
  BY NewClaim
<1>2. NoneAfter(r)
  BY <1>1, HeldIsLast DEF TakesOver, Stuck, AttemptInv, OneLiveAttempt, Active
<1>3. runStatus'[r] = "FAILED"
  <2>1. CASE r # claim[w]
    BY <1>1, <2>1 DEF TakesOver
  <2>2. CASE r = claim[w]
    <3>1. runStatus[r] = "FAILED"
      BY <1>1, <2>2, HeldIsLast
    <3>2. SUFFICES ASSUME runStatus'[r] = "DEAD" PROVE FALSE
      BY <1>1, <3>1, <3>2, TimelyMoves DEF Moves
    <3>3. ASSUME NEW f \in Executors, GivesUp(f) PROVE FALSE
      <4>1. cur[f] = r
        BY <1>1, <3>1, <3>2, <3>3 DEF GivesUp, MoveToDlq
      <4>. QED  BY <1>1, <3>1, <4>1, HeldIsLast
    <3>4. ASSUME NEW v \in Recoverers, Buries(v) PROVE FALSE
      <4>1. claim[v] = r
        BY <1>1, <3>1, <3>2, <3>4 DEF Buries, MoveToDlq
      <4>2. v = w
        BY <2>2, <4>1 DEF TimelyInv, OwnedByRecovery
      <4>. QED  BY <3>4, <4>2 DEF Buries, Unclaims
    <3>5. ~CommitsNothing
      BY <3>1, <3>2 DEF CommitsNothing
    <3>6. \A f \in Executors : ~(CancelsOwnJob(f) \/ Records(f))
      BY <1>1, <3>1, <3>2 DEF CancelsOwnJob, Records, OnlyRun
    <3>7. \A f \in Executors : \A q \in Run : ~Claims(f, q)
      BY <1>1, <3>1, <3>2 DEF Claims, OnlyRun
    <3>8. \A f \in Executors : ~Retries(f)
      BY <1>1, <3>1, <3>2 DEF Retries, OpensNext, Exists
    <3>9. \A v \in Recoverers : ~Requeues(v)
      BY <1>1, <3>1, <3>2 DEF Requeues, OpensNext, Exists
    <3>10. \A v \in Recoverers : \A q \in Run : ~TakesOver(v, q)
      BY <1>1, <3>1, <3>2 DEF TakesOver, OnlyRun
    <3>11. \A v \in Recoverers : \A j \in Jobs : ~CancelsOrphan(v, j)
      BY <1>1, <3>1, <3>2 DEF CancelsOrphan
    <3>12. \A j \in Jobs : ~Creates(j)
      BY <1>1, <3>1, <3>2 DEF Creates, OnlyRun
    <3>13. Commits
      BY EveryStepCommits DEF AttemptInv
    <3>. QED
      BY <3>3, <3>4, <3>5, <3>6, <3>7, <3>8, <3>9, <3>10, <3>11, <3>12, <3>13 DEF Commits
  <2>. QED  BY <2>1, <2>2
<1>4. ASSUME NEW q \in Run, Later(q, r), runStatus'[q] # "NONE" PROVE FALSE
  <2>1. ~Exists(q) /\ q[2] # 1 /\ Exists(q)'
    BY <1>1, <1>2, <1>4, RunParts DEF NoneAfter, Later, Exists
  <2>2. PICK x \in Run : /\ ~IsExhausted(x[2]) /\ q = NextAttempt(x)
                         /\ Exists(x) /\ \A v \in Recoverers : claim'[v] # x
    BY <1>4, <2>1, TimelyRow
  <2>3. Later(x, r)
    BY <1>1, <1>4, <2>2, BeforeNext
  <2>. QED  BY <1>2, <2>2, <2>3 DEF NoneAfter
<1>5. ASSUME NEW v \in Recoverers \ {w}, claim'[v] = r PROVE FALSE
  <2>1. CASE r = claim[w] /\ r = claim[v]
    BY <2>1 DEF TimelyInv, OwnedByRecovery
  <2>2. CASE r # claim[w]
    <3>1. runStatus[r] = "RUNNING" /\ claim[v] = r
      BY <1>1, <1>5, <2>2 DEF TakesOver, Stuck
    <3>. QED  BY <1>1, <3>1, HeldIsLast
  <2>3. CASE r # claim[v]
    <3>1. TakesOver(v, r)
      BY <1>5, <2>3, NewClaim
    <3>2. runStatus[r] = "RUNNING" /\ claim[w] = r
      BY <1>1, <1>5, <3>1 DEF TakesOver, Stuck
    <3>. QED  BY <1>1, <3>2, HeldIsLast
  <2>. QED  BY <2>1, <2>2, <2>3
<1>. QED  BY <1>3, <1>4, <1>5

(* The ownership of runs, in every reachable state.                        *)
LEMMA TimelyAlways ==
    ASSUME "slow" \notin Faults
    PROVE  Spec => [](AttemptInv /\ TimelyInv)
<1>1. Init => AttemptInv /\ TimelyInv
  <2>1. Init => TimelyInv
    BY DEF Init, StoreInit, ExecutorInit, RecoveryInit, TimelyInv, OwnedByExecutor,
           OwnedByRecovery, EarlierFailed, Exists
  <2>. QED  BY <2>1, AttemptInit
<1>2. AttemptInv /\ TimelyInv /\ [Next]_vars => TimelyInv'
  <2>1. AttemptInv /\ TimelyInv /\ Next => TimelyInv'
    BY OwnedInductive, ReapedInductive, EarlierInductive DEF TimelyInv
  <2>2. TimelyInv /\ UNCHANGED vars => TimelyInv'
    BY DEF vars, storeVars, executorVars, recoveryVars, TimelyInv, OwnedByExecutor,
           OwnedByRecovery, EarlierFailed, NoneAfter, Exists
  <2>. QED  BY <2>1, <2>2
<1>. QED  BY <1>1, <1>2, AttemptInductive, PTL DEF Spec

-----------------------------------------------------------------------------
(* The run state machine *)

(* FollowsStateMachine: with timely executors the workers' transactions,   *)
(* none of which asks JobStateMachine, move every run as it allows.        *)
THEOREM RunsFollowStateMachine ==
    ASSUME "slow" \notin Faults
    PROVE  Spec => FollowsStateMachine
<1>1. Init => Lifecycle!Init
  BY DEF Init, StoreInit, Lifecycle!Init
<1>2. AttemptInv /\ TimelyInv /\ [Next]_vars => [Lifecycle!TransitionTo]_runStatus
  <2>1. ASSUME NEW r \in Run, Moves(r)
        PROVE  \/ runStatus'[r] = runStatus[r]
               \/ Lifecycle!CanTransition(runStatus[r], runStatus'[r])
               \/ Lifecycle!Inserted(runStatus[r], runStatus'[r])
    BY <2>1 DEF Moves, Lifecycle!CanTransition, Lifecycle!Inserted, Lifecycle!ValidTransitions
  <2>2. AttemptInv /\ TimelyInv /\ Next => Lifecycle!TransitionTo
    BY <2>1, TimelyMoves DEF Lifecycle!TransitionTo
  <2>3. UNCHANGED vars => UNCHANGED runStatus
    BY DEF vars, storeVars
  <2>. QED  BY <2>2, <2>3
<1>. QED  BY <1>1, <1>2, TimelyAlways, PTL DEF Spec, FollowsStateMachine, Lifecycle!Spec

-----------------------------------------------------------------------------
(* Ends are final *)

(* A run that SUCCEEDED, or is DEAD, is in nobody's hands and stays so.    *)
LEMMA EndStays ==
    ASSUME AttemptInv, TimelyInv, Next, NEW r \in Run, runStatus[r] \in {"SUCCEEDED", "DEAD"}
    PROVE  runStatus'[r] = runStatus[r]
BY TimelyMoves DEF Moves

(* The last attempt of a job stays the last unless it was in hand, and     *)
(* becomes FAILED.                                                         *)
LEMMA LastStays ==
    ASSUME AttemptInv, TimelyInv, Next, NEW r \in Run, Exists(r), NoneAfter(r),
           runStatus'[r] # "FAILED"
    PROVE  NoneAfter(r)'
<1>. SUFFICES ASSUME NEW q \in Run, Later(q, r), Exists(q)' PROVE FALSE
  BY DEF NoneAfter, Later
<1>1. ~Exists(q) /\ q[2] # 1
  BY RunParts DEF NoneAfter, Later
<1>2. PICK x \in Run : /\ ~IsExhausted(x[2]) /\ q = NextAttempt(x)
                       /\ Exists(x) /\ runStatus'[x] = "FAILED"
  BY <1>1, TimelyRow
<1>3. Later(x, r)
  BY <1>2, BeforeNext
<1>. QED  BY <1>2, <1>3 DEF NoneAfter

(* A new key belongs to the run its executor held until now.               *)
LEMMA FinalInductive ==
    ASSUME AttemptInv, TimelyInv, RecordedPaymentIsFinal, Next
    PROVE  RecordedPaymentIsFinal'
<1>. SUFFICES ASSUME NEW r \in keys' PROVE runStatus'[r] = "SUCCEEDED" /\ NoneAfter(r)'
  BY DEF RecordedPaymentIsFinal
<1>0. keys \subseteq Run /\ TypeOK /\ Holding
  BY DEF AttemptInv, TypeOK, StoreTypeOK
<1>1. CASE r \in keys
  <2>1. r \in Run /\ runStatus[r] = "SUCCEEDED" /\ NoneAfter(r)
    BY <1>0, <1>1 DEF RecordedPaymentIsFinal
  <2>2. runStatus'[r] = "SUCCEEDED"
    BY <2>1, EndStays
  <2>. QED  BY <2>1, <2>2, LastStays DEF Exists
<1>2. CASE r \notin keys
  <2>1. PICK e \in Executors : runStatus'[r] = "SUCCEEDED" /\ cur[e] = r
    BY <1>0, <1>2, ClaimStep DEF KeysAreStoredOnce
  <2>2. r \in Run /\ keys' \subseteq Run
    BY <1>0, TypeInductive DEF TypeOK, StoreTypeOK
  <2>3. Exists(r) /\ NoneAfter(r)
    BY <2>1, <2>2, HeldIsLast DEF Exists
  <2>. QED  BY <2>1, <2>2, <2>3, LastStays
<1>. QED  BY <1>1, <1>2

(* RecordedPaymentIsFinal: with timely executors a recorded payment is     *)
(* neither dead-lettered nor followed by another attempt.                  *)
THEOREM RecordedIsFinal ==
    ASSUME "slow" \notin Faults
    PROVE  Spec => []RecordedPaymentIsFinal
<1>1. Init => RecordedPaymentIsFinal
  BY DEF Init, StoreInit, RecordedPaymentIsFinal
<1>2. AttemptInv /\ TimelyInv /\ RecordedPaymentIsFinal /\ [Next]_vars => RecordedPaymentIsFinal'
  BY FinalInductive DEF vars, storeVars, RecordedPaymentIsFinal, NoneAfter, Exists
<1>. QED  BY <1>1, <1>2, TimelyAlways, PTL DEF Spec

(* The entry is written by the transaction that makes the run DEAD, and no *)
(* run is DEAD twice.                                                      *)
LEMMA DeadLetterInductive ==
    ASSUME AttemptInv, TimelyInv, SingleDeadLetter, Next
    PROVE  SingleDeadLetter'
<1>1. Commits
  BY EveryStepCommits DEF AttemptInv
<1>. /\ runStatus \in [Run -> RunStatus \cup {"NONE"}]
     /\ dlq \in [Run -> Nat]
  BY DEF AttemptInv, TypeOK, StoreTypeOK
<1>. USE DEF SingleDeadLetter
<1>2. ASSUME NEW r \in Run, runStatus[r] # "DEAD", MoveToDlq(r) PROVE SingleDeadLetter'
  BY <1>2 DEF MoveToDlq
<1>3. ASSUME UNCHANGED dlq, \A r \in Run : runStatus'[r] = "DEAD" <=> runStatus[r] = "DEAD"
      PROVE  SingleDeadLetter'
  BY <1>3
<1>4. CASE CommitsNothing
  BY <1>3, <1>4 DEF CommitsNothing
<1>5. ASSUME NEW e \in Executors, GivesUp(e) PROVE SingleDeadLetter'
  BY <1>2, <1>5, HeldIsLast DEF GivesUp
<1>6. ASSUME NEW w \in Recoverers, Buries(w) PROVE SingleDeadLetter'
  BY <1>2, <1>6, HeldIsLast DEF Buries
<1>. USE DEF OnlyRun
<1>7. ASSUME NEW e \in Executors, CancelsOwnJob(e) \/ Records(e) PROVE SingleDeadLetter'
  BY <1>3, <1>7, HeldIsLast DEF CancelsOwnJob, Records
<1>8. ASSUME NEW e \in Executors, NEW r \in Run, Claims(e, r) PROVE SingleDeadLetter'
  BY <1>3, <1>8 DEF Claims
<1>9. ASSUME NEW w \in Recoverers, NEW r \in Run, TakesOver(w, r) PROVE SingleDeadLetter'
  BY <1>3, <1>9 DEF TakesOver, Stuck
<1>10. ASSUME NEW e \in Executors, Retries(e) PROVE SingleDeadLetter'
  BY <1>3, <1>10, HeldIsLast DEF Retries, OpensNext, Exists
<1>11. ASSUME NEW w \in Recoverers, Requeues(w) PROVE SingleDeadLetter'
  BY <1>3, <1>11, HeldIsLast DEF Requeues, OpensNext, Exists
<1>12. ASSUME NEW w \in Recoverers, NEW j \in Jobs, CancelsOrphan(w, j) PROVE SingleDeadLetter'
  BY <1>3, <1>12 DEF CancelsOrphan
<1>13. ASSUME NEW j \in Jobs, Creates(j) PROVE SingleDeadLetter'
  BY <1>3, <1>13, FirstIsRun DEF Creates, Exists
<1>. QED
  BY <1>1, <1>4, <1>5, <1>6, <1>7, <1>8, <1>9, <1>10, <1>11, <1>12, <1>13 DEF Commits

(* SingleDeadLetter: with timely executors a run is DEAD exactly when it   *)
(* has its one entry, whatever crashes between recovery's transactions.    *)
THEOREM DeadLettersAreSingle ==
    ASSUME "slow" \notin Faults
    PROVE  Spec => []SingleDeadLetter
<1>1. Init => SingleDeadLetter
  BY DEF Init, StoreInit, SingleDeadLetter
<1>2. AttemptInv /\ TimelyInv /\ SingleDeadLetter /\ [Next]_vars => SingleDeadLetter'
  BY DeadLetterInductive DEF vars, storeVars, SingleDeadLetter
<1>. QED  BY <1>1, <1>2, TimelyAlways, PTL DEF Spec

-----------------------------------------------------------------------------
(* The outcome of a job *)

(* A job that was cancelled goes on only if a dependency of it is dead,    *)
(* and then stops at the dependency check.                                 *)
StoppedWhenCancelled ==
    \A j \in Jobs : jobStatus[j] = "CANCELLED" =>
        \/ \E d \in Deps[j] : DeadLettered(d)
        \/ \A r \in Run : r[1] = j => ~InHand(r)

(* The statuses of scheduled_jobs that the workers use.                    *)
JobStatusesUsed == \A j \in Jobs : jobStatus[j] \in {"NONE", "READY", "DONE", "CANCELLED"}

(* The last part is where jobs are inserted after their dependencies.      *)
OutcomeInv ==
    /\ AttemptInv /\ TimelyInv /\ LedgerInv /\ DependencyInv
    /\ RecordedPaymentIsFinal /\ StoppedWhenCancelled /\ JobStatusesUsed
    /\ absent = {}

(* A job has at most one run that did not fail.                            *)
LEMMA OneUnfailed ==
    ASSUME TimelyInv, NEW q \in Run, NEW r \in Run, q[1] = r[1], Exists(q), Exists(r),
           runStatus[q] # "FAILED", runStatus[r] # "FAILED"
    PROVE  q = r
BY InOrder DEF TimelyInv, EarlierFailed

(* So a job whose payment is recorded, and one that is dead-lettered, has  *)
(* no live attempt, and no job is both.                                    *)
LEMMA OneEnd ==
    ASSUME AttemptInv, TimelyInv, RecordedPaymentIsFinal, NEW j \in Jobs
    PROVE  /\ Recorded(j) => ~DeadLettered(j)
           /\ Recorded(j) \/ DeadLettered(j) => \A r \in Run : r[1] = j => ~Active(r)
<1>1. keys \subseteq Run
  BY DEF AttemptInv, TypeOK, StoreTypeOK
<1>2. ASSUME NEW q \in keys, q[1] = j, NEW r \in Run, r[1] = j, Exists(r), runStatus[r] # "FAILED"
      PROVE  r = q /\ runStatus[r] = "SUCCEEDED"
  BY <1>1, <1>2, OneUnfailed DEF RecordedPaymentIsFinal, Exists
<1>3. Recorded(j) => ~DeadLettered(j)
  BY <1>2 DEF Recorded, DeadLettered, Exists
<1>4. Recorded(j) => \A r \in Run : r[1] = j => ~Active(r)
  BY <1>2 DEF Recorded, Active, Exists
<1>5. DeadLettered(j) => \A r \in Run : r[1] = j => ~Active(r)
  BY OneUnfailed DEF DeadLettered, Active, Exists
<1>. QED  BY <1>3, <1>4, <1>5

(* A job that pays, or has paid, has no dead dependency.                   *)
LEMMA PaidHasNoDeadDependency ==
    ASSUME OutcomeInv, NEW r \in paid, NEW d \in Deps[r[1]]
    PROVE  ~DeadLettered(d)
<1>1. r \in Run /\ r[1] \in Jobs
  BY RunParts DEF OutcomeInv, AttemptInv, TypeOK, ExecutorTypeOK
<1>2. d \in Jobs
  BY <1>1, StoreAssumption DEF StoreAssumption
<1>3. Recorded(d)
  BY DEF OutcomeInv, DependencyInv, DependenciesPaidFirst
<1>. QED  BY <1>2, <1>3, OneEnd DEF OutcomeInv

(* A run comes into somebody's hands as a first attempt, from another hand *)
(* or from the predecessor that was in hand.                               *)
LEMMA HandedDown ==
    ASSUME AttemptInv, TimelyInv, Next, NEW r \in Run, InHand(r)'
    PROVE  \/ InHand(r)
           \/ jobStatus[r[1]] = "NONE"
           \/ \E x \in Run : x[1] = r[1] /\ InHand(x)
<1>1. ASSUME ~Exists(r), Exists(r)'
      PROVE  jobStatus[r[1]] = "NONE" \/ \E x \in Run : x[1] = r[1] /\ InHand(x)
  <2>1. ASSUME NEW x \in Run, ~IsExhausted(x[2]), r = NextAttempt(x) PROVE x[1] = r[1]
    BY <2>1, NextAttemptIsRun
  <2>. QED  BY <1>1, <2>1, TimelyRow
<1>2. CASE Active(r)'
  <2>1. Active(r) \/ (~Exists(r) /\ Exists(r)')
    BY <1>2, TimelyMoves DEF Moves, Active, Exists
  <2>. QED  BY <1>1, <2>1 DEF InHand
<1>3. ASSUME NEW w \in Recoverers, claim'[w] = r PROVE InHand(r)
  <2>1. CASE claim[w] = r
    BY <2>1 DEF InHand
  <2>2. CASE claim[w] # r
    <3>1. TakesOver(w, r)
      BY <1>3, <2>2, NewClaim, NoRunIsNoRun
    <3>. QED  BY <3>1 DEF TakesOver, Stuck, InHand, Active
  <2>. QED  BY <2>1, <2>2
<1>. QED  BY <1>2, <1>3 DEF InHand

(* A job becomes CANCELLED by the executor of its run, or by recovery.     *)
LEMMA NewlyCancelled ==
    ASSUME AttemptInv, Next, NEW j \in Jobs, jobStatus[j] # "CANCELLED", jobStatus'[j] = "CANCELLED"
    PROVE  \/ \E e \in Executors : CancelsOwnJob(e) /\ cur[e][1] = j
           \/ \E d \in Deps[j] : DeadLettered(d)
<1>. USE DEF OnlyJob
<1>1. Commits
  BY EveryStepCommits DEF AttemptInv
<1>2. \A e \in Executors : CancelsOwnJob(e) => cur[e][1] = j
  BY DEF CancelsOwnJob
<1>3. \A e \in Executors : ~Records(e)
  BY RunParts DEF Records
<1>4. \A w \in Recoverers : \A i \in Jobs : CancelsOrphan(w, i) => \E d \in Deps[j] : DeadLettered(d)
  BY DEF CancelsOrphan
<1>5. \A i \in Jobs : ~Creates(i)
  BY DEF Creates
<1>. QED
  BY <1>1, <1>2, <1>3, <1>4, <1>5
  DEF Commits, CommitsNothing, Claims, Retries, GivesUp, MoveToDlq, TakesOver, Requeues, Buries

(* An executor that cancels its job leaves it with nothing in hand.        *)
LEMMA CancelStops ==
    ASSUME AttemptInv, TimelyInv, Next, NEW e \in Executors, CancelsOwnJob(e),
           NEW r \in Run, r[1] = cur[e][1]
    PROVE  ~InHand(r)'
<1>1. cur[e] \in Run /\ runStatus[cur[e]] = "RUNNING"
  BY HeldIsLast DEF CancelsOwnJob
<1>2. UNCHANGED claim /\ runStatus'[cur[e]] = "FAILED" /\ OnlyRun(cur[e])
  BY DEF CancelsOwnJob, Releases
<1>3. ~Active(r)'
  BY <1>1, <1>2, OneUnfailed DEF OnlyRun, Active, Exists
<1>4. ASSUME NEW w \in Recoverers, claim[w] = r PROVE FALSE
  <2>1. runStatus[r] = "FAILED" /\ NoneAfter(r)
    BY <1>4, HeldIsLast
  <2>2. Later(r, cur[e])
    BY <1>1, <2>1, InOrder DEF NoneAfter, Exists
  <2>. QED  BY <1>1, <2>1, <2>2 DEF TimelyInv, EarlierFailed, Exists
<1>. QED  BY <1>2, <1>3, <1>4 DEF InHand

(* A cancelled job stays stopped.                                          *)
LEMMA StoppedInductive ==
    ASSUME AttemptInv, TimelyInv, StoppedWhenCancelled, Next
    PROVE  StoppedWhenCancelled'
<1>. SUFFICES ASSUME NEW j \in Jobs, jobStatus'[j] = "CANCELLED"
              PROVE  \/ \E d \in Deps[j] : DeadLettered(d)'
                     \/ \A r \in Run : r[1] = j => ~InHand(r)'
  BY DEF StoppedWhenCancelled
<1>1. CASE \E d \in Deps[j] : DeadLettered(d)
  BY <1>1, EndStays DEF DeadLettered
<1>2. CASE jobStatus[j] = "CANCELLED" /\ \A r \in Run : r[1] = j => ~InHand(r)
  BY <1>2, HandedDown
<1>3. ASSUME NEW e \in Executors, CancelsOwnJob(e), cur[e][1] = j
      PROVE  \A r \in Run : r[1] = j => ~InHand(r)'
  BY <1>3, CancelStops
<1>. QED  BY <1>1, <1>2, <1>3, NewlyCancelled DEF StoppedWhenCancelled

(* No step gives a job another status.                                     *)
LEMMA JobStatusesInductive ==
    ASSUME AttemptInv, JobStatusesUsed, Next
    PROVE  JobStatusesUsed'
<1>. USE DEF JobStatusesUsed, OnlyJob
<1>1. Commits
  BY EveryStepCommits DEF AttemptInv
<1>2. ASSUME NEW e \in Executors, CancelsOwnJob(e) \/ Records(e) PROVE JobStatusesUsed'
  BY <1>2 DEF CancelsOwnJob, Records
<1>3. ASSUME NEW w \in Recoverers, NEW j \in Jobs, CancelsOrphan(w, j) PROVE JobStatusesUsed'
  BY <1>3 DEF CancelsOrphan
<1>4. ASSUME NEW j \in Jobs, Creates(j) PROVE JobStatusesUsed'
  BY <1>4 DEF Creates
<1>5. CASE UNCHANGED jobStatus
  BY <1>5
<1>. QED
  BY <1>1, <1>2, <1>3, <1>4, <1>5
  DEF Commits, CommitsNothing, Claims, Retries, GivesUp, MoveToDlq, TakesOver, Requeues, Buries

(* In order, an insert finds the rows of all dependencies.                 *)
LEMMA AbsentStaysEmpty ==
    ASSUME "unordered" \notin Faults, absent = {}, Next
    PROVE  absent' = {}
<1>1. ASSUME NEW j \in Jobs, InsertJob(j) PROVE absent' = {}
  <2>. DEFINE missing == {d \in Deps[j] : jobStatus[d] = "NONE"}
  <2>1. missing = {} /\ absent' = absent \cup ({j} \X missing)
    BY <1>1 DEF InsertJob
  <2>. QED  BY <2>1
<1>. QED
  BY <1>1 DEF Next, ExecutorStep, ExecutorFault, RecoveryStep, RecoveryFault, Environment

(* All of it, in every reachable state.                                    *)
LEMMA OutcomeAlways ==
    ASSUME "slow" \notin Faults, "unordered" \notin Faults
    PROVE  Spec => []OutcomeInv
<1>. DEFINE Ends == StoppedWhenCancelled /\ JobStatusesUsed /\ absent = {}
<1>1. Init => Ends
  BY DEF Init, StoreInit, StoppedWhenCancelled, JobStatusesUsed
<1>2. AttemptInv /\ TimelyInv /\ Ends /\ [Next]_vars => Ends'
  <2>1. AttemptInv /\ TimelyInv /\ Ends /\ Next => Ends'
    BY StoppedInductive, JobStatusesInductive, AbsentStaysEmpty
  <2>2. Ends /\ UNCHANGED vars => Ends'
    BY DEF vars, storeVars, executorVars, recoveryVars, StoppedWhenCancelled, JobStatusesUsed,
           DeadLettered, InHand, Active
  <2>. QED  BY <2>1, <2>2
<1>3. Spec => []Ends
  <2>. HIDE DEF Ends
  <2>. QED  BY <1>1, <1>2, TimelyAlways, PTL DEF Spec
<1>4. AttemptInv /\ TimelyInv /\ LedgerInv /\ DependencyInv /\ RecordedPaymentIsFinal /\ Ends
      => OutcomeInv
  BY DEF OutcomeInv
<1>. HIDE DEF Ends
<1>. QED  BY <1>3, <1>4, TimelyAlways, DependencyInvAlways, RecordedIsFinal, PTL

(* A job whose row stays, and which loses and wins no dead run, has the    *)
(* same outcome as before.                                                 *)
LEMMA SameOutcome ==
    ASSUME NEW j \in Jobs, jobStatus'[j] = jobStatus[j],
           \A r \in Run : r[1] = j => (runStatus'[r] = "DEAD" <=> runStatus[r] = "DEAD")
    PROVE  Outcome(j)' = Outcome(j)
<1>1. DeadLettered(j)' <=> DeadLettered(j)
  BY DEF DeadLettered
<1>. QED  BY <1>1 DEF Outcome

(* The change of one job's outcome, as a step of the abstract module.      *)
LEMMA OutcomeStep ==
    ASSUME NEW k \in Jobs, \A i \in Jobs \ {k} : Outcome(i)' = Outcome(i),
           \/ Outcome(k)' = Outcome(k)
           \/ <<Outcome(k), Outcome(k)'>> \in JobOutcomes!MayBecome
    PROVE  [JobOutcomes!Next]_Outcomes
<1>1. CASE Outcome(k)' = Outcome(k)
  <2>1. \A i \in Jobs : Outcome(i)' = Outcome(i)
    BY <1>1
  <2>. QED  BY <2>1 DEF Outcomes
<1>2. CASE <<Outcome(k), Outcome(k)'>> \in JobOutcomes!MayBecome
  <2>1. Outcomes[k] = Outcome(k) /\ Outcomes'[k] = Outcome(k)'
    BY DEF Outcomes
  <2>2. Outcomes' = [Outcomes EXCEPT ![k] = Outcomes'[k]]
    BY DEF Outcomes
  <2>3. JobOutcomes!Step(k)
    BY <1>2, <2>1, <2>2 DEF JobOutcomes!Step
  <2>. QED  BY <2>3 DEF JobOutcomes!Next
<1>. QED  BY <1>1, <1>2

(* Dead runs of the jobs a commit is not about.                            *)
LEMMA OthersKeepOutcome ==
    ASSUME NEW j \in Jobs, OnlyJob(j), \A r \in Run : r[1] # j =>
                               (runStatus'[r] = "DEAD" <=> runStatus[r] = "DEAD")
    PROVE  \A i \in Jobs \ {j} : Outcome(i)' = Outcome(i)
BY SameOutcome DEF OnlyJob

(* Every step ends at most one job, and none that has ended.               *)
LEMMA OutcomesStep ==
    ASSUME OutcomeInv, Next
    PROVE  [JobOutcomes!Next]_Outcomes
<1>. DEFINE Goal == [JobOutcomes!Next]_Outcomes
<1>. AttemptInv /\ TimelyInv /\ RecordedPaymentIsFinal
  BY DEF OutcomeInv
<1>0. Commits
  BY EveryStepCommits DEF AttemptInv
<1>. runStatus \in [Run -> RunStatus \cup {"NONE"}]
  BY DEF AttemptInv, TypeOK, StoreTypeOK
<1>1. ASSUME UNCHANGED jobStatus,
             \A r \in Run : runStatus'[r] = "DEAD" <=> runStatus[r] = "DEAD"
      PROVE  Goal
  <2>1. \A i \in Jobs : Outcome(i)' = Outcome(i)
    BY <1>1, SameOutcome
  <2>. QED  BY <2>1 DEF Outcomes
<1>2. CASE CommitsNothing
  BY <1>1, <1>2 DEF CommitsNothing
<1>. USE DEF OnlyRun
<1>3. ASSUME NEW e \in Executors, NEW r \in Run, Claims(e, r) PROVE Goal
  BY <1>1, <1>3 DEF Claims
<1>4. ASSUME NEW w \in Recoverers, NEW r \in Run, TakesOver(w, r) PROVE Goal
  BY <1>1, <1>4 DEF TakesOver, Stuck
<1>5. ASSUME NEW e \in Executors, Retries(e) PROVE Goal
  BY <1>1, <1>5, HeldIsLast DEF Retries, OpensNext, Exists
<1>6. ASSUME NEW w \in Recoverers, Requeues(w) PROVE Goal
  BY <1>1, <1>6, HeldIsLast DEF Requeues, OpensNext, Exists
<1>7. ASSUME NEW r \in Run, MoveToDlq(r) PROVE Goal
  <2>1. r[1] \in Jobs /\ UNCHANGED jobStatus /\ runStatus' = [runStatus EXCEPT ![r] = "DEAD"]
    BY <1>7, RunParts DEF MoveToDlq
  <2>2. \A i \in Jobs \ {r[1]} : Outcome(i)' = Outcome(i)
    BY <2>1, OthersKeepOutcome DEF OnlyJob
  <2>3. Outcome(r[1])' = Outcome(r[1]) \/ (Outcome(r[1]) = "READY" /\ Outcome(r[1])' = "DEAD")
    <3>1. DeadLettered(r[1])'
      BY <2>1 DEF DeadLettered
    <3>. QED  BY <2>1, <3>1 DEF Outcome
  <2>. QED  BY <2>1, <2>2, <2>3, OutcomeStep DEF JobOutcomes!MayBecome
<1>8. ASSUME NEW j \in Jobs, jobStatus[j] \notin {"NONE", "DONE"}, jobStatus'[j] = "CANCELLED",
             \A i \in Jobs \ {j} : Outcome(i)' = Outcome(i)
      PROVE  Goal
  <2>1. Outcome(j) \in {"READY", "DEAD", "CANCELLED"} /\ Outcome(j)' = "CANCELLED"
    BY <1>8 DEF OutcomeInv, JobStatusesUsed, Outcome
  <2>. QED  BY <1>8, <2>1, OutcomeStep DEF JobOutcomes!MayBecome
<1>9. ASSUME NEW e \in Executors, CancelsOwnJob(e) PROVE Goal
  <2>0. PICK j \in Jobs : j = cur[e][1]
    BY <1>9, RunParts DEF CancelsOwnJob
  <2>1. /\ cur[e] \in Run
        /\ runStatus[cur[e]] = "RUNNING" /\ Active(cur[e]) /\ Exists(cur[e])
    BY <1>9, HeldIsLast, RunParts DEF CancelsOwnJob, Active, Exists
  <2>2. jobStatus[j] # "NONE"
    BY <2>0, <2>1 DEF AttemptInv, RowsInOrder
  <2>3. jobStatus[j] # "DONE"
    BY <2>0, <2>1, OneEnd DEF OutcomeInv, LedgerInv, LedgerSound
  <2>4. \A i \in Jobs \ {j} : Outcome(i)' = Outcome(i)
    BY <1>9, <2>0, <2>1, OthersKeepOutcome DEF CancelsOwnJob
  <2>. QED  BY <1>8, <1>9, <2>0, <2>1, <2>2, <2>3, <2>4 DEF CancelsOwnJob
<1>10. ASSUME NEW w \in Recoverers, NEW j \in Jobs, CancelsOrphan(w, j) PROVE Goal
  <2>1. jobStatus[j] # "NONE"
    BY <1>10 DEF CancelsOrphan, OutcomeInv, DependencyInv, RowsExist
  <2>2. PICK d \in Deps[j] : DeadLettered(d)
    BY <1>10 DEF CancelsOrphan
  <2>3. jobStatus[j] # "DONE"
    <3>1. ASSUME Recorded(j) PROVE FALSE
      <4>1. PICK r \in paid : r[1] = j
        BY <3>1 DEF Recorded, OutcomeInv, LedgerInv, LedgerSound
      <4>. QED  BY <2>2, <4>1, PaidHasNoDeadDependency
    <3>. QED  BY <3>1 DEF OutcomeInv, LedgerInv, LedgerSound
  <2>4. \A i \in Jobs \ {j} : Outcome(i)' = Outcome(i)
    BY <1>10, OthersKeepOutcome DEF CancelsOrphan
  <2>. QED  BY <1>8, <1>10, <2>1, <2>3, <2>4 DEF CancelsOrphan
<1>11. ASSUME NEW e \in Executors, Records(e) PROVE Goal
  <2>0. PICK j \in Jobs : j = cur[e][1]
    BY <1>11, RunParts DEF Records
  <2>1. /\ cur[e] \in Run
        /\ runStatus[cur[e]] = "RUNNING" /\ Active(cur[e]) /\ Exists(cur[e])
    BY <1>11, HeldIsLast, RunParts DEF Records, Active, Exists
  <2>2. jobStatus[j] # "NONE"
    BY <2>0, <2>1 DEF AttemptInv, RowsInOrder
  <2>3. jobStatus[j] # "DONE" /\ ~DeadLettered(j)
    BY <2>0, <2>1, OneEnd DEF OutcomeInv, LedgerInv, LedgerSound
  <2>4. jobStatus[j] # "CANCELLED"
    <3>1. cur[e] \in paid
      BY <1>11 DEF Records, OutcomeInv, LedgerInv, CreatedIsPaid
    <3>2. \A d \in Deps[j] : ~DeadLettered(d)
      BY <2>0, <3>1, PaidHasNoDeadDependency
    <3>. QED  BY <2>0, <2>1, <3>2 DEF OutcomeInv, StoppedWhenCancelled, InHand
  <2>5. Outcome(j) = "READY" /\ Outcome(j)' = "DONE"
    BY <1>11, <2>0, <2>1, <2>2, <2>3, <2>4 DEF Records, OutcomeInv, JobStatusesUsed, Outcome
  <2>6. \A i \in Jobs \ {j} : Outcome(i)' = Outcome(i)
    BY <1>11, <2>0, <2>1, OthersKeepOutcome DEF Records
  <2>. QED  BY <2>0, <2>1, <2>5, <2>6, OutcomeStep DEF JobOutcomes!MayBecome
<1>12. ASSUME NEW j \in Jobs, Creates(j) PROVE Goal
  <2>1. First(j) \in Run /\ First(j)[1] = j /\ jobStatus[j] = "NONE" /\ jobStatus'[j] = "READY"
    BY <1>12, FirstIsRun DEF Creates
  <2>2. ~DeadLettered(j)
    BY <2>1 DEF DeadLettered, AttemptInv, RowsInOrder, Exists
  <2>3. ~DeadLettered(j)'
    BY <1>12, <2>1, <2>2 DEF Creates, DeadLettered
  <2>4. Outcome(j) = "NONE" /\ Outcome(j)' = "READY"
    BY <2>1, <2>3 DEF Outcome
  <2>5. \A i \in Jobs \ {j} : Outcome(i)' = Outcome(i)
    BY <1>12, <2>1, OthersKeepOutcome DEF Creates
  <2>. QED  BY <2>4, <2>5, OutcomeStep DEF JobOutcomes!MayBecome
<1>. QED
  BY <1>0, <1>2, <1>3, <1>4, <1>5, <1>6, <1>7, <1>9, <1>10, <1>11, <1>12
  DEF Commits, GivesUp, Buries

(* FollowsJobLifecycle: with timely executors, and dependencies that have  *)
(* their rows first, no interleaving of executors and recovery, no crash   *)
(* and no stale scan takes back the end of a job: PaymentSystem implements *)
(* JobLifecycle.                                                           *)
THEOREM JobsKeepTheirEnd ==
    ASSUME "slow" \notin Faults, "unordered" \notin Faults
    PROVE  Spec => FollowsJobLifecycle
<1>1. Init => JobOutcomes!Init
  BY DEF Init, StoreInit, Outcome, Outcomes, JobOutcomes!Init
<1>2. OutcomeInv /\ [Next]_vars => [JobOutcomes!Next]_Outcomes
  <2>1. OutcomeInv /\ Next => [JobOutcomes!Next]_Outcomes
    BY OutcomesStep
  <2>2. UNCHANGED vars => UNCHANGED Outcomes
    BY DEF vars, storeVars, Outcomes, Outcome, DeadLettered
  <2>. QED  BY <2>1, <2>2
<1>. QED
  BY <1>1, <1>2, OutcomeAlways, PTL DEF Spec, FollowsJobLifecycle, JobOutcomes!Spec

-----------------------------------------------------------------------------
(* When bunq is called *)

(* What an executor calls bunq for is the live attempt of a job that has   *)
(* not ended, and cannot end in anybody else's hands: recovery does not    *)
(* get at the run, and the orphan scan would need a dead dependency, while *)
(* all of them are recorded.                                               *)
LEMMA CalledIsOpen ==
    ASSUME OutcomeInv, NEW e \in Executors, pc[e] = "call"
    PROVE  cur[e] \in Run /\ Outcome(cur[e][1]) = "READY"
<1>. AttemptInv /\ TimelyInv /\ RecordedPaymentIsFinal /\ TypeOK /\ Holding
  BY DEF OutcomeInv, AttemptInv
<1>1. cur[e] \in Run
  BY HeldIsRun
<1>2. PICK j \in Jobs : j = cur[e][1]
  BY <1>1, RunParts
<1>3. runStatus[cur[e]] = "RUNNING" /\ Active(cur[e]) /\ Exists(cur[e])
  BY <1>1, HeldIsLast DEF Active, Exists
<1>4. jobStatus[j] # "NONE"
  BY <1>1, <1>2, <1>3 DEF AttemptInv, RowsInOrder
<1>5. jobStatus[j] # "DONE" /\ ~DeadLettered(j)
  BY <1>1, <1>2, <1>3, OneEnd DEF OutcomeInv, LedgerInv, LedgerSound
<1>6. jobStatus[j] # "CANCELLED"
  <2>1. ASSUME NEW d \in Deps[j] PROVE ~DeadLettered(d)
    <3>1. d \in Jobs
      BY StoreAssumption DEF StoreAssumption
    <3>2. Recorded(d)
      BY <1>2 DEF OutcomeInv, DependencyInv, DepsChecked
    <3>. QED  BY <3>1, <3>2, OneEnd
  <2>. QED  BY <1>1, <1>2, <1>3, <2>1 DEF OutcomeInv, StoppedWhenCancelled, InHand
<1>. QED  BY <1>1, <1>2, <1>4, <1>5, <1>6 DEF OutcomeInv, JobStatusesUsed, Outcome

(* PaidOnlyWhileOpen: with timely executors, and dependencies that have    *)
(* their rows first, bunq executes no payment for a job that is DONE, dead *)
(* or cancelled, however many recovery workers, crashes and failed         *)
(* transactions there are between the executor's checks and its call.      *)
THEOREM OnlyOpenJobsArePaid ==
    ASSUME "slow" \notin Faults, "unordered" \notin Faults
    PROVE  Spec => PaidOnlyWhileOpen
<1>. DEFINE Open == \A r \in paid' \ paid : Outcome(r[1]) = "READY"
<1>1. OutcomeInv /\ [Next]_vars => [Open]_vars
  <2>. SUFFICES ASSUME OutcomeInv, Next, NEW r \in paid', r \notin paid
                PROVE  Outcome(r[1]) = "READY"
    OBVIOUS
  <2>1. TypeOK
    BY DEF OutcomeInv, AttemptInv
  <2>2. PICK e \in Executors : pc[e] = "call" /\ cur[e] = r
    BY <2>1, NewPaymentIsCalled
  <2>. QED  BY <2>2, CalledIsOpen
<1>. QED  BY <1>1, OutcomeAlways, PTL DEF Spec, PaidOnlyWhileOpen
=============================================================================
