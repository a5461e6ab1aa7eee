---------------------------- MODULE RunLifecycle ----------------------------
(***************************************************************************)
(* app/domain/jobs/state_machine.py: what one job run may go through.  No  *)
(* worker calls this class; that the workers' transactions respect it all  *)
(* the same is checked by showing that PaymentSystem implements Spec.      *)
(***************************************************************************)
CONSTANT Runs

VARIABLE status

ValidTransitions ==
    {<<"PENDING", "RUNNING">>, <<"PENDING", "FAILED">>,
     <<"RUNNING", "SUCCEEDED">>, <<"RUNNING", "FAILED">>, <<"RUNNING", "DEAD">>,
     <<"FAILED", "PENDING">>, <<"FAILED", "DEAD">>}

CanTransition(from, to) == <<from, to>> \in ValidTransitions

(* A row is inserted PENDING. *)
Inserted(from, to) == from = "NONE" /\ to = "PENDING"

Init == status = [r \in Runs |-> "NONE"]

(* A transaction may move several runs, each along an allowed transition.  *)
TransitionTo ==
    \A r \in Runs : \/ status'[r] = status[r]
                    \/ CanTransition(status[r], status'[r])
                    \/ Inserted(status[r], status'[r])

Spec == Init /\ [][TransitionTo]_status
=============================================================================
