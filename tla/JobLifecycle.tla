---------------------------- MODULE JobLifecycle ----------------------------
(***************************************************************************)
(* What a scheduled job promises to whoever ordered the payment: JobStatus *)
(* of app/domain/models.py, with the dead letter queue as the end of a job *)
(* whose row stays READY.  That PaymentSystem implements Spec says that no *)
(* order of workers' transactions takes back an end once reached.          *)
(***************************************************************************)
CONSTANT Jobs

VARIABLE outcome    \* of each job: "NONE", "READY", "DEAD", "DONE" or "CANCELLED"

Init == outcome = [j \in Jobs |-> "NONE"]

(* A job is created, and ends paid, given up or cancelled.  One that was   *)
(* given up may still lose a dependency.                                   *)
MayBecome ==
    {<<"NONE", "READY">>, <<"READY", "DONE">>, <<"READY", "DEAD">>,
     <<"READY", "CANCELLED">>, <<"DEAD", "CANCELLED">>}

(* A transaction that ends one job leaves the others alone. *)
Step(j) ==
    /\ <<outcome[j], outcome'[j]>> \in MayBecome
    /\ outcome' = [outcome EXCEPT ![j] = outcome'[j]]

Next == \E j \in Jobs : Step(j)

Spec == Init /\ [][Next]_outcome
=============================================================================
