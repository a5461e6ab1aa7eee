-------------------------- MODULE MCPaymentSystem --------------------------
EXTENDS PaymentSystem, TLC

CONSTANTS j1, j2, s1

OneSubscription == [j \in Jobs |-> s1]
NoDeps == [j \in Jobs |-> {}]
ChainDeps == [j \in Jobs |-> IF j = j2 THEN {j1} ELSE {}]

(* Executors are alike, and so are recovery workers *)
Symmetric == Permutations(Executors) \cup Permutations(Recoverers)

(* bunq answers every request and means what it answers *)
HonestBunq == {<<TRUE, "created">>, <<FALSE, "transient">>, <<FALSE, "rejected">>}
(* a request that is lost before bunq executes it, or cut off by a gateway *)
(* after: the cases the executor tells apart, as it treats its retryable   *)
(* answers alike                                                           *)
LossyBunq == {<<TRUE, "created">>, <<FALSE, "rejected">>,
              <<FALSE, "ambiguous">>, <<TRUE, "transient">>}
(* a request may time out, or be cut off by a gateway, after it was executed *)
RealBunq == HonestBunq \cup {<<TRUE, "ambiguous">>, <<FALSE, "ambiguous">>,
                             <<TRUE, "transient">>, <<TRUE, "error">>, <<FALSE, "error">>}
=============================================================================
