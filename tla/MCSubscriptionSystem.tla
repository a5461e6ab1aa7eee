------------------------ MODULE MCSubscriptionSystem ------------------------
EXTENDS SubscriptionSystem, TLC

CONSTANTS daily, dead, ams, bogus

(* The expression fires at other instants in Amsterdam than in UTC. *)
Fire ==
    [k \in ValidCrons \X ValidZones |-> IF k[2] = UTC THEN {1, 2, 3, 4} ELSE {2, 4}]

Body(c, z, st) == [cron |-> c, zone |-> z, status |-> st]
SomeBodies == {Body(Absent, ams, Absent), Body(Absent, bogus, Absent),
               Body(Absent, Absent, "ACTIVE"),
               Body(daily, Absent, Absent), Body(daily, UTC, "ACTIVE")}

=============================================================================
