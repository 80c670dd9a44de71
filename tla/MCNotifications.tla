-------------------------- MODULE MCNotifications --------------------------
(* One e-mail, two callers that enqueue it and two workers.                  *)
EXTENDS Notifications, TLC

CONSTANTS n1, c1, c2, w1, w2

OneOfEach == [f \in FaultKinds |-> 1]
OneCrash == [f \in FaultKinds |-> IF f = "crash" THEN 1 ELSE 0]
=============================================================================
