---------------------------- MODULE MCPushDelivery ----------------------------
(***************************************************************************)
(* Instances of PushDelivery for TLC.                                      *)
(***************************************************************************)
EXTENDS PushDelivery, TLC

CONSTANTS a1, a2, a3, d1, t1, t2, i1

\* Three configs, two of them for one Task, and a deletion, all of one id.
SharedId == [x \in Calls |-> i1]
TwoTasks == [c \in Creates |-> IF c = a2 THEN t2 ELSE t1]
=============================================================================
