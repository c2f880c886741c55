----------------------------- MODULE MCTaskRows -----------------------------
(***************************************************************************)
(* TaskRows for TLC.                                                       *)
(***************************************************************************)
EXTENDS TaskRows, TLC

CONSTANTS k1, t1, t2

\* All Tasks are of one conversation.
OneKey == [t \in Tasks |-> k1]

AnyTask == Permutations(Tasks)
=============================================================================
