----------------------------- MODULE MCClientCall -----------------------------
(***************************************************************************)
(* Instances of ClientCall for TLC.                                        *)
(***************************************************************************)
EXTENDS ClientCall, TLC

CONSTANTS a1, a2, q, i1, i2, i3

\* Two a2a_send calls under ids of their own, and a request of another kind.
OwnIds == [c \in Calls |-> CASE c = a1 -> i1 [] c = a2 -> i2 [] c = q -> i3]
=============================================================================
