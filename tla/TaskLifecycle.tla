--------------------------- MODULE TaskLifecycle ----------------------------
(***************************************************************************)
(* What every part of the Serve Shim promises about a Task, whoever moves  *)
(* it: the state graph of section 2.5 of the design specification.  A Task *)
(* is submitted once, moves along the arrows of the graph, and is never    *)
(* moved again once it is completed, failed or canceled.                   *)
(*                                                                         *)
(* The graph is written here from the diagram, arrow by arrow, and not     *)
(* from the registry's transition table: that the components that move     *)
(* Tasks implement this specification is checked and proved elsewhere.     *)
(***************************************************************************)
CONSTANT Tasks

VARIABLE state      \* the state of each Task, "absent" before it exists

Arrows == {<<"absent", "submitted">>,
           <<"submitted", "working">>,
           <<"submitted", "canceled">>,
           <<"working", "completed">>,
           <<"working", "failed">>,
           <<"working", "canceled">>,
           <<"working", "input-required">>,
           <<"input-required", "working">>,
           <<"input-required", "canceled">>}

Init == state = [t \in Tasks |-> "absent"]

\* One Task follows one arrow.
Follow(t) ==
    \E arrow \in Arrows :
        /\ state[t] = arrow[1]
        /\ state' = [state EXCEPT ![t] = arrow[2]]

Next == \E t \in Tasks : Follow(t)

Spec == Init /\ [][Next]_state
=============================================================================
