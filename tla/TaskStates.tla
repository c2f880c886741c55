----------------------------- MODULE TaskStates -----------------------------
(***************************************************************************)
(* The states of an A2A Task and the arrows between them, as the           *)
(* TaskRegistry enforces them.  Every module that moves a Task uses these  *)
(* operators, so that a Task obeys one transition table everywhere.        *)
(***************************************************************************)

\* TaskState::is_terminal: no further change is accepted in these states.
Terminal == {"completed", "failed", "canceled"}

TaskState == {"submitted", "working", "input-required"} \union Terminal

\* is_legal: the arrows TaskRegistry::transition accepts.
LegalArrows ==
    {<<"submitted", "working">>}
        \union ({"working"} \X {"completed", "failed", "input-required"})
        \union ({"submitted", "working", "input-required"} \X {"canceled"})

IsLegal(from, to) == <<from, to>> \in LegalArrows

\* Variant: an unsuccessful stop leaves the Task open for another message.
FinalStateAsksAgain(stop) ==
    CASE stop = "end_turn"  -> "completed"
      [] stop = "cancelled" -> "canceled"
      [] OTHER              -> "input-required"

\* publish_terminal_for_stop and publish_failed: the final state of a Task.
FinalState(stop) ==
    CASE stop = "end_turn"  -> "completed"
      [] stop = "cancelled" -> "canceled"
      [] OTHER              -> "failed"
=============================================================================
