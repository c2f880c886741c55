------------------------------ MODULE TaskRows ------------------------------
(***************************************************************************)
(* The TaskRegistry as others see it: the row of each Task that create,    *)
(* transition and cancel write through to the database, the pages that     *)
(* ListTasks returns, and the reset of a conversation, which finds the     *)
(* Tasks it cancels in such a page.                                        *)
(*                                                                         *)
(* The state in memory changes under the registry's lock; the row is       *)
(* written after that, by a job on the blocking pool that runs although    *)
(* its caller is gone, in any order.  The handler and the bridge of a Task *)
(* (its owner) wait for each of their writes; a cancel knows nothing of    *)
(* them.  A Task's row refers to the row of its conversation and goes with *)
(* it.  Where conversations come from and go to is left to Conversations.  *)
(* The column terminal_at is set by every write exactly if the state it    *)
(* writes is terminal, and says nothing more.                              *)
(***************************************************************************)
EXTENDS Naturals, FiniteSets, Sequences, SequencesExt, TaskStates

CONSTANTS
    Tasks,          \* the Tasks that may be created
    Keys,           \* conversations
    KeyOf,          \* the conversation of a Task
    ResetKey,       \* the conversation that is reset
    DefaultPage,    \* ListTasks: the page size for 0 (50 in the code)
    MaxPage,        \* ListTasks: the largest page size (1000 in the code)
    Outcomes,       \* the states in which the agent may end a Task
    MaxCrashes,     \* bound: how often the shim is restarted
    None            \* "nothing"

ASSUME RowsAssumption ==
    /\ KeyOf \in [Tasks -> Keys] /\ ResetKey \in Keys
    /\ DefaultPage \in Nat \ {0} /\ MaxPage \in Nat \ {0} /\ DefaultPage <= MaxPage
    /\ Outcomes \subseteq Terminal
    /\ MaxCrashes \in Nat
    /\ None \notin Tasks \union Keys \union TaskState

VARIABLES
    task,       \* RegistryInner::bindings: the state of each Task
    order,      \* RegistryInner::order
    owner,      \* what the handler and the bridge of a Task do
    kept,       \* conversations that have a row
    rows,       \* the state in each Task's row, or None
    writes,     \* the writes of Task rows that have not run yet
    walk,       \* a client that pages through ListTasks
    reset,      \* where a conversation reset stands
    todo,       \* the Tasks that the reset has yet to cancel
    targets,    \* history: the Tasks that the reset should cancel
    unsure,     \* history: Tasks whose row may differ, for a reason named below
    crashes     \* how often the shim has crashed

storeVars == <<kept, rows, writes>>
resetVars == <<reset, todo, targets>>
vars == <<task, order, owner, storeVars, walk, resetVars, unsure, crashes>>

-----------------------------------------------------------------------------
OwnerState == {"none", "writing", "ready", "gone"}
WalkState  == [at : {"idle", "paging", "done"}, cursor : Tasks \union {None},
               visited : Seq(Tasks), known : SUBSET Tasks]
ResetState == {"idle", "canceling", "writing", "deleting", "done"}

\* record_task, asked for by a Task's owner, by CancelTask or by the reset.
Write == [of : Tasks, state : TaskState, by : {"owner", "cancel", "reset"}]

Live(t) == task[t] \in TaskState \ Terminal
Created == {t \in Tasks : task[t] # "absent"}

\* A Task gets another state in memory, and a write of it is asked for.
Moves(t, state, by) ==
    /\ task' = [task EXCEPT ![t] = state]
    /\ writes' = writes \union {[of |-> t, state |-> state, by |-> by]}

Init ==
    /\ task = [t \in Tasks |-> "absent"]
    /\ order = <<>>
    /\ owner = [t \in Tasks |-> "none"]
    /\ kept = {}
    /\ rows = [t \in Tasks |-> None]
    /\ writes = {}
    /\ walk = [at |-> "idle", cursor |-> None, visited |-> <<>>, known |-> {}]
    /\ reset = "idle" /\ todo = {} /\ targets = {}
    /\ unsure = {}
    /\ crashes = 0

-----------------------------------------------------------------------------
(* Tasks: create, transition and cancel.                                   *)

CreateTask(t) ==
    /\ task[t] = "absent"
    /\ Moves(t, "submitted", "owner")
    /\ order' = Append(order, t)
    /\ owner' = [owner EXCEPT ![t] = "writing"]
    /\ UNCHANGED <<kept, rows, walk, resetVars, unsure, crashes>>

\* The owner goes on when its write has run or failed.
OwnerReady(t) ==
    /\ owner[t] = "writing"
    /\ \A w \in writes : w.of = t => w.by # "owner"
    /\ owner' = [owner EXCEPT ![t] = "ready"]
    /\ UNCHANGED <<task, order, storeVars, walk, resetVars, unsure, crashes>>

\* Variant: the bridge does not wait for its writes.
TransitionAtOnce(t, to) ==
    /\ owner[t] \in {"ready", "writing"}
    /\ IsLegal(task[t], to)
    /\ Moves(t, to, "owner")
    /\ owner' = [owner EXCEPT ![t] = "writing"]
    /\ UNCHANGED <<order, kept, rows, walk, resetVars, unsure, crashes>>

\* TaskRegistry::transition by the bridge, which asks for no input.
Transition(t, to) ==
    /\ owner[t] = "ready"
    /\ IsLegal(task[t], to)
    /\ Moves(t, to, "owner")
    /\ owner' = [owner EXCEPT ![t] = "writing"]
    /\ UNCHANGED <<order, kept, rows, walk, resetVars, unsure, crashes>>

\* The owner is done, meets a refused transition, or is dropped as it waits.
OwnerLeaves(t) ==
    /\ owner[t] \in {"writing", "ready"}
    /\ owner' = [owner EXCEPT ![t] = "gone"]
    /\ UNCHANGED <<task, order, storeVars, walk, resetVars, unsure, crashes>>

\* TaskRegistry::cancel.  If the owner's write is still to run, either of the
\* two may come last.
Cancels(t, by) ==
    /\ Live(t)
    /\ Moves(t, "canceled", by)
    /\ unsure' = unsure \union {w.of : w \in {x \in writes : x.of = t}}

CancelTask(t) ==
    /\ Cancels(t, "cancel")
    /\ UNCHANGED <<order, owner, kept, rows, walk, resetVars, crashes>>

-----------------------------------------------------------------------------
(* The database.                                                           *)

\* INSERT INTO tasks ... ON CONFLICT DO UPDATE, with the conversation there.
RunWrite(w) ==
    /\ w \in writes
    /\ KeyOf[w.of] \in kept
    /\ rows' = [rows EXCEPT ![w.of] = w.state]
    /\ writes' = writes \ {w}
    /\ UNCHANGED <<task, order, owner, kept, walk, resetVars, unsure, crashes>>

\* A write fails, for want of the conversation's row or otherwise; the
\* failure is logged and the Task goes on.
WriteFails(w) ==
    /\ w \in writes
    /\ writes' = writes \ {w}
    /\ unsure' = unsure \union {w.of}
    /\ UNCHANGED <<task, order, owner, kept, rows, walk, resetVars, crashes>>

\* Variant: foreign keys are not enforced.
CascadeNothing(k) ==
    /\ unsure' = unsure \union {t \in Created : KeyOf[t] = k}
    /\ UNCHANGED rows

\* The rows of a conversation's Tasks go with its row.
Cascade(k) ==
    /\ rows' = [t \in Tasks |-> IF KeyOf[t] = k THEN None ELSE rows[t]]
    /\ unsure' = unsure \union {t \in Created : KeyOf[t] = k}

\* insert_conversation: INSERT OR REPLACE deletes the row it replaces.
InsertConversation(k) ==
    /\ kept' = kept \union {k}
    /\ Cascade(k)
    /\ UNCHANGED <<task, order, owner, writes, walk, resetVars, crashes>>

\* delete_conversation by the reaper, or by recovery.
DeleteConversation(k) ==
    /\ k \in kept
    /\ kept' = kept \ {k}
    /\ Cascade(k)
    /\ UNCHANGED <<task, order, owner, writes, walk, resetVars, crashes>>

\* The shim dies and is started again: the registry is empty, and no Task is
\* restored to it.
Crash ==
    /\ crashes < MaxCrashes
    /\ crashes' = crashes + 1
    /\ task' = [t \in Tasks |-> IF t \in Created THEN "lost" ELSE "absent"]
    /\ order' = <<>>
    /\ owner' = [t \in Tasks |-> IF owner[t] = "none" THEN "none" ELSE "gone"]
    /\ writes' = {}
    /\ reset' = IF reset = "idle" THEN "idle" ELSE "done"
    /\ todo' = {} /\ targets' = {}
    /\ UNCHANGED <<kept, rows, walk, unsure>>

-----------------------------------------------------------------------------
(* ListTasks and the reset.                                                *)

Position(t) == CHOOSE i \in DOMAIN order : order[i] = t

\* TaskRegistry::list: the Tasks of a page, and the cursor of the next one.
PageSize(limit) ==
    IF limit = 0 THEN DefaultPage ELSE IF limit <= MaxPage THEN limit ELSE MaxPage

\* Variant: the page begins with the Task the cursor names.
ListFromCursor(after, limit) ==
    LET start == IF after = None THEN 0 ELSE Position(after) - 1
        end   == IF start + PageSize(limit) <= Len(order)
                 THEN start + PageSize(limit) ELSE Len(order)
        page  == SubSeq(order, start + 1, end)
    IN  [page |-> page, cursor |-> IF end < Len(order) THEN Last(page) ELSE None]

List(after, limit) ==
    LET start == IF after = None THEN 0 ELSE Position(after)
        end   == IF start + PageSize(limit) <= Len(order)
                 THEN start + PageSize(limit) ELSE Len(order)
        page  == SubSeq(order, start + 1, end)
    IN  IF after # None /\ ~Contains(order, after)
        THEN [page |-> <<>>, cursor |-> None]
        ELSE [page |-> page, cursor |-> IF end < Len(order) THEN Last(page) ELSE None]

\* handle_list_tasks, called for the first page or with the last page's cursor.
ListTasks(limit) ==
    /\ walk.at # "done"
    /\ LET answer == List(walk.cursor, limit)
       IN  walk' = [at      |-> IF answer.cursor = None THEN "done" ELSE "paging",
                    cursor  |-> answer.cursor,
                    visited |-> walk.visited \o answer.page,
                    known   |-> IF walk.at = "idle" THEN ToSet(order) ELSE walk.known]
    /\ UNCHANGED <<task, order, owner, storeVars, resetVars, unsure, crashes>>

ToBeCanceled(ts) == {t \in ts : KeyOf[t] = ResetKey /\ Live(t)}

\* Variant: a page of the default size.
ResetListsDefault ==
    /\ reset = "idle"
    /\ reset' = "canceling"
    /\ targets' = ToBeCanceled(ToSet(order))
    /\ todo' = ToBeCanceled(ToSet(List(None, 0).page))
    /\ UNCHANGED <<task, order, owner, storeVars, walk, unsure, crashes>>

\* handle_conversation_reset looks for Tasks to cancel in one page of 1000.
ResetLists ==
    /\ reset = "idle"
    /\ reset' = "canceling"
    /\ targets' = ToBeCanceled(ToSet(order))
    /\ todo' = ToBeCanceled(ToSet(List(None, MaxPage).page))
    /\ UNCHANGED <<task, order, owner, storeVars, walk, unsure, crashes>>

\* It cancels them one by one (in which order shows nowhere) and waits for
\* each row; a Task that has ended by now is passed over.
ResetCancels(t) ==
    /\ reset = "canceling"
    /\ t \in todo
    /\ todo' = todo \ {t}
    /\ \/ /\ Cancels(t, "reset")
          /\ reset' = "writing"
       \/ /\ ~Live(t)
          /\ UNCHANGED <<task, writes, unsure, reset>>
    /\ UNCHANGED <<order, owner, kept, rows, walk, targets, crashes>>

ResetGoesOn ==
    /\ reset = "writing"
    /\ \A w \in writes : w.by # "reset"
    /\ reset' = "canceling"
    /\ UNCHANGED <<task, order, owner, storeVars, walk, todo, targets, unsure, crashes>>

\* All are canceled: the conversation's row is deleted, if the conversation is
\* in the map and the deletion does not fail.
ResetDeletes ==
    /\ reset = "canceling"
    /\ todo = {}
    /\ reset' = "done"
    /\ \/ /\ kept' = kept \ {ResetKey}
          /\ Cascade(ResetKey)
       \/ UNCHANGED <<kept, rows, unsure>>
    /\ UNCHANGED <<task, order, owner, writes, walk, todo, targets, crashes>>

-----------------------------------------------------------------------------
Next ==
    \/ \E t \in Tasks :
          \/ CreateTask(t)
          \/ \E to \in {"working"} \union Outcomes : Transition(t, to)
          \/ OwnerReady(t) \/ OwnerLeaves(t)
          \/ CancelTask(t)
          \/ ResetCancels(t)
    \/ \E w \in writes : RunWrite(w) \/ WriteFails(w)
    \/ \E k \in Keys : InsertConversation(k) \/ DeleteConversation(k)
    \/ ResetLists \/ ResetGoesOn \/ ResetDeletes
    \/ \E limit \in 0 .. MaxPage + 1 : ListTasks(limit)
    \/ Crash

Spec == Init /\ [][Next]_vars

-----------------------------------------------------------------------------
TypeOK ==
    /\ task \in [Tasks -> TaskState \union {"absent", "lost"}]
    /\ order \in Seq(Tasks)
    /\ owner \in [Tasks -> OwnerState]
    /\ kept \subseteq Keys
    /\ rows \in [Tasks -> TaskState \union {None}]
    /\ \A t \in Tasks : rows[t] # None => KeyOf[t] \in kept
    /\ writes \subseteq Write
    /\ walk \in WalkState
    /\ reset \in ResetState
    /\ todo \subseteq targets /\ targets \subseteq Tasks
    /\ unsure \subseteq Tasks
    /\ crashes \in 0 .. MaxCrashes

\* A row that says how its Task ended is right, and every row names the state
\* its Task is in once its writes are done, unless one failed, the conversation's row was deleted or
\* replaced, or a cancel met a write of the bridge that had not run: the two
\* can then reach the database in either order (task_registry.rs, transition
\* and cancel write after they unlock).
RowFollowsTask ==
    \A t \in Tasks :
        /\ rows[t] \in Terminal => task[t] \in {rows[t], "lost"}
        /\ task[t] \in TaskState /\ t \notin unsure /\ (\A w \in writes : w.of # t)
              => rows[t] = task[t]

\* A client that follows the cursors to the end has seen no Task twice, and
\* every Task that was there when it began and that no restart has lost, while
\* others are created (TaskRegistry::list).
ListingComplete ==
    /\ IsInjective(walk.visited)
    /\ walk.at = "done" =>
          \A t \in walk.known : task[t] # "lost" => Contains(walk.visited, t)

\* A reset that has returned leaves no Task running that was in the first page
\* of the registry when it began: it cancels each one that does not end before
\* it comes to it.  http.rs says "Cancel every non-terminal Task that points
\* at this conv_key", but no Task ever leaves the registry and only its 1000
\* oldest Tasks are looked at.
ResetEndsTasks ==
    reset = "done" => \A t \in targets : Live(t) => Position(t) > MaxPage
=============================================================================
