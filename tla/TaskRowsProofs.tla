---------------------------- MODULE TaskRowsProofs ----------------------------
(***************************************************************************)
(* Proofs about TaskRows: what the rows of Tasks say, however the writes   *)
(* of the handler, of cancels and of resets reach the database; what a     *)
(* client sees that follows the pages of ListTasks; and whom a reset       *)
(* leaves running.                                                         *)
(***************************************************************************)
EXTENDS TaskRows, SequenceTheorems, TLAPS

\* The types of the variables that the rows depend on.
RowTypes ==
    /\ task \in [Tasks -> TaskState \union {"absent", "lost"}]
    /\ owner \in [Tasks -> OwnerState]
    /\ rows \in [Tasks -> TaskState \union {None}]
    /\ writes \subseteq Write

\* The pending writes are of Tasks the registry knows.  One that ends its Task
\* says how the Task ended; those that others than the owner ask for say that
\* it was canceled; and unless the row may differ each says how things are.
WritesTrue ==
    \A w \in writes :
        /\ task[w.of] \in TaskState
        /\ w.state \in Terminal => task[w.of] = w.state
        /\ w.by # "owner" => w.state = "canceled"
        /\ w.of \notin unsure => w.state = task[w.of]

\* An owner that goes on has no write pending.
OwnerWaits ==
    \A t \in Tasks : owner[t] = "ready" => \A w \in writes : w.of = t => w.by # "owner"

-----------------------------------------------------------------------------
\* A Task that a cancel or its owner moves was not in a terminal state, and is
\* in one of the states of the graph.
LEMMA Arrows ==
    ASSUME NEW from, NEW to, IsLegal(from, to)
    PROVE  from \in TaskState \ Terminal /\ to \in TaskState
  BY DEF IsLegal, LegalArrows, TaskState, Terminal

\* What the rows say stays true when a Task moves that has not ended: a write
\* that is pending for it does not say how it ended, and is its owner's.
LEMMA MovesKeep ==
    ASSUME RowTypes, WritesTrue, RowFollowsTask,
           NEW t \in Tasks, NEW state \in TaskState, NEW by \in {"owner", "cancel", "reset"},
           task[t] \notin Terminal \union {"lost"}, Moves(t, state, by), rows' = rows,
           by # "owner" => state = "canceled",
           unsure \subseteq unsure',
           \A w \in writes : w.of = t => t \in unsure'
    PROVE  /\ task' \in [Tasks -> TaskState \union {"absent", "lost"}]
           /\ writes' \subseteq Write
           /\ WritesTrue' /\ RowFollowsTask'
<1> DEFINE write == [of |-> t, state |-> state, by |-> by]
<1>1. write \in Write /\ write.of = t /\ write.state = state /\ write.by = by
  BY DEF Write
<1>2. /\ task' = [task EXCEPT ![t] = state]
      /\ writes' = writes \union {write}
  BY DEF Moves
<1> HIDE DEF write
<1>3. \A w \in writes : w.of \in Tasks /\ w.state \in TaskState
  BY DEF RowTypes, Write
<1>4. task' \in [Tasks -> TaskState \union {"absent", "lost"}] /\ writes' \subseteq Write
  BY <1>1, <1>2 DEF RowTypes
<1>5. task'[t] = state /\ \A s \in Tasks \ {t} : task'[s] = task[s]
  BY <1>2 DEF RowTypes
<1>6. \A w \in writes : w.of = t => w.state \notin Terminal
  BY DEF WritesTrue
<1>7. WritesTrue'
  BY <1>1, <1>2, <1>3, <1>5, <1>6 DEF WritesTrue
<1>8. rows[t] \notin Terminal
  BY DEF RowFollowsTask, Terminal
<1>9. \A s \in Tasks \ {t} : \A w \in writes' : w.of = s <=> w \in writes /\ w.of = s
  BY <1>1, <1>2
<1>10. RowFollowsTask'
  <2>1. \E w \in writes' : w.of = t
    BY <1>1, <1>2
  <2> QED
    BY <1>2, <1>5, <1>8, <2>1 DEF RowFollowsTask
<1> QED
  BY <1>4, <1>7, <1>10 DEF RowTypes

\* Deleting a conversation's row takes rows away, of Tasks whose row may then
\* differ.
LEMMA CascadeKeeps ==
    ASSUME RowTypes, WritesTrue, RowFollowsTask, NEW k, Cascade(k),
           UNCHANGED <<task, owner, writes>>
    PROVE  RowTypes' /\ WritesTrue' /\ RowFollowsTask'
<1> USE DEF RowTypes
<1>1. /\ rows' \in [Tasks -> TaskState \union {None}]
      /\ \A t \in Tasks : rows'[t] = rows[t] \/ (KeyOf[t] = k /\ rows'[t] = None)
      /\ unsure \subseteq unsure'
      /\ \A t \in Tasks : KeyOf[t] = k /\ task[t] # "absent" => t \in unsure'
  BY DEF Cascade, Created
<1>2. WritesTrue'
  BY <1>1 DEF WritesTrue
<1>3. None \notin Terminal /\ "absent" \notin TaskState
  BY RowsAssumption DEF TaskState, Terminal
<1>4. RowFollowsTask'
  BY <1>1, <1>3 DEF RowFollowsTask
<1> QED
  BY <1>1, <1>2, <1>4

\* A row that says how its Task ended is right, and a row whose writes are done
\* says how its Task stands, unless a write failed, the row went with that of
\* the conversation, or a cancel met a write of the owner.
THEOREM RowsFollow == Spec => [](RowTypes /\ RowFollowsTask)
<1> DEFINE Inv == RowTypes /\ WritesTrue /\ OwnerWaits /\ RowFollowsTask
<1> USE RowsAssumption
<1>1. Init => Inv
  BY DEF Init, RowTypes, WritesTrue, OwnerWaits, RowFollowsTask, OwnerState, TaskState, Terminal
<1>2. Inv /\ [Next]_vars => Inv'
  <2> SUFFICES ASSUME Inv, [Next]_vars
               PROVE  Inv'
    OBVIOUS
  <2>a. ASSUME UNCHANGED <<task, owner, storeVars, unsure>>
        PROVE  Inv'
    BY <2>a DEF RowTypes, WritesTrue, OwnerWaits, RowFollowsTask, storeVars
  <2>b. ASSUME NEW k, Cascade(k), UNCHANGED <<task, owner, writes>>
        PROVE  Inv'
    <3>1. OwnerWaits'
      BY <2>b DEF OwnerWaits
    <3> QED
      BY <2>b, <3>1, CascadeKeeps
  <2>c. ASSUME NEW t \in Tasks, NEW by \in {"cancel", "reset"}, Cancels(t, by),
               UNCHANGED <<owner, rows>>
        PROVE  Inv'
    <3>1. /\ task[t] \notin Terminal \union {"lost"} /\ Moves(t, "canceled", by)
          /\ unsure \subseteq unsure' /\ \A w \in writes : w.of = t => t \in unsure'
      BY <2>c DEF Cancels, Live, TaskState, Terminal
    <3>2. /\ task' \in [Tasks -> TaskState \union {"absent", "lost"}] /\ writes' \subseteq Write
          /\ WritesTrue' /\ RowFollowsTask'
      BY <2>c, <3>1, MovesKeep DEF TaskState, Terminal
    <3>3. OwnerWaits'
      BY <2>c DEF Cancels, Moves, OwnerWaits
    <3> QED
      BY <2>c, <3>2, <3>3 DEF RowTypes
  <2>1. ASSUME NEW t \in Tasks, CreateTask(t)
        PROVE  Inv'
    <3>1. /\ task[t] = "absent" /\ Moves(t, "submitted", "owner")
          /\ owner' = [owner EXCEPT ![t] = "writing"] /\ UNCHANGED <<rows, unsure>>
      BY <2>1 DEF CreateTask
    <3>2. task[t] \notin TaskState \union {"lost"}
      BY <3>1 DEF TaskState, Terminal
    <3>3. \A w \in writes : w.of # t
      BY <3>2 DEF WritesTrue
    <3>4. /\ task' \in [Tasks -> TaskState \union {"absent", "lost"}] /\ writes' \subseteq Write
          /\ WritesTrue' /\ RowFollowsTask'
      BY <3>1, <3>2, <3>3, MovesKeep DEF TaskState
    <3>5. OwnerWaits'
      BY <3>1 DEF Moves, OwnerWaits, RowTypes
    <3> QED
      BY <3>1, <3>4, <3>5 DEF RowTypes, OwnerState
  <2>2. ASSUME NEW t \in Tasks, NEW to \in {"working"} \union Outcomes, Transition(t, to)
        PROVE  Inv'
    <3>1. /\ owner[t] = "ready" /\ IsLegal(task[t], to) /\ Moves(t, to, "owner")
          /\ owner' = [owner EXCEPT ![t] = "writing"] /\ UNCHANGED <<rows, unsure>>
      BY <2>2 DEF Transition
    <3>2. task[t] \in TaskState \ Terminal /\ to \in TaskState
      BY <3>1, Arrows
    <3>3. \A w \in writes : w.of # t
      BY <3>1, <3>2 DEF OwnerWaits, WritesTrue, Terminal
    <3>4. task[t] \notin Terminal \union {"lost"}
      BY <3>2 DEF TaskState, Terminal
    <3>5. /\ task' \in [Tasks -> TaskState \union {"absent", "lost"}] /\ writes' \subseteq Write
          /\ WritesTrue' /\ RowFollowsTask'
      BY <3>1, <3>2, <3>3, <3>4, MovesKeep
    <3>6. OwnerWaits'
      BY <3>1 DEF Moves, OwnerWaits, RowTypes
    <3> QED
      BY <3>1, <3>5, <3>6 DEF RowTypes, OwnerState
  <2>3. ASSUME NEW t \in Tasks, OwnerReady(t)
        PROVE  Inv'
    BY <2>3 DEF OwnerReady, RowTypes, WritesTrue, OwnerWaits, RowFollowsTask, storeVars, OwnerState
  <2>4. ASSUME NEW t \in Tasks, OwnerLeaves(t)
        PROVE  Inv'
    BY <2>4 DEF OwnerLeaves, RowTypes, WritesTrue, OwnerWaits, RowFollowsTask, storeVars, OwnerState
  <2>5. ASSUME NEW t \in Tasks, CancelTask(t)
        PROVE  Inv'
    BY <2>c, <2>5 DEF CancelTask
  <2>6. ASSUME NEW t \in Tasks, ResetCancels(t)
        PROVE  Inv'
    <3>1. CASE Cancels(t, "reset")
      BY <2>c, <2>6, <3>1 DEF ResetCancels
    <3>2. CASE UNCHANGED <<task, writes, unsure>>
      BY <2>a, <2>6, <3>2 DEF ResetCancels, storeVars
    <3> QED
      BY <2>6, <3>1, <3>2 DEF ResetCancels
  <2>7. ASSUME NEW w \in writes, RunWrite(w)
        PROVE  Inv'
    <3>1. /\ rows' = [rows EXCEPT ![w.of] = w.state] /\ writes' = writes \ {w}
          /\ UNCHANGED <<task, owner, unsure>>
      BY <2>7 DEF RunWrite
    <3>2. w.of \in Tasks /\ w.state \in TaskState
      BY DEF RowTypes, Write
    <3>3. RowTypes' /\ WritesTrue' /\ OwnerWaits'
      BY <3>1, <3>2 DEF RowTypes, WritesTrue, OwnerWaits
    <3>4. RowFollowsTask'
      BY <3>1, <3>2 DEF RowTypes, WritesTrue, RowFollowsTask
    <3> QED
      BY <3>3, <3>4
  <2>8. ASSUME NEW w \in writes, WriteFails(w)
        PROVE  Inv'
    <3>1. /\ writes' = writes \ {w} /\ unsure' = unsure \union {w.of}
          /\ UNCHANGED <<task, owner, rows>>
      BY <2>8 DEF WriteFails
    <3> QED
      BY <3>1 DEF RowTypes, WritesTrue, OwnerWaits, RowFollowsTask
  <2>9. ASSUME NEW k \in Keys, InsertConversation(k) \/ DeleteConversation(k)
        PROVE  Inv'
    BY <2>b, <2>9 DEF InsertConversation, DeleteConversation
  <2>10. CASE ResetDeletes
    <3>1. CASE Cascade(ResetKey)
      BY <2>b, <2>10, <3>1 DEF ResetDeletes
    <3>2. CASE UNCHANGED <<kept, rows, unsure>>
      BY <2>a, <2>10, <3>2 DEF ResetDeletes, storeVars
    <3> QED
      BY <2>10, <3>1, <3>2 DEF ResetDeletes
  <2>11. CASE ResetLists \/ ResetGoesOn
    BY <2>a, <2>11 DEF ResetLists, ResetGoesOn
  <2>12. ASSUME NEW limit \in 0 .. MaxPage + 1, ListTasks(limit)
         PROVE  Inv'
    BY <2>a, <2>12 DEF ListTasks
  <2>13. CASE Crash
    <3>1. /\ task' \in [Tasks -> {"absent", "lost"}] /\ writes' = {} /\ rows' = rows
          /\ \A t \in Tasks : task[t] # "absent" => task'[t] = "lost"
      BY <2>13 DEF Crash, Created, RowTypes
    <3>2. owner' \in [Tasks -> OwnerState] /\ \A t \in Tasks : owner'[t] # "ready"
      BY <2>13 DEF Crash, RowTypes, OwnerState
    <3>3. {"absent", "lost"} \intersect TaskState = {} /\ "absent" \notin Terminal
      BY DEF TaskState, Terminal
    <3>4. RowFollowsTask'
      BY <3>1, <3>3 DEF RowFollowsTask, Terminal
    <3> QED
      BY <3>1, <3>2, <3>4 DEF RowTypes, WritesTrue, OwnerWaits
  <2>14. CASE UNCHANGED vars
    BY <2>a, <2>14 DEF vars
  <2> QED
    BY <2>1, <2>2, <2>3, <2>4, <2>5, <2>6, <2>7, <2>8, <2>9, <2>10, <2>11, <2>12, <2>13,
       <2>14 DEF Next
<1> QED
  BY <1>1, <1>2, PTL DEF Spec

-----------------------------------------------------------------------------
(* The order of the registry, and its pages.                               *)

\* What ListTasks answers: nothing for a cursor it does not know, and else the
\* part of the order that follows the cursor.
LEMMA ListPage ==
    ASSUME order \in Seq(Tasks), NEW after \in Tasks \union {None}, NEW limit \in Nat
    PROVE  \/ /\ after # None /\ ~Contains(order, after)
              /\ List(after, limit) = [page |-> <<>>, cursor |-> None]
           \/ \E start \in 0 .. Len(order), end \in 0 .. Len(order) :
                 /\ \/ after = None /\ start = 0
                    \/ after # None /\ start # 0 /\ order[start] = after
                 /\ start <= end
                 /\ \/ end = Len(order)
                    \/ end < Len(order) /\ start < end /\ end = start + PageSize(limit)
                 /\ List(after, limit) =
                        [page   |-> SubSeq(order, start + 1, end),
                         cursor |-> IF end < Len(order) THEN order[end] ELSE None]
<1> DEFINE start == IF after = None THEN 0 ELSE Position(after)
           size == PageSize(limit)
           n == Len(order)
           end == IF start + size <= n THEN start + size ELSE n
           page == SubSeq(order, start + 1, end)
<1>1. Len(order) \in Nat /\ DOMAIN order = 1 .. Len(order)
  OBVIOUS
<1>2. size \in Nat \ {0}
  BY RowsAssumption DEF PageSize
<1>3. CASE after # None /\ ~Contains(order, after)
  BY <1>3 DEF List
<1>4. CASE after = None \/ Contains(order, after)
  <2>1. List(after, limit) =
            [page |-> page, cursor |-> IF end < Len(order) THEN Last(page) ELSE None]
    BY <1>4 DEF List
  <2>2. after # None => Position(after) \in DOMAIN order /\ order[Position(after)] = after
    <3>1. SUFFICES ASSUME after # None
                   PROVE  Position(after) \in DOMAIN order /\ order[Position(after)] = after
      OBVIOUS
    <3>2. \E i \in DOMAIN order : order[i] = after
      BY <1>1, <1>4, <3>1 DEF Contains
    <3> QED
      BY <3>2 DEF Position
  <2>3. /\ start \in 0 .. Len(order)
        /\ \/ after = None /\ start = 0
           \/ after # None /\ start # 0 /\ order[start] = after
    BY <1>1, <2>2
  <2> HIDE DEF start, size, n
  <2>4. /\ end \in 0 .. n /\ start <= end
        /\ \/ end = n
           \/ end < n /\ start < end /\ end = start + size
    <3>1. n \in Nat /\ start \in 0 .. n /\ size \in Nat \ {0}
      BY <1>1, <1>2, <2>3 DEF n
    <3> QED
      BY ONLY <3>1
  <2> HIDE DEF end
  <2>5. end < Len(order) => Last(page) = order[end]
    <3>1. SUFFICES ASSUME end < n
                   PROVE  Last(page) = order[end]
      BY DEF n
    <3>2. start \in Nat /\ end \in Nat /\ start < end /\ end \in 1 .. n
      <4>1. n \in Nat /\ start \in 0 .. n
        BY <1>1, <2>3 DEF n
      <4> QED
        BY ONLY <2>4, <3>1, <4>1
    <3>3. Len(page) = end - start
      BY <3>2 DEF n
    <3>4. page[end - start] = order[end]
      BY <3>2 DEF n
    <3> QED
      BY <3>3, <3>4 DEF Last
  <2>6. List(after, limit) =
            [page |-> page, cursor |-> IF end < Len(order) THEN order[end] ELSE None]
    BY <2>1, <2>5 DEF end, start, size, n
  <2> QED
    BY <2>3, <2>4, <2>6 DEF size, n
<1> QED
  BY <1>3, <1>4

\* A page is a sequence of Tasks, and its cursor a Task or none.
LEMMA ListTypes ==
    ASSUME order \in Seq(Tasks), NEW after \in Tasks \union {None}, NEW limit \in Nat
    PROVE  List(after, limit).page \in Seq(Tasks) /\ List(after, limit).cursor \in Tasks \union {None}
<1> DEFINE answer == List(after, limit)
<1>1. CASE answer = [page |-> <<>>, cursor |-> None]
  BY <1>1
<1>2. ASSUME NEW start \in 0 .. Len(order), NEW end \in 0 .. Len(order),
             \/ end = Len(order)
             \/ end < Len(order) /\ start < end,
             answer = [page   |-> SubSeq(order, start + 1, end),
                       cursor |-> IF end < Len(order) THEN order[end] ELSE None]
      PROVE  answer.page \in Seq(Tasks) /\ answer.cursor \in Tasks \union {None}
  <2>1. SubSeq(order, start + 1, end) \in Seq(Tasks)
    OBVIOUS
  <2>2. end < Len(order) => order[end] \in Tasks
    BY <1>2
  <2> HIDE DEF answer
  <2> QED
    BY <1>2, <2>1, <2>2
<1> HIDE DEF answer
<1> QED
  BY <1>1, <1>2, ListPage DEF answer

\* A Task stands at one place in the order, and Position tells it.
LEMMA PositionIs ==
    ASSUME IsInjective(order), NEW i \in DOMAIN order
    PROVE  Position(order[i]) = i
<1>1. \E j \in DOMAIN order : order[j] = order[i]
  OBVIOUS
<1>2. Position(order[i]) \in DOMAIN order /\ order[Position(order[i])] = order[i]
  BY <1>1 DEF Position
<1> QED
  BY <1>2 DEF IsInjective

-----------------------------------------------------------------------------
\* Type correctness: in every reachable state the registry, the rows, the
\* client that pages and the reset have the types the code gives them, and
\* there is no row of a Task without the row of its conversation.
THEOREM TypeCorrect == Spec => []TypeOK
<1> USE RowsAssumption
<1>1. Init => TypeOK
  BY DEF Init, TypeOK, OwnerState, WalkState, ResetState, TaskState
<1>2. RowTypes' /\ TypeOK /\ [Next]_vars => TypeOK'
  <2> SUFFICES ASSUME RowTypes', TypeOK, [Next]_vars
               PROVE  TypeOK'
    OBVIOUS
  <2> DEFINE OrderOK == order \in Seq(Tasks)
             StoreOK == kept \subseteq Keys /\ \A t \in Tasks : rows[t] # None => KeyOf[t] \in kept
             ResetOK == reset \in ResetState /\ todo \subseteq targets /\ targets \subseteq Tasks
             HistoryOK == unsure \subseteq Tasks /\ crashes \in 0 .. MaxCrashes
  <2>1. OrderOK /\ StoreOK /\ ResetOK /\ HistoryOK /\ walk \in WalkState
    BY DEF TypeOK
  <2>2. SUFFICES OrderOK' /\ StoreOK' /\ ResetOK' /\ HistoryOK' /\ walk' \in WalkState
    BY DEF TypeOK, RowTypes
  <2>3. writes \subseteq Write /\ rows \in [Tasks -> TaskState \union {None}]
    BY DEF TypeOK
  <2>4. ASSUME NEW k \in Keys, Cascade(k), kept' \in {kept, kept \union {k}, kept \ {k}}
        PROVE  StoreOK' /\ unsure' \subseteq Tasks
    BY <2>1, <2>4 DEF Cascade, Created
  <2>5. ASSUME NEW t \in Tasks, CreateTask(t)
        PROVE  OrderOK' /\ UNCHANGED <<kept, rows, walk, resetVars, unsure, crashes>>
    BY <2>1, <2>5 DEF CreateTask
  <2>6. ASSUME NEW t \in Tasks, NEW to, Transition(t, to)
        PROVE  UNCHANGED <<order, kept, rows, walk, resetVars, unsure, crashes>>
    BY <2>6 DEF Transition
  <2>7. ASSUME NEW t \in Tasks, OwnerReady(t) \/ OwnerLeaves(t)
        PROVE  UNCHANGED <<order, kept, rows, walk, resetVars, unsure, crashes>>
    BY <2>7 DEF OwnerReady, OwnerLeaves, storeVars
  <2>8. ASSUME NEW t \in Tasks, NEW by, Cancels(t, by)
        PROVE  unsure' \subseteq Tasks
    BY <2>1, <2>3, <2>8 DEF Cancels, Write
  <2>9. ASSUME NEW t \in Tasks, CancelTask(t)
        PROVE  unsure' \subseteq Tasks /\ UNCHANGED <<order, kept, rows, walk, resetVars, crashes>>
    BY <2>8, <2>9 DEF CancelTask
  <2>10. ASSUME NEW t \in Tasks, ResetCancels(t)
         PROVE  /\ unsure' \subseteq Tasks /\ ResetOK'
                /\ UNCHANGED <<order, kept, rows, walk, crashes>>
    BY <2>1, <2>8, <2>10 DEF ResetCancels, ResetState
  <2>11. ASSUME NEW w \in writes, RunWrite(w) \/ WriteFails(w)
         PROVE  StoreOK' /\ unsure' \subseteq Tasks /\ UNCHANGED <<order, walk, resetVars, crashes>>
    BY <2>1, <2>3, <2>11 DEF RunWrite, WriteFails, Write
  <2>12. ASSUME NEW k \in Keys, InsertConversation(k) \/ DeleteConversation(k)
         PROVE  StoreOK' /\ unsure' \subseteq Tasks /\ UNCHANGED <<order, walk, resetVars, crashes>>
    BY <2>4, <2>12 DEF InsertConversation, DeleteConversation
  <2>13. CASE ResetLists
    <3>1. targets' \subseteq Tasks /\ todo' \subseteq targets'
      <4>1. /\ targets' = ToBeCanceled(ToSet(order))
            /\ todo' = ToBeCanceled(ToSet(List(None, MaxPage).page))
        BY <2>13 DEF ResetLists
      <4>2. ToSet(order) \subseteq Tasks
        BY <2>1 DEF ToSet
      <4>3. PICK end \in 0 .. Len(order) : List(None, MaxPage).page = SubSeq(order, 1, end)
        <5>1. PICK start \in 0 .. Len(order), end \in 0 .. Len(order) :
                  /\ start = 0
                  /\ List(None, MaxPage) =
                        [page   |-> SubSeq(order, start + 1, end),
                         cursor |-> IF end < Len(order) THEN order[end] ELSE None]
          BY <2>1, ListPage
        <5> QED
          BY <5>1
      <4>4. ToSet(SubSeq(order, 1, end)) \subseteq ToSet(order)
        BY <2>1 DEF ToSet
      <4> QED
        BY <4>1, <4>2, <4>3, <4>4 DEF ToBeCanceled
    <3> QED
      BY <2>1, <2>13, <3>1 DEF ResetLists, ResetState, storeVars
  <2>14. CASE ResetGoesOn
    BY <2>1, <2>14 DEF ResetGoesOn, ResetState, storeVars
  <2>15. CASE ResetDeletes
    <3>1. StoreOK' /\ unsure' \subseteq Tasks
      BY <2>1, <2>4, <2>15 DEF ResetDeletes
    <3> QED
      BY <2>1, <2>15, <3>1 DEF ResetDeletes, ResetState
  <2>16. ASSUME NEW limit \in 0 .. MaxPage + 1, ListTasks(limit)
         PROVE  /\ walk' \in WalkState
                /\ UNCHANGED <<order, storeVars, resetVars, unsure, crashes>>
    <3> DEFINE answer == List(walk.cursor, limit)
    <3>1. walk.cursor \in Tasks \union {None} /\ walk.visited \in Seq(Tasks)
      BY <2>1 DEF WalkState
    <3>2. answer.page \in Seq(Tasks) /\ answer.cursor \in Tasks \union {None}
      <4> DEFINE after == walk.cursor
      <4>1. after \in Tasks \union {None} /\ limit \in Nat
        BY <3>1
      <4> HIDE DEF after
      <4>2. List(after, limit).page \in Seq(Tasks) /\ List(after, limit).cursor \in Tasks \union {None}
        BY <2>1, <4>1, ListTypes
      <4> QED
        BY <4>2 DEF after
    <3>3. walk' = [at      |-> IF answer.cursor = None THEN "done" ELSE "paging",
                   cursor  |-> answer.cursor,
                   visited |-> walk.visited \o answer.page,
                   known   |-> IF walk.at = "idle" THEN ToSet(order) ELSE walk.known]
      BY <2>16 DEF ListTasks
    <3>4. ToSet(order) \subseteq Tasks /\ walk.known \subseteq Tasks
      BY <2>1 DEF ToSet, WalkState
    <3> HIDE DEF answer
    <3>5. walk' \in WalkState
      BY <3>1, <3>2, <3>3, <3>4 DEF WalkState
    <3> QED
      BY <2>16, <3>5 DEF ListTasks
  <2>17. CASE Crash
    BY <2>1, <2>17 DEF Crash, ResetState
  <2>18. CASE UNCHANGED vars
    BY <2>1, <2>18 DEF vars, storeVars, resetVars
  <2> USE DEF storeVars, resetVars
  <2> QED
    BY <2>1, <2>5, <2>6, <2>7, <2>9, <2>10, <2>11, <2>12, <2>13, <2>14, <2>15, <2>16, <2>17,
       <2>18 DEF Next, CreateTask, ResetLists, ResetGoesOn, ResetDeletes
<1> QED
  BY <1>1, <1>2, RowsFollow, PTL DEF Spec

-----------------------------------------------------------------------------
\* The order holds each Task that the registry knows, once.
OrderIs ==
    /\ IsInjective(order)
    /\ \A t \in Tasks : Contains(order, t) <=> task[t] \in TaskState

\* A client that pages has seen the order up to the Task its cursor names, or
\* a restart has lost all it knows of.
WalkIs ==
    /\ walk.at = "idle" => walk.visited = <<>> /\ walk.cursor = None
    /\ walk.at = "paging" =>
          /\ walk.cursor # None
          /\ \/ /\ \E n \in DOMAIN order :
                      order[n] = walk.cursor /\ walk.visited = SubSeq(order, 1, n)
                /\ \A t \in walk.known : Contains(order, t)
             \/ \A t \in walk.known \union {walk.cursor} : task[t] = "lost"

\* A Task at the end of the order is one more that it holds, and stands at no
\* place where another does.
LEMMA OrderAppend ==
    ASSUME order \in Seq(Tasks), OrderIs, NEW t \in Tasks, task[t] \notin TaskState
    PROVE  /\ IsInjective(Append(order, t))
           /\ \A s \in Tasks : Contains(Append(order, t), s) <=> Contains(order, s) \/ s = t
<1> DEFINE longer == Append(order, t)
           n == Len(order)
<1>1. n \in Nat /\ DOMAIN order = 1 .. n
  OBVIOUS
<1>2. /\ Len(longer) = n + 1 /\ DOMAIN longer = 1 .. n + 1
      /\ \A i \in 1 .. n : longer[i] = order[i]
      /\ longer[n + 1] = t
  OBVIOUS
<1>3. \A i \in 1 .. n : order[i] # t
  BY <1>1 DEF OrderIs, Contains
<1> HIDE DEF longer, n
<1>4. IsInjective(longer)
  <2>1. \A i, j \in 1 .. n : order[i] = order[j] => i = j
    BY <1>1 DEF OrderIs, IsInjective
  <2>2. \A i \in 1 .. n + 1 : i \in 1 .. n \/ i = n + 1
    BY <1>1
  <2> QED
    BY <1>2, <1>3, <2>1, <2>2 DEF IsInjective
<1>5. \A s \in Tasks : Contains(longer, s) <=> Contains(order, s) \/ s = t
  <2>1. \A i \in 1 .. n + 1 : i \in 1 .. n \/ i = n + 1
    BY <1>1
  <2>2. 1 .. n \subseteq 1 .. n + 1 /\ n + 1 \in 1 .. n + 1
    BY <1>1
  <2>3. n = Len(order)
    BY DEF n
  <2> QED
    BY <1>2, <2>1, <2>2, <2>3 DEF Contains
<1> QED
  BY <1>4, <1>5 DEF longer

\* A Task moves in memory: between the states of the graph, from "absent" when
\* it is created, and to "lost" in a restart.
LEMMA TaskSteps ==
    ASSUME RowTypes, [Next]_vars
    PROVE  \/ /\ UNCHANGED order
              /\ \A t \in Tasks : task'[t] \in TaskState <=> task[t] \in TaskState
              /\ \A t \in Tasks : task[t] = "lost" => task'[t] = "lost"
              /\ \A t \in Tasks : Live(t)' => Live(t)
           \/ \E t \in Tasks :
                 CreateTask(t) /\ task[t] = "absent" /\ task' = [task EXCEPT ![t] = "submitted"]
           \/ Crash
<1> DEFINE Keeps == /\ UNCHANGED order
                    /\ \A t \in Tasks : task'[t] \in TaskState <=> task[t] \in TaskState
                    /\ \A t \in Tasks : task[t] = "lost" => task'[t] = "lost"
                    /\ \A t \in Tasks : Live(t)' => Live(t)
<1>1. ASSUME UNCHANGED <<task, order>>
      PROVE  Keeps
  BY <1>1 DEF Live
<1>2. ASSUME NEW t \in Tasks, NEW to \in TaskState, Live(t),
             task' = [task EXCEPT ![t] = to], UNCHANGED order
      PROVE  Keeps
  <2>1. task'[t] = to /\ \A s \in Tasks \ {t} : task'[s] = task[s]
    BY <1>2 DEF RowTypes
  <2>2. task[t] \in TaskState /\ task[t] # "lost"
    BY <1>2 DEF Live, TaskState, Terminal
  <2> QED
    BY <1>2, <2>1, <2>2 DEF Live
<1>3. ASSUME NEW t \in Tasks, NEW by, Cancels(t, by), UNCHANGED order
      PROVE  Keeps
  BY <1>2, <1>3 DEF Cancels, Moves, TaskState, Terminal
<1>4. ASSUME NEW t \in Tasks, CreateTask(t)
      PROVE  task[t] = "absent" /\ task' = [task EXCEPT ![t] = "submitted"]
  BY <1>4 DEF CreateTask, Moves
<1>5. ASSUME NEW t \in Tasks, NEW to \in {"working"} \union Outcomes, Transition(t, to)
      PROVE  Keeps
  <2>1. Live(t) /\ to \in TaskState
    BY <1>5, Arrows DEF Transition, Live
  <2> QED
    BY <1>2, <1>5, <2>1 DEF Transition, Moves
<1>6. ASSUME NEW t \in Tasks, OwnerReady(t) \/ OwnerLeaves(t)
      PROVE  Keeps
  BY <1>1, <1>6 DEF OwnerReady, OwnerLeaves
<1>7. ASSUME NEW t \in Tasks, CancelTask(t) \/ ResetCancels(t)
      PROVE  Keeps
  BY <1>1, <1>3, <1>7 DEF CancelTask, ResetCancels
<1>8. ASSUME NEW w \in writes, RunWrite(w) \/ WriteFails(w)
      PROVE  Keeps
  BY <1>1, <1>8 DEF RunWrite, WriteFails
<1>9. ASSUME NEW k \in Keys, InsertConversation(k) \/ DeleteConversation(k)
      PROVE  Keeps
  BY <1>1, <1>9 DEF InsertConversation, DeleteConversation
<1>10. ASSUME ResetLists \/ ResetGoesOn \/ ResetDeletes
       PROVE  Keeps
  BY <1>1, <1>10 DEF ResetLists, ResetGoesOn, ResetDeletes
<1>11. ASSUME NEW limit \in 0 .. MaxPage + 1, ListTasks(limit)
       PROVE  Keeps
  BY <1>1, <1>11 DEF ListTasks
<1>12. CASE UNCHANGED vars
  BY <1>1, <1>12 DEF vars
<1> HIDE DEF Keeps
<1>13. ASSUME NEW t \in Tasks,
              \/ CreateTask(t)
              \/ \E to \in {"working"} \union Outcomes : Transition(t, to)
              \/ OwnerReady(t) \/ OwnerLeaves(t)
              \/ CancelTask(t)
              \/ ResetCancels(t)
       PROVE  Keeps \/ (\E s \in Tasks : CreateTask(s)) \/ Crash
  BY <1>5, <1>6, <1>7, <1>13
<1>14. ASSUME Next
       PROVE  Keeps \/ (\E t \in Tasks : CreateTask(t)) \/ Crash
  BY <1>8, <1>9, <1>10, <1>11, <1>13, <1>14 DEF Next
<1> QED
  BY <1>4, <1>12, <1>14 DEF Keeps

\* What a step does to the client that pages, and when.
LEMMA WalkSteps ==
    ASSUME [Next]_vars
    PROVE  UNCHANGED walk \/ \E limit \in 0 .. MaxPage + 1 : ListTasks(limit)
BY DEF Next, vars, CreateTask, Transition, OwnerReady, OwnerLeaves, CancelTask, ResetCancels,
       RunWrite, WriteFails, InsertConversation, DeleteConversation, ResetLists, ResetGoesOn,
       ResetDeletes, Crash

\* A beginning of a sequence, and what follows it, is a longer beginning.
LEMMA PrefixJoin ==
    ASSUME NEW S, NEW s \in Seq(S), NEW m \in 0 .. Len(s), NEW n \in m .. Len(s)
    PROVE  SubSeq(s, 1, m) \o SubSeq(s, m + 1, n) = SubSeq(s, 1, n)
<1> DEFINE one == SubSeq(s, 1, m)
           two == SubSeq(s, m + 1, n)
           all == SubSeq(s, 1, n)
<1>1. m \in Nat /\ n \in Nat /\ m <= n /\ n <= Len(s) /\ Len(s) \in Nat
  OBVIOUS
<1>2. one \in Seq(S) /\ two \in Seq(S) /\ all \in Seq(S)
  OBVIOUS
<1>3. /\ Len(one) = m /\ \A i \in 1 .. m : one[i] = s[i]
      /\ Len(two) = n - m /\ \A i \in 1 .. n - m : two[i] = s[m + i]
      /\ Len(all) = n /\ \A i \in 1 .. n : all[i] = s[i]
  BY <1>1
<1> HIDE DEF one, two, all
<1>4. one \o two \in Seq(S) /\ Len(one \o two) = n
  BY <1>1, <1>2, <1>3
<1>5. ASSUME NEW i \in 1 .. n
      PROVE  (one \o two)[i] = all[i]
  <2>1. CASE i <= m
    BY <1>1, <1>2, <1>3, <2>1
  <2>2. CASE i > m
    <3>1. i - m \in 1 .. n - m /\ m + (i - m) = i
      BY <1>1, <2>2
    <3>2. (one \o two)[i] = two[i - m]
      BY <1>1, <1>2, <1>3, <2>2
    <3> QED
      BY <1>3, <3>1, <3>2
  <2>3. i \in Nat /\ m \in Nat
    BY <1>1
  <2>4. i <= m \/ i > m
    BY ONLY <2>3
  <2> QED
    BY <2>1, <2>2, <2>4
<1> QED
  BY <1>2, <1>3, <1>4, <1>5, SeqEqual DEF one, two, all

\* What ListTasks makes of a client that pages.
LEMMA WalkGoesOn ==
    ASSUME TypeOK, OrderIs, WalkIs, IsInjective(walk.visited),
           NEW limit \in 0 .. MaxPage + 1, ListTasks(limit)
    PROVE  WalkIs' /\ ListingComplete'
<1> DEFINE after == walk.cursor
           answer == List(after, limit)
<1>1. /\ order \in Seq(Tasks) /\ Len(order) \in Nat /\ DOMAIN order = 1 .. Len(order)
      /\ after \in Tasks \union {None} /\ walk.visited \in Seq(Tasks) /\ walk.known \subseteq Tasks
      /\ None \notin Tasks /\ limit \in Nat
  BY RowsAssumption DEF TypeOK, WalkState
<1>2. walk.at = "idle" \/ walk.at = "paging"
  BY DEF ListTasks, TypeOK, WalkState
<1>3. /\ walk'.at = IF answer.cursor = None THEN "done" ELSE "paging"
      /\ walk'.cursor = answer.cursor
      /\ walk'.visited = walk.visited \o answer.page
      /\ walk'.known = IF walk.at = "idle" THEN ToSet(order) ELSE walk.known
      /\ UNCHANGED <<task, order>>
  BY DEF ListTasks
<1>4. walk.at = "idle" => walk.visited = <<>> /\ after = None
  BY DEF WalkIs
<1>5. walk.at = "paging" =>
          /\ after # None
          /\ \/ /\ \E n \in DOMAIN order :
                      order[n] = after /\ walk.visited = SubSeq(order, 1, n)
                /\ \A t \in walk.known : Contains(order, t)
             \/ \A t \in walk.known \union {after} : task[t] = "lost"
  BY DEF WalkIs
<1>6. \A t \in Tasks : Contains(order, t) => task[t] # "lost"
  BY DEF OrderIs, TaskState, Terminal
<1> HIDE DEF answer, after
<1>7. CASE after # None /\ ~Contains(order, after) /\ answer = [page |-> <<>>, cursor |-> None]
  <2>1. walk.at = "paging"
    BY <1>2, <1>4, <1>7
  <2>2. \A t \in walk.known : task[t] = "lost"
    BY <1>1, <1>5, <1>7, <2>1 DEF Contains
  <2>3. walk'.visited = walk.visited
    BY <1>1, <1>3, <1>7
  <2>4. walk'.at = "done" /\ walk'.known = walk.known
    BY <1>3, <1>7, <2>1
  <2> QED
    BY <1>3, <2>2, <2>3, <2>4 DEF WalkIs, ListingComplete
<1>8. ASSUME NEW start \in 0 .. Len(order), NEW end \in 0 .. Len(order),
             \/ after = None /\ start = 0
             \/ after # None /\ start # 0 /\ order[start] = after,
             start <= end,
             end = Len(order) \/ (end < Len(order) /\ start < end),
             answer = [page   |-> SubSeq(order, start + 1, end),
                       cursor |-> IF end < Len(order) THEN order[end] ELSE None]
      PROVE  WalkIs' /\ ListingComplete'
  <2> DEFINE seen == SubSeq(order, 1, end)
  <2>0. /\ start \in Nat /\ end \in Nat /\ start <= Len(order) /\ end <= Len(order)
        /\ start # 0 => start \in DOMAIN order
        /\ end < Len(order) => end \in DOMAIN order
    <3> DEFINE n == Len(order)
    <3>1. n \in Nat /\ start \in 0 .. n /\ end \in 0 .. n /\ DOMAIN order = 1 .. n
          /\ start <= end /\ (end = n \/ (end < n /\ start < end))
      BY <1>1, <1>8
    <3> HIDE DEF n
    <3>2. /\ start \in Nat /\ end \in Nat /\ start <= n /\ end <= n
          /\ start # 0 => start \in 1 .. n
          /\ end < n => end \in 1 .. n
      BY ONLY <3>1
    <3> QED
      BY <3>1, <3>2 DEF n
  <2>1. walk.visited = SubSeq(order, 1, start) /\ \A t \in walk'.known : Contains(order, t)
    <3>1. CASE walk.at = "idle"
      <4>1. SubSeq(order, 1, 0) = <<>>
        BY <1>1
      <4>2. \A t \in ToSet(order) : Contains(order, t)
        BY <1>1 DEF ToSet, Contains
      <4>3. start = 0 /\ walk.visited = <<>>
        BY <1>4, <1>8, <3>1
      <4>4. walk'.known = ToSet(order)
        BY <1>3, <3>1
      <4> QED
        BY <4>1, <4>2, <4>3, <4>4
    <3>2. CASE walk.at = "paging"
      <4>1. start \in DOMAIN order /\ order[start] = after
        BY <1>5, <1>8, <2>0, <3>2
      <4>2. Contains(order, after) /\ after \in Tasks
        BY <1>1, <1>5, <3>2, <4>1 DEF Contains
      <4>3. \A t \in walk.known : Contains(order, t)
        BY <1>5, <1>6, <3>2, <4>2
      <4>4. PICK n \in DOMAIN order : order[n] = after /\ walk.visited = SubSeq(order, 1, n)
        BY <1>5, <1>6, <3>2, <4>2
      <4>5. n = start
        BY <4>1, <4>4 DEF OrderIs, IsInjective
      <4>6. walk'.known = walk.known
        BY <1>3, <3>2
      <4> QED
        BY <4>3, <4>4, <4>5, <4>6
    <3> QED
      BY <1>2, <3>1, <3>2
  <2>2. walk'.visited = seen
    <3>1. end \in start .. Len(order)
      BY <1>8
    <3>2. SubSeq(order, 1, start) \o SubSeq(order, start + 1, end) = seen
      BY <1>1, <3>1, PrefixJoin
    <3> QED
      BY <1>3, <1>8, <2>1, <3>2
  <2>3. Len(seen) = end /\ DOMAIN seen = 1 .. end /\ \A i \in 1 .. end : seen[i] = order[i]
    BY <1>1
  <2> HIDE DEF seen
  <2>4. IsInjective(seen)
    <3>1. 1 .. end \subseteq DOMAIN order
      BY <1>1
    <3> QED
      BY <2>3, <3>1 DEF OrderIs, IsInjective
  <2>5. CASE end < Len(order)
    <3>1. end \in DOMAIN order /\ order[end] \in Tasks
      BY <1>1, <2>0, <2>5
    <3>2. answer.cursor = order[end] /\ answer.cursor # None
      BY <1>1, <1>8, <2>5, <3>1
    <3>3. walk'.at = "paging" /\ walk'.cursor = order[end] /\ walk'.cursor # None
      BY <1>3, <3>2
    <3>4. WalkIs'
      BY <1>3, <2>1, <2>2, <3>1, <3>3 DEF WalkIs, seen
    <3> QED
      BY <2>2, <2>4, <3>3, <3>4 DEF ListingComplete
  <2>6. CASE end = Len(order)
    <3>1. answer.cursor = None
      BY <1>8, <2>6
    <3>2. walk'.at = "done"
      BY <1>3, <3>1
    <3>3. \A t : Contains(order, t) => Contains(seen, t)
      BY <2>3, <2>6 DEF Contains
    <3> QED
      BY <2>1, <2>2, <2>4, <3>2, <3>3 DEF WalkIs, ListingComplete
  <2> QED
    BY <1>8, <2>5, <2>6
<1>9. \/ after # None /\ ~Contains(order, after) /\ answer = [page |-> <<>>, cursor |-> None]
      \/ \E start \in 0 .. Len(order), end \in 0 .. Len(order) :
            /\ \/ after = None /\ start = 0
               \/ after # None /\ start # 0 /\ order[start] = after
            /\ start <= end
            /\ end = Len(order) \/ (end < Len(order) /\ start < end)
            /\ answer = [page   |-> SubSeq(order, start + 1, end),
                         cursor |-> IF end < Len(order) THEN order[end] ELSE None]
  <2>1. answer = List(after, limit)
    BY DEF answer
  <2>2. \/ /\ after # None /\ ~Contains(order, after)
           /\ List(after, limit) = [page |-> <<>>, cursor |-> None]
        \/ \E start \in 0 .. Len(order), end \in 0 .. Len(order) :
              /\ \/ after = None /\ start = 0
                 \/ after # None /\ start # 0 /\ order[start] = after
              /\ start <= end
              /\ \/ end = Len(order)
                 \/ end < Len(order) /\ start < end /\ end = start + PageSize(limit)
              /\ List(after, limit) =
                     [page   |-> SubSeq(order, start + 1, end),
                      cursor |-> IF end < Len(order) THEN order[end] ELSE None]
    BY <1>1, ListPage
  <2> QED
    BY <2>1, <2>2
<1> QED
  BY <1>7, <1>8, <1>9

\* The order holds each Task that the registry knows, once.
THEOREM OrderHolds == Spec => []OrderIs
<1>1. Init => OrderIs
  BY DEF Init, OrderIs, IsInjective, Contains, TaskState, Terminal
<1>2. TypeOK /\ RowTypes /\ OrderIs /\ [Next]_vars => OrderIs'
  <2> SUFFICES ASSUME TypeOK, RowTypes, OrderIs, [Next]_vars
               PROVE  OrderIs'
    OBVIOUS
  <2>1. ASSUME NEW t \in Tasks, CreateTask(t), task[t] = "absent",
               task' = [task EXCEPT ![t] = "submitted"]
        PROVE  OrderIs'
    <3>1. order \in Seq(Tasks) /\ task[t] \notin TaskState
      BY <2>1 DEF TypeOK, TaskState, Terminal
    <3>2. order' = Append(order, t)
      BY <2>1 DEF CreateTask
    <3>3. \A s \in Tasks : task'[s] \in TaskState <=> task[s] \in TaskState \/ s = t
      BY <2>1 DEF RowTypes, TaskState
    <3> QED
      BY <3>1, <3>2, <3>3, OrderAppend DEF OrderIs
  <2>2. CASE Crash
    <3>1. order' = <<>>
      BY <2>2 DEF Crash
    <3>2. \A t \in Tasks : task'[t] \notin TaskState
      BY <2>2 DEF Crash, TaskState, Terminal
    <3> QED
      BY <3>1, <3>2 DEF OrderIs, IsInjective, Contains
  <2>3. ASSUME UNCHANGED order, \A t \in Tasks : task'[t] \in TaskState <=> task[t] \in TaskState
        PROVE  OrderIs'
    BY <2>3 DEF OrderIs
  <2> QED
    BY <2>1, <2>2, <2>3, TaskSteps
<1> QED
  BY <1>1, <1>2, TypeCorrect, RowsFollow, PTL DEF Spec

\* A client that follows the cursors to the end has seen no Task twice, and
\* every Task that was there when it began and that no restart has lost: what
\* it has seen is the order up to its cursor, and the order only grows at its
\* end.
THEOREM ListingIsComplete == Spec => []ListingComplete
<1> DEFINE Inv == WalkIs /\ ListingComplete
<1>1. Init => Inv
  BY DEF Init, WalkIs, ListingComplete, IsInjective
<1>2. TypeOK /\ RowTypes /\ OrderIs /\ Inv /\ [Next]_vars => Inv'
  <2> SUFFICES ASSUME TypeOK, RowTypes, OrderIs, Inv, [Next]_vars
               PROVE  Inv'
    OBVIOUS
  <2>1. ASSUME NEW limit \in 0 .. MaxPage + 1, ListTasks(limit)
        PROVE  Inv'
    BY <2>1, WalkGoesOn DEF ListingComplete
  <2>2. CASE UNCHANGED walk
    <3>1. walk.known \subseteq Tasks /\ walk.cursor \in Tasks \union {None} /\ order \in Seq(Tasks)
      BY DEF TypeOK, WalkState
    <3>2. ASSUME \A t \in Tasks : task[t] = "lost" => task'[t] = "lost",
                 \A n \in DOMAIN order : /\ n \in DOMAIN order' /\ order'[n] = order[n]
                                        /\ SubSeq(order', 1, n) = SubSeq(order, 1, n),
                 \A t \in Tasks : Contains(order, t) => Contains(order', t)
          PROVE  Inv'
      <4>1. ListingComplete'
        BY <2>2, <3>1, <3>2 DEF ListingComplete
      <4>2. WalkIs'
        <5>1. CASE walk.at = "paging"
          <6>1. walk.cursor \in Tasks
            BY <3>1, <5>1 DEF WalkIs
          <6>2. CASE \A t \in walk.known \union {walk.cursor} : task[t] = "lost"
            BY <2>2, <3>1, <3>2, <5>1, <6>1, <6>2 DEF WalkIs
          <6>3. CASE /\ \E n \in DOMAIN order :
                           order[n] = walk.cursor /\ walk.visited = SubSeq(order, 1, n)
                     /\ \A t \in walk.known : Contains(order, t)
            BY <2>2, <3>1, <3>2, <5>1, <6>1, <6>3 DEF WalkIs
          <6> QED
            BY <5>1, <6>2, <6>3 DEF WalkIs
        <5> QED
          BY <2>2, <5>1 DEF WalkIs
      <4> QED
        BY <4>1, <4>2
    <3>3. ASSUME NEW t \in Tasks, CreateTask(t), task[t] = "absent",
                 task' = [task EXCEPT ![t] = "submitted"]
          PROVE  Inv'
      <4>1. order' = Append(order, t)
        BY <3>3 DEF CreateTask
      <4>2. \A s \in Tasks : task[s] = "lost" => task'[s] = "lost"
        BY <3>3 DEF RowTypes
      <4>3. ASSUME NEW n \in DOMAIN order
            PROVE  /\ n \in DOMAIN order' /\ order'[n] = order[n]
                   /\ SubSeq(order', 1, n) = SubSeq(order, 1, n)
        <5>1. /\ order' \in Seq(Tasks) /\ n \in 1 .. Len(order) /\ Len(order) \in Nat
              /\ Len(order') = Len(order) + 1
              /\ \A i \in 1 .. Len(order) : order'[i] = order[i]
          BY <3>1, <4>1
        <5>2. SubSeq(order', 1, n) \in Seq(Tasks) /\ SubSeq(order, 1, n) \in Seq(Tasks)
          BY <3>1, <5>1
        <5>3. Len(SubSeq(order', 1, n)) = n /\ Len(SubSeq(order, 1, n)) = n
          BY <3>1, <5>1
        <5>4. \A i \in 1 .. n : SubSeq(order', 1, n)[i] = SubSeq(order, 1, n)[i]
          BY <3>1, <5>1
        <5> QED
          BY <5>1, <5>2, <5>3, <5>4, SeqEqual
      <4>4. \A s \in Tasks : Contains(order, s) => Contains(order', s)
        BY <3>1, <4>3 DEF Contains
      <4> QED
        BY <3>2, <4>2, <4>3, <4>4
    <3>4. CASE Crash
      <4>1. \A t \in Tasks : task[t] \in TaskState \union {"lost"} => task'[t] = "lost"
        BY <3>4 DEF Crash, Created, TaskState, Terminal
      <4>2. ListingComplete'
        BY <2>2, <3>1, <4>1 DEF ListingComplete
      <4>3. walk.at = "paging" => \A t \in walk.known \union {walk.cursor} : task'[t] = "lost"
        BY <3>1, <4>1 DEF WalkIs, OrderIs, Contains
      <4> QED
        BY <2>2, <4>2, <4>3 DEF WalkIs
    <3>5. ASSUME UNCHANGED order, \A t \in Tasks : task[t] = "lost" => task'[t] = "lost"
          PROVE  Inv'
      BY <3>2, <3>5
    <3> QED
      BY <3>3, <3>4, <3>5, TaskSteps
  <2> QED
    BY <2>1, <2>2, WalkSteps
<1> QED
  BY <1>1, <1>2, TypeCorrect, RowsFollow, OrderHolds, PTL DEF Spec

-----------------------------------------------------------------------------
\* The Tasks that a reset should cancel are in the registry, and each one that
\* still runs is to be canceled or stands behind the page it looked at.
ResetIs ==
    /\ \A t \in targets :
          /\ task[t] \in TaskState
          /\ Live(t) => t \in todo \/ Position(t) > MaxPage
    /\ reset = "done" => todo = {}

\* What a step does to the reset.
LEMMA ResetSteps ==
    ASSUME [Next]_vars
    PROVE  \/ /\ UNCHANGED <<todo, targets>>
              /\ reset' = "done" => reset = "done" \/ todo = {}
           \/ ResetLists
           \/ \E t \in Tasks : ResetCancels(t)
           \/ Crash
BY DEF Next, vars, resetVars, CreateTask, Transition, OwnerReady, OwnerLeaves, CancelTask,
       RunWrite, WriteFails, InsertConversation, DeleteConversation, ResetGoesOn, ResetDeletes,
       ListTasks

\* The Tasks of the page that the reset looks at are those at the first
\* places of the order.
LEMMA FirstPage ==
    ASSUME order \in Seq(Tasks), NEW i \in DOMAIN order, i <= MaxPage
    PROVE  order[i] \in ToSet(List(None, MaxPage).page)
<1>1. MaxPage \in Nat \ {0} /\ PageSize(MaxPage) = MaxPage
  BY RowsAssumption DEF PageSize
<1>2. PICK start \in 0 .. Len(order), end \in 0 .. Len(order) :
         /\ start = 0
         /\ \/ end = Len(order)
            \/ end < Len(order) /\ start < end /\ end = start + PageSize(MaxPage)
         /\ List(None, MaxPage) =
                [page   |-> SubSeq(order, start + 1, end),
                 cursor |-> IF end < Len(order) THEN order[end] ELSE None]
  BY <1>1, ListPage
<1>3. List(None, MaxPage).page = SubSeq(order, 1, end)
  BY <1>2
<1>4. i \in 1 .. end
  <2>1. Len(order) \in Nat /\ i \in 1 .. Len(order)
    OBVIOUS
  <2> QED
    BY <1>1, <1>2, <2>1
<1>5. i \in DOMAIN SubSeq(order, 1, end) /\ SubSeq(order, 1, end)[i] = order[i]
  BY <1>4
<1> QED
  BY <1>3, <1>5 DEF ToSet

\* A reset that has returned leaves no Task running that was at one of the
\* first places of the registry when it began: every Task it finds there it
\* cancels unless it has ended, and no Task that has ended runs again.
THEOREM ResetEnds == Spec => []ResetEndsTasks
<1>1. Init => ResetIs
  BY DEF Init, ResetIs
<1>2. TypeOK /\ RowTypes /\ OrderIs /\ OrderIs' /\ ResetIs /\ [Next]_vars => ResetIs'
  <2> SUFFICES ASSUME TypeOK, RowTypes, OrderIs, OrderIs', ResetIs, [Next]_vars
               PROVE  ResetIs'
    OBVIOUS
  <2>1. order \in Seq(Tasks) /\ targets \subseteq Tasks /\ Len(order) \in Nat
    BY DEF TypeOK
  <2>2. CASE Crash
    BY <2>2 DEF Crash, ResetIs
  <2>3. CASE ResetLists
    <3>1. /\ targets' = ToBeCanceled(ToSet(order))
          /\ todo' = ToBeCanceled(ToSet(List(None, MaxPage).page))
          /\ reset' = "canceling" /\ UNCHANGED <<task, order>>
      BY <2>3 DEF ResetLists
    <3>2. ASSUME NEW t \in targets'
          PROVE  task[t] \in TaskState /\ (t \in todo' \/ Position(t) > MaxPage)
      <4>1. t \in ToSet(order) /\ Live(t) /\ KeyOf[t] = ResetKey
        BY <3>1, <3>2 DEF ToBeCanceled
      <4>2. PICK i \in DOMAIN order : order[i] = t
        BY <4>1 DEF ToSet
      <4>3. Position(t) = i
        BY <4>2, PositionIs DEF OrderIs
      <4>4. CASE i <= MaxPage
        <5>1. order[i] \in ToSet(List(None, MaxPage).page)
          BY <2>1, <4>4, FirstPage
        <5>2. t \in todo'
          BY <3>1, <4>1, <4>2, <5>1 DEF ToBeCanceled
        <5> QED
          BY <4>1, <5>2 DEF Live
      <4>5. CASE i > MaxPage
        BY <4>3, <4>5, <4>1 DEF Live
      <4>6. i \in Nat /\ MaxPage \in Nat
        BY <2>1, RowsAssumption
      <4>7. i <= MaxPage \/ i > MaxPage
        BY ONLY <4>6
      <4> QED
        BY <4>1, <4>4, <4>5, <4>7 DEF Live
    <3>3. \A t : Position(t)' = Position(t)
      BY <3>1 DEF Position
    <3> QED
      BY <3>1, <3>2, <3>3 DEF ResetIs
  <2>4. ASSUME \A t \in targets : task[t] \in TaskState => task'[t] \in TaskState,
               \A t \in targets : Live(t)' => Live(t),
               \A t \in targets : Contains(order, t) => Position(t)' = Position(t),
               targets' = targets,
               \A t \in targets : Live(t)' /\ t \in todo => t \in todo' \/ Position(t) > MaxPage,
               reset' = "done" => todo' = {}
        PROVE  ResetIs'
    <3>1. \A t \in targets : Contains(order, t)
      BY <2>1 DEF OrderIs, ResetIs
    <3> QED
      BY <2>4, <3>1 DEF ResetIs
  <2>5. ASSUME UNCHANGED <<todo, targets>>, reset' = "done" => reset = "done" \/ todo = {}
        PROVE  ResetIs'
    <3>1. reset' = "done" => todo' = {}
      BY <2>5 DEF ResetIs
    <3>2. CASE /\ UNCHANGED order
               /\ \A t \in Tasks : task'[t] \in TaskState <=> task[t] \in TaskState
               /\ \A t \in Tasks : Live(t)' => Live(t)
      <4>1. \A t : Position(t)' = Position(t)
        BY <3>2 DEF Position
      <4> QED
        BY <2>1, <2>4, <2>5, <3>1, <3>2, <4>1
    <3>3. ASSUME NEW t \in Tasks, CreateTask(t), task[t] = "absent",
                 task' = [task EXCEPT ![t] = "submitted"]
          PROVE  ResetIs'
      <4>1. t \notin targets /\ \A s \in targets : task'[s] = task[s]
        BY <2>1, <3>3 DEF ResetIs, TaskState, Terminal
      <4>2. \A s \in targets : Live(s)' => Live(s)
        BY <4>1 DEF Live
      <4>3. ASSUME NEW s \in targets, Contains(order, s)
            PROVE  Position(s)' = Position(s)
        <5>1. order' = Append(order, t)
          BY <3>3 DEF CreateTask
        <5>2. PICK i \in DOMAIN order : order[i] = s
          BY <2>1, <4>3 DEF Contains
        <5>3. i \in DOMAIN order' /\ order'[i] = s
          BY <2>1, <5>1, <5>2
        <5>4. Position(s) = i
          BY <5>2, PositionIs DEF OrderIs
        <5>5. Position(s)' = i
          <6>1. \E j \in DOMAIN order' : order'[j] = s
            BY <5>3
          <6>2. Position(s)' \in DOMAIN order' /\ order'[Position(s)'] = s
            BY <6>1 DEF Position
          <6> QED
            BY <5>3, <6>2 DEF OrderIs, IsInjective
        <5> QED
          BY <5>4, <5>5
      <4> QED
        BY <2>4, <2>5, <3>1, <4>1, <4>2, <4>3
    <3> QED
      BY <2>2, <3>2, <3>3, TaskSteps
  <2>6. ASSUME NEW t \in Tasks, ResetCancels(t)
        PROVE  ResetIs'
    <3>1. /\ UNCHANGED <<order, targets>> /\ todo' = todo \ {t} /\ reset = "canceling"
          /\ reset' # "done"
      BY <2>6 DEF ResetCancels
    <3>2. \A s : Position(s)' = Position(s)
      BY <3>1 DEF Position
    <3>3. CASE Cancels(t, "reset")
      <4>1. task' = [task EXCEPT ![t] = "canceled"]
        BY <3>3 DEF Cancels, Moves
      <4>2. task'[t] = "canceled" /\ \A s \in Tasks \ {t} : task'[s] = task[s]
        BY <4>1 DEF RowTypes
      <4>3. ~Live(t)' /\ \A s \in Tasks \ {t} : Live(s)' <=> Live(s)
        BY <4>2 DEF Live, Terminal
      <4>4. \A s \in targets : task[s] \in TaskState => task'[s] \in TaskState
        BY <2>1, <4>2 DEF TaskState, Terminal
      <4> QED
        BY <2>1, <2>4, <3>1, <3>2, <4>3, <4>4
    <3>4. CASE ~Live(t) /\ UNCHANGED task
      <4>1. \A s \in Tasks : Live(s)' <=> Live(s)
        BY <3>4 DEF Live
      <4> QED
        BY <2>1, <2>4, <3>1, <3>2, <3>4, <4>1
    <3> QED
      BY <2>6, <3>3, <3>4 DEF ResetCancels
  <2> QED
    BY <2>2, <2>3, <2>5, <2>6, ResetSteps
<1>3. TypeOK /\ ResetIs => ResetEndsTasks
  BY DEF ResetIs, ResetEndsTasks
<1> QED
  BY <1>1, <1>2, <1>3, TypeCorrect, RowsFollow, OrderHolds, PTL DEF Spec

=============================================================================
