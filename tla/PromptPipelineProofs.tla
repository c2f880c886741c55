------------------------ MODULE PromptPipelineProofs ------------------------
(***************************************************************************)
(* Proofs about PromptPipeline, for any set of requests, CancelTask calls  *)
(* and sessions, any number of updates per turn, and with clients that     *)
(* leave and an agent that dies at any moment.                             *)
(***************************************************************************)
EXTENDS PromptPipeline, TLAPS

\* The arrows of the registry's transition table, one by one.
LEMMA LegalCases ==
    ASSUME NEW from, NEW to, IsLegal(from, to)
    PROVE  \/ from = "submitted" /\ to = "working"
           \/ from = "working" /\ to \in {"completed", "failed", "input-required"}
           \/ from \in {"submitted", "working", "input-required"} /\ to = "canceled"
BY DEF IsLegal, LegalArrows

\* A Task the registry still moves is not terminal.
LEMMA LegalFromOpen ==
    ASSUME NEW from, NEW to, IsLegal(from, to)
    PROVE  from \notin Terminal /\ from # "absent" /\ to # "absent"
BY LegalCases DEF Terminal

\* Every stop reason ends a Task in a terminal state.
LEMMA FinalStateType ==
    ASSUME NEW stop
    PROVE  FinalState(stop) \in Terminal
BY DEF FinalState, Terminal

\* Sending on a stream keeps the type of the streams.
LEMMA DeliveredType ==
    ASSUME chan \in [Requests -> Seq(Item)], NEW r \in Requests, NEW item \in Item
    PROVE  Delivered(r, item) \in [Requests -> Seq(Item)]
BY DEF Delivered

\* What an update of a session does to the streams: it is the last item of the
\* stream that the route table names, if that stream is read.
LEMMA RoutedItem ==
    ASSUME TypeOK, NEW s \in Sessions, NEW item, chan' = Routed(s, item),
           NEW r \in Requests, chan'[r] # chan[r]
    PROVE  /\ routes[s] = r /\ Receiving(r)
           /\ chan'[r] = Append(chan[r], item)
BY DEF TypeOK, Routed, Delivered

\* Passing on an update keeps the type of the streams.
LEMMA RoutedType ==
    ASSUME TypeOK, NEW s \in Sessions, NEW item \in Item
    PROVE  Routed(s, item) \in [Requests -> Seq(Item)]
BY DeliveredType DEF TypeOK, Routed

-----------------------------------------------------------------------------
\* Type correctness: in every reachable state each variable of the pipeline
\* has the type the code gives it.
THEOREM TypeCorrect == Spec => []TypeOK
<1>1. Init => TypeOK
  BY PipelineAssumption DEF Init, TypeOK, HandlerState, BridgeState, CancelState
<1>2. TypeOK /\ [Next]_vars => TypeOK'
  <2> SUFFICES ASSUME TypeOK, [Next]_vars
               PROVE  TypeOK'
    OBVIOUS
  <2> USE PipelineAssumption DEF TypeOK
  <2>1. ASSUME NEW r \in Requests, Client(r)
        PROVE  TypeOK'
    <3> USE DEF taskVars, acpVars, cancelVars, HandlerState
    <3>1. CASE Admit(r)
      BY <3>1 DEF Admit, Handler, bridgeVars
    <3>2. CASE RejectBusy(r)
      BY <3>2 DEF RejectBusy, Handler, bridgeVars
    <3>3. CASE Disconnect(r)
      <4>1. bridge' \in [Requests -> BridgeState]
        BY <3>3 DEF Disconnect, BridgeState
      <4>2. chan' \in [Requests -> Seq(Item)]
        BY <3>3 DEF Disconnect
      <4> QED
        BY <3>3, <4>1, <4>2 DEF Disconnect, Release
    <3> QED
      BY <2>1, <3>1, <3>2, <3>3 DEF Client
  <2>2. ASSUME NEW r \in Requests, HandlerStep(r)
        PROVE  TypeOK'
    <3> USE DEF Handler, Release, HandlerState, taskVars, bridgeVars, acpVars, cancelVars
    <3>1. CASE RejectContinuation(r)
      BY <3>1 DEF RejectContinuation
    <3>2. CASE CreateTask(r)
      BY <3>2 DEF CreateTask, TaskState
    <3>3. CASE RejectParts(r)
      BY <3>3 DEF RejectParts
    <3>4. CASE StartPrompt(r)
      BY <3>4 DEF StartPrompt, Command, BridgeState
    <3>5. CASE StartPromptFails(r)
      BY <3>5 DEF StartPromptFails
    <3>6. CASE Subscribe(r)
      BY <3>6 DEF Subscribe
    <3>7. CASE SendReplies(r)
      BY <3>7 DEF SendReplies
    <3>8. CASE SendFails(r)
      BY <3>8 DEF SendFails
    <3> QED
      BY <2>2, <3>1, <3>2, <3>3, <3>4, <3>5, <3>6, <3>7, <3>8 DEF HandlerStep
  <2>3. ASSUME NEW r \in Requests, BridgeStep(r)
        PROVE  TypeOK'
    <3> USE DEF httpVars, taskVars, acpVars, cancelVars, BridgeState
    <3>1. ASSUME NEW to, Refused(r, to)
          PROVE  TypeOK'
      <4>1. chan' \in [Requests -> Seq(Item)]
        BY <3>1 DEF Refused
      <4>2. /\ bridge' \in [Requests -> BridgeState]
            /\ in_flight' \in [Sessions -> Requests \union {NoReq}]
        BY <3>1 DEF Refused, Exit, Release
      <4>3. UNCHANGED <<handler, pushed, taskVars, verdict, acpVars, cancelVars>>
        BY <3>1 DEF Refused, Exit
      <4> QED
        BY <4>1, <4>2, <4>3
    <3>2. ASSUME NEW to \in Terminal, Conclude(r, to)
          PROVE  TypeOK'
      <4>1. CASE Refused(r, to)
        BY <3>1, <4>1
      <4>2. CASE Accepted(r, to)
        BY <3>2, <4>2 DEF Accepted, TaskState
      <4> QED
        BY <3>2, <4>1, <4>2 DEF Conclude
    <3>3. CASE BridgeFirstItem(r)
      <4>1. CASE Refused(r, "working")
        BY <3>1, <4>1
      <4>2. CASE Started(r)
        BY <4>2 DEF Started, TaskState
      <4> QED
        BY <3>3, <4>1, <4>2 DEF BridgeFirstItem
    <3>4. CASE BridgeUpdate(r)
      <4>1. Head(chan[r]) \in Item /\ Tail(chan[r]) \in Seq(Item)
        BY <3>4 DEF BridgeUpdate
      <4>2. answer' \in [Requests -> Seq(Requests \union {NoReq})]
        BY <3>4, <4>1 DEF BridgeUpdate, Item
      <4> QED
        BY <3>4, <4>1, <4>2 DEF BridgeUpdate
    <3>5. CASE BridgeStop(r)
      BY <3>2, <3>5, FinalStateType DEF BridgeStop
    <3>6. CASE BridgeEndOfStream(r)
      BY <3>2, <3>6 DEF BridgeEndOfStream, Terminal
    <3>7. CASE BridgePublishFinal(r)
      BY <3>7 DEF BridgePublishFinal, Exit, Release
    <3> QED
      BY <2>3, <3>3, <3>4, <3>5, <3>6, <3>7 DEF BridgeStep
  <2>4. ASSUME DriverStep
        PROVE  TypeOK'
    <3> USE DEF httpVars, taskVars, bridgeVars, DriverReady
    <3>1. CASE DriverTakesPrompt
      BY <3>1 DEF DriverTakesPrompt, Command, cancelVars
    <3>2. CASE DriverTakesCancel
      BY <3>2 DEF DriverTakesCancel, Command, CancelState
    <3>3. CASE DriverClearsRoute
      BY <3>3 DEF DriverClearsRoute, cancelVars
    <3> QED
      BY <2>4, <3>1, <3>2, <3>3 DEF DriverStep
  <2>5. ASSUME Agent
        PROVE  TypeOK'
    <3> USE DEF httpVars, taskVars
    <3>1. ASSUME NEW kind \in UpdateKinds, AgentUpdate(kind)
          PROVE  TypeOK'
      <4>1. running \in Requests
        BY <3>1 DEF AgentUpdate
      <4>2. [turn |-> running, kind |-> kind] \in Item
        BY <4>1 DEF Item
      <4>3. chan' \in [Requests -> Seq(Item)]
        BY <3>1, <4>1, <4>2, RoutedType DEF AgentUpdate
      <4>4. sent' \in [Requests -> Seq(UpdateKinds)]
        BY <3>1, <4>1 DEF AgentUpdate
      <4> QED
        BY <3>1, <4>3, <4>4 DEF AgentUpdate, cancelVars
    <3>2. ASSUME NEW stop \in StopReasons, AgentStops(stop)
          PROVE  TypeOK'
      BY <3>2, DeliveredType DEF AgentStops, Item, cancelVars
    <3>3. CASE AgentExits
      BY <3>3 DEF AgentExits, bridgeVars, CancelState
    <3>4. ASSUME NEW s \in Sessions, NEW kind \in UpdateKinds, AgentSpeaksUnasked(s, kind)
          PROVE  TypeOK'
      <4>1. [turn |-> NoReq, kind |-> kind] \in Item
        BY DEF Item
      <4>2. chan' \in [Requests -> Seq(Item)]
        BY <3>4, <4>1, RoutedType DEF AgentSpeaksUnasked
      <4> QED
        BY <3>4, <4>2 DEF AgentSpeaksUnasked, cancelVars
    <3> QED
      BY <2>5, <3>1, <3>2, <3>3, <3>4 DEF Agent, AgentAnswers
  <2>6. ASSUME NEW c \in Cancels, CancelStep(c)
        PROVE  TypeOK'
    <3> USE DEF httpVars, bridgeVars, CancelState
    <3>1. ASSUME NEW t \in Requests, CancelTask(c, t)
          PROVE  TypeOK'
      BY <3>1 DEF CancelTask, acpVars, TaskState, Terminal
    <3>2. ASSUME NEW t \in Requests, CancelRefused(c, t)
          PROVE  TypeOK'
      BY <3>2 DEF CancelRefused, taskVars, acpVars
    <3>3. CASE CancelNotifies(c)
      <4>1. [op |-> "cancel", by |-> c] \in Command
        BY DEF Command
      <4>2. cmds' = cmds \/ cmds' = Append(cmds, [op |-> "cancel", by |-> c])
        BY <3>3 DEF CancelNotifies
      <4>3. cmds' \in Seq(Command)
        <5>1. CASE cmds' = cmds
          BY <5>1
        <5>2. CASE cmds' = Append(cmds, [op |-> "cancel", by |-> c])
          <6> HIDE DEF TypeOK
          <6>1. cmds \in Seq(Command)
            BY DEF TypeOK
          <6> QED
            BY <4>1, <5>2, <6>1, SMTT(30)
        <5> QED
          BY <4>2, <5>1, <5>2
      <4>4. canceler' \in [Cancels -> CancelState]
        BY <3>3 DEF CancelNotifies
      <4> QED
        BY <3>3, <4>3, <4>4 DEF CancelNotifies, taskVars
    <3>4. CASE CancelDisconnect(c)
      BY <3>4 DEF CancelDisconnect, taskVars, acpVars
    <3> QED
      BY <2>6, <3>1, <3>2, <3>3, <3>4 DEF CancelStep
  <2>7. CASE UNCHANGED vars
    BY <2>7 DEF vars, httpVars, taskVars, bridgeVars, acpVars, cancelVars
  <2> QED
    BY <2>1, <2>2, <2>3, <2>4, <2>5, <2>6, <2>7 DEF Next
<1> QED
  BY <1>1, <1>2, PTL DEF Spec
-----------------------------------------------------------------------------
(* The permit of a conversation.                                           *)

\* Where the bridge of a request can stand, given where its handler stands:
\* a SendMessage handler runs its bridge itself, the bridge of a stream runs
\* on after its handler.  And no Task exists before its handler creates it.
HandlerBridge ==
    \A r \in Requests :
        /\ handler[r] \in {"idle", "busy", "admitted"} => task[r] = "absent"
        /\ handler[r] \in {"idle", "busy", "admitted", "created"} => bridge[r] = "off"
        /\ handler[r] = "pumping" => r \notin Streaming
        /\ Pumping(r) =>
                handler[r] \in IF r \in Streaming
                               THEN {"subscribing", "replied", "panicked"}
                               ELSE {"pumping"}

\* The handler of a request and its bridge keep step, whatever clients do.
THEOREM HandlersKeepStep == Spec => []HandlerBridge
<1>1. Init => HandlerBridge
  BY DEF Init, HandlerBridge, Pumping, Receiving
<1>2. TypeOK /\ HandlerBridge /\ [Next]_vars => HandlerBridge'
  <2> SUFFICES ASSUME TypeOK, HandlerBridge, [Next]_vars
               PROVE  HandlerBridge'
    OBVIOUS
  <2> USE DEF TypeOK, HandlerBridge, Pumping, Receiving
  <2>1. ASSUME NEW r \in Requests, Client(r)
        PROVE  HandlerBridge'
    <3>1. CASE Admit(r) \/ RejectBusy(r)
      BY <3>1 DEF Admit, RejectBusy, Handler, taskVars, bridgeVars
    <3>2. CASE Disconnect(r)
      <4>1. handler' = [handler EXCEPT ![r] = "gone"] /\ task' = task
        BY <3>2 DEF Disconnect, taskVars
      <4>2. handler[r] \in {"created", "pumping"}
        BY <3>2 DEF Disconnect
      <4>3. bridge' = IF Pumping(r) THEN [bridge EXCEPT ![r] = "dropped"] ELSE bridge
        BY <3>2 DEF Disconnect
      <4> QED
        BY <4>1, <4>2, <4>3
    <3> QED
      BY <2>1, <3>1, <3>2 DEF Client
  <2>2. ASSUME NEW r \in Requests, HandlerStep(r)
        PROVE  HandlerBridge'
    <3> USE DEF Handler, taskVars, bridgeVars
    <3>1. CASE RejectContinuation(r) \/ RejectParts(r) \/ StartPromptFails(r)
      BY <3>1 DEF RejectContinuation, RejectParts, StartPromptFails
    <3>2. CASE CreateTask(r)
      BY <3>2 DEF CreateTask
    <3>3. CASE StartPrompt(r)
      BY <3>3 DEF StartPrompt
    <3>4. CASE Subscribe(r)
      BY <3>4 DEF Subscribe
    <3>5. CASE SendReplies(r) \/ SendFails(r)
      BY <3>5 DEF SendReplies, SendFails
    <3> QED
      BY <2>2, <3>1, <3>2, <3>3, <3>4, <3>5 DEF HandlerStep
  <2>3. ASSUME NEW r \in Requests, BridgeStep(r)
        PROVE  HandlerBridge'
    <3>1. ASSUME NEW to, Receiving(r), Refused(r, to)
          PROVE  HandlerBridge'
      BY <3>1 DEF Refused, Exit, taskVars
    <3>2. ASSUME NEW to, Receiving(r), Conclude(r, to)
          PROVE  HandlerBridge'
      <4>1. CASE Accepted(r, to)
        BY <3>2, <4>1, LegalFromOpen DEF Accepted, httpVars
      <4> QED
        BY <3>1, <3>2, <4>1 DEF Conclude
    <3>3. CASE BridgeFirstItem(r)
      <4>1. CASE Refused(r, "working")
        BY <3>1, <3>3, <4>1 DEF BridgeFirstItem
      <4>2. CASE Started(r)
        BY <3>3, <4>2, LegalFromOpen DEF BridgeFirstItem, Started, httpVars
      <4> QED
        BY <3>3, <4>1, <4>2 DEF BridgeFirstItem
    <3>4. CASE BridgeUpdate(r)
      BY <3>4 DEF BridgeUpdate, httpVars
    <3>5. CASE BridgeStop(r) \/ BridgeEndOfStream(r)
      BY <3>2, <3>5 DEF BridgeStop, BridgeEndOfStream
    <3>6. CASE BridgePublishFinal(r)
      BY <3>6 DEF BridgePublishFinal, Exit
    <3> QED
      BY <2>3, <3>3, <3>4, <3>5, <3>6 DEF BridgeStep
  <2>4. CASE DriverStep
    BY <2>4 DEF DriverStep, DriverTakesPrompt, DriverTakesCancel,
                DriverClearsRoute, httpVars, taskVars, bridgeVars
  <2>5. CASE Agent
    BY <2>5 DEF Agent, AgentAnswers, AgentStops, AgentUpdate,
                AgentSpeaksUnasked, AgentExits, httpVars, taskVars, bridgeVars
  <2>6. ASSUME NEW c \in Cancels, CancelStep(c)
        PROVE  HandlerBridge'
    <3>1. ASSUME NEW t \in Requests, CancelTask(c, t)
          PROVE  HandlerBridge'
      BY <3>1 DEF CancelTask, TaskState, Terminal, httpVars, bridgeVars
    <3>2. ASSUME NEW t \in Requests, CancelRefused(c, t)
          PROVE  HandlerBridge'
      BY <3>2 DEF CancelRefused, httpVars, taskVars, bridgeVars
    <3>3. CASE CancelNotifies(c) \/ CancelDisconnect(c)
      BY <3>3 DEF CancelNotifies, CancelDisconnect, httpVars, taskVars, bridgeVars
    <3> QED
      BY <2>6, <3>1, <3>2, <3>3 DEF CancelStep
  <2>7. CASE UNCHANGED vars
    BY <2>7 DEF vars, httpVars, taskVars, bridgeVars
  <2> QED
    BY <2>1, <2>2, <2>3, <2>4, <2>5, <2>6, <2>7 DEF Next
<1> QED
  BY <1>1, <1>2, TypeCorrect, PTL DEF Spec

\* A request that needs its permit no more and drops it: nobody of its session
\* needs the permit afterwards, since nobody else did before.
LEMMA Releases ==
    ASSUME TypeOK, PermitOwned, NEW r \in Requests,
           NeedsPermit(r), ~NeedsPermit(r)', Release(r),
           \A q \in Requests \ {r} : NeedsPermit(q)' <=> NeedsPermit(q)
    PROVE  PermitOwned'
BY PipelineAssumption DEF TypeOK, PermitOwned, Release

\* A step that moves no permit and changes nobody's need for one.
LEMMA KeepsPermits ==
    ASSUME PermitOwned, UNCHANGED in_flight,
           \A q \in Requests : NeedsPermit(q)' <=> NeedsPermit(q)
    PROVE  PermitOwned'
BY DEF PermitOwned

\* H1: the permit of a conversation is held exactly by the request that is
\* being served in it, on every path through the handlers and the bridge.
THEOREM PermitsOwned == Spec => []PermitOwned
<1>1. Init => PermitOwned
  BY PipelineAssumption DEF Init, PermitOwned, NeedsPermit, Pumping, Receiving
<1>2. TypeOK /\ HandlerBridge /\ PermitOwned /\ [Next]_vars => PermitOwned'
  <2> SUFFICES ASSUME TypeOK, HandlerBridge, PermitOwned, [Next]_vars
               PROVE  PermitOwned'
    OBVIOUS
  <2>1. ASSUME NEW r \in Requests, Client(r)
        PROVE  PermitOwned'
    <3> USE DEF Handler, taskVars, bridgeVars, NeedsPermit, Pumping, Receiving
    <3>1. CASE Admit(r)
      <4>1. /\ handler' = [handler EXCEPT ![r] = "admitted"]
            /\ in_flight[SessionOf[r]] = NoReq
            /\ in_flight' = [in_flight EXCEPT ![SessionOf[r]] = r]
            /\ bridge' = bridge
        BY <3>1 DEF Admit
      <4>2. ASSUME NEW q \in Requests, q # r
            PROVE  NeedsPermit(q)' <=> NeedsPermit(q)
        BY <4>1, <4>2 DEF TypeOK
      <4>3. NeedsPermit(r)'
        BY <4>1 DEF TypeOK
      <4> HIDE DEF NeedsPermit
      <4>4. SessionOf[r] \in Sessions
        BY PipelineAssumption
      <4>5. in_flight'[SessionOf[r]] = r
        BY <4>1, <4>4 DEF TypeOK
      <4>6. ASSUME NEW q \in Requests, q # r
            PROVE  in_flight'[SessionOf[q]] = q <=> NeedsPermit(q)'
        <5>1. CASE SessionOf[q] = SessionOf[r]
          BY <4>1, <4>2, <4>5, <4>6, <5>1, PipelineAssumption DEF PermitOwned
        <5>2. CASE SessionOf[q] # SessionOf[r]
          BY <4>1, <4>2, <4>4, <4>6, <5>2, PipelineAssumption DEF PermitOwned, TypeOK
        <5> QED
          BY <5>1, <5>2
      <4> QED
        BY <4>3, <4>5, <4>6 DEF PermitOwned
    <3>2. CASE RejectBusy(r)
      BY <3>2, KeepsPermits DEF RejectBusy, TypeOK, HandlerBridge
    <3>3. CASE Disconnect(r)
      <4>1. /\ handler[r] \in {"created", "pumping"}
            /\ handler' = [handler EXCEPT ![r] = "gone"]
            /\ Release(r)
            /\ bridge' = IF Pumping(r) THEN [bridge EXCEPT ![r] = "dropped"] ELSE bridge
        BY <3>3 DEF Disconnect
      <4> QED
        BY <4>1, Releases DEF TypeOK, HandlerBridge
    <3> QED
      BY <2>1, <3>1, <3>2, <3>3 DEF Client
  <2>2. ASSUME NEW r \in Requests, HandlerStep(r)
        PROVE  PermitOwned'
    <3> USE DEF Handler, taskVars, bridgeVars, NeedsPermit, Pumping, Receiving,
                TypeOK, HandlerBridge
    <3>1. CASE RejectContinuation(r)
      BY <3>1, Releases DEF RejectContinuation
    <3>2. CASE RejectParts(r)
      BY <3>2, Releases DEF RejectParts
    <3>3. CASE StartPromptFails(r)
      BY <3>3, Releases DEF StartPromptFails
    <3>4. CASE CreateTask(r)
      BY <3>4, KeepsPermits DEF CreateTask
    <3>5. CASE StartPrompt(r)
      BY <3>5, KeepsPermits DEF StartPrompt
    <3>6. CASE Subscribe(r)
      BY <3>6, KeepsPermits DEF Subscribe
    <3>7. CASE SendReplies(r)
      BY <3>7, Releases DEF SendReplies
    <3>8. CASE SendFails(r)
      BY <3>8, Releases DEF SendFails
    <3> QED
      BY <2>2, <3>1, <3>2, <3>3, <3>4, <3>5, <3>6, <3>7, <3>8 DEF HandlerStep
  <2>3. ASSUME NEW r \in Requests, BridgeStep(r)
        PROVE  PermitOwned'
    <3> USE DEF httpVars, NeedsPermit, Pumping, Receiving, TypeOK, HandlerBridge
    <3>1. ASSUME NEW outcome \in {"done", "error"}, Pumping(r), Exit(r, outcome)
          PROVE  PermitOwned'
      <4>1. CASE r \in Streaming
        BY <3>1, <4>1, Releases DEF Exit
      <4>2. CASE r \notin Streaming
        BY <3>1, <4>2, KeepsPermits DEF Exit
      <4> QED
        BY <4>1, <4>2
    <3>2. ASSUME NEW to, Receiving(r), Conclude(r, to)
          PROVE  PermitOwned'
      <4>1. CASE Accepted(r, to)
        BY <3>2, <4>1, KeepsPermits DEF Accepted
      <4>2. CASE Refused(r, to)
        BY <3>1, <3>2, <4>2 DEF Refused
      <4> QED
        BY <3>2, <4>1, <4>2 DEF Conclude
    <3>3. CASE BridgeFirstItem(r)
      <4>1. CASE Refused(r, "working")
        BY <3>1, <3>3, <4>1 DEF BridgeFirstItem, Refused
      <4>2. CASE Started(r)
        BY <3>3, <4>2, KeepsPermits DEF BridgeFirstItem, Started
      <4> QED
        BY <3>3, <4>1, <4>2 DEF BridgeFirstItem
    <3>4. CASE BridgeUpdate(r)
      BY <3>4, KeepsPermits DEF BridgeUpdate
    <3>5. CASE BridgeStop(r) \/ BridgeEndOfStream(r)
      BY <3>2, <3>5 DEF BridgeStop, BridgeEndOfStream
    <3>6. CASE BridgePublishFinal(r)
      BY <3>1, <3>6 DEF BridgePublishFinal
    <3> QED
      BY <2>3, <3>3, <3>4, <3>5, <3>6 DEF BridgeStep
  <2>4. CASE DriverStep \/ Agent \/ UNCHANGED vars \/ \E c \in Cancels : CancelStep(c)
    <3>1. UNCHANGED <<in_flight, handler, bridge>>
      <4>1. CASE DriverStep
        BY <4>1 DEF DriverStep, DriverTakesPrompt, DriverTakesCancel,
                    DriverClearsRoute, httpVars, bridgeVars
      <4>2. CASE Agent
        BY <4>2 DEF Agent, AgentAnswers, AgentStops, AgentUpdate,
                    AgentSpeaksUnasked, AgentExits, httpVars, bridgeVars
      <4>3. CASE UNCHANGED vars
        BY <4>3 DEF vars, httpVars, bridgeVars
      <4>4. ASSUME NEW c \in Cancels, CancelStep(c)
            PROVE  UNCHANGED <<in_flight, handler, bridge>>
        BY <4>4 DEF CancelStep, CancelTask, CancelRefused, CancelNotifies,
                    CancelDisconnect, httpVars, bridgeVars
      <4> QED
        BY <2>4, <4>1, <4>2, <4>3, <4>4
    <3> QED
      BY <3>1, KeepsPermits DEF NeedsPermit, Pumping, Receiving
  <2> QED
    BY <2>1, <2>2, <2>3, <2>4 DEF Next
<1> QED
  BY <1>1, <1>2, TypeCorrect, HandlersKeepStep, PTL DEF Spec

\* H1 as the conversations see it: no two bridges ever pump for one session.
THEOREM OnePump == Spec => []OnePumpPerSession
<1>1. HandlerBridge /\ PermitOwned => OnePumpPerSession
  <2> SUFFICES ASSUME HandlerBridge, PermitOwned,
                      NEW r \in Requests, NEW q \in Requests,
                      Pumping(r), Pumping(q), SameSession(r, q)
               PROVE  r = q
    BY DEF OnePumpPerSession
  <2>1. NeedsPermit(r) /\ NeedsPermit(q)
    BY DEF HandlerBridge, NeedsPermit
  <2> QED
    BY <2>1 DEF PermitOwned, SameSession
<1> QED
  BY <1>1, HandlersKeepStep, PermitsOwned, PTL

-----------------------------------------------------------------------------
(* What subscribers are told, and the life of a Task.                      *)

\* Between the registry's move to a final state and the final frame, the
\* bridge is about to publish the very state the registry holds.
VerdictAgrees ==
    \A r \in Requests :
        bridge[r] = "closing" => verdict[r] \in Terminal /\ task[r] = verdict[r]

\* A step that moves at most one Task, along an arrow of the registry, and
\* neither closes a sink nor prepares a final frame.
LEMMA MoveKeepsFrames ==
    ASSUME TypeOK, FinalFrameAgrees, VerdictAgrees,
           UNCHANGED <<sink, verdict>>,
           NEW r \in Requests, NEW to,
           IsLegal(task[r], to),
           task' = [task EXCEPT ![r] = to],
           \A q \in Requests : bridge'[q] = "closing" => bridge[q] = "closing"
    PROVE  (FinalFrameAgrees /\ VerdictAgrees)'
<1>1. task[r] \notin Terminal
  BY LegalFromOpen
<1> QED
  BY <1>1 DEF TypeOK, FinalFrameAgrees, VerdictAgrees

\* The final frame of a sink and the registry never disagree.
THEOREM FinalFramesAgree == Spec => []FinalFrameAgrees
<1> DEFINE Frames == FinalFrameAgrees /\ VerdictAgrees
<1>1. Init => Frames
  BY DEF Init, FinalFrameAgrees, VerdictAgrees, Terminal
<1>2. TypeOK /\ HandlerBridge /\ Frames /\ [Next]_vars => Frames'
  <2> SUFFICES ASSUME TypeOK, HandlerBridge, Frames, [Next]_vars
               PROVE  Frames'
    OBVIOUS
  <2>1. ASSUME NEW r \in Requests, Client(r)
        PROVE  Frames'
    <3>1. UNCHANGED <<task, sink, verdict>>
      BY <2>1 DEF Client, Admit, RejectBusy, Disconnect, taskVars, bridgeVars
    <3>2. \A q \in Requests : bridge'[q] = "closing" => bridge[q] = "closing"
      BY <2>1 DEF Client, Admit, RejectBusy, Disconnect, bridgeVars, TypeOK
    <3> QED
      BY <3>1, <3>2 DEF FinalFrameAgrees, VerdictAgrees
  <2>2. ASSUME NEW r \in Requests, HandlerStep(r)
        PROVE  Frames'
    <3>1. CASE CreateTask(r)
      <4>1. /\ task' = [task EXCEPT ![r] = "submitted"]
            /\ sink' = [sink EXCEPT ![r] = "open"]
            /\ UNCHANGED <<bridge, verdict>>
            /\ task[r] = "absent"
        BY <3>1 DEF CreateTask, Handler, bridgeVars, HandlerBridge
      <4> QED
        BY <4>1 DEF FinalFrameAgrees, VerdictAgrees, TypeOK, Terminal
    <3>2. CASE StartPrompt(r)
      BY <3>2 DEF StartPrompt, taskVars, TypeOK, FinalFrameAgrees, VerdictAgrees
    <3>3. CASE ~CreateTask(r) /\ ~StartPrompt(r)
      <4>1. UNCHANGED <<task, sink, bridge, verdict>>
        BY <2>2, <3>3 DEF HandlerStep, RejectContinuation, RejectParts,
              StartPromptFails, Subscribe, SendReplies, SendFails, taskVars, bridgeVars
      <4> QED
        BY <4>1 DEF FinalFrameAgrees, VerdictAgrees
    <3> QED
      BY <3>1, <3>2, <3>3
  <2>3. ASSUME NEW r \in Requests, BridgeStep(r)
        PROVE  Frames'
    <3>1. ASSUME NEW to, Refused(r, to)
          PROVE  Frames'
      BY <3>1 DEF Refused, Exit, taskVars, TypeOK, FinalFrameAgrees, VerdictAgrees
    <3>2. ASSUME NEW to \in Terminal, Conclude(r, to)
          PROVE  Frames'
      <4>1. CASE Accepted(r, to)
        <5>1. task[r] \notin Terminal
          BY <4>1, LegalFromOpen DEF Accepted
        <5>2. /\ task' = [task EXCEPT ![r] = to]
              /\ verdict' = [verdict EXCEPT ![r] = to]
              /\ bridge' = [bridge EXCEPT ![r] = "closing"]
              /\ sink' = sink
          BY <4>1 DEF Accepted
        <5> QED
          BY <5>1, <5>2 DEF TypeOK, FinalFrameAgrees, VerdictAgrees
      <4> QED
        BY <3>1, <3>2, <4>1 DEF Conclude
    <3>3. CASE BridgeFirstItem(r)
      <4>1. CASE Started(r)
        BY <4>1, MoveKeepsFrames DEF Started, TypeOK
      <4> QED
        BY <3>1, <3>3, <4>1 DEF BridgeFirstItem
    <3>4. CASE BridgeUpdate(r)
      BY <3>4 DEF BridgeUpdate, FinalFrameAgrees, VerdictAgrees
    <3>5. CASE BridgeStop(r)
      BY <3>2, <3>5, FinalStateType DEF BridgeStop
    <3>6. CASE BridgeEndOfStream(r)
      BY <3>2, <3>6 DEF BridgeEndOfStream, Terminal
    <3>7. CASE BridgePublishFinal(r)
      BY <3>7 DEF BridgePublishFinal, Exit, TypeOK, FinalFrameAgrees, VerdictAgrees
    <3> QED
      BY <2>3, <3>3, <3>4, <3>5, <3>6, <3>7 DEF BridgeStep
  <2>4. CASE DriverStep \/ Agent \/ UNCHANGED vars
    <3>1. UNCHANGED <<task, sink, bridge, verdict>>
      <4>1. CASE DriverStep
        BY <4>1 DEF DriverStep, DriverTakesPrompt, DriverTakesCancel,
                    DriverClearsRoute, taskVars, bridgeVars
      <4>2. CASE Agent
        BY <4>2 DEF Agent, AgentAnswers, AgentStops, AgentUpdate,
                    AgentSpeaksUnasked, AgentExits, taskVars, bridgeVars
      <4>3. CASE UNCHANGED vars
        BY <4>3 DEF vars, taskVars, bridgeVars
      <4> QED
        BY <2>4, <4>1, <4>2, <4>3
    <3> QED
      BY <3>1 DEF FinalFrameAgrees, VerdictAgrees
  <2>5. ASSUME NEW c \in Cancels, CancelStep(c)
        PROVE  Frames'
    <3>1. ASSUME NEW t \in Requests, CancelTask(c, t)
          PROVE  Frames'
      <4>1. IsLegal(task[t], "canceled")
        BY <3>1 DEF CancelTask, TaskState, Terminal, IsLegal, LegalArrows
      <4> QED
        BY <3>1, <4>1, MoveKeepsFrames DEF CancelTask, bridgeVars
    <3>2. CASE ~\E t \in Requests : CancelTask(c, t)
      <4>1. UNCHANGED <<task, sink, bridge, verdict>>
        BY <2>5, <3>2 DEF CancelStep, CancelRefused, CancelNotifies,
                          CancelDisconnect, taskVars, bridgeVars
      <4> QED
        BY <4>1 DEF FinalFrameAgrees, VerdictAgrees
    <3> QED
      BY <3>1, <3>2
  <2> QED
    BY <2>1, <2>2, <2>3, <2>4, <2>5 DEF Next
<1> QED
  BY <1>1, <1>2, TypeCorrect, HandlersKeepStep, PTL DEF Spec

\* Every arrow of the registry's table is an arrow of the state graph.
LEMMA LegalArrowsFollow ==
    ASSUME NEW t \in Requests, NEW to, IsLegal(task[t], to),
           task' = [task EXCEPT ![t] = to]
    PROVE  Lifecycle!Next
<1>1. <<task[t], to>> \in Lifecycle!Arrows
  BY LegalCases DEF Lifecycle!Arrows
<1> QED
  BY <1>1 DEF Lifecycle!Next, Lifecycle!Follow

\* The pipeline implements the state graph of a Task: handlers, bridges and
\* CancelTask calls together move Tasks only along its arrows.
THEOREM LifecycleImplemented == Spec => ImplementsLifecycle
<1>1. Init => Lifecycle!Init
  BY DEF Init, Lifecycle!Init
<1>2. TypeOK /\ HandlerBridge /\ [Next]_vars => [Lifecycle!Next]_task
  <2> SUFFICES ASSUME TypeOK, HandlerBridge, [Next]_vars
               PROVE  Lifecycle!Next \/ UNCHANGED task
    OBVIOUS
  <2>1. ASSUME NEW r \in Requests, Client(r)
        PROVE  UNCHANGED task
    BY <2>1 DEF Client, Admit, RejectBusy, Disconnect, taskVars
  <2>2. ASSUME NEW r \in Requests, HandlerStep(r)
        PROVE  Lifecycle!Next \/ UNCHANGED task
    <3>1. CASE CreateTask(r)
      <4>1. task[r] = "absent" /\ task' = [task EXCEPT ![r] = "submitted"]
        BY <3>1 DEF CreateTask, Handler, HandlerBridge
      <4>2. <<"absent", "submitted">> \in Lifecycle!Arrows
        BY DEF Lifecycle!Arrows
      <4> QED
        BY <4>1, <4>2 DEF Lifecycle!Next, Lifecycle!Follow
    <3>2. CASE ~CreateTask(r)
      BY <2>2, <3>2 DEF HandlerStep, RejectContinuation, RejectParts, StartPrompt,
            StartPromptFails, Subscribe, SendReplies, SendFails, taskVars
    <3> QED
      BY <3>1, <3>2
  <2>3. ASSUME NEW r \in Requests, BridgeStep(r)
        PROVE  Lifecycle!Next \/ UNCHANGED task
    <3>1. ASSUME NEW to, Conclude(r, to)
          PROVE  Lifecycle!Next \/ UNCHANGED task
      BY <3>1, LegalArrowsFollow DEF Conclude, Accepted, Refused, taskVars
    <3>2. CASE BridgeFirstItem(r)
      BY <3>2, LegalArrowsFollow DEF BridgeFirstItem, Started, Refused, taskVars
    <3>3. CASE BridgeStop(r) \/ BridgeEndOfStream(r)
      BY <3>1, <3>3 DEF BridgeStop, BridgeEndOfStream
    <3>4. CASE BridgeUpdate(r) \/ BridgePublishFinal(r)
      BY <3>4 DEF BridgeUpdate, BridgePublishFinal
    <3> QED
      BY <2>3, <3>2, <3>3, <3>4 DEF BridgeStep
  <2>4. CASE DriverStep
    BY <2>4 DEF DriverStep, DriverTakesPrompt, DriverTakesCancel,
                DriverClearsRoute, taskVars
  <2>5. CASE Agent
    BY <2>5 DEF Agent, AgentAnswers, AgentStops, AgentUpdate,
                AgentSpeaksUnasked, AgentExits, taskVars
  <2>6. ASSUME NEW c \in Cancels, CancelStep(c)
        PROVE  Lifecycle!Next \/ UNCHANGED task
    <3>1. ASSUME NEW t \in Requests, CancelTask(c, t)
          PROVE  Lifecycle!Next
      <4>1. IsLegal(task[t], "canceled")
        BY <3>1 DEF CancelTask, TaskState, Terminal, IsLegal, LegalArrows
      <4> QED
        BY <3>1, <4>1, LegalArrowsFollow DEF CancelTask
    <3>2. CASE ~\E t \in Requests : CancelTask(c, t)
      BY <2>6, <3>2 DEF CancelStep, CancelRefused, CancelNotifies,
                        CancelDisconnect, taskVars
    <3> QED
      BY <3>1, <3>2
  <2>7. CASE UNCHANGED vars
    BY <2>7 DEF vars, taskVars
  <2> QED
    BY <2>1, <2>2, <2>3, <2>4, <2>5, <2>6, <2>7 DEF Next
<1> QED
  BY <1>1, <1>2, TypeCorrect, HandlersKeepStep, PTL DEF Spec, ImplementsLifecycle, Lifecycle!Spec

-----------------------------------------------------------------------------
(* The route table.                                                        *)

\* A command appended to the queue leaves every queued prompt queued.
LEMMA AppendKeepsQueued ==
    ASSUME TypeOK, NEW cmd, cmds' = Append(cmds, cmd), UNCHANGED running,
           NEW r \in Requests, Outstanding(r)
    PROVE  Outstanding(r)'
<1>1. CASE running = r
  BY <1>1 DEF Outstanding
<1>2. CASE Queued(r)
  <2>1. PICK i \in DOMAIN cmds : cmds[i] = [op |-> "prompt", by |-> r]
    BY <1>2 DEF Queued
  <2>2. cmds \in Seq(Command)
    BY DEF TypeOK
  <2>3. i \in DOMAIN cmds' /\ cmds'[i] = cmds[i]
    BY <2>1, <2>2
  <2> QED
    BY <2>1, <2>3 DEF Outstanding, Queued
<1> QED
  BY <1>1, <1>2 DEF Outstanding

\* The driver takes a command: every other queued prompt stays queued.
LEMMA TailKeepsQueued ==
    ASSUME TypeOK, cmds # <<>>, cmds' = Tail(cmds),
           NEW r \in Requests, Queued(r), Head(cmds) # [op |-> "prompt", by |-> r]
    PROVE  Queued(r)'
<1>1. PICK i \in DOMAIN cmds : cmds[i] = [op |-> "prompt", by |-> r]
  BY DEF Queued
<1>2. cmds \in Seq(Command)
  BY DEF TypeOK
<1>3. i # 1
  BY <1>1, <1>2
<1>4. i - 1 \in DOMAIN cmds' /\ cmds'[i - 1] = cmds[i]
  BY <1>1, <1>2, <1>3
<1> QED
  BY <1>1, <1>4 DEF Queued

\* While the driver lives, updates are routed only to streams whose prompt is
\* queued or at the agent.
THEOREM NoRouteIsStale == Spec => []NoStaleRoute
<1>1. Init => NoStaleRoute
  BY DEF Init, NoStaleRoute
<1>2. TypeOK /\ NoStaleRoute /\ [Next]_vars => NoStaleRoute'
  <2> SUFFICES ASSUME TypeOK, NoStaleRoute, [Next]_vars
               PROVE  NoStaleRoute'
    OBVIOUS
  <2>1. ASSUME UNCHANGED <<routes, cmds, running>>, driver = "gone" => driver' = "gone"
        PROVE  NoStaleRoute'
    BY <2>1 DEF NoStaleRoute, Outstanding, Queued
  <2>2. ASSUME NEW cmd, cmds' = Append(cmds, cmd), UNCHANGED <<routes, running, driver>>
        PROVE  NoStaleRoute'
    BY <2>2, AppendKeepsQueued DEF NoStaleRoute, TypeOK
  <2>3. ASSUME NEW r \in Requests, Client(r)
        PROVE  NoStaleRoute'
    BY <2>1, <2>3 DEF Client, Admit, RejectBusy, Disconnect, acpVars
  <2>4. ASSUME NEW r \in Requests, HandlerStep(r)
        PROVE  NoStaleRoute'
    <3>1. CASE StartPrompt(r)
      <4>1. /\ routes' = [routes EXCEPT ![SessionOf[r]] = r]
            /\ cmds' = Append(cmds, [op |-> "prompt", by |-> r])
            /\ driver # "gone"
            /\ UNCHANGED <<running, driver>>
        BY <3>1 DEF StartPrompt
      <4>2. Outstanding(r)'
        <5>1. cmds \in Seq(Command)
          BY DEF TypeOK
        <5>2. cmds'[Len(cmds) + 1] = [op |-> "prompt", by |-> r]
          BY <4>1, <5>1
        <5>3. Len(cmds) + 1 \in DOMAIN cmds'
          BY <4>1, <5>1
        <5> QED
          BY <5>2, <5>3 DEF Outstanding, Queued
      <4>3. ASSUME NEW s \in Sessions, NEW q, q = routes'[s], q # NoReq
            PROVE  SessionOf[q] = s /\ Outstanding(q)'
        <5>1. CASE s = SessionOf[r]
          BY <4>1, <4>2, <4>3, <5>1 DEF TypeOK
        <5>2. CASE s # SessionOf[r]
          <6>1. routes[s] = q /\ q \in Requests
            BY <4>1, <4>3, <5>2 DEF TypeOK
          <6>2. SessionOf[q] = s /\ Outstanding(q)
            BY <4>1, <4>3, <6>1 DEF NoStaleRoute
          <6> QED
            BY <4>1, <6>1, <6>2, AppendKeepsQueued
        <5> QED
          BY <5>1, <5>2
      <4> QED
        BY <4>3 DEF NoStaleRoute
    <3>2. CASE StartPromptFails(r)
      BY <3>2 DEF StartPromptFails, NoStaleRoute
    <3>3. CASE ~StartPrompt(r) /\ ~StartPromptFails(r)
      BY <2>1, <2>4, <3>3 DEF HandlerStep, RejectContinuation, CreateTask, RejectParts,
            Subscribe, SendReplies, SendFails, acpVars
    <3> QED
      BY <3>1, <3>2, <3>3
  <2>5. ASSUME NEW r \in Requests, BridgeStep(r)
        PROVE  NoStaleRoute'
    <3>1. UNCHANGED acpVars
      BY <2>5 DEF BridgeStep, BridgeFirstItem, Started, Refused, Exit, BridgeUpdate,
            BridgeStop, BridgeEndOfStream, Conclude, Accepted, BridgePublishFinal
    <3> QED
      BY <2>1, <3>1 DEF acpVars
  <2>6. CASE DriverTakesPrompt
    <3>1. /\ running = NoReq /\ cmds # <<>>
          /\ Head(cmds).op = "prompt"
          /\ running' = Head(cmds).by
          /\ cmds' = Tail(cmds)
          /\ UNCHANGED <<routes, driver>>
      BY <2>6 DEF DriverTakesPrompt, DriverReady
    <3>2. ASSUME NEW q \in Requests, Outstanding(q)
          PROVE  Outstanding(q)'
      <4>1. Queued(q)
        BY <3>1, <3>2, PipelineAssumption DEF Outstanding
      <4>2. CASE Head(cmds) = [op |-> "prompt", by |-> q]
        BY <3>1, <4>2 DEF Outstanding
      <4>3. CASE Head(cmds) # [op |-> "prompt", by |-> q]
        BY <3>1, <4>1, <4>3, TailKeepsQueued DEF Outstanding
      <4> QED
        BY <4>2, <4>3
    <3> QED
      BY <3>1, <3>2 DEF NoStaleRoute, TypeOK
  <2>7. CASE DriverTakesCancel
    <3>1. /\ running = NoReq /\ cmds # <<>>
          /\ Head(cmds).op = "cancel"
          /\ cmds' = Tail(cmds)
          /\ UNCHANGED <<routes, driver, running>>
      BY <2>7 DEF DriverTakesCancel, DriverReady
    <3>2. ASSUME NEW q \in Requests, Outstanding(q)
          PROVE  Outstanding(q)'
      <4>1. Queued(q)
        BY <3>1, <3>2, PipelineAssumption DEF Outstanding
      <4>2. Head(cmds) # [op |-> "prompt", by |-> q]
        BY <3>1
      <4> QED
        BY <3>1, <4>1, <4>2, TailKeepsQueued DEF Outstanding
    <3> QED
      BY <3>1, <3>2 DEF NoStaleRoute, TypeOK
  <2>8. CASE DriverClearsRoute
    <3>1. /\ driver = "ending" /\ driver' = "up"
          /\ routes' = [routes EXCEPT ![SessionOf[running]] = NoReq]
          /\ running' = NoReq
          /\ UNCHANGED cmds
      BY <2>8 DEF DriverClearsRoute
    <3>2. ASSUME NEW s \in Sessions, NEW q, q = routes'[s], q # NoReq
          PROVE  SessionOf[q] = s /\ Outstanding(q)'
      <4>1. routes[s] = q
        BY <3>1, <3>2 DEF TypeOK
      <4>2. SessionOf[q] = s /\ Outstanding(q)
        BY <3>1, <3>2, <4>1 DEF NoStaleRoute
      <4>3. q # running
        BY <3>1, <3>2, <4>2 DEF TypeOK
      <4>4. Queued(q)'
        BY <3>1, <4>2, <4>3 DEF Outstanding, Queued
      <4> QED
        BY <4>2, <4>4 DEF Outstanding
    <3> QED
      BY <3>2 DEF NoStaleRoute
  <2>9. CASE Agent
    <3>1. CASE AgentExits
      BY <3>1 DEF AgentExits, NoStaleRoute
    <3>2. ASSUME NEW stop, AgentStops(stop)
          PROVE  NoStaleRoute'
      BY <2>1, <3>2 DEF AgentStops
    <3>3. ASSUME NEW kind, AgentUpdate(kind)
          PROVE  NoStaleRoute'
      BY <2>1, <3>3 DEF AgentUpdate
    <3>4. ASSUME NEW s, NEW kind, AgentSpeaksUnasked(s, kind)
          PROVE  NoStaleRoute'
      BY <2>1, <3>4 DEF AgentSpeaksUnasked
    <3> QED
      BY <2>9, <3>1, <3>2, <3>3, <3>4 DEF Agent, AgentAnswers
  <2>10. ASSUME NEW c \in Cancels, CancelStep(c)
         PROVE  NoStaleRoute'
    <3>1. CASE CancelNotifies(c)
      BY <2>1, <2>2, <3>1 DEF CancelNotifies
    <3>2. CASE ~CancelNotifies(c)
      BY <2>1, <2>10, <3>2 DEF CancelStep, CancelTask, CancelRefused,
                               CancelDisconnect, acpVars
    <3> QED
      BY <3>1, <3>2
  <2>11. CASE UNCHANGED vars
    BY <2>1, <2>11 DEF vars, acpVars
  <2> QED
    BY <2>3, <2>4, <2>5, <2>6, <2>7, <2>8, <2>9, <2>10, <2>11 DEF Next, DriverStep
<1> QED
  BY <1>1, <1>2, TypeCorrect, PTL DEF Spec

=============================================================================
