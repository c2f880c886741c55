-------------------------- MODULE PromptAnswerProofs --------------------------
(***************************************************************************)
(* Proofs about the way of an answer through PromptPipeline: from the      *)
(* driver's queue over the prompt stream of a request into its Task, and   *)
(* what ends a bridge.                                                     *)
(***************************************************************************)
EXTENDS PromptPipelineProofs, SiftingProofs

\* A prompt is asked once: it is queued at most once, is not queued while the
\* agent works on it, and is not asked before its handler started it.  The
\* driver has a prompt to end when it is ending one, and keeps nothing when
\* it is gone.
AskedOnce ==
    /\ \A i, j \in DOMAIN cmds : cmds[i].op = "prompt" /\ cmds[i] = cmds[j] => i = j
    /\ \A r \in Requests :
        /\ Queued(r) => running # r
        /\ handler[r] \in {"idle", "busy", "admitted", "created"} => ~Outstanding(r)
    /\ driver = "ending" => running # NoReq
    /\ driver = "gone" => cmds = <<>> /\ running = NoReq

\* The driver is about to take the route of r away: it has sent the outcome.
Ended(r) == driver = "ending" /\ running = r

\* A prompt stream nobody reads is empty.  A prompt that is asked and not yet
\* ended has no stop item on its stream, and its bridge reads on unless it
\* was cut short.  What follows a stop item on its stream is of no turn.
StreamsInOrder ==
    \A r \in Requests :
        /\ ~Receiving(r) => chan[r] = <<>>
        /\ Outstanding(r) /\ ~Ended(r) =>
            /\ Receiving(r) \/ bridge[r] \in {"error", "dropped"}
            /\ \A i \in DOMAIN chan[r] : chan[r][i].kind \notin StopReasons
        /\ \A i, j \in DOMAIN chan[r] :
                chan[r][i].kind \in StopReasons /\ i < j => chan[r][j].turn = NoReq

\* In a session whose bridges all ran to their end, what waits on a stream is
\* of the stream's own turn or of none, as is what was read from it.
TurnsAreOwn ==
    \A r \in Requests : RanToEnd(SessionOf[r]) =>
        /\ \A i \in DOMAIN answer[r] : answer[r][i] \in {r, NoReq}
        /\ \A i \in DOMAIN chan[r] : chan[r][i].turn \in {r, NoReq}

Canceled(r) == \E c \in Cancels : target[c] = r

\* What a bridge finds in the registry: the state it left there, unless the
\* Task was canceled.  A bridge that waits for a first item has one coming,
\* or at hand, as long as the driver lives.
BridgeFindsTask ==
    /\ \A c \in Cancels : target[c] # NoReq => canceler[c] # "idle"
    /\ \A r \in Requests :
        /\ handler[r] = "created" \/ bridge[r] = "waiting" =>
                task[r] = "submitted" \/ Canceled(r)
        /\ bridge[r] = "working" => task[r] = "working" \/ Canceled(r)
        /\ bridge[r] = "waiting" /\ driver # "gone" =>
                Outstanding(r) \/ chan[r] # <<>>
        /\ bridge[r] = "waiting" /\ Ended(r) => chan[r] # <<>>

\* How many chunks of the turn of r there are among the updates sent in it, in
\* an answer, and on a stream.
ChunkItem(r) == {item \in Item : item.kind = "chunk" /\ item.turn = r}
Chunks(updates) == Len(Sift(updates, {"chunk"}))
Given(turns, r) == Len(Sift(turns, {r}))
Waiting(stream, r) == Len(Sift(stream, ChunkItem(r)))

\* The first turn of a session is routed to its stream as long as it is asked,
\* and every chunk the agent sent in it is in the answer or on its way there.
FirstTurnTallied ==
    \A r \in Requests :
        /\ handler[r] \in {"idle", "busy", "admitted", "created"} =>
                sent[r] = <<>> /\ answer[r] = <<>>
        /\ Alone(r) /\ Outstanding(r) => routes[SessionOf[r]] = r
        /\ Alone(r) /\ Receiving(r) =>
                Chunks(sent[r]) = Given(answer[r], r) + Waiting(chan[r], r)

-----------------------------------------------------------------------------
\* An update outside of any turn is put on the stream its session's route names,
\* if that is read, and changes nothing else that matters here.
LEMMA StraySteps ==
    ASSUME TypeOK, NEW s \in Sessions, NEW kind \in UpdateKinds,
           AgentSpeaksUnasked(s, kind)
    PROVE  /\ driver # "gone"
           /\ UNCHANGED <<handler, task, answer, sink, bridge, routes, cmds, driver,
                          running, sent, canceler, target>>
           /\ \A r \in Requests : chan'[r] # chan[r] =>
                  /\ routes[s] = r /\ Receiving(r)
                  /\ chan'[r] = Append(chan[r], [turn |-> NoReq, kind |-> kind])
BY RoutedItem DEF AgentSpeaksUnasked, httpVars, taskVars, cancelVars

-----------------------------------------------------------------------------
(* The driver's queue.                                                     *)

\* A prompt is queued after an append exactly if it was queued before, or is
\* what was appended.
LEMMA QueuedAppend ==
    ASSUME TypeOK, NEW cmd, cmds' = Append(cmds, cmd), NEW r \in Requests
    PROVE  Queued(r)' <=> Queued(r) \/ cmd = [op |-> "prompt", by |-> r]
<1>1. cmds \in Seq(Command)
  BY DEF TypeOK
<1>2. /\ DOMAIN cmds = 1 .. Len(cmds)
      /\ DOMAIN cmds' = 1 .. Len(cmds) + 1
      /\ \A i \in DOMAIN cmds : cmds'[i] = cmds[i]
      /\ cmds'[Len(cmds) + 1] = cmd
  BY <1>1
<1>3. \A i \in DOMAIN cmds' : i \in DOMAIN cmds \/ i = Len(cmds) + 1
  BY <1>1, <1>2
<1>4. ASSUME Queued(r)
      PROVE  Queued(r)'
  BY <1>1, <1>2, <1>4 DEF Queued
<1>5. ASSUME cmd = [op |-> "prompt", by |-> r]
      PROVE  Queued(r)'
  <2>1. Len(cmds) + 1 \in DOMAIN cmds'
    BY <1>1, <1>2
  <2> QED
    BY <1>2, <1>5, <2>1 DEF Queued
<1>6. ASSUME Queued(r)', ~Queued(r)
      PROVE  cmd = [op |-> "prompt", by |-> r]
  BY <1>2, <1>3, <1>6 DEF Queued
<1> QED
  BY <1>4, <1>5, <1>6

\* What is queued when the driver has taken a command was queued before, and
\* the command that was taken is not queued again.
LEMMA QueuedTail ==
    ASSUME TypeOK, AskedOnce, cmds # <<>>, cmds' = Tail(cmds), NEW r \in Requests
    PROVE  /\ Queued(r)' => Queued(r)
           /\ Head(cmds).op = "prompt" /\ Head(cmds).by = r => Queued(r) /\ ~Queued(r)'
           /\ Queued(r) /\ ~(Head(cmds).op = "prompt" /\ Head(cmds).by = r) => Queued(r)'
<1>1. cmds \in Seq(Command)
  BY DEF TypeOK
<1>2. /\ DOMAIN cmds = 1 .. Len(cmds)
      /\ DOMAIN cmds' = 1 .. Len(cmds) - 1
      /\ \A i \in DOMAIN cmds' : cmds'[i] = cmds[i + 1] /\ i + 1 \in DOMAIN cmds
      /\ Head(cmds) = cmds[1] /\ 1 \in DOMAIN cmds
      /\ Head(cmds) \in Command
  BY <1>1
<1>3. Queued(r)' => Queued(r)
  BY <1>2 DEF Queued
<1>4. ASSUME Head(cmds).op = "prompt", Head(cmds).by = r
      PROVE  Queued(r) /\ ~Queued(r)'
  <2>1. cmds[1] = [op |-> "prompt", by |-> r]
    BY <1>2, <1>4 DEF Command
  <2>2. Queued(r)
    BY <1>2, <2>1 DEF Queued
  <2>3. ASSUME Queued(r)'
        PROVE  FALSE
    <3>1. PICK i \in DOMAIN cmds' : cmds'[i] = [op |-> "prompt", by |-> r]
      BY <2>3 DEF Queued
    <3>2. cmds[i + 1] = cmds[1] /\ i + 1 \in DOMAIN cmds /\ cmds[1].op = "prompt"
      BY <1>2, <1>4, <2>1, <3>1
    <3>3. i + 1 = 1
      BY <1>2, <3>2 DEF AskedOnce
    <3> QED
      BY <1>1, <1>2, <3>1, <3>3
  <2> QED
    BY <2>2, <2>3
<1>5. ASSUME Queued(r), ~(Head(cmds).op = "prompt" /\ Head(cmds).by = r)
      PROVE  Queued(r)'
  <2>1. Head(cmds) # [op |-> "prompt", by |-> r]
    BY <1>5
  <2> QED
    BY <1>5, <2>1, TailKeepsQueued
<1> QED
  BY <1>3, <1>4, <1>5

\* An appended command repeats none, if its prompt was not queued before.
LEMMA AppendOnce ==
    ASSUME TypeOK, AskedOnce, NEW cmd, cmds' = Append(cmds, cmd),
           \A i \in DOMAIN cmds : cmds[i] # cmd \/ cmd.op # "prompt"
    PROVE  \A i, j \in DOMAIN cmds' :
               cmds'[i].op = "prompt" /\ cmds'[i] = cmds'[j] => i = j
<1>1. cmds \in Seq(Command)
  BY DEF TypeOK
<1>2. /\ DOMAIN cmds = 1 .. Len(cmds)
      /\ DOMAIN cmds' = 1 .. Len(cmds) + 1
      /\ \A i \in DOMAIN cmds : cmds'[i] = cmds[i]
      /\ cmds'[Len(cmds) + 1] = cmd
  BY <1>1
<1>3. \A i \in DOMAIN cmds' : i \in DOMAIN cmds \/ i = Len(cmds) + 1
  BY <1>1, <1>2
<1> QED
  BY <1>2, <1>3 DEF AskedOnce

\* No handler goes back to where it has not started its prompt, or to where
\* it was not admitted.
LEMMA HandlersMoveOn ==
    ASSUME TypeOK, [Next]_vars, NEW r \in Requests
    PROVE  /\ handler'[r] \in {"idle", "busy", "admitted", "created"} =>
                  handler[r] \in {"idle", "busy", "admitted", "created"}
           /\ handler'[r] \in {"idle", "busy"} => handler[r] \in {"idle", "busy"}
<1> USE DEF TypeOK
<1>1. ASSUME NEW q \in Requests, Client(q) \/ HandlerStep(q)
      PROVE  /\ handler[q] \in {"idle", "admitted", "created", "pumping", "subscribing"}
             /\ \E to \in HandlerState : handler' = [handler EXCEPT ![q] = to]
             /\ handler'[q] = "created" => handler[q] = "admitted"
             /\ handler'[q] \in {"busy", "admitted"} => handler[q] = "idle"
             /\ handler'[q] # "idle"
  BY <1>1 DEF Client, HandlerStep, Admit, RejectBusy, Disconnect, RejectContinuation,
        CreateTask, RejectParts, StartPrompt, StartPromptFails, Subscribe,
        SendReplies, SendFails, Handler, HandlerState
<1>2. ASSUME NEW q \in Requests, Client(q) \/ HandlerStep(q), q = r
      PROVE  /\ handler'[r] \in {"idle", "busy", "admitted", "created"} =>
                    handler[r] \in {"idle", "busy", "admitted", "created"}
             /\ handler'[r] \in {"idle", "busy"} => handler[r] \in {"idle", "busy"}
  BY <1>1, <1>2
<1>3. ASSUME NEW q \in Requests, Client(q) \/ HandlerStep(q), q # r
      PROVE  handler'[r] = handler[r]
  BY <1>1, <1>3
<1>4. ASSUME ~\E q \in Requests : Client(q) \/ HandlerStep(q)
      PROVE  UNCHANGED handler
  <2>1. ASSUME NEW q \in Requests, BridgeStep(q)
        PROVE  UNCHANGED handler
    BY <2>1 DEF BridgeStep, BridgeFirstItem, Started, Refused, Exit, BridgeUpdate,
          BridgeStop, BridgeEndOfStream, Conclude, Accepted, BridgePublishFinal, httpVars
  <2>2. CASE DriverStep
    BY <2>2 DEF DriverStep, DriverTakesPrompt, DriverTakesCancel, DriverClearsRoute,
          httpVars
  <2>3. CASE Agent
    BY <2>3 DEF Agent, AgentAnswers, AgentStops, AgentUpdate, AgentSpeaksUnasked,
        AgentExits, httpVars
  <2>4. ASSUME NEW c \in Cancels, CancelStep(c)
        PROVE  UNCHANGED handler
    BY <2>4 DEF CancelStep, CancelTask, CancelRefused, CancelNotifies,
          CancelDisconnect, httpVars
  <2>5. CASE UNCHANGED vars
    BY <2>5 DEF vars, httpVars
  <2> QED
    BY <1>4, <2>1, <2>2, <2>3, <2>4, <2>5 DEF Next
<1> QED
  BY <1>2, <1>3, <1>4

\* What a step of a handler that starts no prompt, of a bridge, or of a
\* CancelTask call that queues nothing leaves alone; and what the driver and
\* the agent do to the queue.
LEMMA QueueSteps ==
    ASSUME [Next]_vars
    PROVE  \/ UNCHANGED <<cmds, running, driver>>
           \/ \E r \in Requests : StartPrompt(r)
           \/ /\ \E c \in Cancels : cmds' = Append(cmds, [op |-> "cancel", by |-> c])
              /\ driver # "gone"
              /\ UNCHANGED <<running, driver>>
           \/ DriverTakesPrompt
           \/ DriverTakesCancel
           \/ \E stop \in StopReasons : AgentStops(stop)
           \/ DriverClearsRoute
           \/ AgentExits
<1>1. ASSUME NEW r \in Requests, Client(r)
      PROVE  UNCHANGED <<cmds, running, driver>>
  BY <1>1 DEF Client, Admit, RejectBusy, Disconnect, acpVars
<1>2. ASSUME NEW r \in Requests, HandlerStep(r), ~StartPrompt(r)
      PROVE  UNCHANGED <<cmds, running, driver>>
  BY <1>2 DEF HandlerStep, RejectContinuation, CreateTask, RejectParts,
        StartPromptFails, Subscribe, SendReplies, SendFails, acpVars
<1>3. ASSUME NEW r \in Requests, BridgeStep(r)
      PROVE  UNCHANGED <<cmds, running, driver>>
  BY <1>3 DEF BridgeStep, BridgeFirstItem, Started, Refused, Exit, BridgeUpdate,
        BridgeStop, BridgeEndOfStream, Conclude, Accepted, BridgePublishFinal, acpVars
<1>4. ASSUME NEW kind \in UpdateKinds, AgentUpdate(kind)
      PROVE  UNCHANGED <<cmds, running, driver>>
  BY <1>4 DEF AgentUpdate
<1>7. ASSUME NEW s, NEW kind, AgentSpeaksUnasked(s, kind)
      PROVE  UNCHANGED <<cmds, running, driver>>
  BY <1>7 DEF AgentSpeaksUnasked
<1>5. ASSUME NEW c \in Cancels, CancelStep(c)
      PROVE  \/ UNCHANGED <<cmds, running, driver>>
             \/ /\ cmds' = Append(cmds, [op |-> "cancel", by |-> c])
                /\ driver # "gone"
                /\ UNCHANGED <<running, driver>>
  BY <1>5 DEF CancelStep, CancelTask, CancelRefused, CancelNotifies,
        CancelDisconnect, acpVars
<1>6. CASE UNCHANGED vars
  BY <1>6 DEF vars, acpVars
<1> QED
  BY <1>1, <1>2, <1>3, <1>4, <1>5, <1>6, <1>7 DEF Next, DriverStep, Agent, AgentAnswers

\* Every prompt is asked once, in every interleaving of handlers, CancelTask
\* calls, the driver and a dying agent.
THEOREM PromptsAskedOnce == Spec => []AskedOnce
<1>1. Init => AskedOnce
  BY PipelineAssumption DEF Init, AskedOnce, Outstanding, Queued
<1>2. TypeOK /\ AskedOnce /\ [Next]_vars => AskedOnce'
  <2> SUFFICES ASSUME TypeOK, AskedOnce, [Next]_vars
               PROVE  AskedOnce'
    OBVIOUS
  <2> DEFINE Early(r) == handler[r] \in {"idle", "busy", "admitted", "created"}
  <2>1. \A r \in Requests : Early(r)' => Early(r)
    BY HandlersMoveOn
  <2>2. CASE UNCHANGED <<cmds, running, driver>>
    BY <2>1, <2>2 DEF AskedOnce, Outstanding, Queued
  <2>3. ASSUME NEW r \in Requests, StartPrompt(r)
        PROVE  AskedOnce'
    <3>1. /\ cmds' = Append(cmds, [op |-> "prompt", by |-> r])
          /\ driver # "gone"
          /\ UNCHANGED <<running, driver>>
      BY <2>3 DEF StartPrompt
    <3>2. ~Outstanding(r) /\ ~Early(r)'
      BY <2>3 DEF StartPrompt, Handler, AskedOnce, TypeOK
    <3>3. \A i, j \in DOMAIN cmds' : cmds'[i].op = "prompt" /\ cmds'[i] = cmds'[j] => i = j
      BY <3>1, <3>2, AppendOnce DEF Outstanding, Queued
    <3>4. ASSUME NEW q \in Requests
          PROVE  Queued(q)' <=> Queued(q) \/ q = r
      BY <3>1, QueuedAppend
    <3>5. ASSUME NEW q \in Requests
          PROVE  /\ Queued(q)' => running' # q
                 /\ Early(q)' => ~Outstanding(q)'
      BY <2>1, <3>1, <3>2, <3>4 DEF AskedOnce, Outstanding
    <3> QED
      BY <3>1, <3>3, <3>5 DEF AskedOnce
  <2>4. ASSUME NEW c \in Cancels, cmds' = Append(cmds, [op |-> "cancel", by |-> c]),
               driver # "gone", UNCHANGED <<running, driver>>
        PROVE  AskedOnce'
    <3>1. \A i, j \in DOMAIN cmds' : cmds'[i].op = "prompt" /\ cmds'[i] = cmds'[j] => i = j
      BY <2>4, AppendOnce
    <3>2. ASSUME NEW q \in Requests
          PROVE  Queued(q)' <=> Queued(q)
      BY <2>4, QueuedAppend
    <3> QED
      BY <2>1, <2>4, <3>1, <3>2 DEF AskedOnce, Outstanding
  <2>5. CASE DriverTakesPrompt \/ DriverTakesCancel
    <3>1. /\ driver = "up" /\ UNCHANGED driver
          /\ running = NoReq /\ cmds # <<>>
          /\ cmds' = Tail(cmds)
          /\ \/ Head(cmds).op = "prompt" /\ running' = Head(cmds).by
             \/ Head(cmds).op = "cancel" /\ running' = NoReq
      BY <2>5 DEF DriverTakesPrompt, DriverTakesCancel, DriverReady
    <3>2. \A i, j \in DOMAIN cmds' : cmds'[i].op = "prompt" /\ cmds'[i] = cmds'[j] => i = j
      <4>1. cmds \in Seq(Command)
        BY DEF TypeOK
      <4>2. \A i \in DOMAIN cmds' : /\ i \in Int /\ i + 1 \in DOMAIN cmds
                                    /\ cmds'[i] = cmds[i + 1]
        BY <3>1, <4>1
      <4> QED
        BY <4>2 DEF AskedOnce
    <3>3. ASSUME NEW q \in Requests
          PROVE  /\ Queued(q)' => Queued(q) /\ running' # q
                 /\ running' = q => Queued(q)
      <4>1. q # NoReq
        BY PipelineAssumption
      <4> QED
        BY <3>1, <4>1, QueuedTail
    <3> QED
      BY <2>1, <3>1, <3>2, <3>3 DEF AskedOnce, Outstanding
  <2>6. ASSUME NEW stop, AgentStops(stop)
        PROVE  AskedOnce'
    BY <2>1, <2>6 DEF AgentStops, AskedOnce, Outstanding, Queued
  <2>7. CASE DriverClearsRoute
    BY <2>1, <2>7, PipelineAssumption DEF DriverClearsRoute, AskedOnce, Outstanding, Queued
  <2>8. CASE AgentExits
    BY <2>1, <2>8, PipelineAssumption DEF AgentExits, AskedOnce, Outstanding, Queued
  <2> QED
    BY <2>2, <2>3, <2>4, <2>5, <2>6, <2>7, <2>8, QueueSteps
<1> QED
  BY <1>1, <1>2, TypeCorrect, PTL DEF Spec

\* While the driver lives, a prompt becomes outstanding by being started and
\* stops being so when the driver has cleared its route.
LEMMA OutstandingSteps ==
    ASSUME TypeOK, AskedOnce, [Next]_vars, driver' # "gone", NEW r \in Requests
    PROVE  Outstanding(r)' <=> \/ Outstanding(r) /\ ~(DriverClearsRoute /\ running = r)
                               \/ StartPrompt(r)
<1>1. r # NoReq
  BY PipelineAssumption
<1>2. CASE UNCHANGED <<cmds, running, driver>>
  <2>1. Outstanding(r)' <=> Outstanding(r)
    BY <1>2 DEF Outstanding, Queued
  <2>2. ~DriverClearsRoute
    BY <1>2 DEF DriverClearsRoute
  <2>3. ~StartPrompt(r)
    <3>1. SUFFICES ASSUME StartPrompt(r)
                   PROVE  FALSE
      OBVIOUS
    <3>2. cmds' = Append(cmds, [op |-> "prompt", by |-> r])
      BY <3>1 DEF StartPrompt
    <3>3. cmds \in Seq(Command) /\ Len(cmds') = Len(cmds) + 1
      BY <3>2 DEF TypeOK
    <3> QED
      BY <1>2, <3>3
  <2> QED
    BY <2>1, <2>2, <2>3
<1>3. ASSUME NEW q \in Requests, StartPrompt(q)
      PROVE  Outstanding(r)' <=> \/ Outstanding(r) /\ ~(DriverClearsRoute /\ running = r)
                                 \/ StartPrompt(r)
  <2>1. /\ cmds' = Append(cmds, [op |-> "prompt", by |-> q])
        /\ UNCHANGED <<running, driver>>
    BY <1>3 DEF StartPrompt
  <2>2. Queued(r)' <=> Queued(r) \/ q = r
    BY <2>1, QueuedAppend
  <2>3. ~DriverClearsRoute
    BY <2>1 DEF DriverClearsRoute
  <2>4. StartPrompt(r) => q = r
    BY <1>3 DEF StartPrompt, Handler, TypeOK
  <2> QED
    BY <1>3, <2>1, <2>2, <2>3, <2>4 DEF Outstanding
<1>4. ASSUME NEW c \in Cancels, cmds' = Append(cmds, [op |-> "cancel", by |-> c]),
             UNCHANGED <<running, driver>>
      PROVE  Outstanding(r)' <=> \/ Outstanding(r) /\ ~(DriverClearsRoute /\ running = r)
                                 \/ StartPrompt(r)
  <2>1. Queued(r)' <=> Queued(r)
    BY <1>4, QueuedAppend
  <2>2. ~DriverClearsRoute
    BY <1>4 DEF DriverClearsRoute
  <2>3. StartPrompt(r) => Queued(r)'
    BY QueuedAppend DEF StartPrompt
  <2> QED
    BY <1>4, <2>1, <2>2, <2>3 DEF Outstanding
<1>5. CASE DriverTakesPrompt \/ DriverTakesCancel
  <2>1. /\ driver = "up" /\ UNCHANGED driver
        /\ running = NoReq /\ cmds # <<>>
        /\ cmds' = Tail(cmds)
        /\ UNCHANGED handler
        /\ \/ Head(cmds).op = "prompt" /\ running' = Head(cmds).by
           \/ Head(cmds).op = "cancel" /\ running' = NoReq
    BY <1>5 DEF DriverTakesPrompt, DriverTakesCancel, DriverReady, httpVars
  <2>2. ~DriverClearsRoute
    BY <2>1 DEF DriverClearsRoute
  <2>3. ~StartPrompt(r)
    BY <2>1 DEF StartPrompt, Handler, TypeOK
  <2> QED
    BY <1>1, <2>1, <2>2, <2>3, QueuedTail DEF Outstanding
<1>6. ASSUME NEW stop, AgentStops(stop)
      PROVE  Outstanding(r)' <=> \/ Outstanding(r) /\ ~(DriverClearsRoute /\ running = r)
                                 \/ StartPrompt(r)
  <2>1. driver = "up" /\ driver' = "ending" /\ UNCHANGED <<cmds, running>>
    BY <1>6 DEF AgentStops
  <2> QED
    BY <2>1 DEF Outstanding, Queued, DriverClearsRoute, StartPrompt
<1>7. CASE DriverClearsRoute
  <2>1. /\ driver = "ending" /\ driver' = "up"
        /\ running' = NoReq /\ UNCHANGED cmds
    BY <1>7 DEF DriverClearsRoute
  <2>2. ~StartPrompt(r)
    BY <2>1 DEF StartPrompt
  <2> QED
    BY <1>1, <1>7, <2>1, <2>2 DEF Outstanding, Queued, AskedOnce
<1>8. CASE AgentExits
  BY <1>8 DEF AgentExits
<1> QED
  BY <1>2, <1>3, <1>4, <1>5, <1>6, <1>7, <1>8, QueueSteps

\* A prompt that is asked and not ended was so before, or has been started.
LEMMA AskedSteps ==
    ASSUME TypeOK, AskedOnce, AskedOnce', [Next]_vars, NEW r \in Requests,
           Outstanding(r)', ~Ended(r)'
    PROVE  (Outstanding(r) /\ ~Ended(r)) \/ StartPrompt(r)
<1>1. r # NoReq
  BY PipelineAssumption
<1>2. driver' # "gone"
  BY <1>1 DEF AskedOnce, Outstanding, Queued
<1>3. SUFFICES ASSUME ~StartPrompt(r), Ended(r)
               PROVE  FALSE
  BY <1>2, OutstandingSteps
<1>4. ~DriverClearsRoute
  BY <1>2, <1>3, OutstandingSteps DEF Ended
<1>5. ~UNCHANGED <<running, driver>>
  BY <1>3 DEF Ended
<1>6. ASSUME NEW q \in Requests, StartPrompt(q)
      PROVE  FALSE
  BY <1>5, <1>6 DEF StartPrompt
<1>7. DriverTakesPrompt \/ DriverTakesCancel \/ \E stop \in StopReasons : AgentStops(stop)
  BY <1>2, <1>4, <1>5, <1>6, QueueSteps DEF AgentExits
<1> QED
  BY <1>3, <1>7 DEF Ended, DriverTakesPrompt, DriverTakesCancel, DriverReady, AgentStops

-----------------------------------------------------------------------------
(* The prompt streams.                                                     *)

\* An update is not an outcome.
LEMMA KindsDiffer == UpdateKinds \intersect StopReasons = {}
BY PipelineAssumption DEF AllUpdateKinds, AllStopReasons

\* What a bridge does to its stream and its place: it takes an update, starts
\* to work, stops on an outcome or at the end of the stream, or publishes.
LEMMA BridgeSteps ==
    ASSUME TypeOK, NEW r \in Requests, BridgeStep(r)
    PROVE  /\ UNCHANGED <<handler, acpVars, cancelVars>>
           /\ \/ /\ BridgeUpdate(r)
                 /\ bridge[r] = "working" /\ UNCHANGED bridge
                 /\ chan[r] # <<>> /\ Head(chan[r]).kind \in UpdateKinds
                 /\ chan' = [chan EXCEPT ![r] = Tail(@)]
              \/ /\ Receiving(r)
                 /\ \E to \in TaskState : Refused(r, to)
                 /\ bridge' = [bridge EXCEPT ![r] = "error"]
                 /\ chan' = [chan EXCEPT ![r] = <<>>]
                 /\ UNCHANGED answer
              \/ /\ bridge[r] = "waiting" /\ chan[r] # <<>>
                 /\ bridge' = [bridge EXCEPT ![r] = "working"]
                 /\ UNCHANGED <<chan, answer>>
              \/ /\ BridgeStop(r) \/ BridgeEndOfStream(r)
                 /\ bridge' = [bridge EXCEPT ![r] = "closing"]
                 /\ chan' = [chan EXCEPT ![r] = <<>>]
                 /\ UNCHANGED answer
              \/ /\ bridge[r] = "closing"
                 /\ bridge' = [bridge EXCEPT ![r] = "done"]
                 /\ UNCHANGED <<chan, answer>>
<1> USE DEF Exit, httpVars, taskVars, bridgeVars, Release
<1>1. \A stop : FinalState(stop) \in TaskState
  BY FinalStateType DEF TaskState
<1>2. CASE BridgeFirstItem(r)
  BY <1>2 DEF BridgeFirstItem, Started, Refused, Receiving, TaskState
<1>3. CASE BridgeUpdate(r)
  BY <1>3 DEF BridgeUpdate
<1>4. CASE BridgeStop(r)
  BY <1>1, <1>4 DEF BridgeStop, Conclude, Accepted, Refused, Receiving
<1>5. CASE BridgeEndOfStream(r)
  BY <1>5 DEF BridgeEndOfStream, Conclude, Accepted, Refused, TaskState, Terminal
<1>6. CASE BridgePublishFinal(r)
  BY <1>6 DEF BridgePublishFinal
<1> QED
  BY <1>2, <1>3, <1>4, <1>5, <1>6 DEF BridgeStep

\* Streams are read as long as something may come, and their stop item is
\* the last thing that comes.
THEOREM StreamsOrdered == Spec => []StreamsInOrder
<1>1. Init => StreamsInOrder
  BY PipelineAssumption DEF Init, StreamsInOrder, Outstanding, Queued, Receiving
<1>2. TypeOK /\ HandlerBridge /\ AskedOnce /\ AskedOnce' /\ NoStaleRoute
         /\ StreamsInOrder /\ [Next]_vars => StreamsInOrder'
  <2> SUFFICES ASSUME TypeOK, HandlerBridge, AskedOnce, AskedOnce', NoStaleRoute,
                      StreamsInOrder, [Next]_vars
               PROVE  StreamsInOrder'
    OBVIOUS
  <2> DEFINE Asked(r) == Outstanding(r) /\ ~Ended(r)
             Stopped(s) == \E i \in DOMAIN s : s[i].kind \in StopReasons
             Ordered(r) == /\ ~Receiving(r) => chan[r] = <<>>
                           /\ Asked(r) => /\ Receiving(r) \/ bridge[r] \in {"error", "dropped"}
                                          /\ ~Stopped(chan[r])
                           /\ \A i, j \in DOMAIN chan[r] :
                                  chan[r][i].kind \in StopReasons /\ i < j
                                      => chan[r][j].turn = NoReq
  <2>1. \A r \in Requests : Ordered(r)
    BY DEF StreamsInOrder
  <2>2. SUFFICES ASSUME NEW r \in Requests
                 PROVE  Ordered(r)'
    BY DEF StreamsInOrder
  <2>3. Asked(r)' => Asked(r) \/ StartPrompt(r)
    BY AskedSteps
  <2>4. r # NoReq /\ chan[r] \in Seq(Item)
    BY PipelineAssumption DEF TypeOK
  <2> HIDE DEF Asked, Stopped
  <2>5. ASSUME ~StartPrompt(r), bridge'[r] = bridge[r], chan'[r] = chan[r]
        PROVE  Ordered(r)'
    BY <2>1, <2>3, <2>5 DEF Receiving, Stopped
  <2>6. ASSUME ~StartPrompt(r), bridge'[r] \in {"error", "dropped"}, chan'[r] = <<>>
        PROVE  Ordered(r)'
    BY <2>6 DEF Receiving, Stopped
  <2>7. ASSUME NEW q \in Requests, Client(q)
        PROVE  Ordered(r)'
    <3>1. ~StartPrompt(r)
      BY <2>7 DEF Client, Admit, RejectBusy, Disconnect, StartPrompt, Handler, TypeOK
    <3>2. CASE Admit(q) \/ RejectBusy(q)
      BY <2>5, <3>1, <3>2 DEF Admit, RejectBusy, bridgeVars
    <3>3. CASE Disconnect(q)
      <4>1. /\ bridge' = IF Pumping(q) THEN [bridge EXCEPT ![q] = "dropped"] ELSE bridge
            /\ chan' = [chan EXCEPT ![q] = <<>>]
        BY <3>3 DEF Disconnect
      <4>2. CASE q = r /\ Pumping(r)
        BY <2>6, <3>1, <4>1, <4>2 DEF TypeOK
      <4>3. CASE q # r \/ ~Pumping(r)
        BY <2>1, <2>5, <3>1, <4>1, <4>3 DEF TypeOK, Pumping
      <4> QED
        BY <4>2, <4>3
    <3> QED
      BY <2>7, <3>2, <3>3 DEF Client
  <2>8. ASSUME NEW q \in Requests, HandlerStep(q)
        PROVE  Ordered(r)'
    <3>1. CASE StartPrompt(r)
      <4>1. chan'[r] = <<>> /\ bridge'[r] = "waiting"
        BY <2>1, <3>1 DEF StartPrompt, Handler, HandlerBridge, Receiving, TypeOK
      <4> QED
        BY <4>1 DEF Receiving, Stopped
    <3>2. CASE StartPrompt(q) /\ q # r
      <4>1. ~StartPrompt(r)
        BY <3>2 DEF StartPrompt, Handler, TypeOK
      <4> QED
        BY <2>5, <3>2, <4>1 DEF StartPrompt, TypeOK
    <3>3. CASE ~StartPrompt(r) /\ ~StartPrompt(q)
      BY <2>5, <2>8, <3>3 DEF HandlerStep, RejectContinuation, CreateTask, RejectParts,
            StartPromptFails, Subscribe, SendReplies, SendFails, bridgeVars
    <3> QED
      BY <3>1, <3>2, <3>3
  <2>9. ASSUME NEW q \in Requests, BridgeStep(q)
        PROVE  Ordered(r)'
    <3>1. ~StartPrompt(r)
      BY <2>9, BridgeSteps DEF StartPrompt, Handler, TypeOK
    <3>2. CASE q # r
      <4>1. \/ UNCHANGED bridge
            \/ \E to : bridge' = [bridge EXCEPT ![q] = to]
        BY <2>9, BridgeSteps
      <4>2. \/ UNCHANGED chan
            \/ \E to : chan' = [chan EXCEPT ![q] = to]
        BY <2>9, BridgeSteps
      <4>3. bridge'[r] = bridge[r] /\ chan'[r] = chan[r]
        BY <3>2, <4>1, <4>2 DEF TypeOK
      <4> QED
        BY <2>5, <3>1, <4>3
    <3>3. CASE q = r
      <4>1. ASSUME bridge[r] = "working", UNCHANGED bridge, chan[r] # <<>>,
                   chan' = [chan EXCEPT ![r] = Tail(@)]
            PROVE  Ordered(r)'
        <5>1. chan'[r] = Tail(chan[r])
          BY <4>1 DEF TypeOK
        <5>2. \A i \in DOMAIN Tail(chan[r]) :
                  /\ i + 1 \in DOMAIN chan[r]
                  /\ Tail(chan[r])[i] = chan[r][i + 1]
                  /\ \A j \in DOMAIN Tail(chan[r]) : i < j => i + 1 < j + 1
          BY <2>4, <4>1
        <5>3. \A i, j \in DOMAIN Tail(chan[r]) :
                  Tail(chan[r])[i].kind \in StopReasons /\ i < j
                      => Tail(chan[r])[j].turn = NoReq
          BY <2>1, <5>2
        <5> QED
          BY <2>1, <2>3, <3>1, <4>1, <5>1, <5>2, <5>3 DEF Receiving, Stopped
      <4>2. ASSUME Receiving(r), bridge' = [bridge EXCEPT ![r] = "error"],
                   chan' = [chan EXCEPT ![r] = <<>>]
            PROVE  Ordered(r)'
        BY <2>6, <3>1, <4>2 DEF TypeOK
      <4>3. ASSUME bridge[r] = "waiting", bridge' = [bridge EXCEPT ![r] = "working"],
                   UNCHANGED chan
            PROVE  Ordered(r)'
        BY <2>1, <2>3, <3>1, <4>3 DEF TypeOK, Receiving, Stopped
      <4>4. ASSUME BridgeStop(r) \/ BridgeEndOfStream(r),
                   bridge' = [bridge EXCEPT ![r] = "closing"],
                   chan' = [chan EXCEPT ![r] = <<>>]
            PROVE  Ordered(r)'
        <5>1. ~Asked(r)
          <6>1. CASE BridgeStop(r)
            <7>1. 1 \in DOMAIN chan[r] /\ chan[r][1].kind \in StopReasons
              BY <2>4, <6>1 DEF BridgeStop
            <7> QED
              BY <2>1, <7>1 DEF Stopped
          <6>2. CASE BridgeEndOfStream(r)
            BY <6>2 DEF BridgeEndOfStream, SenderAlive, Asked
          <6> QED
            BY <4>4, <6>1, <6>2
        <5>2. ~Asked(r)'
          BY <2>3, <3>1, <5>1
        <5>3. chan'[r] = <<>>
          BY <4>4 DEF TypeOK
        <5> QED
          BY <5>2, <5>3
      <4>5. ASSUME bridge[r] = "closing", bridge' = [bridge EXCEPT ![r] = "done"],
                   UNCHANGED chan
            PROVE  Ordered(r)'
        BY <2>1, <2>3, <3>1, <4>5 DEF TypeOK, Receiving, Stopped
      <4> QED
        BY <2>9, <3>3, <4>1, <4>2, <4>3, <4>4, <4>5, BridgeSteps
    <3> QED
      BY <3>2, <3>3
  <2>10. ASSUME NEW kind \in UpdateKinds, AgentUpdate(kind)
         PROVE  Ordered(r)'
    <3>1. UNCHANGED <<bridge, handler, cmds, running, driver>> /\ driver = "up"
      BY <2>10 DEF AgentUpdate, httpVars
    <3>2. ~StartPrompt(r)
      BY <3>1 DEF StartPrompt, Handler, TypeOK
    <3>3. CASE chan'[r] = chan[r]
      BY <2>5, <3>1, <3>2, <3>3
    <3>4. CASE chan'[r] # chan[r]
      <4> DEFINE item == [turn |-> running, kind |-> kind]
      <4>1. /\ routes[SessionOf[running]] = r /\ running \in Requests
            /\ Receiving(r) /\ chan'[r] = Append(chan[r], item)
        <5>1. running \in Requests /\ SessionOf[running] \in Sessions
          BY <2>10, PipelineAssumption DEF AgentUpdate, TypeOK
        <5> QED
          BY <2>10, <3>4, <5>1, RoutedItem DEF AgentUpdate
      <4>2. item \in Item /\ item.kind \notin StopReasons
        BY <4>1, KindsDiffer DEF Item
      <4>3. Asked(r)
        BY <2>4, <3>1, <4>1, PipelineAssumption DEF NoStaleRoute, Ended, Asked
      <4>4. ~Stopped(chan[r])
        BY <2>1, <4>3
      <4> HIDE DEF item
      <4>5. \A i \in DOMAIN chan'[r] : chan'[r][i].kind \notin StopReasons
        BY <2>4, <4>1, <4>2, <4>4 DEF Stopped
      <4> QED
        BY <3>1, <4>1, <4>5 DEF Receiving, Stopped
    <3> QED
      BY <3>3, <3>4
  <2>11. ASSUME NEW stop \in StopReasons, AgentStops(stop)
         PROVE  Ordered(r)'
    <3>1. /\ UNCHANGED <<bridge, handler, cmds, running>>
          /\ driver = "up" /\ driver' = "ending" /\ running \in Requests
      BY <2>11 DEF AgentStops, httpVars, TypeOK
    <3>2. ~StartPrompt(r)
      BY <3>1 DEF StartPrompt, Handler, TypeOK
    <3>3. CASE chan'[r] = chan[r]
      BY <2>5, <3>1, <3>2, <3>3
    <3>4. CASE chan'[r] # chan[r]
      <4> DEFINE item == [turn |-> running, kind |-> stop]
      <4>1. running = r /\ Receiving(r) /\ chan'[r] = Append(chan[r], item)
        BY <2>11, <3>1, <3>4 DEF AgentStops, Delivered, TypeOK
      <4>2. item \in Item
        BY <3>1 DEF Item
      <4>3. Asked(r)
        BY <2>4, <3>1, <4>1 DEF Outstanding, Ended, Asked
      <4>4. ~Stopped(chan[r])
        BY <2>1, <4>3
      <4> HIDE DEF item
      <4>5. \A i, j \in DOMAIN chan'[r] : chan'[r][i].kind \in StopReasons => ~(i < j)
        BY <2>4, <4>1, <4>2, <4>4 DEF Stopped
      <4>6. ~Asked(r)'
        BY <3>1, <4>1 DEF Asked, Ended
      <4> QED
        BY <3>1, <4>1, <4>5, <4>6 DEF Receiving
    <3> QED
      BY <3>3, <3>4
  <2>12. ASSUME UNCHANGED <<bridge, chan, handler>>
         PROVE  Ordered(r)'
    <3>1. ~StartPrompt(r)
      BY <2>12 DEF StartPrompt, Handler, TypeOK
    <3> QED
      BY <2>5, <2>12, <3>1
  <2>13. CASE DriverStep \/ AgentExits \/ UNCHANGED vars
    BY <2>12, <2>13 DEF DriverStep, DriverTakesPrompt, DriverTakesCancel,
          DriverClearsRoute, AgentExits, vars, httpVars, bridgeVars
  <2>14. ASSUME NEW c \in Cancels, CancelStep(c)
         PROVE  Ordered(r)'
    BY <2>12, <2>14 DEF CancelStep, CancelTask, CancelRefused, CancelNotifies,
          CancelDisconnect, httpVars, bridgeVars
  <2>15. ASSUME NEW s \in Sessions, NEW kind \in UpdateKinds, AgentSpeaksUnasked(s, kind)
         PROVE  Ordered(r)'
    <3> DEFINE item == [turn |-> NoReq, kind |-> kind]
    <3>1. UNCHANGED <<bridge, handler, cmds, running, driver>>
      BY <2>15, StraySteps
    <3>2. CASE chan'[r] = chan[r]
      BY <2>12, <2>15, <3>1, <3>2, <2>5 DEF StartPrompt, Handler, TypeOK
    <3>3. CASE chan'[r] # chan[r]
      <4>1. Receiving(r) /\ chan'[r] = Append(chan[r], item)
        BY <2>15, <3>3, StraySteps
      <4>2. item \in Item /\ item.kind \notin StopReasons /\ item.turn = NoReq
        BY KindsDiffer DEF Item
      <4> HIDE DEF item
      <4>3. /\ DOMAIN chan'[r] = 1 .. Len(chan[r]) + 1
            /\ DOMAIN chan[r] = 1 .. Len(chan[r]) /\ Len(chan[r]) \in Nat
            /\ chan'[r][Len(chan[r]) + 1] = item
            /\ \A i \in DOMAIN chan[r] : chan'[r][i] = chan[r][i]
        BY <2>4, <4>1, <4>2
      <4>4. \A i, j \in DOMAIN chan'[r] :
                /\ i \in DOMAIN chan[r] \/ chan'[r][i] = item
                /\ i < j => i \in DOMAIN chan[r]
        BY <4>3
      <4>5. Asked(r)' => Asked(r)
        BY <3>1 DEF Asked, Outstanding, Queued, Ended
      <4>6. ~Stopped(chan[r]) => ~Stopped(chan'[r])
        BY <4>2, <4>3, <4>4 DEF Stopped
      <4>7. \A i, j \in DOMAIN chan'[r] :
                chan'[r][i].kind \in StopReasons /\ i < j => chan'[r][j].turn = NoReq
        BY <2>1, <4>2, <4>3, <4>4
      <4>8. Receiving(r)'
        BY <3>1, <4>1 DEF Receiving
      <4> QED
        BY <2>1, <4>5, <4>6, <4>7, <4>8
    <3> QED
      BY <3>2, <3>3
  <2> QED
    BY <2>7, <2>8, <2>9, <2>10, <2>11, <2>13, <2>14, <2>15 DEF Next, Agent, AgentAnswers
<1> QED
  BY <1>1, <1>2, TypeCorrect, HandlersKeepStep, PromptsAskedOnce, NoRouteIsStale,
     PTL DEF Spec

\* What other steps than those of a bridge do to the places of bridges: one
\* starts with its prompt, and a client that leaves cuts off its own.
LEMMA BridgePlaces ==
    ASSUME TypeOK, HandlerBridge, [Next]_vars, NEW r \in Requests
    PROVE  \/ bridge'[r] = bridge[r]
           \/ StartPrompt(r) /\ bridge[r] = "off" /\ bridge'[r] = "waiting"
           \/ Disconnect(r) /\ Pumping(r) /\ bridge'[r] = "dropped"
           \/ BridgeStep(r)
<1>1. ASSUME NEW q \in Requests, Client(q)
      PROVE  \/ bridge'[r] = bridge[r]
             \/ Disconnect(r) /\ Pumping(r) /\ bridge'[r] = "dropped"
  <2>1. CASE Disconnect(q)
    <3>1. bridge' = IF Pumping(q) THEN [bridge EXCEPT ![q] = "dropped"] ELSE bridge
      BY <2>1 DEF Disconnect
    <3> QED
      BY <2>1, <3>1 DEF TypeOK
  <2> QED
    BY <1>1, <2>1 DEF Client, Admit, RejectBusy, bridgeVars
<1>2. ASSUME NEW q \in Requests, HandlerStep(q)
      PROVE  \/ bridge'[r] = bridge[r]
             \/ StartPrompt(r) /\ bridge[r] = "off" /\ bridge'[r] = "waiting"
  <2>1. CASE StartPrompt(q)
    BY <2>1 DEF StartPrompt, Handler, HandlerBridge, TypeOK
  <2> QED
    BY <1>2, <2>1 DEF HandlerStep, RejectContinuation, CreateTask, RejectParts,
          StartPromptFails, Subscribe, SendReplies, SendFails, bridgeVars
<1>3. ASSUME NEW q \in Requests, BridgeStep(q)
      PROVE  bridge'[r] = bridge[r] \/ BridgeStep(r)
  <2>1. UNCHANGED bridge \/ \E to : bridge' = [bridge EXCEPT ![q] = to]
    BY <1>3, BridgeSteps
  <2> QED
    BY <1>3, <2>1 DEF TypeOK
<1>4. CASE DriverStep \/ Agent \/ UNCHANGED vars
  BY <1>4 DEF DriverStep, DriverTakesPrompt, DriverTakesCancel, DriverClearsRoute,
        Agent, AgentAnswers, AgentStops, AgentUpdate, AgentSpeaksUnasked,
        AgentExits, vars, bridgeVars
<1>5. ASSUME NEW c \in Cancels, CancelStep(c)
      PROVE  UNCHANGED bridge
  BY <1>5 DEF CancelStep, CancelTask, CancelRefused, CancelNotifies, CancelDisconnect,
        bridgeVars
<1> QED
  BY <1>1, <1>2, <1>3, <1>4, <1>5 DEF Next

\* A bridge that was cut short stays so.
LEMMA CutShortStays ==
    ASSUME TypeOK, HandlerBridge, [Next]_vars, NEW s, RanToEnd(s)'
    PROVE  RanToEnd(s)
<1>1. ASSUME NEW r \in Requests, bridge[r] \in {"error", "dropped"}
      PROVE  bridge'[r] \in {"error", "dropped"}
  <2>1. CASE BridgeStep(r)
    BY <1>1, <2>1 DEF BridgeStep, BridgeFirstItem, BridgeUpdate, BridgeStop,
          BridgeEndOfStream, BridgePublishFinal, Receiving
  <2> QED
    BY <1>1, <2>1, BridgePlaces
<1> QED
  BY <1>1 DEF RanToEnd

\* No answer is mixed with another: as long as no bridge of a session was cut
\* short, no chunk of another turn is in a Task's answer.
THEOREM AnswersOwn == Spec => []AnswerIsOwn
<1>1. Init => TurnsAreOwn
  BY DEF Init, TurnsAreOwn
<1>2. TypeOK /\ HandlerBridge /\ AskedOnce /\ NoStaleRoute /\ OnePumpPerSession
         /\ StreamsInOrder /\ TurnsAreOwn /\ [Next]_vars => TurnsAreOwn'
  <2> SUFFICES ASSUME TypeOK, HandlerBridge, AskedOnce, NoStaleRoute,
                      OnePumpPerSession, StreamsInOrder, TurnsAreOwn, [Next]_vars,
                      NEW r \in Requests, RanToEnd(SessionOf[r])'
               PROVE  /\ \A i \in DOMAIN answer'[r] : answer'[r][i] \in {r, NoReq}
                      /\ \A i \in DOMAIN chan'[r] : chan'[r][i].turn \in {r, NoReq}
    BY DEF TurnsAreOwn
  <2> DEFINE Own(ans, stream) == /\ \A i \in DOMAIN ans : ans[i] \in {r, NoReq}
                                 /\ \A i \in DOMAIN stream : stream[i].turn \in {r, NoReq}
  <2>1. RanToEnd(SessionOf[r]) /\ Own(answer[r], chan[r])
    BY CutShortStays DEF TurnsAreOwn
  <2>2. chan[r] \in Seq(Item) /\ answer[r] \in Seq(Requests \union {NoReq})
    BY DEF TypeOK
  <2>3. SUFFICES Own(answer'[r], chan'[r])
    OBVIOUS
  <2>4. Own(answer[r], <<>>)
    BY <2>1
  <2> HIDE DEF Own
  <2>5. ASSUME answer'[r] = answer[r], chan'[r] = chan[r] \/ chan'[r] = <<>>
        PROVE  Own(answer'[r], chan'[r])
    BY <2>1, <2>4, <2>5
  <2>6. ASSUME NEW item \in Item, item.turn \in {r, NoReq},
               answer'[r] = answer[r], chan'[r] = Append(chan[r], item)
        PROVE  Own(answer'[r], chan'[r])
    <3>1. \A i \in DOMAIN chan'[r] :
              \/ chan'[r][i] = item
              \/ i \in DOMAIN chan[r] /\ chan'[r][i] = chan[r][i]
      BY <2>2, <2>6
    <3> QED
      BY <2>1, <2>6, <3>1 DEF Own
  <2>7. ASSUME NEW q \in Requests, Client(q)
        PROVE  Own(answer'[r], chan'[r])
    BY <2>5, <2>7 DEF Client, Admit, RejectBusy, Disconnect, taskVars, bridgeVars, TypeOK
  <2>8. ASSUME NEW q \in Requests, HandlerStep(q)
        PROVE  Own(answer'[r], chan'[r])
    BY <2>5, <2>8 DEF HandlerStep, RejectContinuation, CreateTask, RejectParts, StartPrompt,
          StartPromptFails, Subscribe, SendReplies, SendFails, taskVars, bridgeVars
  <2>9. ASSUME NEW q \in Requests, BridgeStep(q)
        PROVE  Own(answer'[r], chan'[r])
    <3>1. CASE BridgeUpdate(q) /\ q = r
      <4>1. /\ chan[r] # <<>> /\ chan'[r] = Tail(chan[r])
            /\ answer'[r] \in {answer[r], Append(answer[r], Head(chan[r]).turn)}
        BY <3>1 DEF BridgeUpdate, TypeOK
      <4>2. /\ Head(chan[r]) = chan[r][1] /\ 1 \in DOMAIN chan[r]
            /\ \A i \in DOMAIN Tail(chan[r]) :
                  i + 1 \in DOMAIN chan[r] /\ Tail(chan[r])[i] = chan[r][i + 1]
        BY <2>2, <4>1
      <4>3. Head(chan[r]).turn \in {r, NoReq}
        BY <2>1, <4>2 DEF Own
      <4>4. ASSUME NEW t \in {r, NoReq}
            PROVE  \A i \in DOMAIN Append(answer[r], t) :
                       \/ Append(answer[r], t)[i] = t
                       \/ i \in DOMAIN answer[r] /\ Append(answer[r], t)[i] = answer[r][i]
        BY <2>2
      <4> QED
        BY <2>1, <4>1, <4>2, <4>3, <4>4 DEF Own
    <3>2. CASE BridgeUpdate(q) /\ q # r
      <4>1. answer'[r] = answer[r] /\ chan'[r] = chan[r]
        BY <3>2 DEF BridgeUpdate, TypeOK
      <4> QED
        BY <2>5, <4>1
    <3>3. CASE ~BridgeUpdate(q)
      <4>1. UNCHANGED answer /\ (UNCHANGED chan \/ chan' = [chan EXCEPT ![q] = <<>>])
        BY <2>9, <3>3, BridgeSteps
      <4> QED
        BY <2>5, <4>1 DEF TypeOK
    <3> QED
      BY <3>1, <3>2, <3>3
  <2>10. ASSUME NEW kind \in UpdateKinds, AgentUpdate(kind)
         PROVE  Own(answer'[r], chan'[r])
    <3> DEFINE item == [turn |-> running, kind |-> kind]
    <3>1. running \in Requests /\ driver = "up" /\ UNCHANGED answer
      BY <2>10 DEF AgentUpdate, TypeOK, taskVars
    <3>2. item \in Item /\ item.turn = running
      BY <3>1 DEF Item
    <3>3. CASE chan'[r] = chan[r]
      BY <2>5, <3>1, <3>3
    <3>4. CASE chan'[r] # chan[r]
      <4>1. /\ routes[SessionOf[running]] = r
            /\ Receiving(r) /\ chan'[r] = Append(chan[r], item)
        <5>1. SessionOf[running] \in Sessions
          BY <3>1, PipelineAssumption
        <5> QED
          BY <2>10, <3>4, <5>1, RoutedItem DEF AgentUpdate
      <4>2. SessionOf[r] = SessionOf[running]
        BY <3>1, <4>1, PipelineAssumption DEF NoStaleRoute
      <4>3. Receiving(running) \/ bridge[running] \in {"error", "dropped"}
        BY <3>1 DEF StreamsInOrder, Outstanding, Ended
      <4>4. Receiving(running)
        BY <2>1, <3>1, <4>2, <4>3 DEF RanToEnd
      <4>5. running = r
        BY <3>1, <4>1, <4>2, <4>4 DEF OnePumpPerSession, Pumping, SameSession
      <4> HIDE DEF item
      <4> QED
        BY <2>6, <3>1, <3>2, <4>1, <4>5
    <3> QED
      BY <3>3, <3>4
  <2>11. ASSUME NEW stop \in StopReasons, AgentStops(stop)
         PROVE  Own(answer'[r], chan'[r])
    <3> DEFINE item == [turn |-> running, kind |-> stop]
    <3>1. running \in Requests /\ UNCHANGED answer
      BY <2>11 DEF AgentStops, TypeOK, taskVars
    <3>2. item \in Item /\ item.turn = running
      BY <3>1 DEF Item
    <3>3. \/ chan'[r] = chan[r]
          \/ running = r /\ chan'[r] = Append(chan[r], item)
      BY <2>11, <3>1 DEF AgentStops, Delivered, TypeOK
    <3> HIDE DEF item
    <3> QED
      BY <2>5, <2>6, <3>1, <3>2, <3>3
  <2>12. CASE DriverStep \/ AgentExits \/ UNCHANGED vars
    BY <2>5, <2>12 DEF DriverStep, DriverTakesPrompt, DriverTakesCancel,
          DriverClearsRoute, AgentExits, vars, taskVars, bridgeVars
  <2>13. ASSUME NEW c \in Cancels, CancelStep(c)
         PROVE  Own(answer'[r], chan'[r])
    BY <2>5, <2>13 DEF CancelStep, CancelTask, CancelRefused, CancelNotifies,
          CancelDisconnect, taskVars, bridgeVars
  <2>14. ASSUME NEW s \in Sessions, NEW kind \in UpdateKinds, AgentSpeaksUnasked(s, kind)
         PROVE  Own(answer'[r], chan'[r])
    <3> DEFINE item == [turn |-> NoReq, kind |-> kind]
    <3>1. /\ UNCHANGED answer
          /\ chan'[r] = chan[r] \/ chan'[r] = Append(chan[r], item)
      BY <2>14, StraySteps
    <3>2. item \in Item /\ item.turn = NoReq
      BY DEF Item
    <3> HIDE DEF item
    <3> QED
      BY <2>5, <2>6, <3>1, <3>2
  <2> QED
    BY <2>7, <2>8, <2>9, <2>10, <2>11, <2>12, <2>13, <2>14 DEF Next, Agent, AgentAnswers
<1>3. TurnsAreOwn => AnswerIsOwn
  BY DEF TurnsAreOwn, AnswerIsOwn
<1> QED
  BY <1>1, <1>2, <1>3, TypeCorrect, HandlersKeepStep, PromptsAskedOnce, NoRouteIsStale,
     OnePump, StreamsOrdered, PTL DEF Spec

-----------------------------------------------------------------------------
(* What ends a bridge in an error.                                         *)

\* A Task that was canceled stays so, and a driver that is gone.
LEMMA CancelsStay ==
    ASSUME TypeOK, BridgeFindsTask, [Next]_vars
    PROVE  /\ \A c \in Cancels : target'[c] # NoReq => canceler'[c] # "idle"
           /\ \A r \in Requests : Canceled(r) => Canceled(r)'
           /\ driver = "gone" => driver' = "gone"
<1>1. ASSUME UNCHANGED <<canceler, target>>
      PROVE  /\ \A c \in Cancels : target'[c] # NoReq => canceler'[c] # "idle"
             /\ \A r \in Requests : Canceled(r) => Canceled(r)'
  BY <1>1 DEF BridgeFindsTask, Canceled
<1>2. ASSUME NEW r \in Requests, Client(r) \/ HandlerStep(r) \/ BridgeStep(r)
      PROVE  UNCHANGED <<canceler, target, driver>>
  <2>1. CASE Client(r)
    BY <2>1 DEF Client, Admit, RejectBusy, Disconnect, acpVars, cancelVars
  <2>2. CASE HandlerStep(r)
    BY <2>2 DEF HandlerStep, RejectContinuation, CreateTask, RejectParts, StartPrompt,
          StartPromptFails, Subscribe, SendReplies, SendFails, acpVars, cancelVars
  <2>3. CASE BridgeStep(r)
    BY <2>3, BridgeSteps DEF acpVars, cancelVars
  <2> QED
    BY <1>2, <2>1, <2>2, <2>3
<1>3. CASE DriverStep
  <2>1. /\ driver # "gone" /\ UNCHANGED target
        /\ canceler' \in [Cancels -> CancelState]
        /\ \A c \in Cancels : canceler[c] # "idle" => canceler'[c] # "idle"
    BY <1>3 DEF DriverStep, DriverTakesPrompt, DriverTakesCancel, DriverClearsRoute,
          DriverReady, cancelVars, TypeOK, CancelState
  <2> QED
    BY <2>1 DEF BridgeFindsTask, Canceled
<1>4. CASE Agent
  <2>1. CASE AgentExits
    BY <2>1 DEF AgentExits, BridgeFindsTask, Canceled
  <2> QED
    BY <1>1, <1>4, <2>1 DEF Agent, AgentAnswers, AgentStops, AgentUpdate,
          AgentSpeaksUnasked, cancelVars
<1>5. ASSUME NEW c \in Cancels, CancelStep(c)
      PROVE  /\ \A d \in Cancels : target'[d] # NoReq => canceler'[d] # "idle"
             /\ \A r \in Requests : Canceled(r) => Canceled(r)'
             /\ UNCHANGED driver
  <2>1. ASSUME NEW t \in Requests, CancelTask(c, t)
        PROVE  /\ \A d \in Cancels : target'[d] # NoReq => canceler'[d] # "idle"
               /\ \A r \in Requests : Canceled(r) => Canceled(r)'
    <3>1. target[c] = NoReq
      BY <2>1 DEF CancelTask, BridgeFindsTask
    <3> QED
      BY <2>1, <3>1, PipelineAssumption DEF CancelTask, BridgeFindsTask, Canceled, TypeOK
  <2>2. ASSUME ~\E t \in Requests : CancelTask(c, t)
        PROVE  /\ UNCHANGED target
               /\ \A d \in Cancels : canceler[d] # "idle" => canceler'[d] # "idle"
    BY <1>5, <2>2 DEF CancelStep, CancelRefused, CancelNotifies, CancelDisconnect, TypeOK
  <2>3. UNCHANGED driver
    BY <1>5 DEF CancelStep, CancelTask, CancelRefused, CancelNotifies,
          CancelDisconnect, acpVars
  <2> QED
    BY <2>1, <2>2, <2>3 DEF BridgeFindsTask, Canceled
<1>6. CASE UNCHANGED vars
  BY <1>1, <1>6 DEF vars, acpVars, cancelVars
<1> QED
  BY <1>1, <1>2, <1>3, <1>4, <1>5, <1>6 DEF Next, Agent, AgentAnswers, AgentStops,
     AgentUpdate, AgentSpeaksUnasked, AgentExits

\* The driver comes to end a prompt only by sending its outcome.
LEMMA EndedSteps ==
    ASSUME TypeOK, [Next]_vars, NEW r \in Requests, Ended(r)', ~Ended(r)
    PROVE  running = r /\ \E stop \in StopReasons : AgentStops(stop)
BY QueueSteps DEF Ended, StartPrompt, DriverTakesPrompt, DriverTakesCancel, DriverReady,
   DriverClearsRoute, AgentExits, AgentStops

\* run_session fails only for a Task that was canceled, or because the driver
\* went away before the agent said anything about the prompt.
THEOREM BridgeErrorsExplained == Spec => []BridgeErrorExplained
<1> DEFINE Finds(r) == /\ handler[r] = "created" \/ bridge[r] = "waiting" =>
                                task[r] = "submitted" \/ Canceled(r)
                       /\ bridge[r] = "working" => task[r] = "working" \/ Canceled(r)
                       /\ bridge[r] = "waiting" /\ driver # "gone" =>
                                Outstanding(r) \/ chan[r] # <<>>
                       /\ bridge[r] = "waiting" /\ Ended(r) => chan[r] # <<>>
                       /\ bridge[r] = "error" =>
                                \/ Canceled(r)
                                \/ driver = "gone" /\ task[r] = "submitted"
           Inv == BridgeFindsTask /\ BridgeErrorExplained
<1>1. Init => Inv
  BY DEF Init, BridgeFindsTask, BridgeErrorExplained
<1>2. TypeOK /\ HandlerBridge /\ AskedOnce /\ Inv /\ [Next]_vars => Inv'
  <2> SUFFICES ASSUME TypeOK, HandlerBridge, AskedOnce, Inv, [Next]_vars
               PROVE  Inv'
    OBVIOUS
  <2>1. /\ \A r \in Requests : Finds(r)
        /\ \A r \in Requests : Canceled(r) => Canceled(r)'
        /\ driver = "gone" => driver' = "gone"
    BY CancelsStay DEF BridgeFindsTask, BridgeErrorExplained, Canceled
  <2>2. SUFFICES ASSUME NEW r \in Requests
                 PROVE  Finds(r)'
    BY CancelsStay DEF BridgeFindsTask, BridgeErrorExplained, Canceled
  <2>3. ASSUME bridge'[r] = bridge[r], task'[r] = task[r] \/ Canceled(r)',
               handler'[r] = "created" => handler[r] = "created",
               bridge[r] = "waiting" /\ chan[r] # <<>> => chan'[r] # <<>>,
               Ended(r)' => Ended(r) \/ bridge[r] # "waiting" \/ chan'[r] # <<>>
        PROVE  Finds(r)'
    <3>1. ASSUME driver' # "gone", Outstanding(r), ~Outstanding(r)'
          PROVE  Ended(r)
      BY <3>1, OutstandingSteps DEF DriverClearsRoute, Ended
    <3> QED
      BY <2>1, <2>3, <3>1
  <2>4. ASSUME bridge'[r] \in {"off", "dropped", "closing", "done"}, handler'[r] # "created"
        PROVE  Finds(r)'
    BY <2>4
  <2>5. ASSUME NEW q \in Requests, Client(q)
        PROVE  Finds(r)'
    <3>1. UNCHANGED <<task, driver, running>>
      BY <2>5 DEF Client, Admit, RejectBusy, Disconnect, taskVars, acpVars
    <3>2. CASE Admit(q) \/ RejectBusy(q)
      BY <2>3, <3>1, <3>2 DEF Admit, RejectBusy, Handler, bridgeVars, TypeOK, Ended
    <3>3. CASE Disconnect(q)
      <4>1. /\ handler' = [handler EXCEPT ![q] = "gone"]
            /\ bridge' = IF Pumping(q) THEN [bridge EXCEPT ![q] = "dropped"] ELSE bridge
            /\ chan' = [chan EXCEPT ![q] = <<>>]
        BY <3>3 DEF Disconnect
      <4>2. CASE q = r /\ Pumping(r)
        BY <2>4, <4>1, <4>2 DEF TypeOK
      <4>3. CASE q # r \/ ~Pumping(r)
        BY <2>3, <3>1, <4>1, <4>3 DEF TypeOK, Pumping, Receiving, Ended
      <4> QED
        BY <4>2, <4>3
    <3> QED
      BY <2>5, <3>2, <3>3 DEF Client
  <2>6. ASSUME NEW q \in Requests, HandlerStep(q)
        PROVE  Finds(r)'
    <3>1. UNCHANGED <<driver, running, chan>>
      BY <2>6 DEF HandlerStep, RejectContinuation, CreateTask, RejectParts, StartPrompt,
            StartPromptFails, Subscribe, SendReplies, SendFails, acpVars, bridgeVars
    <3>2. CASE CreateTask(r)
      <4>1. /\ handler[r] = "admitted" /\ task'[r] = "submitted"
            /\ UNCHANGED bridge
        BY <3>2 DEF CreateTask, Handler, bridgeVars, TypeOK
      <4>2. bridge'[r] = "off"
        BY <4>1 DEF HandlerBridge
      <4> QED
        BY <4>1, <4>2
    <3>3. CASE StartPrompt(r)
      <4>1. /\ handler[r] = "created" /\ driver # "gone"
            /\ bridge'[r] = "waiting" /\ UNCHANGED task
        BY <3>3 DEF StartPrompt, Handler, taskVars, TypeOK
      <4>2. task'[r] = "submitted" \/ Canceled(r)'
        BY <2>1, <4>1
      <4>3. Outstanding(r)'
        BY <3>1, <3>3, <4>1, OutstandingSteps
      <4>4. ~Ended(r)'
        BY <3>1, <4>1 DEF AskedOnce, Ended, Outstanding
      <4> QED
        BY <4>1, <4>2, <4>3, <4>4
    <3>4. CASE ~CreateTask(r) /\ ~StartPrompt(r)
      <4>1. /\ bridge'[r] = bridge[r] /\ task'[r] = task[r]
            /\ handler'[r] = "created" => handler[r] = "created"
        BY <2>6, <3>4 DEF HandlerStep, RejectContinuation, CreateTask, RejectParts,
              StartPrompt, StartPromptFails, Subscribe, SendReplies, SendFails, Handler,
              taskVars, bridgeVars, TypeOK
      <4> QED
        BY <2>3, <3>1, <4>1 DEF Ended
    <3> QED
      BY <3>2, <3>3, <3>4
  <2>7. ASSUME NEW q \in Requests, BridgeStep(q), q # r
        PROVE  Finds(r)'
    <3>1. /\ UNCHANGED <<handler, driver, running>>
          /\ UNCHANGED bridge \/ \E to : bridge' = [bridge EXCEPT ![q] = to]
          /\ UNCHANGED chan \/ \E to : chan' = [chan EXCEPT ![q] = to]
      BY <2>7, BridgeSteps DEF acpVars
    <3>2. UNCHANGED task \/ \E to : task' = [task EXCEPT ![q] = to]
      BY <2>7 DEF BridgeStep, BridgeFirstItem, Started, Refused, BridgeUpdate, BridgeStop,
            BridgeEndOfStream, Conclude, Accepted, BridgePublishFinal, taskVars
    <3>3. bridge'[r] = bridge[r] /\ chan'[r] = chan[r] /\ task'[r] = task[r]
      BY <2>7, <3>1, <3>2 DEF TypeOK
    <3> QED
      BY <2>3, <3>1, <3>3 DEF Ended
  <2>8. ASSUME BridgeStep(r)
        PROVE  Finds(r)'
    <3>1. UNCHANGED <<handler, cmds, driver, running, target>>
      BY <2>8, BridgeSteps DEF acpVars, cancelVars
    <3>2. Receiving(r) => handler[r] # "created"
      BY DEF HandlerBridge, Receiving
    <3>3. ASSUME NEW to, Refused(r, to), Receiving(r),
                 \/ Canceled(r)
                 \/ driver = "gone" /\ task[r] = "submitted"
          PROVE  Finds(r)'
      <4>1. bridge'[r] = "error" /\ task' = task
        BY <3>3 DEF Refused, Exit, taskVars, TypeOK
      <4> QED
        BY <2>1, <3>1, <3>2, <3>3, <4>1
    <3>4. ASSUME NEW to, Accepted(r, to), Receiving(r)
          PROVE  Finds(r)'
      <4>1. bridge'[r] = "closing"
        BY <3>4 DEF Accepted, TypeOK
      <4> QED
        BY <2>4, <3>1, <3>2, <3>4, <4>1
    <3>5. CASE BridgeFirstItem(r)
      <4>1. bridge[r] = "waiting"
        BY <3>5 DEF BridgeFirstItem
      <4>2. CASE Started(r)
        <5>1. bridge'[r] = "working" /\ task'[r] = "working"
          BY <4>2 DEF Started, TypeOK
        <5> QED
          BY <3>1, <3>2, <4>1, <5>1 DEF Receiving
      <4>3. CASE Refused(r, "working")
        <5>1. task[r] # "submitted"
          BY <4>3 DEF Refused, IsLegal, LegalArrows
        <5> QED
          BY <2>1, <3>3, <4>1, <4>3, <5>1 DEF Receiving
      <4> QED
        BY <3>5, <4>2, <4>3 DEF BridgeFirstItem
    <3>6. CASE BridgeUpdate(r)
      <4>1. bridge[r] = "working" /\ UNCHANGED <<bridge, task>>
        BY <3>6 DEF BridgeUpdate
      <4> QED
        BY <2>3, <3>1, <4>1
    <3>7. CASE BridgeStop(r)
      <4> DEFINE to == FinalState(Head(chan[r]).kind)
      <4>1. bridge[r] = "working" /\ Conclude(r, to)
        BY <3>7 DEF BridgeStop
      <4>2. CASE Refused(r, to)
        <5>1. IsLegal("working", to)
          BY DEF FinalState, IsLegal, LegalArrows
        <5>2. Canceled(r)
          BY <2>1, <4>1, <4>2, <5>1 DEF Refused
        <5> HIDE DEF to
        <5> QED
          BY <3>3, <4>1, <4>2, <5>2 DEF Receiving
      <4>3. CASE Accepted(r, to)
        <5> HIDE DEF to
        <5> QED
          BY <3>4, <4>1, <4>3 DEF Receiving
      <4> QED
        BY <4>1, <4>2, <4>3 DEF Conclude
    <3>8. CASE BridgeEndOfStream(r)
      <4>1. Receiving(r) /\ chan[r] = <<>> /\ ~Outstanding(r) /\ Conclude(r, "failed")
        BY <3>8 DEF BridgeEndOfStream, SenderAlive
      <4>2. CASE Refused(r, "failed")
        <5>1. task[r] # "working"
          BY <4>2 DEF Refused, IsLegal, LegalArrows
        <5>2. CASE bridge[r] = "waiting"
          BY <2>1, <3>3, <4>1, <4>2, <5>2
        <5>3. CASE bridge[r] = "working"
          BY <2>1, <3>3, <4>1, <4>2, <5>1, <5>3
        <5> QED
          BY <4>1, <5>2, <5>3 DEF Receiving
      <4>3. CASE Accepted(r, "failed")
        BY <3>4, <4>1, <4>3
      <4> QED
        BY <4>1, <4>2, <4>3 DEF Conclude
    <3>9. CASE BridgePublishFinal(r)
      <4>1. bridge[r] = "closing" /\ bridge'[r] = "done"
        BY <3>9 DEF BridgePublishFinal, Exit, TypeOK
      <4>2. handler'[r] # "created"
        BY <3>1, <4>1 DEF HandlerBridge
      <4> QED
        BY <2>4, <4>1, <4>2
    <3> QED
      BY <2>8, <3>5, <3>6, <3>7, <3>8, <3>9 DEF BridgeStep
  <2>9. ASSUME UNCHANGED <<handler, bridge>>, task'[r] = task[r] \/ Canceled(r)',
               chan[r] # <<>> => chan'[r] # <<>>,
               ~\E stop \in StopReasons : AgentStops(stop)
        PROVE  Finds(r)'
    BY <2>3, <2>9, EndedSteps
  <2>10. CASE DriverStep \/ AgentExits \/ UNCHANGED vars
    <3>1. UNCHANGED <<handler, bridge, task, chan>>
      BY <2>10 DEF DriverStep, DriverTakesPrompt, DriverTakesCancel, DriverClearsRoute,
            AgentExits, vars, httpVars, taskVars, bridgeVars
    <3>2. ~\E stop \in StopReasons : AgentStops(stop)
      BY <2>10 DEF DriverStep, DriverTakesPrompt, DriverTakesCancel, DriverClearsRoute,
            AgentExits, vars, acpVars, AgentStops, DriverReady
    <3> QED
      BY <2>9, <3>1, <3>2
  <2>11. ASSUME NEW kind \in UpdateKinds, AgentUpdate(kind)
         PROVE  Finds(r)'
    <3> DEFINE item == [turn |-> running, kind |-> kind]
    <3>1. /\ UNCHANGED <<handler, bridge, task, driver, running>>
          /\ driver = "up"
      BY <2>11 DEF AgentUpdate, httpVars, taskVars
    <3>2. chan'[r] = chan[r] \/ chan'[r] = Append(chan[r], item)
      <4>1. SessionOf[running] \in Sessions
        BY <2>11, PipelineAssumption DEF AgentUpdate, TypeOK
      <4> QED
        BY <2>11, <4>1, RoutedItem DEF AgentUpdate
    <3>3. chan[r] \in Seq(Item)
      BY DEF TypeOK
    <3> HIDE DEF item
    <3>4. chan[r] # <<>> => chan'[r] # <<>>
      BY <3>2, <3>3
    <3> QED
      BY <2>3, <3>1, <3>4 DEF Ended
  <2>12. ASSUME NEW stop \in StopReasons, AgentStops(stop)
         PROVE  Finds(r)'
    <3> DEFINE item == [turn |-> running, kind |-> stop]
    <3>1. /\ UNCHANGED <<handler, bridge, task, running>> /\ running \in Requests
      BY <2>12 DEF AgentStops, httpVars, taskVars, TypeOK
    <3>2. /\ chan'[r] = chan[r] \/ chan'[r] = Append(chan[r], item)
          /\ running = r /\ Receiving(r) => chan'[r] = Append(chan[r], item)
      BY <2>12 DEF AgentStops, Delivered, TypeOK
    <3>3. chan[r] \in Seq(Item)
      BY DEF TypeOK
    <3> HIDE DEF item
    <3>4. /\ chan[r] # <<>> => chan'[r] # <<>>
          /\ running = r /\ Receiving(r) => chan'[r] # <<>>
      BY <3>2, <3>3
    <3> QED
      BY <2>3, <3>1, <3>4 DEF Ended, Receiving
  <2>13. ASSUME NEW c \in Cancels, CancelStep(c)
         PROVE  Finds(r)'
    <3>1. /\ UNCHANGED <<handler, bridge, chan, driver, running>>
      BY <2>13 DEF CancelStep, CancelTask, CancelRefused, CancelNotifies,
            CancelDisconnect, httpVars, bridgeVars, acpVars
    <3>2. task'[r] = task[r] \/ Canceled(r)'
      <4>1. ASSUME NEW t \in Requests, CancelTask(c, t)
            PROVE  task'[r] = task[r] \/ Canceled(r)'
        <5>1. target'[c] = t /\ task' = [task EXCEPT ![t] = "canceled"]
          BY <4>1 DEF CancelTask, TypeOK
        <5> QED
          BY <5>1 DEF Canceled, TypeOK
      <4> QED
        BY <2>13, <4>1 DEF CancelStep, CancelRefused, CancelNotifies,
              CancelDisconnect, taskVars
    <3> QED
      BY <2>3, <3>1, <3>2 DEF Ended
  <2>14. ASSUME NEW s \in Sessions, NEW kind \in UpdateKinds, AgentSpeaksUnasked(s, kind)
         PROVE  Finds(r)'
    <3> DEFINE item == [turn |-> NoReq, kind |-> kind]
    <3>1. /\ UNCHANGED <<handler, bridge, task, driver, running>>
          /\ chan'[r] = chan[r] \/ chan'[r] = Append(chan[r], item)
      BY <2>14, StraySteps
    <3>2. chan[r] \in Seq(Item)
      BY DEF TypeOK
    <3> HIDE DEF item
    <3>3. chan[r] # <<>> => chan'[r] # <<>>
      BY <3>1, <3>2
    <3> QED
      BY <2>3, <3>1, <3>3 DEF Ended
  <2> QED
    BY <2>5, <2>6, <2>7, <2>8, <2>10, <2>11, <2>12, <2>13, <2>14
       DEF Next, Agent, AgentAnswers
<1> QED
  BY <1>1, <1>2, TypeCorrect, HandlersKeepStep, PromptsAskedOnce, PTL DEF Spec

-----------------------------------------------------------------------------
(* The first turn of a session.                                            *)

\* Who is alone was alone before, and nobody else's prompt is asked.
LEMMA AloneSteps ==
    ASSUME TypeOK, AskedOnce, [Next]_vars, NEW r \in Requests, Alone(r)'
    PROVE  /\ Alone(r)
           /\ \A q \in Requests : SameSession(q, r) /\ Outstanding(q) => q = r
<1>1. \A q \in Requests : handler'[q] \in {"idle", "busy"} => handler[q] \in {"idle", "busy"}
  BY HandlersMoveOn
<1>2. Alone(r)
  BY <1>1 DEF Alone, SameSession
<1> QED
  BY <1>2 DEF Alone, SameSession, AskedOnce

\* Who changes a session's route: a prompt that is started, one that finds the
\* driver gone, and the driver when it has ended a prompt of the session.
LEMMA RouteSteps ==
    ASSUME TypeOK, AskedOnce, [Next]_vars, NEW s \in Sessions, routes'[s] # routes[s]
    PROVE  \/ \E q \in Requests : StartPrompt(q) /\ SessionOf[q] = s /\ routes'[s] = q
           \/ driver' = "gone"
           \/ /\ DriverClearsRoute /\ running \in Requests
              /\ Outstanding(running) /\ SessionOf[running] = s
<1>1. ASSUME NEW q \in Requests, Client(q)
      PROVE  FALSE
  BY <1>1 DEF Client, Admit, RejectBusy, Disconnect, acpVars
<1>2. ASSUME NEW q \in Requests, HandlerStep(q)
      PROVE  \/ StartPrompt(q) /\ SessionOf[q] = s /\ routes'[s] = q
             \/ driver' = "gone"
  BY <1>2 DEF HandlerStep, RejectContinuation, CreateTask, RejectParts, StartPrompt,
        StartPromptFails, Subscribe, SendReplies, SendFails, acpVars, TypeOK
<1>3. ASSUME NEW q \in Requests, BridgeStep(q)
      PROVE  FALSE
  BY <1>3, BridgeSteps DEF acpVars
<1>4. CASE DriverStep
  <2>1. DriverClearsRoute
    BY <1>4 DEF DriverStep, DriverTakesPrompt, DriverTakesCancel
  <2>2. running \in Requests /\ routes' = [routes EXCEPT ![SessionOf[running]] = NoReq]
    BY <2>1 DEF DriverClearsRoute, AskedOnce, TypeOK
  <2>3. SessionOf[running] = s
    BY <2>2 DEF TypeOK
  <2> QED
    BY <2>1, <2>2, <2>3 DEF Outstanding
<1>5. CASE Agent \/ UNCHANGED vars
  BY <1>5 DEF Agent, AgentAnswers, AgentStops, AgentUpdate, AgentSpeaksUnasked,
        AgentExits, vars, acpVars
<1>6. ASSUME NEW c \in Cancels, CancelStep(c)
      PROVE  FALSE
  BY <1>6 DEF CancelStep, CancelTask, CancelRefused, CancelNotifies, CancelDisconnect,
        acpVars
<1> QED
  BY <1>1, <1>2, <1>3, <1>4, <1>5, <1>6 DEF Next

\* The first turn of a session keeps its route as long as it is asked.
LEMMA FirstTurnRouted ==
    ASSUME TypeOK, AskedOnce, AskedOnce', [Next]_vars, NEW r \in Requests,
           Alone(r) /\ Outstanding(r) => routes[SessionOf[r]] = r,
           Alone(r)', Outstanding(r)'
    PROVE  routes'[SessionOf[r]] = r
<1>1. Alone(r) /\ \A q \in Requests : SameSession(q, r) /\ Outstanding(q) => q = r
  BY AloneSteps
<1>2. driver' # "gone"
  BY PipelineAssumption DEF AskedOnce, Outstanding, Queued
<1>3. SessionOf[r] \in Sessions
  BY PipelineAssumption
<1>4. ASSUME NEW q \in Requests, StartPrompt(q), SessionOf[q] = SessionOf[r]
      PROVE  q = r
  <2>1. handler'[q] \notin {"idle", "busy"}
    BY <1>4 DEF StartPrompt, Handler, TypeOK
  <2> QED
    BY <1>4, <2>1 DEF Alone, SameSession
<1>5. CASE StartPrompt(r)
  BY <1>3, <1>5 DEF StartPrompt, TypeOK
<1>6. CASE ~StartPrompt(r)
  <2>1. routes[SessionOf[r]] = r /\ ~(DriverClearsRoute /\ running = r)
    BY <1>1, <1>2, <1>6, OutstandingSteps
  <2>2. CASE routes'[SessionOf[r]] = routes[SessionOf[r]]
    BY <2>1, <2>2
  <2>3. CASE routes'[SessionOf[r]] # routes[SessionOf[r]]
    <3>1. ~\E q \in Requests : StartPrompt(q) /\ SessionOf[q] = SessionOf[r]
      BY <1>4, <1>6
    <3> QED
      BY <1>1, <1>2, <1>3, <2>1, <2>3, <3>1, RouteSteps DEF SameSession
  <2> QED
    BY <2>2, <2>3
<1> QED
  BY <1>5, <1>6

\* Where nothing was sent and nothing waits there is no chunk.
LEMMA NoChunks ==
    ASSUME NEW r
    PROVE  Chunks(<<>>) = 0 /\ Given(<<>>, r) = 0 /\ Waiting(<<>>, r) = 0
<1>1. Len(<<>>) = 0
  OBVIOUS
<1> QED
  BY <1>1, SiftEmpty DEF Chunks, Given, Waiting

\* One more update is sent: it counts if it is a chunk.
LEMMA ChunkSent ==
    ASSUME NEW s \in Seq(UpdateKinds), NEW kind \in UpdateKinds
    PROVE  /\ Chunks(s) \in Nat
           /\ Chunks(Append(s, kind)) = Chunks(s) + IF kind = "chunk" THEN 1 ELSE 0
<1> DEFINE S == {"chunk"}
<1>1. kind \in S <=> kind = "chunk"
  OBVIOUS
<1> HIDE DEF S
<1>2. /\ Len(Sift(s, S)) \in Nat
      /\ Len(Sift(Append(s, kind), S)) = Len(Sift(s, S)) + IF kind \in S THEN 1 ELSE 0
  BY SiftAppendLen
<1> QED
  BY <1>1, <1>2 DEF Chunks, S

\* One more chunk is in an answer: it counts if it is of the turn.
LEMMA ChunkGiven ==
    ASSUME NEW s \in Seq(Requests \union {NoReq}), NEW turn \in Requests \union {NoReq},
           NEW r \in Requests
    PROVE  /\ Given(s, r) \in Nat
           /\ Given(Append(s, turn), r) = Given(s, r) + IF turn = r THEN 1 ELSE 0
<1> DEFINE S == {r}
<1>1. turn \in S <=> turn = r
  OBVIOUS
<1> HIDE DEF S
<1>2. /\ Len(Sift(s, S)) \in Nat
      /\ Len(Sift(Append(s, turn), S)) = Len(Sift(s, S)) + IF turn \in S THEN 1 ELSE 0
  BY SiftAppendLen
<1> QED
  BY <1>1, <1>2 DEF Given, S

\* One more item is put on a stream: it counts if it is a chunk of the turn.
LEMMA ItemWaits ==
    ASSUME NEW s \in Seq(Item), NEW item \in Item, NEW r
    PROVE  /\ Waiting(s, r) \in Nat
           /\ Waiting(Append(s, item), r) =
                 Waiting(s, r) + IF item \in ChunkItem(r) THEN 1 ELSE 0
BY SiftAppendLen DEF Waiting

\* The first item is taken from a stream: it counted if it is a chunk of the turn.
LEMMA ItemTaken ==
    ASSUME NEW s \in Seq(Item), s # <<>>, NEW r
    PROVE  /\ Waiting(Tail(s), r) \in Nat
           /\ Waiting(s, r) =
                 Waiting(Tail(s), r) + IF Head(s) \in ChunkItem(r) THEN 1 ELSE 0
BY SiftTailLen DEF Waiting

\* Where no item is a chunk of the turn, none counts.
LEMMA NoneWaits ==
    ASSUME NEW r, NEW s \in Seq(Item), \A i \in DOMAIN s : s[i] \notin ChunkItem(r)
    PROVE  Waiting(s, r) = 0
<1> DEFINE A == Item \ ChunkItem(r)
<1>1. s \in Seq(A)
  OBVIOUS
<1>2. A \intersect ChunkItem(r) = {}
  OBVIOUS
<1> HIDE DEF A
<1>3. Sift(s, ChunkItem(r)) \in Seq({})
  BY <1>1, <1>2, SiftType
<1>4. \A t \in Seq({}) : Len(t) = 0
  OBVIOUS
<1> QED
  BY <1>3, <1>4 DEF Waiting

\* Every chunk of a session's first turn is in the answer or on its stream.
THEOREM FirstTurnsTallied == Spec => []FirstTurnTallied
<1> DEFINE Early(r) == handler[r] \in {"idle", "busy", "admitted", "created"}
           Fresh(r) == Early(r) => sent[r] = <<>> /\ answer[r] = <<>>
           Tally(r) == Alone(r) /\ Receiving(r) =>
                           Chunks(sent[r]) = Given(answer[r], r) + Waiting(chan[r], r)
<1>1. Init => FirstTurnTallied
  BY PipelineAssumption DEF Init, FirstTurnTallied, Outstanding, Queued, Receiving
<1>2. TypeOK /\ HandlerBridge /\ AskedOnce /\ AskedOnce' /\ NoStaleRoute
         /\ StreamsInOrder /\ FirstTurnTallied /\ [Next]_vars => FirstTurnTallied'
  <2> SUFFICES ASSUME TypeOK, HandlerBridge, AskedOnce, AskedOnce', NoStaleRoute,
                      StreamsInOrder, FirstTurnTallied, [Next]_vars,
                      NEW r \in Requests
               PROVE  /\ Fresh(r)'
                      /\ Alone(r)' /\ Outstanding(r)' => routes'[SessionOf[r]] = r
                      /\ Tally(r)'
    BY DEF FirstTurnTallied
  <2>1. Alone(r)' /\ Outstanding(r)' => routes'[SessionOf[r]] = r
    BY FirstTurnRouted DEF FirstTurnTallied
  <2>2. /\ Alone(r)' => Alone(r)
        /\ Early(r)' => Early(r)
        /\ Early(r) => ~Outstanding(r) /\ bridge[r] = "off"
    BY AloneSteps, HandlersMoveOn DEF HandlerBridge, AskedOnce
  <2>3. Fresh(r) /\ Tally(r)
    BY DEF FirstTurnTallied
  <2>4. /\ chan[r] \in Seq(Item) /\ sent[r] \in Seq(UpdateKinds)
        /\ answer[r] \in Seq(Requests \union {NoReq}) /\ Given(answer[r], r) \in Nat
    <3>1. /\ chan[r] \in Seq(Item) /\ sent[r] \in Seq(UpdateKinds)
          /\ answer[r] \in Seq(Requests \union {NoReq})
      BY DEF TypeOK
    <3> QED
      BY <3>1, ChunkGiven
  <2>5. SUFFICES Fresh(r)' /\ Tally(r)'
    BY <2>1
  <2> HIDE DEF Early
  <2>6. ASSUME sent'[r] = sent[r], answer'[r] = answer[r], chan'[r] = chan[r],
               Receiving(r)' => Receiving(r)
        PROVE  Fresh(r)' /\ Tally(r)'
    BY <2>2, <2>3, <2>6
  <2>7. ASSUME sent'[r] = sent[r], answer'[r] = answer[r], ~Receiving(r)'
        PROVE  Fresh(r)' /\ Tally(r)'
    BY <2>2, <2>3, <2>7
  <2>8. ASSUME NEW q \in Requests, Client(q)
        PROVE  Fresh(r)' /\ Tally(r)'
    <3>1. UNCHANGED <<sent, answer>>
      BY <2>8 DEF Client, Admit, RejectBusy, Disconnect, taskVars, acpVars
    <3>2. CASE Admit(q) \/ RejectBusy(q)
      BY <2>6, <3>1, <3>2 DEF Admit, RejectBusy, bridgeVars, Receiving
    <3>3. CASE Disconnect(q)
      <4>1. /\ bridge' = IF Pumping(q) THEN [bridge EXCEPT ![q] = "dropped"] ELSE bridge
            /\ chan' = [chan EXCEPT ![q] = <<>>]
        BY <3>3 DEF Disconnect
      <4>2. CASE q = r
        <5>1. ~Receiving(r)'
          BY <4>1, <4>2 DEF Pumping, Receiving, TypeOK
        <5> QED
          BY <2>7, <3>1, <5>1
      <4>3. CASE q # r
        BY <2>6, <3>1, <4>1, <4>3 DEF TypeOK, Receiving
      <4> QED
        BY <4>2, <4>3
    <3> QED
      BY <2>8, <3>2, <3>3 DEF Client
  <2>9. ASSUME NEW q \in Requests, HandlerStep(q)
        PROVE  Fresh(r)' /\ Tally(r)'
    <3>1. UNCHANGED <<sent, answer, chan>>
      BY <2>9 DEF HandlerStep, RejectContinuation, CreateTask, RejectParts, StartPrompt,
            StartPromptFails, Subscribe, SendReplies, SendFails, taskVars, acpVars, bridgeVars
    <3>2. CASE StartPrompt(r)
      <4>1. handler[r] = "created"
        BY <3>2 DEF StartPrompt, Handler
      <4>2. sent[r] = <<>> /\ answer[r] = <<>> /\ chan[r] = <<>>
        BY <2>2, <2>3, <4>1 DEF Early, Receiving, StreamsInOrder
      <4>3. Chunks(<<>>) = 0 /\ Given(<<>>, r) = 0 /\ Waiting(<<>>, r) = 0
        BY NoChunks
      <4> QED
        BY <3>1, <4>2, <4>3
    <3>3. CASE StartPrompt(q) /\ q # r
      BY <2>6, <3>1, <3>3 DEF StartPrompt, TypeOK, Receiving
    <3>4. CASE ~StartPrompt(q)
      BY <2>6, <2>9, <3>1, <3>4 DEF HandlerStep, RejectContinuation, CreateTask, RejectParts,
            StartPromptFails, Subscribe, SendReplies, SendFails, bridgeVars, Receiving
    <3> QED
      BY <3>2, <3>3, <3>4
  <2>10. ASSUME NEW q \in Requests, BridgeStep(q)
         PROVE  Fresh(r)' /\ Tally(r)'
    <3>1. UNCHANGED sent
      BY <2>10, BridgeSteps DEF acpVars
    <3>2. CASE BridgeUpdate(q) /\ q = r
      <4>1. /\ bridge[r] = "working" /\ UNCHANGED bridge
            /\ chan[r] # <<>> /\ chan'[r] = Tail(chan[r])
            /\ answer'[r] = IF Head(chan[r]).kind = "chunk"
                             THEN Append(answer[r], Head(chan[r]).turn) ELSE answer[r]
        BY <3>2 DEF BridgeUpdate, TypeOK
      <4> DEFINE h == Head(chan[r])
                 one == IF h \in ChunkItem(r) THEN 1 ELSE 0
                 w == Waiting(Tail(chan[r]), r)
                 a == Given(answer[r], r)
      <4>2. h \in Item /\ (h \in ChunkItem(r) <=> h.kind = "chunk" /\ h.turn = r)
        BY <2>4, <4>1 DEF ChunkItem
      <4>3. w \in Nat /\ Waiting(chan[r], r) = w + one
        BY <2>4, <4>1, ItemTaken
      <4>4. a \in Nat /\ Given(answer'[r], r) = a + one
        <5>1. h.turn \in Requests \union {NoReq}
          BY <4>2 DEF Item
        <5>2. Given(Append(answer[r], h.turn), r) = a + IF h.turn = r THEN 1 ELSE 0
          BY <2>4, <5>1, ChunkGiven
        <5> QED
          BY <2>4, <4>1, <4>2, <5>2
      <4>5. ~Early(r)' /\ Receiving(r)
        BY <2>2, <4>1 DEF Receiving
      <4> HIDE DEF h, one, w, a
      <4>6. one \in Nat
        BY DEF one
      <4>7. Alone(r)' => Chunks(sent'[r]) = Given(answer'[r], r) + w
        <5>1. Alone(r)' => Chunks(sent[r]) = a + (w + one)
          BY <2>2, <2>3, <4>3, <4>5 DEF a
        <5>2. a + (w + one) = (a + one) + w
          BY <4>3, <4>4, <4>6
        <5> QED
          BY <3>1, <4>4, <5>1, <5>2
      <4> QED
        BY <4>1, <4>5, <4>7 DEF w
    <3>3. CASE BridgeUpdate(q) /\ q # r
      <4>1. chan'[r] = chan[r] /\ answer'[r] = answer[r] /\ UNCHANGED bridge
        BY <3>3 DEF BridgeUpdate, TypeOK
      <4> QED
        BY <2>6, <3>1, <4>1 DEF Receiving
    <3>4. CASE ~BridgeUpdate(q)
      <4>1. /\ UNCHANGED answer
            /\ \/ /\ UNCHANGED chan
                  /\ \/ bridge[q] = "waiting" /\ bridge' = [bridge EXCEPT ![q] = "working"]
                     \/ bridge' = [bridge EXCEPT ![q] = "done"]
               \/ /\ chan' = [chan EXCEPT ![q] = <<>>]
                  /\ \/ bridge' = [bridge EXCEPT ![q] = "error"]
                     \/ bridge' = [bridge EXCEPT ![q] = "closing"]
        BY <2>10, <3>4, BridgeSteps
      <4>2. CASE q = r /\ UNCHANGED chan
        BY <2>6, <2>7, <3>1, <4>1, <4>2 DEF Receiving, TypeOK
      <4>3. CASE q = r /\ ~UNCHANGED chan
        BY <2>7, <3>1, <4>1, <4>3 DEF Receiving, TypeOK
      <4>4. CASE q # r
        <5>1. bridge'[r] = bridge[r] /\ chan'[r] = chan[r]
          BY <4>1, <4>4 DEF TypeOK
        <5> QED
          BY <2>6, <3>1, <4>1, <5>1 DEF Receiving
      <4> QED
        BY <4>2, <4>3, <4>4
    <3> QED
      BY <3>2, <3>3, <3>4
  <2>11. ASSUME NEW kind \in UpdateKinds, AgentUpdate(kind)
         PROVE  Fresh(r)' /\ Tally(r)'
    <3> DEFINE item == [turn |-> running, kind |-> kind]
    <3>1. /\ running \in Requests /\ driver = "up"
          /\ UNCHANGED <<answer, bridge, handler>>
          /\ sent' = [sent EXCEPT ![running] = Append(@, kind)]
      BY <2>11 DEF AgentUpdate, TypeOK, taskVars, httpVars
    <3>2. item \in Item /\ (item \in ChunkItem(r) <=> kind = "chunk" /\ running = r)
      BY <3>1 DEF Item, ChunkItem
    <3>3. \/ chan'[r] = chan[r]
          \/ routes[SessionOf[running]] = r /\ chan'[r] = Append(chan[r], item)
      <4>1. SessionOf[running] \in Sessions
        BY <3>1, PipelineAssumption
      <4> QED
        BY <2>11, <4>1, RoutedItem DEF AgentUpdate
    <3>4. Outstanding(running)
      BY DEF Outstanding
    <3> HIDE DEF item
    <3>5. CASE running = r
      <4>1. sent'[r] = Append(sent[r], kind) /\ ~Early(r)'
        BY <2>2, <3>1, <3>4, <3>5 DEF TypeOK
      <4>2. ASSUME Alone(r)', Receiving(r)'
            PROVE  Chunks(sent'[r]) = Given(answer'[r], r) + Waiting(chan'[r], r)
        <5>1. Alone(r) /\ Receiving(r)
          BY <2>2, <3>1, <4>2 DEF Receiving
        <5>2. routes[SessionOf[r]] = r
          BY <3>4, <3>5, <5>1 DEF FirstTurnTallied
        <5>3. chan'[r] = Append(chan[r], item)
          BY <2>11, <3>5, <5>1, <5>2, PipelineAssumption
             DEF AgentUpdate, Routed, Delivered, TypeOK, item
        <5>4. /\ Chunks(sent[r]) \in Nat
              /\ Chunks(Append(sent[r], kind)) =
                    Chunks(sent[r]) + IF kind = "chunk" THEN 1 ELSE 0
          BY <2>4, ChunkSent
        <5>5. /\ Waiting(chan[r], r) \in Nat
              /\ Waiting(Append(chan[r], item), r) =
                    Waiting(chan[r], r) + IF item \in ChunkItem(r) THEN 1 ELSE 0
          BY <2>4, <3>2, ItemWaits
        <5> QED
          BY <2>3, <2>4, <3>1, <3>2, <3>5, <4>1, <5>1, <5>3, <5>4, <5>5
      <4> QED
        BY <4>1, <4>2
    <3>6. CASE running # r
      <4>1. sent'[r] = sent[r]
        BY <3>1, <3>6 DEF TypeOK
      <4>2. CASE chan'[r] = chan[r]
        BY <2>6, <3>1, <4>1, <4>2 DEF Receiving
      <4>3. CASE routes[SessionOf[running]] = r
        <5>1. SessionOf[r] = SessionOf[running]
          BY <3>1, <4>3, PipelineAssumption DEF NoStaleRoute
        <5>2. ~Alone(r)'
          BY <3>1, <3>4, <3>6, <5>1, AloneSteps DEF SameSession
        <5> QED
          BY <2>2, <2>3, <3>1, <4>1, <5>2
      <4> QED
        BY <3>3, <4>2, <4>3
    <3> QED
      BY <3>5, <3>6
  <2>12. ASSUME NEW stop \in StopReasons, AgentStops(stop)
         PROVE  Fresh(r)' /\ Tally(r)'
    <3> DEFINE item == [turn |-> running, kind |-> stop]
    <3>1. running \in Requests /\ UNCHANGED <<sent, answer, bridge>>
      BY <2>12 DEF AgentStops, TypeOK, taskVars
    <3>2. item \in Item /\ item \notin ChunkItem(r)
      BY <3>1, PipelineAssumption DEF Item, ChunkItem, AllStopReasons
    <3>3. chan'[r] = chan[r] \/ chan'[r] = Append(chan[r], item)
      BY <2>12 DEF AgentStops, Delivered, TypeOK
    <3> HIDE DEF item
    <3>4. CASE chan'[r] = chan[r]
      BY <2>6, <3>1, <3>4 DEF Receiving
    <3>5. CASE chan'[r] = Append(chan[r], item)
      <4>1. /\ Waiting(chan[r], r) \in Nat
            /\ Waiting(Append(chan[r], item), r) =
                  Waiting(chan[r], r) + IF item \in ChunkItem(r) THEN 1 ELSE 0
        BY <2>4, <3>2, ItemWaits
      <4> QED
        BY <2>2, <2>3, <3>1, <3>2, <3>5, <4>1 DEF Receiving
    <3> QED
      BY <3>3, <3>4, <3>5
  <2>13. CASE DriverStep \/ AgentExits \/ UNCHANGED vars
    BY <2>6, <2>13 DEF DriverStep, DriverTakesPrompt, DriverTakesCancel, DriverClearsRoute,
          AgentExits, vars, taskVars, bridgeVars, acpVars, Receiving
  <2>14. ASSUME NEW c \in Cancels, CancelStep(c)
         PROVE  Fresh(r)' /\ Tally(r)'
    BY <2>6, <2>14 DEF CancelStep, CancelTask, CancelRefused, CancelNotifies,
          CancelDisconnect, taskVars, bridgeVars, acpVars, Receiving
  <2>15. ASSUME NEW s \in Sessions, NEW kind \in UpdateKinds, AgentSpeaksUnasked(s, kind)
         PROVE  Fresh(r)' /\ Tally(r)'
    <3> DEFINE item == [turn |-> NoReq, kind |-> kind]
    <3>1. UNCHANGED <<sent, answer, bridge>>
      BY <2>15, StraySteps
    <3>2. item \in Item /\ item \notin ChunkItem(r)
      BY PipelineAssumption DEF Item, ChunkItem
    <3>3. chan'[r] = chan[r] \/ chan'[r] = Append(chan[r], item)
      BY <2>15, StraySteps
    <3> HIDE DEF item
    <3>4. CASE chan'[r] = chan[r]
      BY <2>6, <3>1, <3>4 DEF Receiving
    <3>5. CASE chan'[r] = Append(chan[r], item)
      <4>1. /\ Waiting(chan[r], r) \in Nat
            /\ Waiting(Append(chan[r], item), r) =
                  Waiting(chan[r], r) + IF item \in ChunkItem(r) THEN 1 ELSE 0
        BY <2>4, <3>2, ItemWaits
      <4> QED
        BY <2>2, <2>3, <3>1, <3>2, <3>5, <4>1 DEF Receiving
    <3> QED
      BY <3>3, <3>4, <3>5
  <2> QED
    BY <2>8, <2>9, <2>10, <2>11, <2>12, <2>13, <2>14, <2>15 DEF Next, Agent, AgentAnswers
<1> QED
  BY <1>1, <1>2, TypeCorrect, HandlersKeepStep, PromptsAskedOnce, NoRouteIsStale,
     StreamsOrdered, PTL DEF Spec

\* A Task becomes completed only when its bridge takes an outcome.
LEMMA CompletedByBridge ==
    ASSUME TypeOK, [Next]_vars, NEW r \in Requests,
           task[r] # "completed", task'[r] = "completed"
    PROVE  BridgeStop(r)
<1>1. ASSUME NEW q \in Requests, Client(q) \/ HandlerStep(q)
      PROVE  FALSE
  BY <1>1 DEF Client, Admit, RejectBusy, Disconnect, HandlerStep, RejectContinuation,
        CreateTask, RejectParts, StartPrompt, StartPromptFails, Subscribe, SendReplies,
        SendFails, taskVars, TypeOK
<1>2. ASSUME NEW q \in Requests, BridgeStep(q), ~BridgeStop(r)
      PROVE  FALSE
  <2>1. CASE BridgeStop(q)
    BY <1>2, <2>1 DEF BridgeStop, Conclude, Accepted, Refused, taskVars, TypeOK
  <2>2. CASE BridgeEndOfStream(q)
    BY <2>2 DEF BridgeEndOfStream, Conclude, Accepted, Refused, taskVars, TypeOK
  <2>3. CASE BridgeFirstItem(q) \/ BridgeUpdate(q) \/ BridgePublishFinal(q)
    BY <2>3 DEF BridgeFirstItem, Started, Refused, BridgeUpdate, BridgePublishFinal,
          taskVars, TypeOK
  <2> QED
    BY <1>2, <2>1, <2>2, <2>3 DEF BridgeStep
<1>3. CASE DriverStep \/ Agent \/ UNCHANGED vars
  BY <1>3 DEF DriverStep, DriverTakesPrompt, DriverTakesCancel, DriverClearsRoute, Agent,
        AgentAnswers, AgentStops, AgentUpdate, AgentSpeaksUnasked,
        AgentExits, vars, taskVars
<1>4. ASSUME NEW c \in Cancels, CancelStep(c)
      PROVE  FALSE
  BY <1>4 DEF CancelStep, CancelTask, CancelRefused, CancelNotifies, CancelDisconnect,
        taskVars, TypeOK
<1> QED
  BY <1>1, <1>2, <1>3, <1>4 DEF Next

\* The first turn of a session loses nothing: when it completes, its answer
\* has as many chunks of the turn as the agent sent in it.
THEOREM FirstTurnComplete == Spec => FirstTurnLosesNothing
<1>1. TypeOK /\ StreamsInOrder /\ FirstTurnTallied /\ [Next]_vars =>
          \A r \in Requests :
              task[r] # "completed" /\ task'[r] = "completed" /\ Alone(r)
                  => Len(Sift(answer[r], {r})) = Len(Sift(sent[r], {"chunk"}))
  <2> SUFFICES ASSUME TypeOK, StreamsInOrder, FirstTurnTallied, [Next]_vars,
                      NEW r \in Requests,
                      task[r] # "completed", task'[r] = "completed", Alone(r)
               PROVE  Given(answer[r], r) = Chunks(sent[r])
    BY DEF Given, Chunks
  <2> DEFINE stream == chan[r]
  <2>1. BridgeStop(r)
    BY CompletedByBridge
  <2>2. /\ Receiving(r) /\ stream \in Seq(Item) /\ stream # <<>>
        /\ Head(stream).kind \in StopReasons
        /\ answer[r] \in Seq(Requests \union {NoReq})
    BY <2>1 DEF BridgeStop, Receiving, TypeOK
  <2>3. Chunks(sent[r]) = Given(answer[r], r) + Waiting(stream, r)
    BY <2>2 DEF FirstTurnTallied
  <2>4. \A i, j \in DOMAIN stream :
            stream[i].kind \in StopReasons /\ i < j => stream[j].turn = NoReq
    BY DEF StreamsInOrder
  <2> HIDE DEF stream
  <2>5. /\ 1 \in DOMAIN stream /\ Head(stream) = stream[1]
        /\ \A i \in DOMAIN stream : i = 1 \/ 1 < i
    BY <2>2
  <2>6. \A i \in DOMAIN stream : stream[i] \notin ChunkItem(r)
    BY <2>2, <2>4, <2>5, PipelineAssumption DEF ChunkItem, AllStopReasons
  <2>7. Waiting(stream, r) = 0
    BY <2>2, <2>6, NoneWaits
  <2>8. Given(answer[r], r) \in Nat
    BY <2>2, ChunkGiven
  <2> QED
    BY <2>3, <2>7, <2>8
<1> QED
  BY <1>1, TypeCorrect, StreamsOrdered, FirstTurnsTallied, PTL
     DEF Spec, FirstTurnLosesNothing
=============================================================================
