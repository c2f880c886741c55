--------------------------- MODULE PromptPipeline ---------------------------
(***************************************************************************)
(* One prompt turn through the Serve Shim: the HTTP handlers of            *)
(* SendMessage, SendStreamingMessage and CancelTask, the in-flight permit  *)
(* of a conversation (invariant H1), the bridge that pumps a prompt stream *)
(* into the TaskRegistry and the Task's SSE sink, the route table through  *)
(* which agent updates find their stream, and the driver task that owns    *)
(* the ACP connection and executes one command at a time.                  *)
(*                                                                         *)
(* Each request is one SendMessage or SendStreamingMessage call; a Task is *)
(* created by at most one request and carries that request's name.  The    *)
(* runtime is multi-threaded, so a step is a stretch of code between two   *)
(* points at which another thread can observe a difference.                *)
(*                                                                         *)
(* The ConversationMap entry of every session is present throughout.  The  *)
(* rows written through to the optional database are left out; that the    *)
(* handlers wait for those writes is not: there they can be dropped.       *)
(***************************************************************************)
EXTENDS Naturals, Sequences, TaskStates, Sifting

CONSTANTS
    Requests,       \* SendMessage and SendStreamingMessage calls
    Streaming,      \* the requests that are SendStreamingMessage calls
    Cancels,        \* CancelTask calls
    Sessions,       \* ACP sessions, one per conversation
    SessionOf,      \* the session of the conversation a request names
    UpdateKinds,    \* the session/update kinds the agent uses
    StopReasons,    \* how the agent may end a prompt
    MaxUpdates,     \* bound: updates the agent sends in one turn
    MaxStrays,      \* bound: updates the agent sends outside of any turn
    ClientsLeave,   \* whether a client may close its connection
    AgentDies,      \* whether the agent process may exit
    NoReq           \* "no request"

\* Updates that carry answer text, and those the bridge ignores.
AllUpdateKinds == {"chunk", "thought"}

\* The stop reasons of session/prompt, "refused" standing for Refusal,
\* MaxTokens and MaxTurnRequests, and "error" for a failed request.
AllStopReasons == {"end_turn", "cancelled", "refused", "error"}

ASSUME PipelineAssumption ==
    /\ Streaming \subseteq Requests
    /\ SessionOf \in [Requests -> Sessions]
    /\ UpdateKinds \subseteq AllUpdateKinds
    /\ StopReasons \subseteq AllStopReasons
    /\ MaxUpdates \in Nat
    /\ MaxStrays \in Nat
    /\ ClientsLeave \in BOOLEAN
    /\ AgentDies \in BOOLEAN
    /\ NoReq \notin Requests

VARIABLES
    handler,    \* where the HTTP handler of a request stands
    in_flight,  \* H1: the request that holds the permit of a session
    task,       \* TaskRegistry: the state of the Task a request created
    answer,     \* TaskRegistry: the turns whose chunks make up the artifact,
                \* NoReq for a chunk sent outside of any turn
    sink,       \* SseSink: "none", "open", or closed with a final frame
    pushed,     \* the Tasks whose push deliveries were enqueued
    bridge,     \* where run_session stands for a request
    verdict,    \* the state run_session is about to publish as final
    chan,       \* the prompt stream of a request, oldest item first
    routes,     \* AcpClient::routes: the stream that gets a session's updates
    cmds,       \* the driver's command queue
    driver,     \* the driver task: "up", "ending" a prompt, or "gone"
    running,    \* the prompt the agent is working on
    sent,       \* the updates the agent has sent in the turn of a request
    strays,     \* how many updates the agent has sent outside of any turn
    canceler,   \* where the HTTP handler of a CancelTask call stands
    target      \* the Task a CancelTask call canceled

httpVars   == <<handler, in_flight, pushed>>
taskVars   == <<task, answer, sink>>
bridgeVars == <<bridge, verdict, chan>>
acpVars    == <<routes, cmds, driver, running, sent, strays>>
cancelVars == <<canceler, target>>
vars == <<httpVars, taskVars, bridgeVars, acpVars, cancelVars>>

-----------------------------------------------------------------------------
HandlerState == {"idle", "busy", "admitted", "created", "pumping",
                 "subscribing", "replied", "failed", "panicked", "gone"}
BridgeState  == {"off", "waiting", "working", "closing",
                 "done", "error", "dropped"}
CancelState  == {"idle", "marked", "queued", "replied", "refused", "gone"}

Item    == [turn : Requests \union {NoReq}, kind : UpdateKinds \union StopReasons]
Command == [op : {"prompt"}, by : Requests] \union [op : {"cancel"}, by : Cancels]

\* run_session still reads its stream, so the receiver is alive.
Receiving(r) == bridge[r] \in {"waiting", "working"}

\* run_session has been called and has not returned.
Pumping(r) == Receiving(r) \/ bridge[r] = "closing"

Queued(r) == \E i \in DOMAIN cmds : cmds[i] = [op |-> "prompt", by |-> r]

\* The prompt of r is in the driver's queue or at the agent.
Outstanding(r) == Queued(r) \/ running = r

\* Some clone of the sender of r's stream exists: in the route table, in the
\* queued command, or in the driver arm that executes it.
SenderAlive(r) == routes[SessionOf[r]] = r \/ Outstanding(r)

\* What reaches the stream of r when an item is sent on it: a send on a
\* stream whose receiver is dropped fails silently.
Delivered(r, item) ==
    IF Receiving(r) THEN [chan EXCEPT ![r] = Append(@, item)] ELSE chan

\* What the notification callback does with an update of a session: it goes
\* to the stream the route table names, and is dropped if there is none.
Routed(s, item) ==
    IF routes[s] = NoReq THEN chan ELSE Delivered(routes[s], item)

Init ==
    /\ handler   = [r \in Requests |-> "idle"]
    /\ in_flight = [s \in Sessions |-> NoReq]
    /\ task      = [r \in Requests |-> "absent"]
    /\ answer    = [r \in Requests |-> <<>>]
    /\ sink      = [r \in Requests |-> "none"]
    /\ pushed    = {}
    /\ bridge    = [r \in Requests |-> "off"]
    /\ verdict   = [r \in Requests |-> "none"]
    /\ chan      = [r \in Requests |-> <<>>]
    /\ routes    = [s \in Sessions |-> NoReq]
    /\ cmds      = <<>>
    /\ driver    = "up"
    /\ running   = NoReq
    /\ sent      = [r \in Requests |-> <<>>]
    /\ strays    = 0
    /\ canceler  = [c \in Cancels |-> "idle"]
    /\ target    = [c \in Cancels |-> NoReq]

-----------------------------------------------------------------------------
(* The request handlers: handle_message_send and handle_message_stream.    *)

Handler(r, from, to) ==
    /\ handler[r] = from
    /\ handler' = [handler EXCEPT ![r] = to]

\* Dropping the InFlightGuard a request holds.
Release(r) == in_flight' = [in_flight EXCEPT ![SessionOf[r]] = NoReq]

\* Variant: the permit is taken without looking at its holder.
AdmitUnguarded(r) ==
    /\ Handler(r, "idle", "admitted")
    /\ in_flight' = [in_flight EXCEPT ![SessionOf[r]] = r]
    /\ UNCHANGED <<pushed, taskVars, bridgeVars, acpVars, cancelVars>>

\* acquire_in_flight succeeds.
Admit(r) ==
    /\ Handler(r, "idle", "admitted")
    /\ in_flight[SessionOf[r]] = NoReq
    /\ in_flight' = [in_flight EXCEPT ![SessionOf[r]] = r]
    /\ UNCHANGED <<pushed, taskVars, bridgeVars, acpVars, cancelVars>>

\* acquire_in_flight finds the permit taken: CONVERSATION_BUSY.
RejectBusy(r) ==
    /\ Handler(r, "idle", "busy")
    /\ in_flight[SessionOf[r]] # NoReq
    /\ UNCHANGED <<in_flight, pushed, taskVars, bridgeVars, acpVars,
                   cancelVars>>

\* A request that names an existing Task: accept_continuation refuses it
\* unless the Task waits for input, which no step of the pipeline causes.
RejectContinuation(r) ==
    /\ Handler(r, "admitted", "failed")
    /\ \E t \in Requests : task[t] # "input-required"
    /\ Release(r)
    /\ UNCHANGED <<pushed, taskVars, bridgeVars, acpVars, cancelVars>>

\* TaskRegistry::create.
CreateTask(r) ==
    /\ Handler(r, "admitted", "created")
    /\ task' = [task EXCEPT ![r] = "submitted"]
    /\ sink' = [sink EXCEPT ![r] = "open"]
    /\ UNCHANGED <<in_flight, pushed, answer, bridgeVars, acpVars, cancelVars>>

\* validate_parts refuses a part: the handler returns, the Task stays.
RejectParts(r) ==
    /\ Handler(r, "created", "failed")
    /\ Release(r)
    /\ UNCHANGED <<pushed, taskVars, bridgeVars, acpVars, cancelVars>>

\* Variant: the command is queued and the route is not registered.
StartPromptUnrouted(r) ==
    /\ Handler(r, "created", IF r \in Streaming THEN "subscribing" ELSE "pumping")
    /\ driver # "gone"
    /\ cmds' = Append(cmds, [op |-> "prompt", by |-> r])
    /\ bridge' = [bridge EXCEPT ![r] = "waiting"]
    /\ UNCHANGED <<in_flight, pushed, taskVars, verdict, chan, routes, driver,
                   running, sent, strays, cancelVars>>

\* session_prompt_blocks registers the route, then queues the command; the
\* bridge is started on the stream, in the handler or in a spawned task.
StartPrompt(r) ==
    /\ Handler(r, "created", IF r \in Streaming THEN "subscribing" ELSE "pumping")
    /\ driver # "gone"
    /\ routes' = [routes EXCEPT ![SessionOf[r]] = r]
    /\ cmds' = Append(cmds, [op |-> "prompt", by |-> r])
    /\ bridge' = [bridge EXCEPT ![r] = "waiting"]
    /\ UNCHANGED <<in_flight, pushed, taskVars, verdict, chan, driver, running,
                   sent, strays, cancelVars>>

\* session_prompt_blocks after the driver is gone: the route is inserted and
\* removed again, and the handler returns.
StartPromptFails(r) ==
    /\ Handler(r, "created", "failed")
    /\ driver = "gone"
    /\ routes' = [routes EXCEPT ![SessionOf[r]] = NoReq]
    /\ Release(r)
    /\ UNCHANGED <<pushed, taskVars, bridgeVars, cmds, driver, running, sent,
                   strays, cancelVars>>

\* handle_message_stream subscribes after it has spawned the bridge, and
\* panics if the bridge has closed the sink by then.
Subscribe(r) ==
    /\ Handler(r, "subscribing", IF sink[r] = "open" THEN "replied" ELSE "panicked")
    /\ UNCHANGED <<in_flight, pushed, taskVars, bridgeVars, acpVars,
                   cancelVars>>

\* handle_message_send answers with a snapshot once run_session succeeded,
\* and enqueues push deliveries if the snapshot is terminal.
SendReplies(r) ==
    /\ Handler(r, "pumping", "replied")
    /\ bridge[r] = "done"
    /\ pushed' = IF task[r] \in Terminal THEN pushed \union {r} ELSE pushed
    /\ Release(r)
    /\ UNCHANGED <<taskVars, bridgeVars, acpVars, cancelVars>>

\* run_session failed: handle_message_send returns INTERNAL_ERROR.
SendFails(r) ==
    /\ Handler(r, "pumping", "failed")
    /\ bridge[r] = "error"
    /\ Release(r)
    /\ UNCHANGED <<pushed, taskVars, bridgeVars, acpVars, cancelVars>>

\* The client closes its connection: the server drops the handler future
\* where it waits (for a database write, or in the bridge), and with it the
\* permit and, for SendMessage, the bridge and its stream.
Disconnect(r) ==
    /\ ClientsLeave
    /\ handler[r] \in {"created", "pumping"}
    /\ handler' = [handler EXCEPT ![r] = "gone"]
    /\ Release(r)
    /\ bridge' = IF Pumping(r) THEN [bridge EXCEPT ![r] = "dropped"] ELSE bridge
    /\ chan' = [chan EXCEPT ![r] = <<>>]
    /\ UNCHANGED <<pushed, taskVars, verdict, acpVars, cancelVars>>

-----------------------------------------------------------------------------
(* The bridge: run_session.                                                *)

\* Variant: the spawned bridge task leaks its permit.
ExitKeepsPermit(r, outcome) ==
    /\ bridge' = [bridge EXCEPT ![r] = outcome]
    /\ UNCHANGED <<httpVars, acpVars, cancelVars>>

\* run_session returns; a spawned bridge task then drops the permit.
Exit(r, outcome) ==
    /\ bridge' = [bridge EXCEPT ![r] = outcome]
    /\ IF r \in Streaming THEN Release(r) ELSE UNCHANGED in_flight
    /\ UNCHANGED <<handler, pushed, acpVars, cancelVars>>

\* A transition the registry refuses ends run_session by `?`.
Refused(r, to) ==
    /\ ~IsLegal(task[r], to)
    /\ chan' = [chan EXCEPT ![r] = <<>>]
    /\ UNCHANGED <<taskVars, verdict>>
    /\ Exit(r, "error")

\* The registry accepts the move to working.
Started(r) ==
    /\ IsLegal(task[r], "working")
    /\ task' = [task EXCEPT ![r] = "working"]
    /\ bridge' = [bridge EXCEPT ![r] = "working"]
    /\ UNCHANGED <<answer, sink, verdict, chan, httpVars, acpVars, cancelVars>>

\* The first item of any kind moves the Task to working; the item itself is
\* then handled by one of the actions below.
BridgeFirstItem(r) ==
    /\ bridge[r] = "waiting"
    /\ chan[r] # <<>>
    /\ Started(r) \/ Refused(r, "working")

\* An update: its text is merged into the answer artifact, whatever the state
\* of the Task; other kinds of update are ignored.
BridgeUpdate(r) ==
    /\ bridge[r] = "working"
    /\ chan[r] # <<>>
    /\ Head(chan[r]).kind \in UpdateKinds
    /\ chan' = [chan EXCEPT ![r] = Tail(@)]
    /\ answer' = IF Head(chan[r]).kind = "chunk"
                 THEN [answer EXCEPT ![r] = Append(@, Head(chan[r]).turn)]
                 ELSE answer
    /\ UNCHANGED <<httpVars, task, sink, bridge, verdict, acpVars, cancelVars>>

\* Variant: the registry's refusal is ignored and the final frame prepared.
ConcludeRegardless(r, to) ==
    /\ task' = IF IsLegal(task[r], to) THEN [task EXCEPT ![r] = to] ELSE task
    /\ verdict' = [verdict EXCEPT ![r] = to]
    /\ bridge' = [bridge EXCEPT ![r] = "closing"]
    /\ chan' = [chan EXCEPT ![r] = <<>>]
    /\ UNCHANGED <<answer, sink, httpVars, acpVars, cancelVars>>

\* The registry accepts the final state, before any final frame is sent.
Accepted(r, to) ==
    /\ IsLegal(task[r], to)
    /\ task' = [task EXCEPT ![r] = to]
    /\ verdict' = [verdict EXCEPT ![r] = to]
    /\ bridge' = [bridge EXCEPT ![r] = "closing"]
    /\ chan' = [chan EXCEPT ![r] = <<>>]
    /\ UNCHANGED <<answer, sink, httpVars, acpVars, cancelVars>>

\* publish_terminal_for_stop and publish_failed, up to the final frame.
Conclude(r, to) == Accepted(r, to) \/ Refused(r, to)

\* Variant: the stream's Err item, the failure of session/prompt, is not handled.
BridgeStopUnlessError(r) ==
    /\ bridge[r] = "working"
    /\ chan[r] # <<>>
    /\ Head(chan[r]).kind \in StopReasons \ {"error"}
    /\ Conclude(r, FinalState(Head(chan[r]).kind))

\* The last item of the turn: the stop reason, or the failure of the prompt.
BridgeStop(r) ==
    /\ bridge[r] = "working"
    /\ chan[r] # <<>>
    /\ Head(chan[r]).kind \in StopReasons
    /\ Conclude(r, FinalState(Head(chan[r]).kind))

\* Every sender is dropped and the stream is read to its end.
BridgeEndOfStream(r) ==
    /\ Receiving(r)
    /\ chan[r] = <<>>
    /\ ~SenderAlive(r)
    /\ Conclude(r, "failed")

\* Variant: the final frame is sent and the channel left open.
BridgePublishOpen(r) ==
    /\ bridge[r] = "closing"
    /\ UNCHANGED <<taskVars, verdict, chan>>
    /\ Exit(r, "done")

\* SseSink::publish_final: the final frame, then the channel is closed.
BridgePublishFinal(r) ==
    /\ bridge[r] = "closing"
    /\ sink' = [sink EXCEPT ![r] = verdict[r]]
    /\ UNCHANGED <<task, answer, verdict, chan>>
    /\ Exit(r, "done")

-----------------------------------------------------------------------------
(* The driver task, and the agent at the other end of the connection.      *)

\* The driver takes the next command only when the last one is finished.
DriverReady == driver = "up" /\ running = NoReq /\ cmds # <<>>

DriverTakesPrompt ==
    /\ DriverReady
    /\ Head(cmds).op = "prompt"
    /\ running' = Head(cmds).by
    /\ cmds' = Tail(cmds)
    /\ UNCHANGED <<httpVars, taskVars, bridgeVars, routes, driver, sent,
                   strays, cancelVars>>

\* session/cancel is sent, and the CancelTask handler told so.
DriverTakesCancel ==
    /\ DriverReady
    /\ Head(cmds).op = "cancel"
    /\ cmds' = Tail(cmds)
    /\ canceler' = [canceler EXCEPT ![Head(cmds).by] =
                        IF @ = "queued" THEN "replied" ELSE @]
    /\ UNCHANGED <<httpVars, taskVars, bridgeVars, routes, driver, running,
                   sent, strays, target>>

\* A session/update of the running turn.
AgentUpdate(kind) ==
    /\ driver = "up"
    /\ running # NoReq
    /\ Len(sent[running]) < MaxUpdates
    /\ sent' = [sent EXCEPT ![running] = Append(@, kind)]
    /\ chan' = Routed(SessionOf[running], [turn |-> running, kind |-> kind])
    /\ UNCHANGED <<httpVars, taskVars, bridge, verdict, routes, cmds, driver,
                   running, strays, cancelVars>>

\* A session/update the agent owes to no running turn: unsolicited, late, or
\* early.  The callback knows only the session and does the same.
AgentSpeaksUnasked(s, kind) ==
    /\ driver # "gone"
    /\ strays < MaxStrays
    /\ strays' = strays + 1
    /\ chan' = Routed(s, [turn |-> NoReq, kind |-> kind])
    /\ UNCHANGED <<httpVars, taskVars, bridge, verdict, routes, cmds, driver,
                   running, sent, cancelVars>>

\* Variant: the driver drops the outcome of the prompt.
AgentStopsUnheard(stop) ==
    /\ driver = "up"
    /\ running # NoReq
    /\ driver' = "ending"
    /\ UNCHANGED <<httpVars, taskVars, bridgeVars, routes, cmds, running, sent,
                   strays, cancelVars>>

\* session/prompt returns: the driver sends the outcome on the stream the
\* command carried ...
AgentStops(stop) ==
    /\ driver = "up"
    /\ running # NoReq
    /\ chan' = Delivered(running, [turn |-> running, kind |-> stop])
    /\ driver' = "ending"
    /\ UNCHANGED <<httpVars, taskVars, bridge, verdict, routes, cmds, running,
                   sent, strays, cancelVars>>

\* Variant: the route is left in the table.
DriverKeepsRoute ==
    /\ driver = "ending"
    /\ driver' = "up"
    /\ running' = NoReq
    /\ UNCHANGED <<httpVars, taskVars, bridgeVars, routes, cmds, sent, strays,
                   cancelVars>>

\* ... and then removes the session's route.
DriverClearsRoute ==
    /\ driver = "ending"
    /\ routes' = [routes EXCEPT ![SessionOf[running]] = NoReq]
    /\ driver' = "up"
    /\ running' = NoReq
    /\ UNCHANGED <<httpVars, taskVars, bridgeVars, cmds, sent, strays,
                   cancelVars>>

\* The connection closes: the driver is dropped where it stands, with the
\* queued commands and their reply channels.  The route table stays.
AgentExits ==
    /\ AgentDies
    /\ driver # "gone"
    /\ driver' = "gone"
    /\ running' = NoReq
    /\ cmds' = <<>>
    /\ canceler' = [c \in Cancels |->
                        IF canceler[c] = "queued" THEN "replied" ELSE canceler[c]]
    /\ UNCHANGED <<httpVars, taskVars, bridgeVars, routes, sent, strays,
                   target>>

-----------------------------------------------------------------------------
(* CancelTask: handle_tasks_cancel.                                        *)

\* Variant: a terminal Task may be canceled too.
CancelAnyTask(c, t) ==
    /\ canceler[c] = "idle"
    /\ task[t] \in TaskState
    /\ task' = [task EXCEPT ![t] = "canceled"]
    /\ canceler' = [canceler EXCEPT ![c] = "marked"]
    /\ target' = [target EXCEPT ![c] = t]
    /\ UNCHANGED <<answer, sink, httpVars, bridgeVars, acpVars>>

\* TaskRegistry::cancel, on a Task that is not terminal.
CancelTask(c, t) ==
    /\ canceler[c] = "idle"
    /\ task[t] \in TaskState \ Terminal
    /\ task' = [task EXCEPT ![t] = "canceled"]
    /\ canceler' = [canceler EXCEPT ![c] = "marked"]
    /\ target' = [target EXCEPT ![c] = t]
    /\ UNCHANGED <<answer, sink, httpVars, bridgeVars, acpVars>>

\* TaskRegistry::cancel refuses: unknown, or NotCancelable.
CancelRefused(c, t) ==
    /\ canceler[c] = "idle"
    /\ task[t] \notin TaskState \ Terminal
    /\ canceler' = [canceler EXCEPT ![c] = "refused"]
    /\ UNCHANGED <<httpVars, taskVars, bridgeVars, acpVars, target>>

\* session_cancel queues a command, or fails at once without a driver; the
\* failure is logged and the call answered all the same.
CancelNotifies(c) ==
    /\ canceler[c] = "marked"
    /\ \/ /\ driver # "gone"
          /\ canceler' = [canceler EXCEPT ![c] = "queued"]
          /\ cmds' = Append(cmds, [op |-> "cancel", by |-> c])
       \/ /\ driver = "gone"
          /\ canceler' = [canceler EXCEPT ![c] = "replied"]
          /\ UNCHANGED cmds
    /\ UNCHANGED <<httpVars, taskVars, bridgeVars, routes, driver, running,
                   sent, strays, target>>

\* The client of a CancelTask call closes its connection.
CancelDisconnect(c) ==
    /\ ClientsLeave
    /\ canceler[c] \in {"marked", "queued"}
    /\ canceler' = [canceler EXCEPT ![c] = "gone"]
    /\ UNCHANGED <<httpVars, taskVars, bridgeVars, acpVars, target>>

-----------------------------------------------------------------------------
Client(r) == Admit(r) \/ RejectBusy(r) \/ Disconnect(r)

HandlerStep(r) ==
    \/ RejectContinuation(r)
    \/ CreateTask(r)
    \/ RejectParts(r)
    \/ StartPrompt(r)
    \/ StartPromptFails(r)
    \/ Subscribe(r)
    \/ SendReplies(r)
    \/ SendFails(r)

BridgeStep(r) ==
    \/ BridgeFirstItem(r)
    \/ BridgeUpdate(r)
    \/ BridgeStop(r)
    \/ BridgeEndOfStream(r)
    \/ BridgePublishFinal(r)

DriverStep == DriverTakesPrompt \/ DriverTakesCancel \/ DriverClearsRoute

AgentAnswers == \E stop \in StopReasons : AgentStops(stop)

Agent ==
    \/ AgentAnswers
    \/ AgentExits
    \/ \E kind \in UpdateKinds :
          AgentUpdate(kind) \/ \E s \in Sessions : AgentSpeaksUnasked(s, kind)

CancelStep(c) ==
    \/ \E t \in Requests : CancelTask(c, t) \/ CancelRefused(c, t)
    \/ CancelNotifies(c)
    \/ CancelDisconnect(c)

Next ==
    \/ \E r \in Requests : Client(r) \/ HandlerStep(r) \/ BridgeStep(r)
    \/ DriverStep
    \/ Agent
    \/ \E c \in Cancels : CancelStep(c)

Spec == Init /\ [][Next]_vars

-----------------------------------------------------------------------------
(* Fairness.  Handlers, spawned bridges and the driver are tasks of a       *)
(* runtime that schedules every ready task; clients and the agent are not   *)
(* under the shim's control.                                                *)

ShimFairness ==
    /\ \A r \in Requests : WF_vars(HandlerStep(r)) /\ WF_vars(BridgeStep(r))
    /\ \A c \in Cancels : WF_vars(CancelNotifies(c))
    /\ WF_vars(DriverStep)

\* The shim runs; the agent owes it nothing.
ShimSpec == Spec /\ ShimFairness

\* In addition the agent ends every prompt it is given.  Nothing in the shim
\* bounds a prompt, so this is an assumption on the agent.
FairSpec == ShimSpec /\ WF_vars(AgentAnswers)

-----------------------------------------------------------------------------
(* Properties.                                                              *)

\* Type invariant: the values the code gives each variable.
TypeOK ==
    /\ handler \in [Requests -> HandlerState]
    /\ in_flight \in [Sessions -> Requests \union {NoReq}]
    /\ task \in [Requests -> TaskState \union {"absent"}]
    /\ answer \in [Requests -> Seq(Requests \union {NoReq})]
    /\ sink \in [Requests -> {"none", "open"} \union Terminal]
    /\ pushed \subseteq Requests
    /\ bridge \in [Requests -> BridgeState]
    /\ verdict \in [Requests -> Terminal \union {"none"}]
    /\ chan \in [Requests -> Seq(Item)]
    /\ routes \in [Sessions -> Requests \union {NoReq}]
    /\ cmds \in Seq(Command)
    /\ driver \in {"up", "ending", "gone"}
    /\ running \in Requests \union {NoReq}
    /\ sent \in [Requests -> Seq(UpdateKinds)]
    /\ strays \in Nat
    /\ canceler \in [Cancels -> CancelState]
    /\ target \in [Cancels -> Requests \union {NoReq}]

SameSession(r, q) == SessionOf[r] = SessionOf[q]

\* The part of a request's life during which it must hold its permit: for a
\* send, its handler from admission on; for a stream, its handler up to the
\* spawn and its bridge from there on.
NeedsPermit(r) ==
    \/ handler[r] \in {"admitted", "created", "pumping"}
    \/ r \in Streaming /\ Pumping(r)

\* H1, no leak and no loss: on every path, error paths and dropped handlers
\* included, the permit of a session is held by the one request that is being
\* served in it, and by nobody when there is none.
PermitOwned ==
    \A r \in Requests : in_flight[SessionOf[r]] = r <=> NeedsPermit(r)

\* H1 as the shim enforces it: at most one bridge pumps per conversation.
OnePumpPerSession ==
    \A r, q \in Requests : Pumping(r) /\ Pumping(q) /\ SameSession(r, q) => r = q

\* What subscribers were told at the end is what GetTask says from then on:
\* a sink is closed only by a final frame whose state the registry holds.
FinalFrameAgrees ==
    \A r \in Requests : sink[r] \in Terminal => task[r] = sink[r]

\* While the driver lives, the route table names only streams whose prompt is
\* still to be finished: no update of a later turn can reach an ended stream.
NoStaleRoute ==
    driver # "gone" =>
        \A s \in Sessions : routes[s] # NoReq =>
            SessionOf[routes[s]] = s /\ Outstanding(routes[s])

\* No bridge of the session was cut short: none failed and none was dropped.
RanToEnd(s) ==
    \A r \in Requests : SessionOf[r] = s => bridge[r] \notin {"error", "dropped"}

\* In a session whose bridges all ran to their end, no chunk the agent sent
\* in another turn is in the answer of a Task.  What it sent in no turn at all
\* may be there: the session is all the code has to go by.
AnswerIsOwn ==
    \A r \in Requests : RanToEnd(SessionOf[r]) =>
        \A i \in DOMAIN answer[r] : answer[r][i] \in {r, NoReq}

\* The other requests of r's session were never admitted.
Alone(r) == \A q \in Requests \ {r} :
                SameSession(r, q) => handler[q] \in {"idle", "busy"}

\* The first turn of a session loses nothing: when it completes, every chunk
\* the agent sent in it is in the answer.
FirstTurnLosesNothing ==
    [][\A r \in Requests :
        task[r] # "completed" /\ task'[r] = "completed" /\ Alone(r)
        => Len(Sift(answer[r], {r})) = Len(Sift(sent[r], {"chunk"}))]_vars

\* run_session fails only for a Task that CancelTask canceled, or when the
\* driver went away before the agent said anything about the prompt.
BridgeErrorExplained ==
    \A r \in Requests : bridge[r] = "error" =>
        \/ \E c \in Cancels : target[c] = r
        \/ driver = "gone" /\ task[r] = "submitted"

\* The state graph of the design specification, over the registry's states.
Lifecycle == INSTANCE TaskLifecycle WITH Tasks <- Requests, state <- task

\* Refinement: handlers, bridges and CancelTask calls together implement the
\* life of a Task, and none of them ever moves a Task that is terminal.
ImplementsLifecycle == Lifecycle!Spec

\* A streaming handler that comes too late to subscribe: its bridge has closed
\* the sink, and the handler is about to panic and send nothing.
SubscribesTooLate(r) == handler[r] = "subscribing" /\ sink[r] # "open"

\* Every request that was admitted and every CancelTask call that moved its
\* Task is answered, unless its client left; and for a streaming request,
\* unless its turn was over before the handler could subscribe to it.
EveryRequestAnswered ==
    /\ \A r \in Requests : handler[r] = "admitted" ~>
           handler[r] \in {"replied", "failed", "gone"} \/ SubscribesTooLate(r)
    /\ \A c \in Cancels : canceler[c] = "marked" ~> canceler[c] \in {"replied", "gone"}

\* A conversation never stays busy for ever.
PermitsReturned == \A s \in Sessions : []<>(in_flight[s] = NoReq)

\* Subscribers of a Task nobody canceled or abandoned see its stream end.
StreamsClose ==
    \A r \in Requests : bridge[r] = "waiting" ~>
        \/ sink[r] \in Terminal
        \/ bridge[r] = "dropped"
        \/ \E c \in Cancels : target[c] = r

\* The contract of run_session: when it returns, its Task is terminal and the
\* Task's sink is closed.
BridgeEndsTask ==
    \A r \in Requests : bridge[r] \in {"done", "error"} =>
        task[r] \in Terminal /\ sink[r] \in Terminal

\* The sink is open when handle_message_stream subscribes to it, as its `expect`
\* says: the handler of a streaming request never panics there.
SinkOpenAtSubscribe == \A r \in Requests : ~SubscribesTooLate(r)

\* The route is registered before the prompt is queued so that no update of
\* the turn is dropped: each one reaches the stream that still reads.
NoUpdateDropped ==
    [][\A r \in Requests :
        Len(sent'[r]) > Len(sent[r]) /\ Receiving(r) =>
            Len(chan'[r]) > Len(chan[r])]_vars

\* Canceling a Task that is working sends session/cancel to the agent, however
\* long the agent goes on with the prompt.
CancelReachesAgent ==
    \A c \in Cancels :
        canceler[c] = "queued" /\ bridge[target[c]] = "working"
            ~> canceler[c] # "queued"
=============================================================================
