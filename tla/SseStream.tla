----------------------------- MODULE SseStream ------------------------------
(***************************************************************************)
(* How the answer to one Task reaches those who watch it: the handler that *)
(* creates the Task and translates the message, the bridge that records    *)
(* what the agent sends and publishes it, the Task's SSE sink (a broadcast *)
(* ring that keeps the latest frames), the streams of the client that sent *)
(* the message and of those that called SubscribeToTask, which may fall    *)
(* behind, and their calls of GetTask and CancelTask.                      *)
(*                                                                         *)
(* The agent's side of the prompt, the in-flight guard and other Tasks are *)
(* left to PromptPipeline; here the bridge is given any items at all.      *)
(* Axum's keep-alive comments carry nothing, and SseSink::start_keepalive  *)
(* is called by no one.                                                    *)
(***************************************************************************)
EXTENDS Naturals, FiniteSets, Sequences, SequencesExt, TaskStates, Translation

CONSTANTS
    Owner,          \* the client that sends the message
    Subscribers,    \* clients that call SubscribeToTask
    Messages,       \* the messages that may be sent, each a sequence of parts
    Blocks,         \* the content blocks of the agent's updates
    Stops,          \* how the prompt may end
    Capacity,       \* SSE_CAPACITY
    MaxItems,       \* bound: items in the prompt stream
    None            \* "nothing"

ASSUME StreamAssumption ==
    /\ Owner \notin Subscribers
    /\ Messages \subseteq Seq(Part)
    /\ Blocks \subseteq Block
    /\ Stops \subseteq {"end_turn", "cancelled", "refused", "error", "ended"}
    /\ Capacity \in Nat \ {0}
    /\ MaxItems \in Nat
    /\ None \notin Nat

VARIABLES
    streamed,   \* the message came by SendStreamingMessage, not SendMessage
    handler,    \* where its handler stands, up to the start of the bridge
    message,    \* what the handler was sent
    content,    \* what it made of that for the agent
    task,       \* TaskRegistry: the Task's state
    parts,      \* TaskRegistry: the parts of the answer artifact
    log,        \* every frame sent on the sink; the ring holds the latest
    closed,     \* publish_final has dropped the sender
    bridge,     \* where run_session stands
    item,       \* the item of the prompt stream it is at
    items,      \* how many it has read
    stream,     \* the event stream of each client
    next,       \* Receiver: the number of the next frame a client gets
    got,        \* the frames sent down each client's stream
    behind,     \* history: clients that missed a frame the ring had dropped
    seen        \* how much of the answer a client's GetTask call returned

handlerVars == <<streamed, handler, message, content>>
bridgeVars  == <<bridge, item, items>>
sinkVars    == <<log, closed>>
clientVars  == <<stream, next, got, behind, seen>>
vars == <<handlerVars, task, parts, bridgeVars, sinkVars, clientVars>>

-----------------------------------------------------------------------------
Clients == {Owner} \union Subscribers

HandlerState == {"idle", "created", "translated", "prompted", "failed", "gone"}
BridgeState  == {"off", "reading", "starting", "announcing", "handling",
                 "publishing", "closing", "done", "error", "dropped"}
StreamState  == {"none", "open", "ended", "empty", "refused", "panicked", "gone"}

PartFrame == [kind : {"part"}, part : Part, append : BOOLEAN]
Frame == [kind : {"working"}] \union PartFrame \union [kind : {"final"}, state : Terminal]

\* The parts in a sequence of frames, in order.
PartFrames(frames) == Sift(frames, PartFrame)
PartsOf(frames) ==
    LET f == PartFrames(frames) IN [i \in DOMAIN f |-> f[i].part]

\* What the prompt stream brings: updates and, last, how the prompt ended.
Stop == [type : {"stop"}, reason : Stops]
Item == Blocks \union Stop

\* The number of the oldest frame the ring still holds.
Oldest == IF Len(log) > Capacity THEN Len(log) - Capacity + 1 ELSE 1

Init ==
    /\ streamed \in BOOLEAN
    /\ handler = "idle"
    /\ message = <<>> /\ content = <<>>
    /\ task = "absent"
    /\ parts = <<>>
    /\ log = <<>> /\ closed = FALSE
    /\ bridge = "off" /\ item = None /\ items = 0
    /\ stream = [c \in Clients |-> "none"]
    /\ next = [c \in Clients |-> 1]
    /\ got = [c \in Clients |-> {}]
    /\ behind = {}
    /\ seen = [c \in Clients |-> None]

-----------------------------------------------------------------------------
(* The handler: handle_message_send and prepare_prompt, for a new Task.    *)

HandlerMoves(from, to) ==
    /\ handler = from
    /\ handler' = to

CreateTask(m) ==
    /\ HandlerMoves("idle", "created")
    /\ message' = m
    /\ task' = "submitted"
    /\ UNCHANGED <<streamed, content, parts, bridgeVars, sinkVars, clientVars>>

\* Variant: the parts are translated and never validated.
TranslateUnvalidated ==
    /\ HandlerMoves("created", "translated")
    /\ content' = Inbound(message, {})
    /\ UNCHANGED <<streamed, message, task, parts, bridgeVars, sinkVars, clientVars>>

\* validate_parts and a2a_to_acp.  The handler passes PartCaps::default(),
\* whatever the agent is capable of.
Translate ==
    /\ HandlerMoves("created", "translated")
    /\ WithinLimit(message)
    /\ content' = Inbound(message, {})
    /\ UNCHANGED <<streamed, message, task, parts, bridgeVars, sinkVars, clientVars>>

\* A part is too large: the handler returns, its Task and the sink remain.
Refuse ==
    /\ HandlerMoves("created", "failed")
    /\ ~WithinLimit(message)
    /\ message' = <<>>
    /\ UNCHANGED <<streamed, content, task, parts, bridgeVars, sinkVars, clientVars>>

\* The client leaves while the Task's row is written, or session_prompt_blocks
\* fails: either way the Task and the sink remain.
Abandon ==
    /\ HandlerMoves("created", "gone") \/ HandlerMoves("translated", "failed")
    /\ message' = <<>> /\ content' = <<>>
    /\ UNCHANGED <<streamed, task, parts, bridgeVars, sinkVars, clientVars>>

\* The content goes to the agent and the bridge is run or spawned.
Prompt ==
    /\ HandlerMoves("translated", "prompted")
    /\ message' = <<>> /\ content' = <<>>
    /\ bridge' = "reading"
    /\ UNCHANGED <<streamed, task, parts, item, items, sinkVars, clientVars>>

-----------------------------------------------------------------------------
(* The bridge: run_session.                                                *)

BridgeMoves(from, to) ==
    /\ bridge = from
    /\ bridge' = to

\* What the registry and the sink are left as by a step of the bridge alone.
QuietStep == UNCHANGED <<handlerVars, sinkVars, clientVars>>

\* The next item of the prompt stream, or its end ("ended"), which is handled
\* without a move to working even if nothing came before it.
ReadItem(i) ==
    /\ LET first == items = 0 /\ i # [type |-> "stop", reason |-> "ended"]
       IN  BridgeMoves("reading", IF first THEN "starting" ELSE "handling")
    /\ items < MaxItems
    /\ item' = i
    /\ items' = items + 1
    /\ QuietStep
    /\ UNCHANGED <<task, parts>>

\* TaskRegistry::transition by the bridge; a refusal ends run_session.
Transition(to, then) ==
    \/ /\ IsLegal(task, to)
       /\ task' = to
       /\ bridge' = then
    \/ /\ ~IsLegal(task, to)
       /\ bridge' = "error"
       /\ UNCHANGED task

Start ==
    /\ bridge = "starting"
    /\ Transition("working", "announcing")
    /\ QuietStep
    /\ UNCHANGED <<parts, item, items>>

\* SseSink::publish: a frame sent after the sender is dropped goes nowhere.
Publish(frame) == log' = IF closed THEN log ELSE Append(log, frame)

Announce ==
    /\ BridgeMoves("announcing", "handling")
    /\ Publish([kind |-> "working"])
    /\ UNCHANGED <<handlerVars, task, parts, item, items, closed, clientVars>>

Answering == item \in Blocks /\ Outbound(<<item>>) # <<>>

\* A block that gives a part: upsert_artifact, then the event.
Record ==
    /\ BridgeMoves("handling", "publishing")
    /\ Answering
    /\ parts' = parts \o Outbound(<<item>>)
    /\ QuietStep
    /\ UNCHANGED <<task, item, items>>

\* Variant: artifact_seen is never set.
PublishPartAnew ==
    /\ BridgeMoves("publishing", "reading")
    /\ Publish([kind |-> "part", part |-> Last(parts), append |-> FALSE])
    /\ item' = None
    /\ UNCHANGED <<handlerVars, task, parts, items, closed, clientVars>>

\* The event says whether this bridge has sent a part before (artifact_seen).
PublishPart ==
    /\ BridgeMoves("publishing", "reading")
    /\ Publish([kind |-> "part", part |-> Last(parts), append |-> Len(parts) > 1])
    /\ item' = None
    /\ UNCHANGED <<handlerVars, task, parts, items, closed, clientVars>>

\* A block of an unknown kind, or an update that carries no answer.
Ignore ==
    /\ BridgeMoves("handling", "reading")
    /\ item \notin Stop
    /\ ~Answering
    /\ item' = None
    /\ QuietStep
    /\ UNCHANGED <<task, parts, items>>

\* Variant: the final frame goes out before the registry has moved.
ConcludeLate ==
    /\ bridge = "handling"
    /\ item \in Stop
    /\ bridge' = "closing"
    /\ QuietStep
    /\ UNCHANGED <<task, parts, item, items>>

\* publish_terminal_for_stop and publish_failed, first half.
Conclude ==
    /\ bridge = "handling"
    /\ item \in Stop
    /\ Transition(FinalState(item.reason), "closing")
    /\ QuietStep
    /\ UNCHANGED <<parts, item, items>>

\* publish_final: the final frame and the drop of the sender, under one lock.
PublishFinal ==
    /\ BridgeMoves("closing", "done")
    /\ Publish([kind |-> "final", state |-> FinalState(item.reason)])
    /\ closed' = TRUE
    /\ UNCHANGED <<handlerVars, task, parts, item, items, clientVars>>

\* The client of a SendMessage call leaves: the bridge is dropped with it, where
\* it waits for an item or for the row of a transition.
DropBridge ==
    /\ ~streamed
    /\ bridge \in {"reading", "announcing", "closing"}
    /\ bridge' = "dropped"
    /\ QuietStep
    /\ UNCHANGED <<task, parts, item, items>>

-----------------------------------------------------------------------------
(* The clients.                                                            *)

\* TaskRegistry::cancel, by any client.  The sink is not told.
CancelTask ==
    /\ task \in TaskState \ Terminal
    /\ task' = "canceled"
    /\ QuietStep
    /\ UNCHANGED <<parts, bridgeVars>>

StreamMoves(c, from, to) ==
    /\ stream[c] = from
    /\ stream' = [stream EXCEPT ![c] = to]

\* SseSink::subscribe: frames sent from now on.
Joins(c) == next' = [next EXCEPT ![c] = Len(log) + 1]

\* handle_message_stream subscribes once it has spawned the bridge, and panics
\* if that has closed the sink already.
OwnerSubscribes ==
    /\ streamed
    /\ handler = "prompted"
    /\ StreamMoves(Owner, "none", IF closed THEN "panicked" ELSE "open")
    /\ Joins(Owner)
    /\ UNCHANGED <<handlerVars, task, parts, bridgeVars, sinkVars, got, behind, seen>>

\* handle_subscribe_to_task: an error for an unknown Task, an empty body if
\* the sink is closed.
SubscribeToTask(c) ==
    /\ StreamMoves(c, "none", IF task = "absent" THEN "refused"
                              ELSE IF closed THEN "empty" ELSE "open")
    /\ Joins(c)
    /\ UNCHANGED <<handlerVars, task, parts, bridgeVars, sinkVars, got, behind, seen>>

\* Variant: a receiver that lags is not moved on.
ReceiveStuck(c) ==
    /\ stream[c] = "open"
    /\ next[c] \in Oldest .. Len(log)
    /\ next' = [next EXCEPT ![c] = @ + 1]
    /\ got' = [got EXCEPT ![c] = @ \union {next[c]}]
    /\ UNCHANGED <<handlerVars, task, parts, bridgeVars, sinkVars, stream, behind, seen>>

\* The receiver yields the next frame.  If the ring no longer has it, the
\* receiver is moved to the oldest frame and yields Lagged, which the
\* handler's filter_map skips as it skips every error.
Receive(c) ==
    /\ stream[c] = "open"
    /\ next[c] <= Len(log)
    /\ IF next[c] < Oldest
       THEN /\ next' = [next EXCEPT ![c] = Oldest]
            /\ behind' = behind \union {c}
            /\ UNCHANGED got
       ELSE /\ next' = [next EXCEPT ![c] = @ + 1]
            /\ got' = [got EXCEPT ![c] = @ \union {next[c]}]
            /\ UNCHANGED behind
    /\ UNCHANGED <<handlerVars, task, parts, bridgeVars, sinkVars, stream, seen>>

\* Variant: the body ends when the sink is closed, whatever the ring holds.
EndOfStreamAtOnce(c) ==
    /\ closed
    /\ StreamMoves(c, "open", "ended")
    /\ UNCHANGED <<handlerVars, task, parts, bridgeVars, sinkVars, next, got, behind, seen>>

\* Closed, and nothing left in the ring: the body ends.
EndOfStream(c) ==
    /\ closed
    /\ next[c] > Len(log)
    /\ StreamMoves(c, "open", "ended")
    /\ UNCHANGED <<handlerVars, task, parts, bridgeVars, sinkVars, next, got, behind, seen>>

Leave(c) ==
    /\ StreamMoves(c, "open", "gone")
    /\ UNCHANGED <<handlerVars, task, parts, bridgeVars, sinkVars, next, got, behind, seen>>

\* A client that has subscribed calls GetTask.
GetTask(c) ==
    /\ stream[c] = "open"
    /\ seen[c] = None
    /\ seen' = [seen EXCEPT ![c] = Len(parts)]
    /\ UNCHANGED <<handlerVars, task, parts, bridgeVars, sinkVars, stream, next, got, behind>>

-----------------------------------------------------------------------------
Handle ==
    \/ \E m \in Messages : CreateTask(m)
    \/ Translate \/ Refuse \/ Abandon \/ Prompt

Bridge ==
    \/ \E i \in Item : ReadItem(i)
    \/ Start \/ Announce
    \/ Record \/ PublishPart \/ Ignore
    \/ Conclude \/ PublishFinal
    \/ DropBridge

Watch(c) == Receive(c) \/ EndOfStream(c)

Next ==
    \/ Handle
    \/ Bridge
    \/ CancelTask
    \/ OwnerSubscribes
    \/ \E c \in Subscribers : SubscribeToTask(c)
    \/ \E c \in Clients : Watch(c) \/ Leave(c) \/ GetTask(c)

Spec == Init /\ [][Next]_vars

\* The server polls the body of every open response.
FairSpec == Spec /\ \A c \in Clients : WF_vars(Watch(c))

-----------------------------------------------------------------------------
TypeOK ==
    /\ streamed \in BOOLEAN
    /\ handler \in HandlerState
    /\ message \in Messages \union {<<>>}
    /\ content \in Seq(Block)
    /\ task \in TaskState \union {"absent"}
    /\ parts \in Seq(Part)
    /\ log \in Seq(Frame)
    /\ closed \in BOOLEAN
    /\ bridge \in BridgeState
    /\ item \in Item \union {None}
    /\ items \in 0 .. MaxItems
    /\ stream \in [Clients -> StreamState]
    /\ next \in [Clients -> Nat \ {0}]
    /\ got \in [Clients -> SUBSET (DOMAIN log)]
    /\ behind \subseteq Clients
    /\ seen \in [Clients -> Nat \union {None}]

\* The agent is prompted with the parts of the message it can take, all of
\* them, in order, and with nothing beyond the size limit.  As the handler
\* grants no capability those are the texts and the files by address alone
\* (validate_parts and a2a_to_acp, read back by acp_to_a2a).
PromptCarriesMessage ==
    handler = "translated" =>
        /\ Outbound(content) =
               Sift(message, {p \in Part : p.type = "text" \/ (HasUrl(p) /\ ~HasRaw(p))})
        /\ \A i \in DOMAIN content : content[i].payload = "small"

\* What a stream tells a client the registry knows already, so that GetTask
\* never answers with less than the client was told: the bridge records a
\* part, or a transition, before it publishes it.
FramesFollowRegistry ==
    /\ IsPrefix(PartsOf(log), parts)
    /\ \A i \in DOMAIN log :
          /\ log[i].kind = "working" => task # "submitted"
          /\ log[i].kind = "final" => task = log[i].state

\* A stream that ends by itself has delivered the final frame, however far
\* its client fell behind: publish_final leaves the frame in the ring.
FinalNotLost ==
    \A c \in Clients :
        stream[c] = "ended" => Len(log) \in got[c] /\ Last(log).kind = "final"

Received(c) == LET n == Cardinality(got[c]) IN SubSeq(log, Len(log) - n + 1, Len(log))

\* What a client makes of frames that say append or not, starting from nothing.
Rebuilt(frames) ==
    LET f == PartFrames(frames)
        starts == {i \in DOMAIN f : ~f[i].append}
    IN  IF f = <<>> THEN <<>>
        ELSE PartsOf(SubSeq(f, CHOOSE i \in starts : \A j \in starts : j <= i, Len(f)))

\* A client that did not fall behind can put the answer together: from its
\* stream alone if it had all of it, and else from a GetTask call made after
\* it subscribed, which leaves out nothing that its stream does not bring.
AnswerIsRebuilt ==
    \A c \in Clients :
        stream[c] = "ended" /\ c \notin behind =>
            /\ got[c] = DOMAIN log => Rebuilt(log) = parts
            /\ seen[c] # None =>
                  IsSuffix(SubSeq(parts, seen[c] + 1, Len(parts)), PartsOf(Received(c)))

\* Once the sink is closed every stream of the Task ends, also one that lags.
ClosedStreamsEnd ==
    \A c \in Clients : (closed /\ stream[c] = "open") ~> (stream[c] # "open")
=============================================================================
