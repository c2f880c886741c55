# A2A-Shim in TLA+

A2A-Shim connects two agent protocols. The **Serve Shim** exposes an agent that
speaks ACP over stdio as an A2A server over HTTP; the **Client Shim** offers a
remote A2A agent to an MCP Host as the tool `a2a_send`. This directory holds
TLA+ models of both, the TLC runs that check them, and TLAPS proofs of every
safety property those runs check. Paths below are relative to `src/crates/`; the exact
lines behind every definition are listed in `PROJECT.json` under `map`.

## 1. The system

### Components, their state and operations

| Component | State | Operations | What makes it correct | Model |
|---|---|---|---|---|
| Task registry (`a2a-shim-serve/src/task_registry.rs`) | Tasks with state, history, artifacts and an SSE sink, under one `RwLock` | create, transition, accept_continuation, cancel, snapshot, upsert_artifact, list | Tasks follow the state graph; nothing leaves a terminal state | `TaskStates`, `TaskLifecycle`, `PromptPipeline`, `SseStream` (artifacts), `TaskRows` (rows, pages) |
| Handlers of SendMessage, SendStreamingMessage, CancelTask (`http.rs`) | what they hold while they await: a permit, a stream, a Task id | admission, creation or continuation, validation, prompt, bridge, answer; a dropped connection drops the handler | every path gives back the permit; every admitted request is answered | `PromptPipeline` |
| Bridge (`bridge.rs`) | its position in the prompt stream | first item, update, stop, end of stream | registry and stream agree; it ends with its prompt | `PromptPipeline`, `SseStream` |
| ACP client (`acp_client.rs`) | a command queue, the route table from session to stream, the connection | prompt, cancel, session/new, session/load, agent updates, end of connection | updates reach the turn they belong to | `PromptPipeline` (session/new in `Conversations`) |
| Conversation map (`conversation.rs`) | key to conversation, under one `RwLock`; a guard and a time of last use for each | get_or_create, acquire_in_flight, sweep_idle, remove, insert_loaded | one session per conversation, H1, capacity | `Conversations` |
| Reset and idle reaper (`http.rs`, `run.rs`) | the keys they are about to drop | lookup, cancel, delete the row, remove the entry | they clear what they meant to clear | `Conversations`, `TaskRows` (the Tasks a reset cancels) |
| Persistence and recovery (`persistence/`) | tables of conversations, Tasks, push configs | insert, delete, list, bootstrap | rows describe the map; recovery restores it | `Conversations` (conversation rows), `TaskRows` (Task rows), `PushDelivery` (config rows) |
| SSE sink and event streams (`sse_sink.rs`, `http.rs`) | a broadcast ring, or nothing once closed; a position in it per stream | subscribe, publish, publish_final, receive, lag, end | a stream ends, with the final frame; with GetTask it gives the whole answer | `SseStream`, `PromptPipeline` |
| GetTask, ListTasks (`http.rs`) | none; a cursor at the client | read a snapshot, read a page | agree with the stream; pages miss nothing | `SseStream`, `TaskRows` |
| Translation (`translate.rs`) | none | A2A parts to ACP blocks and back, size limit | order and contents survive, the limit holds | `Translation`, `SseStream` |
| Push configs and delivery (`push_delivery.rs`) | configs in memory and in the database, failure counts, a job queue, 8 workers | insert, get, delete, enqueue, deliver with retries | acknowledged configs are found, deleted ones are not; every job ends | `PushDelivery` |
| Client Shim (`a2a-shim-client/src/`) | the stdin loop, one task per call, the cancellation registry, heartbeats, one writer | read, spawn, register, connect, pump, cancel, beat, answer, write | every call is answered once; cancellation reaches it; the process ends at EOF | `ClientCall` |
| Permission policy, elicitation, rendering, configuration, agent card, metrics, logging | none, or constant | conversions and reads | functions of their input | not modelled (see section 5) |

### How they interact

An HTTP request finds its conversation in the map (creating an ACP session under
the map's write lock if there is none), takes the in-flight guard, creates a
Task, sends a prompt command to the ACP driver and pumps the stream registered
in the route table into the registry and the Task's sink. SendMessage runs the
bridge inside the handler, so a client that leaves drops both; SendStreamingMessage
spawns the bridge, which takes the guard along, and the handler renders the sink. The driver
executes one command at a time. CancelTask and the reset go to the registry
and the driver side by side with the bridge. The Client Shim's loop, its calls
and their heartbeats share nothing but the cancellation registry and the frame channel.

### What is hard

* Steps of handlers, bridge, driver and agent interleave on a multi-threaded runtime; several
  pieces of state that belong together (registry and sink, route and prompt, entry and row,
  registration and call) change one after the other.
* A handler can be dropped at every `.await`, in the middle of a turn or with a lock held.
* The key of a route, an entry, a row or a token outlives the object it was meant for.
* Database writes run on a blocking pool, late, in any order, also after their caller is gone; a
  crash loses those not yet run.
* Capacity, idle windows, deadlines and heartbeats end things while they are in use.

Every such place is listed with its line in `PROJECT.json` under `hazards`, with the properties
that would notice it going wrong, or a note if none does yet.

## 2. Modules

| Module | What it is |
|---|---|
| `TaskStates` | The states of a Task, terminal states, and the legal arrows of `is_legal`. |
| `TaskLifecycle` | Abstract specification: every Task moves along the arrows, and that is all. |
| `PromptPipeline` | Turns of any number of conversations: `handler` (where the HTTP handler stands), `in_flight` (guard), `task`, `answer`, `sink` (registry and sink), `bridge`, `verdict`, `chan` (prompt stream), route table, driver queue, agent. One action per stretch of code between two points another thread can observe. |
| `Conversations` | `map`, its `writer` lock, `guard`, the requests up to and through their turn, reset, sweep, `rows` and pending `jobs`, crash and recovery. A Conversation object is named by its session. |
| `PushDelivery` | The `call`s that create and delete configs, the `lists` in memory, the `rows`, pending `writes`, the job `queue`, each `worker` with its `job` and `attempt`, and the `failures` counted. |
| `Translation` | Parts, content blocks, and what is made of one in the other protocol (`translate.rs`); no state. |
| `Sifting` | `Sift(s, S)`, the elements of `s` that are in `S` in their order: the filtering loops of `translate.rs`, and what properties say about kinds of frames and updates. A recursive function rather than `SelectSeq`, so that proofs can speak of it. |
| `SseStream` | One Task as its watchers see it: the handler up to the prompt (`message`, `content`), the bridge with its steps between registry (`task`, `parts`) and sink (`log`, `closed`), and each client's `stream`, its position `next`, the frames it `got`, and what GetTask showed it (`seen`). |
| `TaskRows` | `task` and `order` of the registry, each Task's `owner` (handler and bridge), `rows` and pending `writes`, a client's `walk` through ListTasks, and a `reset` with the Tasks it has `todo`. |
| `ClientCall` | The Client Shim: `stdin`, `loop`, `call`, `registry`, `token`, heartbeats (`beat`, `quiet`), frame channel and `writer`. |
| `...Proofs` | TLAPS proofs about the module of that name. `PromptAnswerProofs` goes on where `PromptPipelineProofs` ends, with the way of an answer from the driver into the Task. |
| `MC...` | Instances for TLC. |

Operators whose comment begins with "Variant:" are the mistakes that `mutants` in `PROJECT.json` swaps
in, to show that each property can fail; no specification uses them otherwise.

### Correspondence and abstractions

* `PromptPipeline` and `Conversations` share the guard. `PromptPipeline` takes the conversations as
  given and models the turn in full; `Conversations` reduces the turn to "serving" and
  models where the conversation comes from and goes to. A Task carries the name of the
  request that created it.
* A drop of a handler (`Disconnect`, `CancelDisconnect`, `ResetDisconnect`) is allowed where the code
  awaits, never between two synchronous statements.
* `RwLock`: the only lock held across an await is the map's write lock during session/new
  (`writer`); every other critical section is one step.
* A database write is a job in `jobs`. It runs any time later (`RunJob`), fails (`JobFails`), or is lost in a
  crash; callers wait until theirs is gone. The process starts with any rows of earlier lives. The order in which a pool runs two jobs is free.
  Insertion of the entry and the request for its row are one step: the other threads could tell
  them apart only by a row that is missing for a moment longer.
* `Ages` stands for the passing of time since the last hit. Acquiring the guard does not
  renew it, as in the code.
* `select!` between a heartbeat's sleep and its guard may take either branch when both are ready.
* In `PushDelivery` a config is named by the call that creates it, which fixes its id and Task. A
  write is pending in `writes` until it runs or fails. `ForgetTask` stands for the cascade
  that takes a config's row along when its Task's conversation is swept, reset, replaced or not loaded again.
  The queue is a set: with several workers the order of jobs is not fixed anyway. Waiting between attempts
  is the worker staying where it is. Persistence is taken to be enabled.
* In `PromptPipeline` texts, parts and ids are left out, apart from which turn a chunk of an answer came from.
  `SseStream` has the parts, and splits what is one step of the bridge there into the change of the registry and the
  frame on the sink; the agent's side of the prompt is any sequence of items. `TaskRows` reduces the
  bridge to its transitions and adds their rows. All three take Task states and arrows from `TaskStates`.
* `log` in `SseStream` keeps every frame, for the properties; a receiver is served only from its last `Capacity`
  frames (`Oldest`). A receiver that has fallen behind is moved on and skips `Lagged`, as the `filter_map`s do.
* In `Translation` a payload is "small" or "large", on either side of `max_part_bytes`, and an embedded text does or does
  not parse as JSON. The handlers pass `PartCaps::default()`, so `Inbound` is used with no capabilities.
* In `TaskRows` where a conversation's row comes from and goes to is arbitrary (`InsertConversation`,
  `DeleteConversation`); replacing it also takes the rows of its Tasks along, as `INSERT OR REPLACE` does.
* The agent sends updates in the turn of a prompt (`AgentUpdate`) and outside of any turn (`AgentSpeaksUnasked`): unsolicited,
  ahead of a prompt, or after its stop. The callback knows only their session, and `Routed` puts both on the stream its route names.
  `turn` in an item says what the agent sent it in, which the code cannot see; an update that comes after its prompt has ended counts as
  one of no turn. `strays` counts those.
* `unsure` in `TaskRows`, `behind` in `SseStream`, `lapsed` and `unsure` in `Conversations` and the like are history: nothing is
  decided by them, and they only say what a property exempts.

## 3. Runs

| Run | Instance and bounds | Shows |
|---|---|---|
| `pipeline_safety` | one conversation, a SendMessage, a SendStreamingMessage and a CancelTask call, clients leave, the agent dies, at most 2 updates a turn and 1 outside of any turn, stop reasons end_turn, cancelled and error | types, permit ownership, H1, final frame against registry, route hygiene, own answers, bridge errors only after a cancel, first turn loses nothing, refinement of `TaskLifecycle` |
| `pipeline_liveness` | the same with 1 update a turn, of two kinds, stop reasons end_turn and error, without deaths and without updates outside of turns | CancelTask calls answered, and requests too but for streaming ones whose turn is over before they subscribe; permits given back, streams closed |
| `conversations` | 2 requests and a reset of one conversation, a request with mode=continue of another; room for 1, two sessions, any rows at the start, one restart | capacity, mode=continue, no leaked lock, one creation, guarded turns, rows name the session in use |
| `push_delivery` | 3 configs of one id, two for one Task and one for another, a deletion, 2 workers, 2 attempts, deletion after 2 rejections, one restart | acknowledged configs found, deleted ones gone, jobs decided |
| `sse_stream` | one Task; messages of one part of each kind and of such a part before a text; at most 3 items in the prompt's stream, of a text, an unknown block and two ways to end; a ring of 2 frames; the sender's stream and one subscriber | what the agent is prompted with, frames never ahead of the registry, no stream ends without the final frame, the answer can be put together, closed streams end |
| `task_rows` | 2 Tasks of one conversation, ended by completed or canceled; pages of at most 2 and by default 1; one reset, one restart | rows agree with Tasks, pages miss and repeat nothing, a reset leaves no Task of its page running |
| `client_calls` | 2 calls, one with a heartbeat of at most 2 frames and a possible cancel, one other request | no lost answer, exact registry, heartbeats end, calls answered, loop ends |

Two requests are the least that compete for a guard, a route or a row: one turn can be in the old conversation
and the other in the new. The third request of `conversations` finds its conversation among the rows of an earlier life, or not; the rows
may be two, more than there is room for. With two sessions a conversation can be replaced once. Two updates per turn tell a turn that lost
one from a turn that had none, and an own update from another turn's. One restart reaches every recovery state, since
recovery depends on the rows alone. One update outside of any turn shows where such updates go. Two configs for one Task and one for another, all of one id, replace
each other in a list and share one row; two rejections reach the threshold from two jobs. Two progress frames tell one late frame
from a heartbeat that does not stop. A prompt of three items sends up to four frames, twice what the ring of `sse_stream` holds, so
that a reader can lag once and again (the code's ring holds 256); two parts tell one that is appended from one that is not.
Two Tasks are enough for a page to end between them and for a reset to find one and have one created behind it; the page sizes 1 and 2
stand for 50 and 1000, and a limit of 3 is beyond them. The proofs do not depend on any of these bounds except by name.

Runs that show a disagreement between the code and what it says of itself:

| Run | The code says | TLC shows |
|---|---|---|
| `pipeline_bridge_contract` | `run_session` always leaves the sink closed | not when CancelTask moves the Task before the first item |
| `pipeline_route_race` | routes are registered first so that no update is dropped | the clean-up after one turn removes the next turn's route |
| `pipeline_stream_panics` | the sink is open when `message/stream` subscribes | a turn over before that closes it: the handler panics and sends nothing |
| `pipeline_cancel_blocked` | CancelTask notifies the agent | the notification waits behind the prompt it should cancel |
| `conversations_swept_turn` | one prompt in flight per conversation | a sweep ignores the guard of a running turn |

`conversations_swept_turn` needs a turn longer than `idle_secs`; the others need only timing.

### What the code does not promise, and the properties therefore leave out

* `EveryRequestAnswered` exempts a streaming request whose bridge has closed the sink before the handler subscribes: it gets no answer
  (`pipeline_stream_panics`).
* `AnswerIsOwn` says that updates of another turn stay out of an answer, if no bridge of the session was cut short. Updates the agent sends
  outside of any turn are merged into the answer of the turn that is then routed; nothing in the code keeps them out, and the property does not say so.
* `OneTurnPerKey` and `TurnIsGuarded` speak of turns that run on the conversation the map has for their key (`Current`). Removal under a
  running turn breaks H1 for the key, as `conversations_swept_turn` shows; what is created afterwards is held to both properties again.
* `ContinueKeepsContext` exempts a `mode=continue` request only if its conversation was removed between the check of its
  mode and its lookup (`lapsed`): the code then starts a new one.
* `RowNamesSession` exempts a conversation one of whose writes failed, because the code logs and goes on; one created while writes of the
  key's former conversation were pending, since the pool may run them in either order; and one whose row was deleted under it, by a
  reset or by a sweep. A sweep gives up the lock before it deletes rows, by key, and may so take the row of a conversation created in
  between, although `conversation.rs:195` has rows removed in lockstep. The exemption ends when the key is created anew in peace.
* `RowFollowsTask` exempts Tasks one of whose writes failed, whose conversation's row was deleted or replaced, and those
  canceled while the bridge's write was still to run: the writes can then land in either order, and
  the row of a canceled Task may say "working" for ever. What it promises without exemption is that a row which names an
  end names the right one. No code reads Task rows back: GetTask of a Task of before a restart,
  of which `src/docs/adr/0007-persistence-sqlite.md:134` speaks, answers "not found".
* `ListingComplete` exempts Tasks that a restart has lost. A cursor of before it ends the walk without an error.
* `ResetEndsTasks` speaks of the first page only. No Task ever leaves the registry, so a shim that has seen more than 1000
  Tasks cancels none of the later ones, although a reset is to cancel every Task of its conversation (`http.rs:1108`).
* A subscriber that lags misses frames without notice and its stream goes on (`AnswerIsRebuilt` exempts it), although
  `http.rs:648` and `sse_sink.rs:42` have the stream end; and one that comes late gets none of the frames sent before,
  although `sse_sink.rs:51` says it does. A GetTask made after subscribing closes the gap, but may show a part that the stream then brings again.
* Only the bridge closes a sink. `ClosedStreamsEnd` says nothing of Tasks that were canceled, refused or
  abandoned: their streams stay open until their clients leave.
* A message whose parts are all dropped still prompts the agent, with nothing. Embedded text becomes data
  whenever it parses as JSON, whatever its media type (the comment at `translate.rs:206` asks for application/json).
* `AcknowledgedIsFound` speaks of ids, as Get does: a config that replaced another of its id, or shares the id with another Task's, counts as
  that one found. It leaves out ids whose deletion anybody started and Tasks whose conversation's row is gone;
  `DeletedIsGone` leaves out deletions that a creation of the id overlapped. Configs are not listed or delivered to after
  a restart, although `src/docs/adr/0008-push-notifications-delivery.md:150` has them re-installed.
* `RegistryExact` guarantees reachability only for ids nobody else uses, and only once the spawned call has registered: a
  cancellation read before that is dropped, and the call goes on (`cancellation.rs:3` has the loop register the token).
* When the agent dies, the route table, which `AcpClient` keeps, holds the senders of the streams that were open:
  their bridges, requests and permits wait for ever, although `acp_client.rs:193` has them see their senders dropped.
  `pipeline_liveness` therefore assumes an agent that stays alive.

### Fairness

`pipeline_liveness` assumes that the runtime polls every task that can proceed (handlers, bridges, driver), and
that the agent ends its prompts. The clients, their disconnects, and CancelTask calls are not
assumed to act. The agent must stay alive.
`client_calls` assumes that tasks are polled, and that a remote that accepted a connection sends
headers or closes it. No deadline in the code enforces that last assumption.
The end of a stream needs no help from the remote: the idle window and the ceiling end it.
The Host and its cancellations are not assumed to act.
`push_delivery` assumes that workers and their writes are scheduled and that each request to a webhook ends, which
the timeouts of the HTTP client see to. It assumes nothing of what the webhook answers.
`sse_stream` assumes that the server polls the body of every open response, each by itself; it assumes nothing of bridge, agent and clients.
`conversations` and `task_rows` check safety only and assume nothing.

## 4. Proofs

The theorems hold for every value of the constants: any sets of requests, sessions, keys, calls,
clients, Tasks, any capacity, any number of crashes. They use the `ASSUME` of each module and nothing
else; TLC evaluates these in every run. Each safety property is proved by an inductive invariant, and
each proof that a step preserves it goes through the actions one by one.

| Module | Theorem | Says |
|---|---|---|
| `PromptPipelineProofs` | `TypeCorrect` | `TypeOK` |
| | `HandlersKeepStep` | where a bridge stands follows from where its handler stands |
| | `PermitsOwned` | the guard of a conversation is held exactly by the request served in it |
| | `OnePump` | H1: one bridge pumps per session |
| | `FinalFramesAgree` | the final frame of a closed sink is the registry's state |
| | `LifecycleImplemented` | `PromptPipeline` implements `TaskLifecycle` |
| | `NoRouteIsStale` | while the driver lives, routes name only prompts queued or running |
| `PromptAnswerProofs` | `PromptsAskedOnce`, `StreamsOrdered` | the invariants `AskedOnce` and `StreamsInOrder` (below) |
| | `AnswersOwn` | `AnswerIsOwn` |
| | `BridgeErrorsExplained` | `BridgeErrorExplained` |
| | `FirstTurnComplete` | `FirstTurnLosesNothing` |
| `ConversationsProofs` | `TypeCorrect`, `LockKept`, `EntriesStay`, `CapacityHolds` | `TypeOK`, `LockNotLeaked`, `EntryNeverReplaced`, `CapacityKept` |
| | `TurnsGuarded`, `OneTurn` | `TurnIsGuarded`, `OneTurnPerKey` |
| | `ContextKept`, `RowsKept` | `ContinueKeepsContext`, `RowNamesSession` |
| `SseStreamProofs` | `TypeCorrect`, `FinalReaches` | `TypeOK`, `FinalNotLost` |
| | `AnswerIsTold`, `FramesFollow` | the frames bring the recorded parts; `FramesFollowRegistry` |
| | `MessageCarried`, `PromptCarries` | what becomes of any message within the limit; `PromptCarriesMessage` |
| | `AnswerCanBeRebuilt` | `AnswerIsRebuilt` |
| `TaskRowsProofs` | `TypeCorrect`, `RowsFollow` | `TypeOK`, `RowFollowsTask` |
| | `ListingIsComplete`, `ResetEnds` | `ListingComplete`, `ResetEndsTasks` |
| `PushDeliveryProofs` | `TypeCorrect`, `DeletionsHold`, `CreationsHold` | `TypeOK`, `DeletedIsGone`, `AcknowledgedIsFound` |
| `ClientCallProofs` | `TypeCorrect`, `LateBeatsBounded` | `TypeOK`, `AtMostOneLateBeat` |
| | `RegistryIsExact`, `AnswersKept` | `RegistryExact`, `NoAnswerLost` |

**PromptPipeline.** `TypeOK` is inductive by itself. `PermitOwned` is not: a step of
a bridge can free a permit, and only `HandlerBridge` (a bridge runs only beside or inside a handler in
the right state) says whose. `OnePump` follows from `PermitOwned`, since a pumping bridge means a
served request. `FinalFrameAgrees` needs that a bridge about to publish a verdict has moved the Task to
it, and that the verdict is terminal, so that no cancel can slip in between. `NoRouteIsStale` ties
each route to the command queue and the prompt being executed.

**The way of an answer** (`PromptAnswerProofs`). `AskedOnce`: a prompt is queued at most once and never again once
the agent works on it. `StreamsInOrder` builds on it: a prompt that is asked and not ended has no stop item on its
stream and a bridge that reads on, unless that was cut short; only updates of no turn can follow a stop item; a stream nobody reads is empty. Then
`TurnsAreOwn`, which strengthens `AnswerIsOwn` by what still waits on a stream: an update is delivered by session, and while no bridge of the
session was cut short, `OnePumpPerSession` leaves only one stream an update of a turn can reach, that of the turn the agent is
working on. `BridgeFindsTask` says in which state a bridge finds its Task
unless somebody canceled it, and that a bridge waits in vain only if the driver is gone; `BridgeErrorExplained` is what follows
when the driver's last step is added. `FirstTurnTallied` counts: the chunks the agent has sent in the turn are those of the turn in the answer and on the stream, whatever else is there.

**Sifting.** `SiftingProofs` proves by induction what `Sift` does with `Append`, `Tail` and concatenation. The induction theorems of the library
cannot be used (they take an operator), so the induction is spelled out: a property that fails for some number
fails for a least one (`LeastNumber`, from `WFMin`: `<` on the naturals is well-founded), and is proved for that number from the one before.

**Conversations.** `Quiet` says that between a crash and the moment the shim listens nothing runs:
without it a late job or request could meet the entries that recovery puts back. `LockNotLeaked`
gives that one request spawns at a time, and with it `SpawnFree`: a session is spawned, or loaded, only
where there is no entry; so no entry is ever replaced, and `RoomKept` counts the spawner's key along
with the entries. (The keys in use are finitely many at every moment; that the set of all keys is
finite is not assumed.) `SessionsUsed` says that every session in memory, in a row or in a pending write was handed out before, so that
a new conversation's session is held by no request. `TurnIsGuarded` is then inductive: an entry that is removed never comes back under a
request that holds it, and what the second lookup of `acquire_in_flight` finds is the session the guard is taken of. Two
turns of one key on the entry in the map would have to hold one guard, which gives `OneTurnPerKey`. `Continued`
follows a request that wants to continue from its check, where the entry is there, to its lookup: the entry is gone only if `lapsed` says so.
`RowNamesSession` rests on `JobsCurrent`, the pending writes of a key that is not `unsure` all write the session in use,
so that their order does not matter, and on `RowsCurrent`: its row is right, or a write is pending.

**SseStream.** A client that watches when the sink is closed has the final frame before it
(`LastFrameDue`), the ring holds the last frame whatever its capacity, and the stream does not end before
it is taken; what frames contain plays no part in that. `InStep` says where handler, bridge, registry and sink can stand together,
`FramesTrue` and `ContentTrue` that a frame names a state the Task has reached and the content is what translation made of the
message. `AnswerTold` ties sink and registry: the parts in the frames are the recorded parts, but for the one a bridge has recorded and
is about to publish, and all but the first append. `FramesFollowRegistry` follows. `StreamBrings` says that a client that
keeps up was sent one stretch of the frames, up to its position, and that the answer its GetTask call
got has the parts of all frames before that stretch; with `AnswerTold` and lemmas about where the parts of a stretch begin, that gives `AnswerIsRebuilt`.
`MessageCarried` needs no state: for a message of any length and any mix of parts, translation, limit and order.

**TaskRows.** `WritesTrue`: a pending write that ends its Task says how the Task did end, since no arrow
leaves a terminal state; and a Task whose row is not in doubt has no pending write that says anything
but its state, since its owner waits for each write (`OwnerWaits`) and others only cancel. `OrderIs`: the order holds
each Task the registry knows, once; so a Task's position never changes while the process lives, since the order grows at its end
only. `WalkIs` then says that a client has seen the order up to the Task its cursor names, or that a restart has lost all it knew
of. `ResetIs`: a Task the reset should cancel and that still runs is to be canceled, or stands
behind the page it looked at; that one is needed because the property leaves such Tasks out only by their position.

**PushDelivery.** `Cleaning` follows a deletion that no creation overlaps: the row first, then the
entries, and nothing that could bring them back. `Stored` follows a creation: the row is there before
the call returns, and only a deletion of that id, or the loss of a Task that shares it, removes it.

**ClientCall.** A request is in stdin once (`Requested`), which keeps the loop from reading it again.
`Beats` ties heartbeat and call: the guard is dropped before the answer, so a heartbeat that is due then
sends one frame and stops. `Drained`, `RequestKept` and `AnswerKept` follow a request from stdin to
stdout: the writer ends only when no call holds a sender, and the loop returns only when the writer has ended.

### Only model-checked

Liveness, which is out of the prover's reach: `EveryRequestAnswered`, `PermitsReturned` and `StreamsClose` of the pipeline,
`ClosedStreamsEnd` of `SseStream`, `EveryJobDecided` of `PushDelivery`, `EveryCallAnswered` and `LoopEnds` of `ClientCall`.
Of the translation, what becomes of the agent's blocks is checked only for those the run names; the theorem about messages says
what becomes of text and links on their way back. The mutants also stay with TLC: that a property can fail is shown on the instance.

## 5. Not modelled

* The permission policy and the translation of elicitations (`permission.rs`, `elicitation.rs`) are not called by the running shim;
  neither are `SseSink::start_keepalive`, `TaskRegistry::push_history`, `Persistence::touch_conversation` and
  `Persistence::list_tasks_for_conversation`.
* Nothing moves a Task to input-required, so a continuation is always refused; `RejectContinuation` is what is left of it.
* Rendering, tool schema, agent card, metrics, logging and the wire types carry no state.
* Configuration is parsed once; its values are constants here. The clocks of timeouts and idle windows are steps that may
  happen at any time, and waits between attempts have any length.
* Graceful shutdown is treated as a crash, which it can only be better than. `initialize` is sent once, before the server
  listens.
* The programs under `verify/` and `verify-v1.1/` try out the ACP library and are not part of the shim.

## 6. Plan

Done, in this order: `TaskStates` and `TaskLifecycle`; `PromptPipeline`, its runs and proofs;
`Conversations`; `ClientCall`; `PushDelivery`; `Translation` and `SseStream`; `TaskRows`.

The proofs followed, for each of these modules.

Next:

1. The hazards in `PROJECT.json` that have a note and no property, above all those of push delivery (`push_delivery.rs:82`, `:301`), as far as a statement about them can be true.
2. What ties the modules together and is only argued here: that `SseStream`, with registry and sink in one step, and the turn of
   `Conversations` implement what `PromptPipeline` has of them.
3. Lemmas on `PartOf` for all blocks, so that the outbound direction is proved for any answer.
