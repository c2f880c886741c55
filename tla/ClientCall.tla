----------------------------- MODULE ClientCall -----------------------------
(***************************************************************************)
(* The Client Shim: the MCP loop that reads the Host's requests from       *)
(* stdin, the task spawned for every a2a_send call, the registry through   *)
(* which notifications/cancelled finds a call, the heartbeat that reports  *)
(* progress while a call runs, and the single writer that drains the       *)
(* frames of all of them to stdout.                                        *)
(*                                                                         *)
(* The loop keeps one sender of the frame channel, and so do every spawned *)
(* call and every heartbeat; the writer ends when the last sender is gone  *)
(* and the channel is empty.  Contents of frames are left out.             *)
(***************************************************************************)
EXTENDS Naturals, Sequences

CONSTANTS
    Calls,          \* requests of the Host
    Sends,          \* the requests that are tools/call of a2a_send
    Reporting,      \* the calls with a progressToken
    Cancelable,     \* bound: the calls the Host may change its mind about
    Ids,            \* JSON-RPC request ids
    IdOf,           \* the id of a request
    MaxBeats,       \* bound: progress frames of one heartbeat
    NoCall          \* "no call"

ASSUME ClientAssumption ==
    /\ Sends \subseteq Calls
    /\ Reporting \subseteq Sends
    /\ Cancelable \subseteq Sends
    /\ IdOf \in [Calls -> Ids]
    /\ MaxBeats \in Nat
    /\ NoCall \notin Calls

VARIABLES
    stdin,      \* what the Host wrote and the loop has not read
    hostOpen,   \* whether the Host keeps stdin open
    canceled,   \* the calls the Host has sent notifications/cancelled for
    loop,       \* serve_loop: "reading", "draining" after EOF, "returned", "failed"
    call,       \* where each request stands
    registry,   \* CancellationRegistry: the call registered for each id
    token,      \* the calls whose cancellation token is canceled
    beat,       \* where the heartbeat task of a call stands
    quiet,      \* the calls whose heartbeat guard is dropped
    beats,      \* progress frames sent for each call
    frames,     \* the frame channel, oldest first
    writer,     \* the writer task: "writing", "broken" or "ended"
    written,    \* history: the requests whose answer reached the Host
    late        \* history: progress frames sent after the answer of the call

hostVars == <<stdin, hostOpen, canceled>>
beatVars == <<beat, beats>>
outVars == <<frames, writer, written, late>>
vars == <<hostVars, loop, call, registry, token, quiet, beatVars, outVars>>

-----------------------------------------------------------------------------
Message == [kind : {"request", "cancel"}, call : Calls]
Frame   == [kind : {"answer", "progress"}, call : Calls]

CallState  == {"unsent", "sent", "spawned", "connecting", "pumping", "returning", "answered"}
InFlight   == {"spawned", "connecting", "pumping"}
Holding    == {c \in Calls : call[c] \in InFlight \union {"returning"}}
Beating    == {c \in Calls : beat[c] \in {"sleeping", "due"}}
Running    == loop \in {"reading", "draining"}

Init ==
    /\ stdin    = <<>>
    /\ hostOpen = TRUE
    /\ canceled = {}
    /\ loop     = "reading"
    /\ call     = [c \in Calls |-> "unsent"]
    /\ registry = [i \in Ids |-> NoCall]
    /\ token    = {}
    /\ beat     = [c \in Calls |-> "none"]
    /\ quiet    = {}
    /\ beats    = [c \in Calls |-> 0]
    /\ frames   = <<>>
    /\ writer   = "writing"
    /\ written  = {}
    /\ late     = [c \in Calls |-> 0]

\* A frame is queued, or lost when the writer is gone.
Send(kind, c) ==
    frames' = IF writer = "writing"
              THEN Append(frames, [kind |-> kind, call |-> c]) ELSE frames

-----------------------------------------------------------------------------
(* The Host.                                                               *)

HostRequests(c) ==
    /\ Running /\ hostOpen
    /\ call[c] = "unsent"
    /\ call' = [call EXCEPT ![c] = "sent"]
    /\ stdin' = Append(stdin, [kind |-> "request", call |-> c])
    /\ UNCHANGED <<hostOpen, canceled, loop, registry, token, quiet, beatVars, outVars>>

HostCancels(c) ==
    /\ Running /\ hostOpen
    /\ c \in Cancelable \ canceled
    /\ call[c] # "unsent"
    /\ canceled' = canceled \union {c}
    /\ stdin' = Append(stdin, [kind |-> "cancel", call |-> c])
    /\ UNCHANGED <<hostOpen, loop, call, registry, token, quiet, beatVars, outVars>>

HostCloses ==
    /\ Running /\ hostOpen
    /\ hostOpen' = FALSE
    /\ UNCHANGED <<stdin, canceled, loop, call, registry, token, quiet, beatVars, outVars>>

-----------------------------------------------------------------------------
(* serve_loop.                                                             *)

Reads(kind, c) ==
    /\ loop = "reading"
    /\ stdin # <<>>
    /\ Head(stdin) = [kind |-> kind, call |-> c]
    /\ stdin' = Tail(stdin)

\* A tools/call of a2a_send is spawned; the loop does not wait for it.
ReadSend(c) ==
    /\ Reads("request", c)
    /\ c \in Sends
    /\ call' = [call EXCEPT ![c] = "spawned"]
    /\ UNCHANGED <<hostOpen, canceled, loop, registry, token, quiet, beatVars, outVars>>

\* Everything else is answered by the loop: dispatch_sync, an unknown tool, a
\* line that is not JSON.
ReadOther(c) ==
    /\ Reads("request", c)
    /\ c \notin Sends
    /\ call' = [call EXCEPT ![c] = "answered"]
    /\ Send("answer", c)
    /\ UNCHANGED <<hostOpen, canceled, loop, registry, token, quiet, beatVars,
                   writer, written, late>>

\* Variant: a cancellation takes it that its id is registered.
ReadCancelUnknown(c) ==
    /\ Reads("cancel", c)
    /\ token' = token \union {registry[IdOf[c]]}
    /\ registry' = [registry EXCEPT ![IdOf[c]] = NoCall]
    /\ UNCHANGED <<hostOpen, canceled, loop, call, quiet, beatVars, outVars>>

\* CancellationRegistry::cancel: whatever call the id is registered for.
ReadCancel(c) ==
    LET named == registry[IdOf[c]]
    IN  /\ Reads("cancel", c)
        /\ token' = token \union ({named} \ {NoCall})
        /\ registry' = [registry EXCEPT ![IdOf[c]] = NoCall]
        /\ UNCHANGED <<hostOpen, canceled, loop, call, quiet, beatVars, outVars>>

\* EOF: the loop drops its sender and waits for the writer.
ReadEnd ==
    /\ loop = "reading"
    /\ stdin = <<>>
    /\ ~hostOpen
    /\ loop' = "draining"
    /\ UNCHANGED <<hostVars, call, registry, token, quiet, beatVars, outVars>>

\* A line that is not UTF-8 ends the loop with an error and without waiting.
ReadFails ==
    /\ loop = "reading"
    /\ hostOpen
    /\ loop' = "failed"
    /\ UNCHANGED <<hostVars, call, registry, token, quiet, beatVars, outVars>>

\* Variant: the writer is not waited for.
LoopReturnsAtOnce ==
    /\ loop = "draining"
    /\ loop' = "returned"
    /\ UNCHANGED <<hostVars, call, registry, token, quiet, beatVars, outVars>>

\* The process ends with the loop, and with it every task left.
LoopReturns ==
    /\ loop = "draining"
    /\ writer # "writing"
    /\ loop' = "returned"
    /\ UNCHANGED <<hostVars, call, registry, token, quiet, beatVars, outVars>>

-----------------------------------------------------------------------------
(* call_a2a_send.                                                          *)

CallStep(c, from, to) ==
    /\ Running
    /\ call[c] = from
    /\ call' = [call EXCEPT ![c] = to]

InvalidArgs(c) ==
    /\ CallStep(c, "spawned", "returning")
    /\ UNCHANGED <<hostVars, loop, registry, token, quiet, beatVars, outVars>>

\* The token is registered in place of any other of that id, the heartbeat
\* started, and the stream opened, without an eye on the token.
Register(c) ==
    /\ CallStep(c, "spawned", "connecting")
    /\ registry' = [registry EXCEPT ![IdOf[c]] = c]
    /\ beat' = [beat EXCEPT ![c] = IF c \in Reporting THEN "sleeping" ELSE "none"]
    /\ UNCHANGED <<hostVars, loop, token, quiet, beats, outVars>>

\* Variant: the registration outlives the call.
LeaveRegistered(c, from) ==
    /\ CallStep(c, from, "returning")
    /\ quiet' = quiet \union {c}
    /\ UNCHANGED <<hostVars, loop, registry, token, beatVars, outVars>>

\* Variant: the heartbeat outlives the call.
LeaveBeating(c, from) ==
    /\ CallStep(c, from, "returning")
    /\ registry' = [registry EXCEPT ![IdOf[c]] = NoCall]
    /\ UNCHANGED <<hostVars, loop, token, quiet, beatVars, outVars>>

\* The result is decided, the heartbeat's guard dropped, and the id
\* unregistered, whoever it is registered for.
Leave(c, from) ==
    /\ CallStep(c, from, "returning")
    /\ quiet' = quiet \union {c}
    /\ registry' = [registry EXCEPT ![IdOf[c]] = NoCall]
    /\ UNCHANGED <<hostVars, loop, token, beatVars, outVars>>

Connected(c) ==
    /\ CallStep(c, "connecting", "pumping")
    /\ UNCHANGED <<hostVars, loop, registry, token, quiet, beatVars, outVars>>

\* A refused connection, a connect timeout, or an HTTP error.
ConnectFails(c) == Leave(c, "connecting")

\* The remote's final status, the end of its stream, or a malformed event.
StreamEnds(c) == Leave(c, "pumping")

\* Variant: a heartbeat counts as life of the stream.
StreamTimesOutUnlessBeating(c) == c \notin Reporting /\ Leave(c, "pumping")

\* The idle window, or the hard ceiling, passes.
StreamTimesOut(c) == Leave(c, "pumping")

Cancelled(c) == c \in token /\ Leave(c, "pumping")

Answer(c) ==
    /\ CallStep(c, "returning", "answered")
    /\ Send("answer", c)
    /\ UNCHANGED <<hostVars, loop, registry, token, quiet, beatVars, writer, written, late>>

-----------------------------------------------------------------------------
(* The heartbeat of a call.                                                *)

\* The sleep ends.  If the guard is dropped at that moment, select! may take
\* either branch.
BeatDue(c) ==
    /\ Running
    /\ beat[c] = "sleeping"
    /\ beats[c] < MaxBeats
    /\ beat' = [beat EXCEPT ![c] = "due"]
    /\ UNCHANGED <<hostVars, loop, call, registry, token, quiet, beats, outVars>>

\* Variant: the dropped guard is not noticed after a frame.
BeatSendsOn(c) ==
    /\ Running
    /\ beat[c] = "due"
    /\ Send("progress", c)
    /\ beats' = [beats EXCEPT ![c] = @ + 1]
    /\ late' = [late EXCEPT ![c] = IF call[c] = "answered" THEN @ + 1 ELSE @]
    /\ beat' = [beat EXCEPT ![c] = IF writer # "writing" THEN "stopped" ELSE "sleeping"]
    /\ UNCHANGED <<hostVars, loop, call, registry, token, quiet, writer, written>>

\* A frame is sent; without a writer, or with the guard dropped by then, the
\* task ends.
BeatSends(c) ==
    /\ Running
    /\ beat[c] = "due"
    /\ Send("progress", c)
    /\ beats' = [beats EXCEPT ![c] = @ + 1]
    /\ late' = [late EXCEPT ![c] = IF call[c] = "answered" THEN @ + 1 ELSE @]
    /\ beat' = [beat EXCEPT ![c] =
                    IF writer # "writing" \/ c \in quiet THEN "stopped" ELSE "sleeping"]
    /\ UNCHANGED <<hostVars, loop, call, registry, token, quiet, writer, written>>

BeatStops(c) ==
    /\ Running
    /\ beat[c] = "sleeping"
    /\ c \in quiet
    /\ beat' = [beat EXCEPT ![c] = "stopped"]
    /\ UNCHANGED <<hostVars, loop, call, registry, token, quiet, beats, outVars>>

-----------------------------------------------------------------------------
(* The writer.                                                             *)

Write ==
    /\ Running
    /\ writer = "writing"
    /\ frames # <<>>
    /\ frames' = Tail(frames)
    /\ written' = written \union
                    {c \in Calls : Head(frames) = [kind |-> "answer", call |-> c]}
    /\ UNCHANGED <<hostVars, loop, call, registry, token, quiet, beatVars, writer, late>>

\* stdout is closed: the frame at hand and those after it are lost.
WriteFails ==
    /\ Running
    /\ writer = "writing"
    /\ frames # <<>>
    /\ writer' = "broken"
    /\ frames' = <<>>
    /\ UNCHANGED <<hostVars, loop, call, registry, token, quiet, beatVars, written, late>>

WriterEnds ==
    /\ Running
    /\ writer = "writing"
    /\ frames = <<>>
    /\ loop = "draining"
    /\ Holding = {} /\ Beating = {}
    /\ writer' = "ended"
    /\ UNCHANGED <<hostVars, loop, call, registry, token, quiet, beatVars,
                   frames, written, late>>

-----------------------------------------------------------------------------
Host == (\E c \in Calls : HostRequests(c) \/ HostCancels(c)) \/ HostCloses

Loop == (\E c \in Calls : ReadSend(c) \/ ReadOther(c) \/ ReadCancel(c)) \/ ReadEnd \/ LoopReturns

\* What a call does by itself, once the remote has sent its headers.
CallProceeds(c) ==
    Register(c) \/ InvalidArgs(c) \/ Cancelled(c) \/ StreamTimesOut(c) \/ Answer(c)

Remote(c) == Connected(c) \/ ConnectFails(c)

Heartbeat(c) == BeatSends(c) \/ BeatStops(c)

Writer == Write \/ WriterEnds

Next ==
    \/ Host
    \/ Loop
    \/ ReadFails
    \/ \E c \in Sends : CallProceeds(c) \/ Remote(c) \/ StreamEnds(c)
    \/ \E c \in Reporting : BeatDue(c) \/ Heartbeat(c)
    \/ Writer
    \/ WriteFails

Spec == Init /\ [][Next]_vars

\* The runtime polls every task that can proceed, every stream ends by itself
\* or on a deadline, and a remote that accepts a connection answers it, by
\* sending its headers or by closing it: nothing in the shim bounds that wait.
Fairness ==
    /\ WF_vars(Loop) /\ WF_vars(Writer)
    /\ \A c \in Sends : WF_vars(CallProceeds(c)) /\ WF_vars(Remote(c))
    /\ \A c \in Reporting : WF_vars(Heartbeat(c))

FairSpec == Spec /\ Fairness

-----------------------------------------------------------------------------
(* Properties.                                                             *)

\* Type invariant: the values the code gives each variable.
TypeOK ==
    /\ stdin \in Seq(Message)
    /\ hostOpen \in BOOLEAN
    /\ canceled \subseteq Sends
    /\ loop \in {"reading", "draining", "returned", "failed"}
    /\ call \in [Calls -> CallState]
    /\ registry \in [Ids -> Calls \union {NoCall}]
    /\ token \subseteq Sends
    /\ beat \in [Calls -> {"none", "sleeping", "due", "stopped"}]
    /\ quiet \subseteq Sends
    /\ beats \in [Calls -> 0 .. MaxBeats]
    /\ frames \in Seq(Frame)
    /\ writer \in {"writing", "broken", "ended"}
    /\ written \subseteq Calls
    /\ late \in [Calls -> 0 .. MaxBeats]

\* The registry holds calls that can still be canceled and no others, so it
\* does not grow; and a call whose id nobody else uses is found in it until it
\* is canceled.
RegistryExact ==
    /\ \A i \in Ids : registry[i] # NoCall =>
           IdOf[registry[i]] = i /\ call[registry[i]] \in {"connecting", "pumping"}
    /\ \A c \in Sends \ token :
           /\ call[c] \in {"connecting", "pumping"}
           /\ \A d \in Calls \ {c} : IdOf[d] # IdOf[c]
           => registry[IdOf[c]] = c

\* serve_loop returns at EOF only when every request it read is answered on
\* stdout, calls in flight included, as long as stdout can be written.
NoAnswerLost ==
    loop = "returned" /\ writer # "broken" =>
        \A c \in Calls : call[c] # "unsent" => c \in written

\* The heartbeat stops with its call: at most one progress frame, already due
\* when the call ended, follows the answer.
AtMostOneLateBeat == \A c \in Calls : late[c] <= 1

\* Every call the loop spawned is answered, unless the process ends first.
EveryCallAnswered ==
    \A c \in Sends : call[c] = "spawned" ~> (call[c] = "answered" \/ ~Running)

\* After EOF the loop returns: no call and no heartbeat keeps the writer alive.
LoopEnds == loop = "draining" ~> loop = "returned"
=============================================================================
