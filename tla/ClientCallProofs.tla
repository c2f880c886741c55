--------------------------- MODULE ClientCallProofs ---------------------------
(***************************************************************************)
(* Proofs about ClientCall.                                                *)
(***************************************************************************)
EXTENDS ClientCall, TLAPS

\* A request in stdin has not been read, and is there once.
Requested ==
    \A i \in DOMAIN stdin : stdin[i].kind = "request" =>
        /\ call[stdin[i].call] = "sent"
        /\ \A j \in DOMAIN stdin :
               stdin[j].kind = "request" /\ stdin[j].call = stdin[i].call => i = j

\* Before a call is registered it has no heartbeat and no progress; once its
\* result is decided the guard of its heartbeat is dropped.
Beats ==
    \A c \in Calls :
        /\ call[c] \in {"unsent", "sent", "spawned"} => beat[c] = "none"
        /\ call[c] \in {"returning", "answered"} => beat[c] = "none" \/ c \in quiet
        /\ beat[c] = "due" => beats[c] < MaxBeats
        /\ late[c] <= beats[c]
        /\ late[c] \in {0, 1}
        /\ late[c] = 1 => beat[c] = "stopped"

\* The registry holds calls of a2a_send only.
SendsRegistered == \A i \in Ids : registry[i] \in Sends \union {NoCall}

\* The loop returns only when the writer has ended, and the writer ends by
\* itself only when nothing is left to be read or answered.
Drained ==
    /\ loop \in {"draining", "returned"} => stdin = <<>> /\ ~hostOpen
    /\ loop = "returned" => writer # "writing"
    /\ writer = "ended" =>
           /\ loop \in {"draining", "returned"}
           /\ frames = <<>>
           /\ \A c \in Calls : call[c] \in {"unsent", "sent", "answered"}

\* What waits in a queue.
Queued(q, e) == \E i \in DOMAIN q : q[i] = e

\* A request is in stdin until it is read ...
RequestKept == \A c \in Calls :
    call[c] = "sent" => Queued(stdin, [kind |-> "request", call |-> c])
\* ... and its answer among the frames until it is written, unless stdout broke.
AnswerKept == \A c \in Calls :
    call[c] = "answered" =>
        writer = "broken" \/ c \in written \/ Queued(frames, [kind |-> "answer", call |-> c])

-----------------------------------------------------------------------------
\* The steps of the shim, with the ways a call ends taken together.
LEMMA Steps ==
    ASSUME Next
    PROVE  \/ \E c \in Calls : HostRequests(c) \/ HostCancels(c)
           \/ HostCloses
           \/ \E c \in Calls : ReadSend(c) \/ ReadOther(c) \/ ReadCancel(c)
           \/ ReadEnd \/ LoopReturns \/ ReadFails
           \/ \E c \in Sends : Register(c) \/ InvalidArgs(c) \/ Connected(c) \/ Answer(c)
           \/ \E c \in Sends : Leave(c, "connecting") \/ Leave(c, "pumping")
           \/ \E c \in Reporting : BeatDue(c) \/ BeatSends(c) \/ BeatStops(c)
           \/ Write \/ WriterEnds \/ WriteFails
  BY DEF Next, Host, Loop, CallProceeds, Remote, Heartbeat, Writer, Cancelled, StreamTimesOut,
         StreamEnds, ConnectFails

\* What Append does to the elements of a sequence.
LEMMA Appended ==
    ASSUME NEW S, NEW q \in Seq(S), NEW e
    PROVE  /\ DOMAIN q = 1 .. Len(q) /\ Len(q) \in Nat
           /\ DOMAIN Append(q, e) = 1 .. (Len(q) + 1)
           /\ \A i \in DOMAIN q : Append(q, e)[i] = q[i]
           /\ Append(q, e)[Len(q) + 1] = e
  OBVIOUS

\* What Tail does to them.
LEMMA Removed ==
    ASSUME NEW S, NEW q \in Seq(S), q # <<>>
    PROVE  /\ DOMAIN q = 1 .. Len(q) /\ Len(q) \in Nat \ {0} /\ Head(q) = q[1]
           /\ Tail(q) \in Seq(S) /\ DOMAIN Tail(q) = 1 .. (Len(q) - 1)
           /\ \A i \in DOMAIN Tail(q) : Tail(q)[i] = q[i + 1]
  OBVIOUS

\* What is in stdin names calls.
LEMMA Messages ==
    ASSUME stdin \in Seq(Message), NEW i \in DOMAIN stdin
    PROVE  stdin[i] \in Message /\ stdin[i].call \in Calls
<1>1. stdin[i] \in Message
  OBVIOUS
<1> QED
  BY <1>1 DEF Message

\* A frame of a call can be queued.
LEMMA Sending ==
    ASSUME frames \in Seq(Frame), NEW kind \in {"answer", "progress"}, NEW c \in Calls,
           Send(kind, c)
    PROVE  frames' \in Seq(Frame)
<1> DEFINE frame == [kind |-> kind, call |-> c]
<1>1. frame \in Frame
  BY DEF Frame
<1>2. frames' = frames \/ frames' = Append(frames, frame)
  BY DEF Send
<1> HIDE DEF frame
<1> QED
  BY <1>1, <1>2

\* A message of the Host can be queued.
LEMMA Writing ==
    ASSUME stdin \in Seq(Message), NEW kind \in {"request", "cancel"}, NEW c \in Calls,
           stdin' = Append(stdin, [kind |-> kind, call |-> c])
    PROVE  stdin' \in Seq(Message)
<1> DEFINE message == [kind |-> kind, call |-> c]
<1>1. message \in Message
  BY DEF Message
<1> HIDE DEF message
<1> QED
  BY <1>1 DEF message

\* What is read from stdin leaves a sequence of messages.
LEMMA Reading ==
    ASSUME stdin \in Seq(Message), NEW kind, NEW c, Reads(kind, c)
    PROVE  stdin' \in Seq(Message)
  BY Removed DEF Reads

\* The request at the head of stdin has not been read.
LEMMA HeadSent ==
    ASSUME TypeOK, Requested, NEW c \in Calls, Reads("request", c)
    PROVE  call[c] = "sent"
<1>1. stdin \in Seq(Message) /\ stdin # <<>>
  BY DEF TypeOK, Reads
<1>2. Head(stdin) = stdin[1] /\ 1 \in DOMAIN stdin
  BY <1>1, Removed
<1>3. Head(stdin).kind = "request" /\ Head(stdin).call = c
  BY DEF Reads
<1> QED
  BY <1>2, <1>3 DEF Requested

\* A request of the Host is read once: no step but the one that reads it moves
\* the call on from "sent".
LEMMA RequestedKept == TypeOK /\ Requested /\ [Next]_vars => Requested'
<1> SUFFICES ASSUME TypeOK, Requested, [Next]_vars
             PROVE  Requested'
  OBVIOUS
<1> USE ClientAssumption DEF TypeOK
<1>1. ASSUME NEW c \in Calls, NEW m, stdin' = Append(stdin, m),
             \/ /\ m = [kind |-> "request", call |-> c]
                /\ call[c] = "unsent" /\ call' = [call EXCEPT ![c] = "sent"]
             \/ m = [kind |-> "cancel", call |-> c] /\ call' = call
      PROVE  Requested'
  <2>1. /\ DOMAIN stdin' = 1 .. (Len(stdin) + 1) /\ Len(stdin) \in Nat
        /\ DOMAIN stdin = 1 .. Len(stdin)
        /\ \A i \in DOMAIN stdin : stdin'[i] = stdin[i]
        /\ stdin'[Len(stdin) + 1] = m
    BY <1>1, Appended
  <2>2. \A i \in DOMAIN stdin : stdin[i].call \in Calls
    BY Messages
  <2>3. CASE m.kind = "cancel" /\ call' = call
    <3>1. \A i \in DOMAIN stdin' : stdin'[i].kind = "request" =>
            i \in DOMAIN stdin /\ stdin'[i] = stdin[i]
      BY <2>1, <2>3
    <3> QED
      BY <2>3, <3>1 DEF Requested
  <2>4. CASE /\ m.kind = "request" /\ m.call = c
             /\ call[c] = "unsent" /\ call' = [call EXCEPT ![c] = "sent"]
    <3>1. \A i \in DOMAIN stdin : stdin[i].kind = "request" => stdin[i].call # c
      BY <2>4 DEF Requested
    <3>2. \A i \in DOMAIN stdin' : i \in DOMAIN stdin \/ i = Len(stdin) + 1
      BY <2>1
    <3>3. call'[c] = "sent" /\ \A d \in Calls \ {c} : call'[d] = call[d]
      BY <2>4
    <3>4. \A i \in DOMAIN stdin' : stdin'[i].kind = "request" =>
            \/ i = Len(stdin) + 1 /\ stdin'[i].call = c
            \/ i \in DOMAIN stdin /\ stdin'[i] = stdin[i] /\ stdin'[i].call # c
      BY <2>1, <2>4, <3>1, <3>2
    <3>5. \A i \in DOMAIN stdin' : stdin'[i].kind = "request" => call'[stdin'[i].call] = "sent"
      <4> SUFFICES ASSUME NEW i \in DOMAIN stdin', stdin'[i].kind = "request"
                   PROVE  call'[stdin'[i].call] = "sent"
        OBVIOUS
      <4>1. CASE stdin'[i].call = c
        BY <3>3, <4>1
      <4>2. CASE i \in DOMAIN stdin /\ stdin'[i] = stdin[i] /\ stdin'[i].call # c
        BY <2>2, <3>3, <4>2 DEF Requested
      <4> QED
        BY <3>4, <4>1, <4>2
    <3>6. \A i, j \in DOMAIN stdin' :
            stdin'[i].kind = "request" /\ stdin'[j].kind = "request"
                /\ stdin'[i].call = stdin'[j].call => i = j
      BY <3>4 DEF Requested
    <3> QED
      BY <3>5, <3>6 DEF Requested
  <2> QED
    BY <1>1, <2>3, <2>4
<1>2. ASSUME NEW kind, NEW c \in Calls, Reads(kind, c),
             \/ kind = "request" /\ \E to : call' = [call EXCEPT ![c] = to]
             \/ call' = call
      PROVE  Requested'
  <2>1. /\ stdin' = Tail(stdin) /\ stdin # <<>>
        /\ Head(stdin).kind = kind /\ Head(stdin).call = c
    BY <1>2 DEF Reads
  <2>2. /\ DOMAIN stdin = 1 .. Len(stdin) /\ Len(stdin) \in Nat \ {0} /\ Head(stdin) = stdin[1]
        /\ DOMAIN stdin' = 1 .. (Len(stdin) - 1)
        /\ \A i \in DOMAIN stdin' : stdin'[i] = stdin[i + 1]
    BY <2>1, Removed
  <2>3. \A i \in DOMAIN stdin' : i + 1 \in DOMAIN stdin /\ i + 1 # 1
    BY <2>2
  <2>4. 1 \in DOMAIN stdin
    BY <2>2
  <2>5. \A i \in DOMAIN stdin' : stdin'[i].kind = "request" => call'[stdin'[i].call] = "sent"
    <3> SUFFICES ASSUME NEW i \in DOMAIN stdin', stdin'[i].kind = "request"
                 PROVE  call'[stdin'[i].call] = "sent"
      OBVIOUS
    <3>1. stdin'[i] = stdin[i + 1] /\ stdin[i + 1] \in Message
      BY <2>2, <2>3
    <3>2. call[stdin[i + 1].call] = "sent" /\ stdin[i + 1].call \in Calls
      BY <2>3, <3>1 DEF Requested, Message
    <3>3. kind = "request" => stdin[i + 1].call # c
      BY <2>1, <2>2, <2>3, <2>4, <3>1 DEF Requested
    <3> QED
      BY <1>2, <3>1, <3>2, <3>3
  <2>6. \A i, j \in DOMAIN stdin' :
          stdin'[i].kind = "request" /\ stdin'[j].kind = "request"
              /\ stdin'[i].call = stdin'[j].call => i = j
    <3> SUFFICES ASSUME NEW i \in DOMAIN stdin', NEW j \in DOMAIN stdin',
                        stdin'[i].kind = "request", stdin'[j].kind = "request",
                        stdin'[i].call = stdin'[j].call
                 PROVE  i = j
      OBVIOUS
    <3>1. i + 1 = j + 1
      BY <2>2, <2>3 DEF Requested
    <3> QED
      BY <2>2, <3>1
  <2> QED
    BY <2>5, <2>6 DEF Requested
<1>3. ASSUME NEW c \in Calls, call[c] # "sent", NEW to,
             stdin' = stdin, call' = [call EXCEPT ![c] = to]
      PROVE  Requested'
  <2>1. \A i \in DOMAIN stdin : stdin[i].call \in Calls
    BY Messages
  <2> QED
    BY <1>3, <2>1 DEF Requested
<1>4. ASSUME stdin' = stdin, call' = call
      PROVE  Requested'
  BY <1>4 DEF Requested
<1>5. ASSUME NEW c \in Calls, HostRequests(c) \/ HostCancels(c)
      PROVE  Requested'
  BY <1>1, <1>5 DEF HostRequests, HostCancels
<1>6. ASSUME NEW c \in Calls, ReadSend(c) \/ ReadOther(c) \/ ReadCancel(c)
      PROVE  Requested'
  BY <1>2, <1>6 DEF ReadSend, ReadOther, ReadCancel
<1>7. ASSUME NEW c \in Sends, Register(c) \/ InvalidArgs(c) \/ Connected(c) \/ Answer(c)
      PROVE  Requested'
  BY <1>3, <1>7 DEF Register, InvalidArgs, Connected, Answer, CallStep, hostVars
<1>8. ASSUME NEW c \in Sends, Leave(c, "connecting") \/ Leave(c, "pumping")
      PROVE  Requested'
  BY <1>3, <1>8 DEF Leave, CallStep, hostVars
<1>9. ASSUME NEW c \in Reporting, BeatDue(c) \/ BeatSends(c) \/ BeatStops(c)
      PROVE  Requested'
  BY <1>4, <1>9 DEF BeatDue, BeatSends, BeatStops, hostVars
<1>10. CASE ReadEnd \/ LoopReturns \/ ReadFails \/ HostCloses
  BY <1>4, <1>10 DEF ReadEnd, LoopReturns, ReadFails, HostCloses, hostVars
<1>11. CASE Write \/ WriterEnds \/ WriteFails
  BY <1>4, <1>11 DEF Write, WriterEnds, WriteFails, hostVars
<1>12. CASE UNCHANGED vars
  BY <1>4, <1>12 DEF vars, hostVars
<1> QED
  BY <1>5, <1>6, <1>7, <1>8, <1>9, <1>10, <1>11, <1>12, Steps

\* Every variable keeps the type the code gives it; the bound on the progress
\* frames, the late ones included, is what makes this need Beats.
THEOREM TypeCorrect == Spec => [](TypeOK /\ SendsRegistered /\ Requested /\ Beats)
<1> USE ClientAssumption
<1>1. Init => TypeOK /\ SendsRegistered /\ Requested /\ Beats
  BY DEF Init, TypeOK, SendsRegistered, Requested, Beats, CallState
<1>2. TypeOK /\ SendsRegistered /\ Requested /\ Beats /\ [Next]_vars
        => TypeOK' /\ SendsRegistered' /\ Beats'
  <2> DEFINE Goal == TypeOK' /\ SendsRegistered' /\ Beats'
  <2> SUFFICES ASSUME TypeOK, SendsRegistered, Requested, Beats, [Next]_vars
               PROVE  Goal
    OBVIOUS
  <2> USE DEF TypeOK, SendsRegistered, Beats
  <2>1. ASSUME NEW c \in Calls, HostRequests(c) \/ HostCancels(c)
        PROVE  Goal
    <3>1. CASE HostRequests(c)
      <4>1. stdin' \in Seq(Message)
        BY <3>1, Writing DEF HostRequests
      <4> QED
        BY <3>1, <4>1 DEF HostRequests, beatVars, outVars, CallState
    <3>2. CASE HostCancels(c)
      <4>1. stdin' \in Seq(Message)
        BY <3>2, Writing DEF HostCancels
      <4> QED
        BY <3>2, <4>1 DEF HostCancels, beatVars, outVars
    <3> QED
      BY <2>1, <3>1, <3>2
  <2>2. CASE HostCloses
    BY <2>2 DEF HostCloses, beatVars, outVars
  <2>3. ASSUME NEW c \in Calls, ReadSend(c)
        PROVE  Goal
    <3>1. stdin' \in Seq(Message)
      BY <2>3, Reading DEF ReadSend
    <3>2. call[c] = "sent"
      BY <2>3, HeadSent DEF ReadSend
    <3> QED
      BY <2>3, <3>1, <3>2 DEF ReadSend, beatVars, outVars, CallState
  <2>4. ASSUME NEW c \in Calls, ReadOther(c)
        PROVE  Goal
    <3>1. frames' \in Seq(Frame) /\ stdin' \in Seq(Message)
      BY <2>4, Sending, Reading DEF ReadOther
    <3>2. call[c] = "sent"
      BY <2>4, HeadSent DEF ReadOther
    <3> QED
      BY <2>4, <3>1, <3>2 DEF ReadOther, beatVars, CallState
  <2>5. ASSUME NEW c \in Calls, ReadCancel(c)
        PROVE  Goal
    <3>1. stdin' \in Seq(Message)
      BY <2>5, Reading DEF ReadCancel
    <3> QED
      BY <2>5, <3>1 DEF ReadCancel, beatVars, outVars
  <2>6. CASE ReadEnd \/ LoopReturns \/ ReadFails
    BY <2>6 DEF ReadEnd, LoopReturns, ReadFails, hostVars, beatVars, outVars
  <2>7. ASSUME NEW c \in Sends, InvalidArgs(c) \/ Connected(c)
        PROVE  Goal
    BY <2>7 DEF InvalidArgs, Connected, CallStep, hostVars, beatVars, outVars, CallState
  <2>8. ASSUME NEW c \in Sends, Register(c)
        PROVE  Goal
    BY <2>8 DEF Register, CallStep, hostVars, outVars, CallState
  <2>9. ASSUME NEW c \in Sends, Answer(c)
        PROVE  Goal
    <3>1. frames' \in Seq(Frame)
      BY <2>9, Sending DEF Answer
    <3> QED
      BY <2>9, <3>1 DEF Answer, CallStep, hostVars, beatVars, CallState
  <2>10. ASSUME NEW c \in Sends, Leave(c, "connecting") \/ Leave(c, "pumping")
         PROVE  Goal
    <3>1. call[c] \in InFlight /\ quiet' = quiet \union {c}
      BY <2>10 DEF Leave, CallStep, InFlight
    <3> QED
      <4>a. /\ call' = [call EXCEPT ![c] = "returning"]
            /\ registry' = [registry EXCEPT ![IdOf[c]] = NoCall]
            /\ UNCHANGED <<hostVars, loop, token, beatVars, outVars>>
        BY <2>10 DEF Leave, CallStep
      <4>b. call' \in [Calls -> CallState]
        BY <4>a DEF CallState
      <4>1. TypeOK' /\ SendsRegistered'
        BY <3>1, <4>a, <4>b DEF hostVars, beatVars, outVars
      <4>2. Beats'
        BY <2>10, <3>1 DEF Leave, CallStep, beatVars, outVars, InFlight
      <4> QED
        BY <4>1, <4>2
  <2>11. ASSUME NEW c \in Reporting, BeatDue(c) \/ BeatStops(c)
         PROVE  Goal
    BY <2>11 DEF BeatDue, BeatStops, hostVars, outVars
  <2>12. ASSUME NEW c \in Reporting, BeatSends(c)
         PROVE  Goal
    <3>1. frames' \in Seq(Frame)
      BY <2>12, Sending DEF BeatSends
    <3>2. beats[c] + 1 \in 0 .. MaxBeats /\ late[c] = 0
      BY <2>12 DEF BeatSends
    <3>3. call[c] = "answered" => c \in quiet
      BY <2>12 DEF BeatSends
    <3> QED
      BY <2>12, <3>1, <3>2, <3>3 DEF BeatSends, hostVars
  <2>13. CASE Write \/ WriteFails \/ WriterEnds
    <3>1. frames' \in Seq(Frame)
      <4>1. CASE Write
        BY <4>1, Removed DEF Write
      <4>2. CASE WriteFails \/ WriterEnds
        <5>1. frames' = <<>>
          BY <4>2 DEF WriteFails, WriterEnds
        <5> QED
          BY <5>1
      <4> QED
        BY <2>13, <4>1, <4>2
    <3> QED
      BY <2>13, <3>1 DEF Write, WriteFails, WriterEnds, hostVars, beatVars
  <2>14. CASE UNCHANGED vars
    BY <2>14 DEF vars, hostVars, beatVars, outVars
  <2> QED
    BY <2>1, <2>2, <2>3, <2>4, <2>5, <2>6, <2>7, <2>8, <2>9, <2>10, <2>11, <2>12, <2>13,
       <2>14, Steps
<1> QED
  BY <1>1, <1>2, RequestedKept, PTL DEF Spec

\* The heartbeat stops with its call: of the frames of a heartbeat only one that
\* was due when the call ended follows the answer.
THEOREM LateBeatsBounded == Spec => []AtMostOneLateBeat
<1>1. Beats => AtMostOneLateBeat
  <2> SUFFICES ASSUME Beats, NEW c \in Calls
               PROVE  late[c] <= 1
    BY DEF AtMostOneLateBeat
  <2>1. late[c] \in {0, 1}
    BY DEF Beats
  <2> QED
    BY <2>1
<1> QED
  BY <1>1, TypeCorrect, PTL

-----------------------------------------------------------------------------
\* The registry holds exactly the calls that can be canceled, as far as their
\* ids are their own, whatever comes first: a cancellation, the end of the
\* stream, or the registration of another call.
THEOREM RegistryIsExact == Spec => []RegistryExact
<1> USE ClientAssumption
<1>1. Init => RegistryExact
  BY DEF Init, RegistryExact
<1>2. TypeOK /\ SendsRegistered /\ Requested /\ RegistryExact /\ [Next]_vars => RegistryExact'
  <2> SUFFICES ASSUME TypeOK, SendsRegistered, Requested, RegistryExact, [Next]_vars
               PROVE  RegistryExact'
    OBVIOUS
  <2> USE DEF TypeOK, SendsRegistered, RegistryExact
  <2> DEFINE Elsewhere == {"unsent", "sent", "spawned", "returning", "answered"}
  <2>a. ASSUME NEW c \in Calls, call[c] \notin {"connecting", "pumping"},
               NEW to \in Elsewhere, call' = [call EXCEPT ![c] = to],
               UNCHANGED <<registry, token>>
        PROVE  RegistryExact'
    BY <2>a
  <2>b. ASSUME UNCHANGED <<call, registry, token>>
        PROVE  RegistryExact'
    BY <2>b
  <2>1. ASSUME NEW c \in Calls, HostRequests(c) \/ HostCancels(c)
        PROVE  RegistryExact'
    <3>1. CASE HostRequests(c)
      <4>1. /\ call[c] = "unsent" /\ call' = [call EXCEPT ![c] = "sent"]
            /\ UNCHANGED <<registry, token>>
        BY <3>1 DEF HostRequests
      <4> QED
        BY <2>a, <4>1
    <3>2. CASE HostCancels(c)
      BY <2>b, <3>2 DEF HostCancels
    <3> QED
      BY <2>1, <3>1, <3>2
  <2>2. ASSUME NEW c \in Calls, ReadSend(c) \/ ReadOther(c)
        PROVE  RegistryExact'
    <3>1. call[c] = "sent"
      BY <2>2, HeadSent DEF ReadSend, ReadOther
    <3>2. /\ call' = [call EXCEPT ![c] = "spawned"] \/ call' = [call EXCEPT ![c] = "answered"]
          /\ UNCHANGED <<registry, token>>
      BY <2>2 DEF ReadSend, ReadOther
    <3> QED
      BY <2>a, <3>1, <3>2
  <2>3. ASSUME NEW c \in Calls, ReadCancel(c)
        PROVE  RegistryExact'
    <3> DEFINE named == registry[IdOf[c]]
    <3>1. /\ token' = token \union ({named} \ {NoCall})
          /\ registry' = [registry EXCEPT ![IdOf[c]] = NoCall]
          /\ call' = call
      BY <2>3 DEF ReadCancel
    <3>2. ASSUME NEW d \in Sends \ token', call[d] \in {"connecting", "pumping"},
                 \A e \in Calls \ {d} : IdOf[e] # IdOf[d]
          PROVE  registry'[IdOf[d]] = d
      <4>1. registry[IdOf[d]] = d
        BY <3>1, <3>2
      <4>2. IdOf[c] # IdOf[d]
        BY <3>1, <3>2, <4>1
      <4> QED
        BY <3>1, <4>1, <4>2
    <3> QED
      BY <3>1, <3>2
  <2>4. ASSUME NEW c \in Sends, Register(c)
        PROVE  RegistryExact'
    <3>1. /\ call[c] = "spawned"
          /\ call' = [call EXCEPT ![c] = "connecting"]
          /\ registry' = [registry EXCEPT ![IdOf[c]] = c]
          /\ token' = token
      BY <2>4 DEF Register, CallStep
    <3> QED
      BY <3>1
  <2>5. ASSUME NEW c \in Sends, Connected(c)
        PROVE  RegistryExact'
    BY <2>5 DEF Connected, CallStep
  <2>6. ASSUME NEW c \in Sends, InvalidArgs(c) \/ Answer(c)
        PROVE  RegistryExact'
    <3>1. /\ call[c] \in {"spawned", "returning"}
          /\ call' = [call EXCEPT ![c] = "returning"] \/ call' = [call EXCEPT ![c] = "answered"]
          /\ UNCHANGED <<registry, token>>
      BY <2>6 DEF InvalidArgs, Answer, CallStep
    <3> QED
      BY <2>a, <3>1
  <2>7. ASSUME NEW c \in Sends, Leave(c, "connecting") \/ Leave(c, "pumping")
        PROVE  RegistryExact'
    <3>1. /\ call' = [call EXCEPT ![c] = "returning"]
          /\ registry' = [registry EXCEPT ![IdOf[c]] = NoCall]
          /\ token' = token
      BY <2>7 DEF Leave, CallStep
    <3>2. \A i \in Ids : registry'[i] # NoCall => registry'[i] = registry[i] /\ registry[i] # c
      BY <3>1
    <3>3. \A d \in Sends : call'[d] \in {"connecting", "pumping"} => d # c /\ call'[d] = call[d]
      BY <3>1
    <3> QED
      BY <3>1, <3>2, <3>3
  <2>8. ASSUME NEW c \in Reporting, BeatDue(c) \/ BeatSends(c) \/ BeatStops(c)
        PROVE  RegistryExact'
    BY <2>b, <2>8 DEF BeatDue, BeatSends, BeatStops
  <2>9. CASE ReadEnd \/ LoopReturns \/ ReadFails \/ HostCloses
    BY <2>b, <2>9 DEF ReadEnd, LoopReturns, ReadFails, HostCloses
  <2>10. CASE Write \/ WriterEnds \/ WriteFails
    BY <2>b, <2>10 DEF Write, WriterEnds, WriteFails
  <2>11. CASE UNCHANGED vars
    BY <2>b, <2>11 DEF vars
  <2> QED
    BY <2>1, <2>2, <2>3, <2>4, <2>5, <2>6, <2>7, <2>8, <2>9, <2>10, <2>11, Steps
<1> QED
  BY <1>1, <1>2, TypeCorrect, PTL DEF Spec

-----------------------------------------------------------------------------
\* What is in a queue stays there until it is its head.
LEMMA AppendKeeps ==
    ASSUME NEW S, NEW q \in Seq(S), NEW e
    PROVE  /\ Queued(Append(q, e), e)
           /\ \A f : Queued(q, f) => Queued(Append(q, e), f)
<1>1. /\ DOMAIN q = 1 .. Len(q) /\ Len(q) \in Nat
      /\ DOMAIN Append(q, e) = 1 .. (Len(q) + 1)
      /\ \A i \in DOMAIN q : Append(q, e)[i] = q[i]
      /\ Append(q, e)[Len(q) + 1] = e
  BY Appended
<1>2. Len(q) + 1 \in DOMAIN Append(q, e) /\ DOMAIN q \subseteq DOMAIN Append(q, e)
  BY <1>1
<1> QED
  BY <1>1, <1>2 DEF Queued

\* Taking the head of a queue loses nothing else.
LEMMA TailKeeps ==
    ASSUME NEW S, NEW q \in Seq(S), q # <<>>, NEW f, Queued(q, f), f # Head(q)
    PROVE  Queued(Tail(q), f)
<1>1. /\ DOMAIN q = 1 .. Len(q) /\ Len(q) \in Nat \ {0} /\ Head(q) = q[1]
      /\ DOMAIN Tail(q) = 1 .. (Len(q) - 1)
      /\ \A i \in DOMAIN Tail(q) : Tail(q)[i] = q[i + 1]
  BY Removed
<1>2. PICK i \in DOMAIN q : q[i] = f
  BY DEF Queued
<1>3. i - 1 \in DOMAIN Tail(q) /\ (i - 1) + 1 = i
  BY <1>1, <1>2
<1> QED
  BY <1>1, <1>2, <1>3 DEF Queued

\* A frame that is sent loses none of those before it, and is queued itself
\* while there is a writer.
LEMMA SendKeeps ==
    ASSUME frames \in Seq(Frame), NEW kind, NEW c, Send(kind, c)
    PROVE  /\ writer = "writing" => Queued(frames', [kind |-> kind, call |-> c])
           /\ \A f : Queued(frames, f) => Queued(frames', f)
<1> DEFINE e == [kind |-> kind, call |-> c]
<1>1. IF writer = "writing" THEN frames' = Append(frames, e) ELSE frames' = frames
  BY DEF Send
<1> HIDE DEF e
<1>2. Queued(Append(frames, e), e) /\ \A f : Queued(frames, f) => Queued(Append(frames, e), f)
  BY AppendKeeps
<1>3. (writer = "writing" => Queued(frames', e)) /\ \A f : Queued(frames, f) => Queued(frames', f)
  BY <1>1, <1>2
<1> QED
  BY <1>3 DEF e

\* The loop returns, and the writer ends, only when there is nothing left.
THEOREM DrainedInOrder == Spec => []Drained
<1> USE ClientAssumption
<1>1. Init => Drained
  BY DEF Init, Drained
<1>2. TypeOK /\ Drained /\ [Next]_vars => Drained'
  <2> SUFFICES ASSUME TypeOK, Drained, [Next]_vars
               PROVE  Drained'
    OBVIOUS
  <2> USE DEF TypeOK, Drained
  <2>a. ASSUME NEW c \in Calls, call[c] \notin {"unsent", "sent", "answered"},
               UNCHANGED <<stdin, hostOpen, loop, writer>>
        PROVE  Drained'
    <3>1. writer # "ended"
      BY <2>a
    <3> QED
      BY <2>a, <3>1
  <2>1. ASSUME NEW c \in Calls, HostRequests(c) \/ HostCancels(c)
        PROVE  Drained'
    BY <2>1 DEF HostRequests, HostCancels, Running, outVars
  <2>2. ASSUME NEW c \in Calls, ReadSend(c) \/ ReadOther(c) \/ ReadCancel(c)
        PROVE  Drained'
    BY <2>2 DEF ReadSend, ReadOther, ReadCancel, Reads, outVars
  <2>3. CASE ReadEnd \/ LoopReturns \/ ReadFails \/ HostCloses
    BY <2>3 DEF ReadEnd, LoopReturns, ReadFails, HostCloses, Running, hostVars, outVars
  <2>4. ASSUME NEW c \in Sends, Register(c) \/ InvalidArgs(c) \/ Connected(c) \/ Answer(c)
        PROVE  Drained'
    <3>1. /\ call[c] \in {"spawned", "connecting", "returning"}
          /\ UNCHANGED <<stdin, hostOpen, loop, writer>>
      BY <2>4 DEF Register, InvalidArgs, Connected, Answer, CallStep, hostVars, outVars
    <3> QED
      BY <2>a, <3>1
  <2>5. ASSUME NEW c \in Sends, Leave(c, "connecting") \/ Leave(c, "pumping")
        PROVE  Drained'
    <3>1. /\ call[c] \in {"connecting", "pumping"}
          /\ UNCHANGED <<stdin, hostOpen, loop, writer>>
      BY <2>5 DEF Leave, CallStep, hostVars, outVars
    <3> QED
      BY <2>a, <3>1
  <2>6. ASSUME NEW c \in Reporting, BeatDue(c) \/ BeatSends(c) \/ BeatStops(c)
        PROVE  Drained'
    BY <2>6 DEF BeatDue, BeatSends, BeatStops, Send, hostVars, outVars
  <2>7. CASE Write \/ WriteFails
    BY <2>7 DEF Write, WriteFails, hostVars
  <2>8. CASE WriterEnds
    <3>1. \A c \in Calls : call[c] \in {"unsent", "sent", "answered"}
      BY <2>8 DEF WriterEnds, Holding, InFlight, CallState
    <3> QED
      BY <2>8, <3>1 DEF WriterEnds, hostVars
  <2>9. CASE UNCHANGED vars
    BY <2>9 DEF vars, hostVars, outVars
  <2> QED
    BY <2>1, <2>2, <2>3, <2>4, <2>5, <2>6, <2>7, <2>8, <2>9, Steps
<1> QED
  BY <1>1, <1>2, TypeCorrect, PTL DEF Spec

\* No request the loop has taken goes without its answer on stdout: the loop
\* waits for the writer, and the writer for every call and heartbeat.
THEOREM AnswersKept == Spec => []NoAnswerLost
<1> USE ClientAssumption
<1>1. Init => RequestKept /\ AnswerKept
  BY DEF Init, RequestKept, AnswerKept
<1>2. TypeOK /\ RequestKept /\ [Next]_vars => RequestKept'
  <2> SUFFICES ASSUME TypeOK, RequestKept, [Next]_vars
               PROVE  RequestKept'
    OBVIOUS
  <2> USE DEF TypeOK
  <2>a. ASSUME NEW c \in Calls, NEW to, call' = [call EXCEPT ![c] = to], to # "sent",
               stdin' = stdin
        PROVE  RequestKept'
    BY <2>a DEF RequestKept
  <2>b. ASSUME UNCHANGED <<call, stdin>>
        PROVE  RequestKept'
    BY <2>b DEF RequestKept
  <2>c. ASSUME NEW kind \in {"request", "cancel"}, NEW c \in Calls, Reads(kind, c),
               \A d \in Calls : call'[d] = call[d] \/ (d = c /\ call'[d] # "sent"),
               kind = "request" => call'[c] # "sent"
        PROVE  RequestKept'
    <3>1. ASSUME NEW d \in Calls, call'[d] = "sent"
          PROVE  Queued(stdin', [kind |-> "request", call |-> d])
      <4> DEFINE m == [kind |-> "request", call |-> d]
      <4>1. Queued(stdin, m)
        BY <2>c, <3>1 DEF RequestKept
      <4>2. Head(stdin) # m
        BY <2>c, <3>1 DEF Reads
      <4>3. stdin # <<>> /\ stdin' = Tail(stdin)
        BY <2>c DEF Reads
      <4> HIDE DEF m
      <4>4. Queued(stdin', m)
        BY <4>1, <4>2, <4>3, TailKeeps
      <4> QED
        BY <4>4 DEF m
    <3> QED
      BY <3>1 DEF RequestKept
  <2>1. ASSUME NEW c \in Calls, HostRequests(c)
        PROVE  RequestKept'
    <3> DEFINE m == [kind |-> "request", call |-> c]
    <3>1. stdin' = Append(stdin, m) /\ call' = [call EXCEPT ![c] = "sent"]
      BY <2>1 DEF HostRequests
    <3> HIDE DEF m
    <3>2. Queued(stdin', m) /\ \A f : Queued(stdin, f) => Queued(stdin', f)
      BY <3>1, AppendKeeps
    <3>3. \A d \in Calls \ {c} : call'[d] = call[d]
      BY <3>1
    <3> QED
      BY <3>2, <3>3 DEF RequestKept, m
  <2>2. ASSUME NEW c \in Calls, HostCancels(c)
        PROVE  RequestKept'
    <3>1. stdin' = Append(stdin, [kind |-> "cancel", call |-> c]) /\ call' = call
      BY <2>2 DEF HostCancels
    <3>2. \A f : Queued(stdin, f) => Queued(stdin', f)
      BY <3>1, AppendKeeps
    <3> QED
      BY <3>1, <3>2 DEF RequestKept
  <2>3. ASSUME NEW c \in Calls, ReadSend(c) \/ ReadOther(c)
        PROVE  RequestKept'
    <3>1. /\ Reads("request", c)
          /\ call' = [call EXCEPT ![c] = "spawned"] \/ call' = [call EXCEPT ![c] = "answered"]
      BY <2>3 DEF ReadSend, ReadOther
    <3>2. call'[c] # "sent" /\ \A d \in Calls \ {c} : call'[d] = call[d]
      BY <3>1
    <3> QED
      BY <2>c, <3>1, <3>2
  <2>4. ASSUME NEW c \in Calls, ReadCancel(c)
        PROVE  RequestKept'
    <3>1. Reads("cancel", c) /\ call' = call
      BY <2>4 DEF ReadCancel
    <3> QED
      BY <2>c, <3>1
  <2>5. ASSUME NEW c \in Sends, Register(c) \/ InvalidArgs(c) \/ Connected(c) \/ Answer(c)
        PROVE  RequestKept'
    BY <2>a, <2>5 DEF Register, InvalidArgs, Connected, Answer, CallStep, hostVars
  <2>6. ASSUME NEW c \in Sends, Leave(c, "connecting") \/ Leave(c, "pumping")
        PROVE  RequestKept'
    BY <2>a, <2>6 DEF Leave, CallStep, hostVars
  <2>7. ASSUME NEW c \in Reporting, BeatDue(c) \/ BeatSends(c) \/ BeatStops(c)
        PROVE  RequestKept'
    BY <2>b, <2>7 DEF BeatDue, BeatSends, BeatStops, hostVars
  <2>8. CASE ReadEnd \/ LoopReturns \/ ReadFails \/ HostCloses
    BY <2>b, <2>8 DEF ReadEnd, LoopReturns, ReadFails, HostCloses, hostVars
  <2>9. CASE Write \/ WriterEnds \/ WriteFails
    BY <2>b, <2>9 DEF Write, WriterEnds, WriteFails, hostVars
  <2>10. CASE UNCHANGED vars
    BY <2>b, <2>10 DEF vars, hostVars
  <2> QED
    BY <2>1, <2>2, <2>3, <2>4, <2>5, <2>6, <2>7, <2>8, <2>9, <2>10, Steps
<1>3. TypeOK /\ Drained /\ AnswerKept /\ [Next]_vars => AnswerKept'
  <2> SUFFICES ASSUME TypeOK, Drained, AnswerKept, [Next]_vars
               PROVE  AnswerKept'
    OBVIOUS
  <2> USE DEF TypeOK
  <2>a. ASSUME \A d \in Calls : call'[d] = "answered" => call[d] = "answered",
               UNCHANGED <<frames, writer, written>>
        PROVE  AnswerKept'
    BY <2>a DEF AnswerKept
  <2>b. ASSUME NEW c \in Calls, call' = [call EXCEPT ![c] = "answered"], Send("answer", c),
               UNCHANGED <<writer, written>>, writer # "ended"
        PROVE  AnswerKept'
    <3>1. /\ writer = "writing" => Queued(frames', [kind |-> "answer", call |-> c])
          /\ \A f : Queued(frames, f) => Queued(frames', f)
      BY <2>b, SendKeeps
    <3>2. \A d \in Calls \ {c} : call'[d] = call[d]
      BY <2>b
    <3> QED
      BY <2>b, <3>1, <3>2 DEF AnswerKept
  <2>1. ASSUME NEW c \in Calls, HostRequests(c) \/ HostCancels(c)
        PROVE  AnswerKept'
    BY <2>a, <2>1 DEF HostRequests, HostCancels, outVars
  <2>2. ASSUME NEW c \in Calls, ReadSend(c) \/ ReadCancel(c)
        PROVE  AnswerKept'
    BY <2>a, <2>2 DEF ReadSend, ReadCancel, outVars
  <2>3. ASSUME NEW c \in Calls, ReadOther(c)
        PROVE  AnswerKept'
    BY <2>b, <2>3 DEF ReadOther, Reads, Drained
  <2>4. ASSUME NEW c \in Sends, Register(c) \/ InvalidArgs(c) \/ Connected(c)
        PROVE  AnswerKept'
    BY <2>a, <2>4 DEF Register, InvalidArgs, Connected, CallStep, outVars
  <2>5. ASSUME NEW c \in Sends, Answer(c)
        PROVE  AnswerKept'
    <3>1. writer # "ended"
      BY <2>5 DEF Answer, CallStep, Drained
    <3> QED
      BY <2>b, <2>5, <3>1 DEF Answer, CallStep
  <2>6. ASSUME NEW c \in Sends, Leave(c, "connecting") \/ Leave(c, "pumping")
        PROVE  AnswerKept'
    BY <2>a, <2>6 DEF Leave, CallStep, outVars
  <2>7. ASSUME NEW c \in Reporting, BeatSends(c)
        PROVE  AnswerKept'
    <3>1. \A f : Queued(frames, f) => Queued(frames', f)
      BY <2>7, SendKeeps DEF BeatSends
    <3> QED
      BY <2>7, <3>1 DEF BeatSends, AnswerKept
  <2>8. ASSUME NEW c \in Reporting, BeatDue(c) \/ BeatStops(c)
        PROVE  AnswerKept'
    BY <2>a, <2>8 DEF BeatDue, BeatStops, outVars
  <2>9. CASE ReadEnd \/ LoopReturns \/ ReadFails \/ HostCloses
    BY <2>a, <2>9 DEF ReadEnd, LoopReturns, ReadFails, HostCloses, outVars
  <2>10. CASE Write
    <3>1. ASSUME NEW c \in Calls, call'[c] = "answered"
          PROVE  writer' = "broken" \/ c \in written'
                    \/ Queued(frames', [kind |-> "answer", call |-> c])
      <4> DEFINE e == [kind |-> "answer", call |-> c]
      <4>1. /\ frames # <<>> /\ frames' = Tail(frames) /\ writer' = writer /\ call' = call
            /\ written \subseteq written' /\ (Head(frames) = e => c \in written')
        BY <2>10 DEF Write
      <4>2. writer = "broken" \/ c \in written \/ Queued(frames, e)
        BY <3>1, <4>1 DEF AnswerKept
      <4> HIDE DEF e
      <4>3. Queued(frames, e) /\ Head(frames) # e => Queued(frames', e)
        BY <4>1, TailKeeps
      <4>4. writer' = "broken" \/ c \in written' \/ Queued(frames', e)
        BY <4>1, <4>2, <4>3
      <4> QED
        BY <4>4 DEF e
    <3> QED
      BY <3>1 DEF AnswerKept
  <2>11. CASE WriteFails
    BY <2>11 DEF WriteFails, AnswerKept
  <2>12. CASE WriterEnds
    BY <2>12 DEF WriterEnds, AnswerKept
  <2>13. CASE UNCHANGED vars
    BY <2>a, <2>13 DEF vars, outVars
  <2> QED
    BY <2>1, <2>2, <2>3, <2>4, <2>5, <2>6, <2>7, <2>8, <2>9, <2>10, <2>11, <2>12, <2>13, Steps
<1>4. TypeOK /\ Drained /\ RequestKept /\ AnswerKept => NoAnswerLost
  <2> SUFFICES ASSUME TypeOK, Drained, RequestKept, AnswerKept,
                      loop = "returned", writer # "broken",
                      NEW c \in Calls, call[c] # "unsent"
               PROVE  c \in written
    BY DEF NoAnswerLost
  <2>1. writer = "ended" /\ stdin = <<>> /\ frames = <<>>
    BY DEF TypeOK, Drained
  <2>2. \A e : ~Queued(<<>>, e)
    BY DEF Queued
  <2>3. call[c] = "answered"
    BY <2>1, <2>2 DEF Drained, RequestKept
  <2> QED
    BY <2>1, <2>2, <2>3 DEF AnswerKept
<1> QED
  BY <1>1, <1>2, <1>3, <1>4, TypeCorrect, DrainedInOrder, PTL DEF Spec
=============================================================================
