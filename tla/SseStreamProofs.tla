---------------------------- MODULE SseStreamProofs ----------------------------
(***************************************************************************)
(* Proofs about SseStream, for any capacity of the ring, any number of     *)
(* clients and messages of any length: the final frame reaches every       *)
(* stream that ends by itself; what the frames say the registry knows      *)
(* already; the agent gets of a message all that it can take; and a client *)
(* that keeps up can put the answer together.                              *)
(***************************************************************************)
EXTENDS SseStream, SiftingProofs, SequenceTheorems, FiniteSetTheorems, TLAPS

\* The types of what the proof is about; what a frame holds does not matter.
StreamTypes ==
    /\ \E S : log \in Seq(S)
    /\ closed \in BOOLEAN
    /\ stream \in [Clients -> StreamState]
    /\ next \in [Clients -> Nat \ {0}]
    /\ got \in [Clients -> SUBSET Nat]

\* The sink is closed with the final frame, and nothing follows it.
FinalIsLast == closed => log # <<>> /\ log[Len(log)].kind = "final"

\* A client that watches is not beyond the next frame.  Once there is a last
\* frame the client has had it or has it still to get; and if its stream has
\* ended by itself, it has had it.
LastFrameDue ==
    \A c \in Clients :
        /\ stream[c] = "open" => next[c] <= Len(log) + 1
        /\ stream[c] = "open" /\ closed => next[c] <= Len(log) \/ Len(log) \in got[c]
        /\ stream[c] = "ended" => closed /\ Len(log) \in got[c]

-----------------------------------------------------------------------------
\* A sequence after Append.
LEMMA Appended ==
    ASSUME NEW S, NEW q \in Seq(S), NEW e
    PROVE  /\ Append(q, e) \in Seq(S \union {e}) /\ Append(q, e) # <<>>
           /\ Len(Append(q, e)) = Len(q) + 1 /\ Append(q, e)[Len(q) + 1] = e
  OBVIOUS

\* The oldest frame of the ring is one that was sent.
LEMMA OldestSent ==
    ASSUME NEW S, log \in Seq(S)
    PROVE  Len(log) \in Nat /\ Oldest \in Nat \ {0} /\ Oldest <= Len(log) + 1
                /\ (Len(log) >= 1 => Oldest <= Len(log))
  BY StreamAssumption DEF Oldest

\* A stream that ends by itself has brought the final frame: whoever watches
\* when the sink is closed has that frame before it, the ring keeps it, and
\* the stream does not end before it is taken.
THEOREM FinalReaches == Spec => []FinalNotLost
<1> DEFINE Inv == StreamTypes /\ FinalIsLast /\ LastFrameDue
<1> USE StreamAssumption
<1>1. Init => Inv
  <2> SUFFICES ASSUME Init PROVE Inv
    OBVIOUS
  <2>1. /\ log = <<>> /\ closed = FALSE
        /\ stream = [c \in Clients |-> "none"] /\ next = [c \in Clients |-> 1]
        /\ got = [c \in Clients |-> {}]
    BY DEF Init
  <2>2. \E S : log \in Seq(S)
    <3>1. log \in Seq({})
      BY <2>1
    <3> QED
      BY <3>1
  <2>3. /\ closed \in BOOLEAN /\ stream \in [Clients -> StreamState]
        /\ next \in [Clients -> Nat \ {0}] /\ got \in [Clients -> SUBSET Nat]
    <3>1. closed \in BOOLEAN
      BY <2>1
    <3>2. stream \in [Clients -> StreamState]
      BY <2>1 DEF StreamState
    <3>3. next \in [Clients -> Nat \ {0}]
      BY <2>1
    <3>4. got \in [Clients -> SUBSET Nat]
      BY <2>1
    <3> QED
      BY <3>1, <3>2, <3>3, <3>4
  <2>4. StreamTypes
    BY <2>2, <2>3, Zenon DEF StreamTypes
  <2> QED
    BY <2>1, <2>4 DEF FinalIsLast, LastFrameDue
<1>2. Inv /\ [Next]_vars => Inv'
  <2> SUFFICES ASSUME Inv, [Next]_vars
               PROVE  Inv'
    OBVIOUS
  <2>0. PICK S : log \in Seq(S)
    BY DEF StreamTypes
  <2>a. ASSUME UNCHANGED <<log, closed, stream, next, got>>
        PROVE  Inv'
    BY <2>a DEF StreamTypes, FinalIsLast, LastFrameDue
  <2>b. ASSUME NEW e, Publish(e), UNCHANGED <<closed, stream, next, got>>
        PROVE  Inv'
    <3>1. CASE closed
      BY <2>a, <2>b, <3>1 DEF Publish
    <3>2. CASE ~closed
      <4>1. log' = Append(log, e)
        BY <2>b, <3>2 DEF Publish
      <4>2. log' \in Seq(S \union {e}) /\ Len(log') = Len(log) + 1 /\ Len(log) \in Nat
        BY <2>0, <4>1, Appended
      <4>3. StreamTypes'
        BY <2>b, <4>2 DEF StreamTypes
      <4> QED
        BY <2>b, <3>2, <4>2, <4>3 DEF FinalIsLast, LastFrameDue, StreamTypes
    <3> QED
      BY <3>1, <3>2 DEF StreamTypes
  <2>c. ASSUME NEW c \in Clients, NEW to \in StreamState \ {"open", "ended"},
               stream' = [stream EXCEPT ![c] = to], UNCHANGED <<log, closed, got>>,
               next' \in [Clients -> Nat \ {0}], \A d \in Clients \ {c} : next'[d] = next[d]
        PROVE  Inv'
    BY <2>c DEF StreamTypes, FinalIsLast, LastFrameDue
  <2>d. ASSUME NEW c \in Clients, ~closed, stream' = [stream EXCEPT ![c] = "open"], Joins(c),
               UNCHANGED <<log, closed, got>>
        PROVE  Inv'
    <3>1. Len(log) \in Nat
      BY <2>0
    <3> QED
      BY <2>d, <3>1 DEF Joins, StreamTypes, FinalIsLast, LastFrameDue, StreamState
  <2>1. CASE Handle
    BY <2>a, <2>1 DEF Handle, CreateTask, Translate, Refuse, Abandon, Prompt, sinkVars, clientVars
  <2>2. CASE Bridge
    <3>1. CASE (\E i \in Item : ReadItem(i)) \/ Start \/ Record \/ Ignore \/ Conclude \/ DropBridge
      BY <2>a, <3>1 DEF ReadItem, Start, Record, Ignore, Conclude, DropBridge, QuietStep,
                        sinkVars, clientVars
    <3>2. CASE Announce
      BY <2>b, <3>2 DEF Announce, clientVars
    <3>3. CASE PublishPart
      BY <2>b, <3>3 DEF PublishPart, clientVars
    <3>4. CASE PublishFinal
      <4> DEFINE e == [kind |-> "final", state |-> FinalState(item.reason)]
      <4>1. e.kind = "final"
        OBVIOUS
      <4>2. /\ Publish(e) /\ closed' = TRUE /\ UNCHANGED <<stream, next, got>>
        BY <3>4 DEF PublishFinal, clientVars
      <4> HIDE DEF e
      <4>3. CASE closed
        BY <2>a, <4>2, <4>3 DEF Publish
      <4>4. CASE ~closed
        <5>1. log' = Append(log, e)
          BY <4>2, <4>4 DEF Publish
        <5>2. /\ log' \in Seq(S \union {e}) /\ log' # <<>> /\ Len(log') = Len(log) + 1
              /\ Len(log) \in Nat /\ log'[Len(log')] = e
          BY <2>0, <5>1, Appended
        <5>3. StreamTypes'
          BY <4>2, <5>2 DEF StreamTypes
        <5>4. FinalIsLast'
          BY <4>1, <5>2 DEF FinalIsLast
        <5>5. LastFrameDue'
          BY <4>2, <4>4, <5>2 DEF LastFrameDue, StreamTypes
        <5> QED
          BY <5>3, <5>4, <5>5
      <4> QED
        BY <4>3, <4>4 DEF StreamTypes
    <3> QED
      BY <2>2, <3>1, <3>2, <3>3, <3>4 DEF Bridge
  <2>3. CASE CancelTask
    BY <2>a, <2>3 DEF CancelTask, QuietStep, sinkVars, clientVars
  <2>4. ASSUME NEW c \in Clients, OwnerSubscribes \/ SubscribeToTask(c)
        PROVE  Inv'
    <3>1. ASSUME NEW d \in Clients,
                 \/ stream' = [stream EXCEPT ![d] = "open"] /\ ~closed
                 \/ \E to \in {"panicked", "refused", "empty"} :
                        stream' = [stream EXCEPT ![d] = to],
                 Joins(d), UNCHANGED <<log, closed, got>>
          PROVE  Inv'
      <4>1. Len(log) \in Nat
        BY <2>0
      <4>2. next' \in [Clients -> Nat \ {0}] /\ \A f \in Clients \ {d} : next'[f] = next[f]
        BY <3>1, <4>1 DEF Joins, StreamTypes
      <4> QED
        BY <2>c, <2>d, <3>1, <4>2 DEF StreamState
    <3>2. CASE OwnerSubscribes
      <4>1. Owner \in Clients
        BY DEF Clients
      <4> QED
        BY <3>1, <3>2, <4>1 DEF OwnerSubscribes, StreamMoves, sinkVars, StreamTypes
    <3>3. CASE SubscribeToTask(c)
      BY <3>1, <3>3 DEF SubscribeToTask, StreamMoves, sinkVars, StreamTypes
    <3> QED
      BY <2>4, <3>2, <3>3
  <2>5. ASSUME NEW c \in Clients, Receive(c)
        PROVE  Inv'
    <3>1. /\ Len(log) \in Nat /\ Oldest \in Nat \ {0}
          /\ stream[c] = "open" /\ next[c] <= Len(log) /\ next[c] \in Nat \ {0}
          /\ UNCHANGED <<log, closed, stream>>
      BY <2>0, <2>5, OldestSent DEF Receive, sinkVars, StreamTypes
    <3>2. Oldest <= Len(log)
      BY <2>0, <3>1, OldestSent
    <3>3. CASE next[c] < Oldest
      <4>1. next' = [next EXCEPT ![c] = Oldest] /\ got' = got
        BY <2>5, <3>3 DEF Receive
      <4> QED
        BY <3>1, <3>2, <4>1 DEF StreamTypes, FinalIsLast, LastFrameDue
    <3>4. CASE ~(next[c] < Oldest)
      <4>1. /\ next' = [next EXCEPT ![c] = next[c] + 1]
            /\ got' = [got EXCEPT ![c] = got[c] \union {next[c]}]
        BY <2>5, <3>4 DEF Receive
      <4>2. next[c] + 1 <= Len(log) \/ next[c] = Len(log)
        BY <3>1
      <4> QED
        BY <3>1, <4>1, <4>2 DEF StreamTypes, FinalIsLast, LastFrameDue
    <3> QED
      BY <3>3, <3>4
  <2>6. ASSUME NEW c \in Clients, EndOfStream(c)
        PROVE  Inv'
    <3>1. /\ closed /\ next[c] > Len(log) /\ stream[c] = "open"
          /\ stream' = [stream EXCEPT ![c] = "ended"] /\ UNCHANGED <<log, closed, next, got>>
      BY <2>6 DEF EndOfStream, StreamMoves, sinkVars
    <3>2. Len(log) \in got[c]
      BY <2>0, <3>1 DEF LastFrameDue, StreamTypes
    <3> QED
      BY <3>1, <3>2 DEF StreamTypes, FinalIsLast, LastFrameDue, StreamState
  <2>7. ASSUME NEW c \in Clients, Leave(c)
        PROVE  Inv'
    BY <2>c, <2>7 DEF Leave, StreamMoves, sinkVars, StreamTypes, StreamState
  <2>8. ASSUME NEW c \in Clients, GetTask(c)
        PROVE  Inv'
    BY <2>a, <2>8 DEF GetTask, sinkVars
  <2>9. CASE UNCHANGED vars
    BY <2>a, <2>9 DEF vars, sinkVars, clientVars
  <2> QED
    BY <2>1, <2>2, <2>3, <2>4, <2>5, <2>6, <2>7, <2>8, <2>9 DEF Next, Watch, Clients
<1>3. Inv => FinalNotLost
  <2> SUFFICES ASSUME Inv, NEW c \in Clients, stream[c] = "ended"
               PROVE  Len(log) \in got[c] /\ Last(log).kind = "final"
    BY DEF FinalNotLost
  <2> QED
    BY DEF FinalIsLast, LastFrameDue, Last
<1> QED
  BY <1>1, <1>2, <1>3, PTL DEF Spec

-----------------------------------------------------------------------------
(* Translation of parts and blocks.                                        *)

\* A sequence made element by element from another one.
LEMMA MapType ==
    ASSUME NEW A, NEW B, NEW s \in Seq(A), NEW f, f = [i \in DOMAIN s |-> f[i]],
           \A i \in DOMAIN s : f[i] \in B
    PROVE  f \in Seq(B) /\ Len(f) = Len(s) /\ DOMAIN f = DOMAIN s
<1> DEFINE n == Len(s)
<1>1. n \in Nat /\ DOMAIN s = 1 .. n
  OBVIOUS
<1> HIDE DEF n
<1>2. f \in [1 .. n -> B]
  BY <1>1
<1>3. f \in Seq(B) /\ Len(f) = n /\ DOMAIN f = 1 .. n
  BY <1>1, <1>2
<1> QED
  BY <1>1, <1>3 DEF n

\* A part that passes inbound becomes a block, whatever the agent can take.
LEMMA BlockOfType ==
    ASSUME NEW p \in Part, NEW caps, PassesInbound(p, caps)
    PROVE  BlockOf(p) \in Block
<1>1. CASE p \in [type : {"text", "data"}, payload : Sizes]
  BY <1>1 DEF BlockOf, Block, HasRaw
<1>2. CASE p \in [type : {"file"}, raw : Sizes \union {Absent}, url : Sizes \union {Absent}, media : Media]
  <2>1. /\ p.type = "file" /\ p.raw \in Sizes \union {Absent} /\ p.url \in Sizes \union {Absent}
        /\ p.media \in Media
    BY <1>2
  <2>2. CASE HasRaw(p)
    BY <2>1, <2>2 DEF HasRaw, BlockOf, Block, Media
  <2>3. CASE ~HasRaw(p)
    BY <2>1, <2>3 DEF HasRaw, HasUrl, PassesInbound, BlockOf, Block
  <2> QED
    BY <2>2, <2>3
<1> QED
  BY <1>1, <1>2 DEF Part

\* Inbound gives a block for each part that passes, in their order.
LEMMA InboundIs ==
    ASSUME NEW m \in Seq(Part), NEW caps
    PROVE  LET kept == Sift(m, {p \in Part : PassesInbound(p, caps)})
           IN  /\ kept \in Seq({p \in Part : PassesInbound(p, caps)})
               /\ Inbound(m, caps) \in Seq(Block)
               /\ DOMAIN Inbound(m, caps) = DOMAIN kept
               /\ \A i \in DOMAIN kept : Inbound(m, caps)[i] = BlockOf(kept[i])
<1> DEFINE passing == {p \in Part : PassesInbound(p, caps)}
           kept == Sift(m, passing)
           blocks == Inbound(m, caps)
<1>1. kept \in Seq(passing)
  <2>1. kept \in Seq(Part \intersect passing)
    BY SiftType
  <2>2. Part \intersect passing = passing
    OBVIOUS
  <2> QED
    BY <2>1, <2>2
<1>2. blocks = [i \in DOMAIN kept |-> BlockOf(kept[i])]
  BY DEF Inbound
<1>3. \A i \in DOMAIN kept : BlockOf(kept[i]) \in Block
  BY <1>1, BlockOfType
<1> HIDE DEF kept, blocks
<1>4. blocks \in Seq(Block) /\ DOMAIN blocks = DOMAIN kept
  BY <1>1, <1>2, <1>3, MapType
<1> QED
  BY <1>1, <1>2, <1>4 DEF kept, blocks

\* Outbound turns every block it knows into a part.
LEMMA PartOfType ==
    ASSUME NEW b \in Block, b.type # "unknown"
    PROVE  PartOf(b) \in Part
<1>1. CASE b \in [type : {"text", "json", "plain"}, payload : Sizes]
  BY <1>1 DEF PartOf, Part
<1>2. CASE b \in [type : {"image", "audio", "blob", "link"}, payload : Sizes, media : Media]
  BY <1>2 DEF PartOf, Part
<1> QED
  BY <1>1, <1>2 DEF Block

\* Outbound of blocks that are all known.
LEMMA OutboundKnown ==
    ASSUME NEW bs \in Seq({b \in Block : b.type # "unknown"})
    PROVE  Outbound(bs) = [i \in DOMAIN bs |-> PartOf(bs[i])] /\ Outbound(bs) \in Seq(Part)
<1> DEFINE known == {b \in Block : b.type # "unknown"}
<1>1. Sift(bs, known) = bs
  BY SiftAll
<1>2. Outbound(bs) = [i \in DOMAIN bs |-> PartOf(bs[i])]
  BY <1>1 DEF Outbound
<1>3. \A i \in DOMAIN bs : PartOf(bs[i]) \in Part
  BY PartOfType
<1> DEFINE parts1 == Outbound(bs)
<1> HIDE DEF parts1
<1>4. parts1 = [i \in DOMAIN bs |-> parts1[i]] /\ \A i \in DOMAIN bs : parts1[i] \in Part
  BY <1>2, <1>3 DEF parts1
<1>5. parts1 \in Seq(Part)
  BY <1>4, MapType
<1> QED
  BY <1>2, <1>5 DEF parts1

\* One block gives one part, or none if it is not known.
LEMMA OutboundOne ==
    ASSUME NEW b \in Block, Outbound(<<b>>) # <<>>
    PROVE  Outbound(<<b>>) = <<PartOf(b)>> /\ PartOf(b) \in Part
<1> DEFINE known == {x \in Block : x.type # "unknown"}
           none == <<>>
           one == Append(none, b)
<1>1. none \in Seq(Block) /\ none = <<>> /\ one = <<b>>
  <2>1. none \in Seq(Block)
    BY EmptySeq
  <2>2. one = <<b>>
    OBVIOUS
  <2> QED
    BY <2>1, <2>2
<1> HIDE DEF none, known
<1>2. Sift(one, known) = IF b \in known THEN Append(Sift(none, known), b) ELSE Sift(none, known)
  BY <1>1, SiftAppend
<1>3. Sift(none, known) = <<>>
  BY <1>1, SiftEmpty
<1>4. CASE b \in known
  <2> DEFINE outbound == Outbound(<<b>>)
  <2>1. <<b>> \in Seq({x \in Block : x.type # "unknown"})
    BY <1>4 DEF known
  <2>2. outbound = [i \in DOMAIN <<b>> |-> PartOf(<<b>>[i])]
    BY <2>1, OutboundKnown
  <2> HIDE DEF outbound
  <2>3. outbound = <<PartOf(b)>>
    BY <2>2
  <2>4. PartOf(b) \in Part
    BY <1>4, PartOfType DEF known
  <2> QED
    BY <2>3, <2>4 DEF outbound
<1>5. CASE b \notin known
  <2> DEFINE sifted == Sift(<<b>>, {x \in Block : x.type # "unknown"})
             outbound == Outbound(<<b>>)
  <2>1. sifted = <<>>
    BY <1>1, <1>2, <1>3, <1>5 DEF known
  <2>2. outbound = [i \in DOMAIN sifted |-> PartOf(sifted[i])]
    BY DEF Outbound
  <2> HIDE DEF sifted, outbound
  <2>3. outbound = <<>>
    BY <2>1, <2>2
  <2> QED
    BY <2>3 DEF outbound
<1> QED
  BY <1>4, <1>5

\* What the agent gets of a message within the size limit: every text and
\* every file by address alone, and nothing large.
LEMMA MessageCarried ==
    ASSUME NEW m \in Seq(Part), WithinLimit(m)
    PROVE  /\ Outbound(Inbound(m, {})) =
                  Sift(m, {p \in Part : p.type = "text" \/ (HasUrl(p) /\ ~HasRaw(p))})
           /\ \A i \in DOMAIN Inbound(m, {}) : Inbound(m, {})[i].payload = "small"
<1> DEFINE passing == {p \in Part : PassesInbound(p, {})}
           simple == {p \in Part : p.type = "text" \/ (HasUrl(p) /\ ~HasRaw(p))}
           fitting == {p \in Part : PayloadSize(p) # "large"}
           known == {b \in Block : b.type # "unknown"}
           kept == Sift(m, passing)
           blocks == Inbound(m, {})
<1>1. /\ kept \in Seq(passing) /\ blocks \in Seq(Block) /\ DOMAIN blocks = DOMAIN kept
      /\ \A i \in DOMAIN kept : blocks[i] = BlockOf(kept[i])
  BY InboundIs
<1>2. ASSUME NEW p \in Part
      PROVE  PassesInbound(p, {}) <=> p.type = "text" \/ (HasUrl(p) /\ ~HasRaw(p))
  BY DEF PassesInbound, Needed, HasRaw, HasUrl, Part
<1>3. kept \in Seq(fitting)
  <2>1. m \in Seq(fitting)
    BY DEF WithinLimit
  <2>2. kept \in Seq(fitting \intersect passing)
    BY <2>1, SiftType
  <2> QED
    BY <2>2
<1>4. ASSUME NEW p \in passing, PayloadSize(p) # "large"
      PROVE  BlockOf(p).type # "unknown" /\ PartOf(BlockOf(p)) = p /\ BlockOf(p).payload = "small"
  <2>1. CASE p \in [type : {"text", "data"}, payload : Sizes]
    BY <1>2, <1>4, <2>1 DEF BlockOf, PartOf, PayloadSize, HasRaw, HasUrl, Sizes
  <2>2. CASE p \in [type : {"file"}, raw : Sizes \union {Absent}, url : Sizes \union {Absent}, media : Media]
    <3>1. /\ p.type = "file" /\ p.raw = Absent /\ p.url \in Sizes /\ p.media \in Media
          /\ ~HasRaw(p)
      BY <1>2, <2>2 DEF HasRaw, HasUrl
    <3>2. p = [type |-> "file", raw |-> Absent, url |-> p.url, media |-> p.media]
      BY <2>2, <3>1
    <3>3. BlockOf(p) = [type |-> "link", payload |-> p.url, media |-> p.media]
      BY <3>1 DEF BlockOf
    <3>4. p.url = "small"
      BY <1>4, <3>1 DEF PayloadSize, Sizes
    <3> QED
      BY <3>2, <3>3, <3>4 DEF PartOf
  <2> QED
    BY <2>1, <2>2 DEF Part
<1> HIDE DEF kept, blocks
<1>5. \A i \in DOMAIN kept : kept[i] \in passing /\ PayloadSize(kept[i]) # "large"
  BY <1>1, <1>3
<1>6. blocks \in Seq(known)
  <2>1. \A i \in DOMAIN kept : blocks[i] \in known
    BY <1>1, <1>4, <1>5
  <2> QED
    BY <1>1, <2>1
<1>7. Outbound(blocks) = kept
  <2>1. Outbound(blocks) = [i \in DOMAIN blocks |-> PartOf(blocks[i])]
    BY <1>6, OutboundKnown
  <2>2. \A i \in DOMAIN kept : PartOf(blocks[i]) = kept[i]
    BY <1>1, <1>4, <1>5
  <2>3. kept = [i \in DOMAIN kept |-> kept[i]]
    BY <1>1
  <2> QED
    BY <1>1, <2>1, <2>2, <2>3
<1>8. kept = Sift(m, simple)
  <2>1. Part \intersect passing = Part \intersect simple
    BY <1>2
  <2> QED
    BY <2>1, SiftSame DEF kept
<1>9. \A i \in DOMAIN blocks : blocks[i].payload = "small"
  BY <1>1, <1>4, <1>5
<1> QED
  BY <1>7, <1>8, <1>9 DEF blocks

-----------------------------------------------------------------------------
\* The bridge publishes a part that it has recorded.
HasRecorded == bridge = "publishing" => parts # <<>>

\* Every final state is terminal.
LEMMA FinalIsTerminal ==
    ASSUME NEW stop
    PROVE  FinalState(stop) \in Terminal
  BY DEF FinalState, Terminal

\* The last part of an answer that has one.
LEMMA LastPart ==
    ASSUME NEW q \in Seq(Part), q # <<>>
    PROVE  Last(q) \in Part /\ Len(q) \in Nat \ {0} /\ Last(q) = q[Len(q)]
<1>1. Len(q) \in Nat /\ Len(q) # 0
  BY EmptySeq
<1>2. Len(q) \in DOMAIN q
  BY <1>1
<1> QED
  BY <1>1, <1>2 DEF Last

\* A step of the task's state machine by the bridge.
LEMMA TransitionType ==
    ASSUME task \in TaskState \union {"absent"}, NEW to \in TaskState, NEW then \in BridgeState,
           Transition(to, then)
    PROVE  task' \in TaskState \union {"absent"} /\ bridge' \in {then, "error"}
  BY DEF Transition

\* Type correctness: what the handler, the registry, the bridge, the sink and
\* the clients hold has the types the code gives it; a client has been sent
\* only frames that went into the sink.
THEOREM TypeCorrect == Spec => [](TypeOK /\ HasRecorded)
<1> DEFINE HandlerOK == /\ streamed \in BOOLEAN /\ handler \in HandlerState
                        /\ message \in Messages \union {<<>>} /\ content \in Seq(Block)
           RegistryOK == task \in TaskState \union {"absent"} /\ parts \in Seq(Part)
           SinkOK == log \in Seq(Frame) /\ closed \in BOOLEAN
           BridgeOK == bridge \in BridgeState /\ item \in Item \union {None} /\ items \in 0 .. MaxItems
           ClientsOK == /\ stream \in [Clients -> StreamState]
                        /\ next \in [Clients -> Nat \ {0}]
                        /\ behind \subseteq Clients
                        /\ seen \in [Clients -> Nat \union {None}]
           GotOK == got \in [Clients -> SUBSET (DOMAIN log)]
           Inv == TypeOK /\ HasRecorded
<1>a. TypeOK <=> HandlerOK /\ RegistryOK /\ SinkOK /\ BridgeOK /\ ClientsOK /\ GotOK
  BY DEF TypeOK
<1> USE StreamAssumption
<1>1. Init => Inv
  <2> SUFFICES ASSUME Init
               PROVE  Inv
    OBVIOUS
  <2>1. HandlerOK
    <3>1. content \in Seq(Block)
      BY EmptySeq DEF Init
    <3> QED
      BY <3>1 DEF Init, HandlerState
  <2>2. RegistryOK
    <3>1. parts \in Seq(Part)
      BY EmptySeq DEF Init
    <3> QED
      BY <3>1 DEF Init
  <2>3. SinkOK
    <3>1. log \in Seq(Frame)
      BY EmptySeq DEF Init
    <3> QED
      BY <3>1 DEF Init
  <2>4. BridgeOK
    BY DEF Init, BridgeState
  <2>5. ClientsOK
    BY DEF Init, StreamState
  <2>6. GotOK
    BY DEF Init
  <2>7. HasRecorded
    BY DEF Init, HasRecorded
  <2> QED
    BY <1>a, <2>1, <2>2, <2>3, <2>4, <2>5, <2>6, <2>7
<1>2. Inv /\ [Next]_vars => Inv'
  <2> SUFFICES ASSUME Inv, [Next]_vars
               PROVE  Inv'
    OBVIOUS
  <2>1. HandlerOK /\ RegistryOK /\ SinkOK /\ BridgeOK /\ ClientsOK /\ GotOK
    BY <1>a
  <2>2. SUFFICES HandlerOK' /\ RegistryOK' /\ SinkOK' /\ BridgeOK' /\ ClientsOK' /\ GotOK' /\ HasRecorded'
    BY <1>a DEF TypeOK
  <2>3. CASE Handle
    <3>1. UNCHANGED <<streamed, parts, item, items, sinkVars, clientVars>>
      BY <2>3 DEF Handle, CreateTask, Translate, Refuse, Abandon, Prompt, handlerVars, bridgeVars
    <3>2. HandlerOK'
      <4>1. CASE Translate
        <5>1. message \in Seq(Part)
          BY <2>1, EmptySeq
        <5>2. Inbound(message, {}) \in Seq(Block)
          BY <5>1, InboundIs
        <5> QED
          BY <2>1, <4>1, <5>2 DEF Translate, HandlerMoves, HandlerState
      <4>2. CASE \E m \in Messages : CreateTask(m)
        BY <2>1, <4>2 DEF CreateTask, HandlerMoves, HandlerState
      <4>3. CASE Refuse
        BY <2>1, <4>3 DEF Refuse, HandlerMoves, HandlerState
      <4>4. CASE Abandon \/ Prompt
        <5>1. <<>> \in Seq(Block)
          BY EmptySeq
        <5> QED
          BY <2>1, <4>4, <5>1 DEF Abandon, Prompt, HandlerMoves, HandlerState
      <4> QED
        BY <2>3, <4>1, <4>2, <4>3, <4>4 DEF Handle
    <3>3. task' \in TaskState \union {"absent"} /\ bridge' \in {bridge, "reading"}
      BY <2>1, <2>3 DEF Handle, CreateTask, Translate, Refuse, Abandon, Prompt, bridgeVars, TaskState
    <3> QED
      BY <2>1, <3>1, <3>2, <3>3 DEF sinkVars, clientVars, BridgeState, HasRecorded
  <2>4. CASE Bridge
    <3>1. HandlerOK' /\ ClientsOK' /\ got' = got
      BY <2>1, <2>4 DEF Bridge, ReadItem, Start, Announce, Record, PublishPart, Ignore, Conclude,
                        PublishFinal, DropBridge, QuietStep, handlerVars, clientVars
    <3>2. ASSUME NEW e \in Frame, Publish(e)
          PROVE  log' \in Seq(Frame) /\ DOMAIN log \subseteq DOMAIN log'
      <4>1. CASE closed
        BY <2>1, <3>2, <4>1 DEF Publish
      <4>2. CASE ~closed
        BY <2>1, <3>2, <4>2 DEF Publish
      <4> QED
        BY <4>1, <4>2
    <3>3. ASSUME UNCHANGED sinkVars, RegistryOK', BridgeOK', HasRecorded'
          PROVE  SinkOK' /\ GotOK'
      BY <2>1, <3>1, <3>3 DEF sinkVars
    <3>4. ASSUME NEW i \in Item, ReadItem(i)
          PROVE  RegistryOK' /\ SinkOK' /\ BridgeOK' /\ GotOK' /\ HasRecorded'
      BY <2>1, <3>1, <3>4 DEF ReadItem, BridgeMoves, BridgeState, QuietStep, sinkVars, HasRecorded
    <3>5. CASE Start
      <4>1. task' \in TaskState \union {"absent"} /\ bridge' \in {"announcing", "error"}
        BY <2>1, <3>5, TransitionType DEF Start, TaskState, BridgeState
      <4> QED
        BY <2>1, <3>1, <3>5, <4>1 DEF Start, BridgeState, QuietStep, sinkVars, HasRecorded
    <3>6. CASE Announce
      <4>1. [kind |-> "working"] \in Frame
        BY DEF Frame
      <4>2. log' \in Seq(Frame) /\ DOMAIN log \subseteq DOMAIN log'
        BY <3>2, <3>6, <4>1 DEF Announce
      <4>3. /\ bridge' = "handling" /\ UNCHANGED <<task, parts, item, items, closed>>
        BY <3>6 DEF Announce, BridgeMoves
      <4> QED
        BY <2>1, <3>1, <4>2, <4>3 DEF BridgeState, HasRecorded
    <3>7. CASE Record
      <4>1. item \in Block /\ Outbound(<<item>>) = <<PartOf(item)>> /\ PartOf(item) \in Part
        <5> DEFINE b == item
        <5>1. b \in Block /\ Outbound(<<b>>) # <<>>
          BY <3>7 DEF Record, Answering
        <5> HIDE DEF b
        <5>2. Outbound(<<b>>) = <<PartOf(b)>> /\ PartOf(b) \in Part
          BY <5>1, OutboundOne
        <5> QED
          BY <5>1, <5>2 DEF b
      <4>2. parts' = Append(parts, PartOf(item))
        <5> DEFINE p == PartOf(item)
        <5>1. parts' = parts \o <<p>> /\ p \in Part
          BY <3>7, <4>1 DEF Record
        <5> HIDE DEF p
        <5>2. parts' = Append(parts, p)
          BY <2>1, <5>1
        <5> QED
          BY <5>2 DEF p
      <4>3. parts' \in Seq(Part) /\ parts' # <<>>
        BY <2>1, <4>1, <4>2
      <4>4. bridge' = "publishing" /\ UNCHANGED <<task, item, items, sinkVars>>
        BY <3>7 DEF Record, BridgeMoves, QuietStep
      <4> QED
        BY <2>1, <3>1, <4>3, <4>4 DEF BridgeState, sinkVars, HasRecorded
    <3>8. CASE PublishPart
      <4> DEFINE e == [kind |-> "part", part |-> Last(parts), append |-> Len(parts) > 1]
      <4>1. bridge = "publishing" /\ parts # <<>>
        BY <3>8 DEF PublishPart, BridgeMoves, HasRecorded
      <4>2. Last(parts) \in Part
        BY <2>1, <4>1, LastPart
      <4>3. e \in Frame
        BY <4>2 DEF Frame, PartFrame
      <4>4. Publish(e) /\ bridge' = "reading" /\ item' = None /\ UNCHANGED <<task, parts, items, closed>>
        BY <3>8 DEF PublishPart, BridgeMoves
      <4> HIDE DEF e
      <4>5. log' \in Seq(Frame) /\ DOMAIN log \subseteq DOMAIN log'
        BY <3>2, <4>3, <4>4
      <4> QED
        BY <2>1, <3>1, <4>4, <4>5 DEF BridgeState, HasRecorded
    <3>9. CASE Ignore
      BY <2>1, <3>1, <3>9 DEF Ignore, BridgeMoves, BridgeState, QuietStep, sinkVars, HasRecorded
    <3>10. CASE Conclude
      <4> DEFINE to == FinalState(item.reason)
      <4>1. to \in TaskState
        BY FinalIsTerminal DEF TaskState
      <4> HIDE DEF to
      <4>2. Transition(to, "closing") /\ UNCHANGED <<parts, item, items, sinkVars>>
        BY <3>10 DEF Conclude, QuietStep, to
      <4>3. task' \in TaskState \union {"absent"} /\ bridge' \in {"closing", "error"}
        BY <2>1, <4>1, <4>2, TransitionType DEF BridgeState
      <4> QED
        BY <2>1, <3>1, <4>2, <4>3 DEF BridgeState, sinkVars, HasRecorded
    <3>11. CASE PublishFinal
      <4> DEFINE e == [kind |-> "final", state |-> FinalState(item.reason)]
      <4>1. e \in Frame
        BY FinalIsTerminal DEF Frame
      <4>2. /\ Publish(e) /\ bridge' = "done" /\ closed' = TRUE
            /\ UNCHANGED <<task, parts, item, items>>
        BY <3>11 DEF PublishFinal, BridgeMoves
      <4> HIDE DEF e
      <4>3. log' \in Seq(Frame) /\ DOMAIN log \subseteq DOMAIN log'
        BY <3>2, <4>1, <4>2
      <4> QED
        BY <2>1, <3>1, <4>2, <4>3 DEF BridgeState, HasRecorded
    <3>12. CASE DropBridge
      BY <2>1, <3>1, <3>12 DEF DropBridge, BridgeState, QuietStep, sinkVars, HasRecorded
    <3> QED
      BY <2>4, <3>1, <3>4, <3>5, <3>6, <3>7, <3>8, <3>9, <3>10, <3>11, <3>12 DEF Bridge
  <2>5. CASE CancelTask
    BY <2>1, <2>5 DEF CancelTask, QuietStep, handlerVars, bridgeVars, sinkVars, clientVars,
                      TaskState, Terminal, HasRecorded
  <2>6. ASSUME NEW c \in Clients, \/ c = Owner /\ OwnerSubscribes
                                  \/ SubscribeToTask(c) \/ Receive(c) \/ EndOfStream(c)
                                  \/ Leave(c) \/ GetTask(c)
        PROVE  HandlerOK' /\ RegistryOK' /\ SinkOK' /\ BridgeOK' /\ ClientsOK' /\ GotOK' /\ HasRecorded'
    <3>1. UNCHANGED <<handlerVars, task, parts, bridgeVars, sinkVars>>
      BY <2>6 DEF OwnerSubscribes, SubscribeToTask, Receive, EndOfStream, Leave, GetTask
    <3>2. HandlerOK' /\ RegistryOK' /\ SinkOK' /\ BridgeOK' /\ HasRecorded'
      BY <2>1, <3>1 DEF handlerVars, bridgeVars, sinkVars, HasRecorded
    <3>3. Len(log) \in Nat /\ DOMAIN log = 1 .. Len(log) /\ Len(parts) \in Nat /\ log' = log
      BY <2>1, <3>1 DEF sinkVars
    <3>4. CASE (c = Owner /\ OwnerSubscribes) \/ SubscribeToTask(c) \/ EndOfStream(c) \/ Leave(c)
      <4>1. /\ \E to \in StreamState : stream' = [stream EXCEPT ![c] = to]
            /\ next' = next \/ next' = [next EXCEPT ![c] = Len(log) + 1]
            /\ UNCHANGED <<got, behind, seen>>
        BY <3>4 DEF OwnerSubscribes, SubscribeToTask, EndOfStream, Leave, StreamMoves, Joins, StreamState
      <4> QED
        BY <2>1, <3>2, <3>3, <4>1
    <3>5. CASE GetTask(c)
      BY <2>1, <3>2, <3>3, <3>5 DEF GetTask
    <3>6. CASE Receive(c)
      <4>1. next[c] <= Len(log) /\ next[c] \in Nat \ {0} /\ UNCHANGED <<stream, seen>>
        BY <2>1, <3>6 DEF Receive
      <4>2. next[c] \in DOMAIN log /\ Oldest \in Nat \ {0}
        BY <2>1, <3>3, <4>1, OldestSent
      <4>3. CASE next' = [next EXCEPT ![c] = Oldest] /\ behind' = behind \union {c} /\ UNCHANGED got
        BY <2>1, <3>2, <3>3, <4>1, <4>2, <4>3
      <4>4. CASE /\ next' = [next EXCEPT ![c] = @ + 1]
                 /\ got' = [got EXCEPT ![c] = @ \union {next[c]}]
                 /\ UNCHANGED behind
        BY <2>1, <3>2, <3>3, <4>1, <4>2, <4>4
      <4> QED
        BY <3>6, <4>3, <4>4 DEF Receive
    <3> QED
      BY <2>6, <3>4, <3>5, <3>6
  <2>7. CASE UNCHANGED vars
    BY <2>1, <2>7 DEF vars, handlerVars, bridgeVars, sinkVars, clientVars, HasRecorded
  <2>8. Owner \in Clients /\ Subscribers \subseteq Clients
    BY DEF Clients
  <2> QED
    BY <2>3, <2>4, <2>5, <2>6, <2>7, <2>8 DEF Next, Watch
<1> QED
  BY <1>1, <1>2, PTL DEF Spec

-----------------------------------------------------------------------------
\* How the handler, the bridge, the registry and the sink stand to each other:
\* there is a bridge once the agent is prompted and nothing was recorded or
\* published before; the sink is closed when the bridge is done; and what the
\* bridge is about to announce is what the registry says.
InStep ==
    /\ closed <=> bridge = "done"
    /\ bridge = "off" <=> handler # "prompted"
    /\ bridge = "off" => log = <<>> /\ parts = <<>>
    /\ handler = "idle" <=> task = "absent"
    /\ bridge = "announcing" => task \notin {"absent", "submitted"}
    /\ bridge = "closing" => task = FinalState(item.reason)

\* A frame about the Task's state says what the registry knows.
FramesTrue ==
    \A i \in DOMAIN log :
        /\ log[i].kind = "working" => task \notin {"absent", "submitted"}
        /\ log[i].kind = "final" => closed /\ task = log[i].state

\* What waits to be sent to the agent is made of the message, and the message
\* was found to be within the limit.
ContentTrue ==
    handler = "translated" => content = Inbound(message, {}) /\ WithinLimit(message)

\* A Task that has started does not go back, and one that has ended stays.
LEMMA TaskMovesOn ==
    ASSUME TypeOK, [Next]_vars
    PROVE  \/ task' = task
           \/ task' \notin {"absent", "submitted"} /\ task \notin Terminal
           \/ (\E m \in Messages : CreateTask(m)) /\ handler = "idle"
<1> DEFINE Onward == task' = task \/ (task' \notin {"absent", "submitted"} /\ task \notin Terminal)
<1>1. ASSUME NEW to, NEW then, Transition(to, then)
      PROVE  Onward
  BY <1>1 DEF Transition, IsLegal, LegalArrows, Terminal
<1>2. ASSUME CancelTask
      PROVE  Onward
  BY <1>2 DEF CancelTask, Terminal
<1>3. ASSUME Bridge
      PROVE  Onward
  <2>1. CASE Start \/ Conclude
    BY <1>1, <2>1 DEF Start, Conclude
  <2>2. CASE (\E i \in Item : ReadItem(i)) \/ Announce \/ Record \/ PublishPart \/ Ignore
               \/ PublishFinal \/ DropBridge
    BY <2>2 DEF ReadItem, Announce, Record, PublishPart, Ignore, PublishFinal, DropBridge
  <2> QED
    BY <1>3, <2>1, <2>2 DEF Bridge
<1>4. ASSUME Handle
      PROVE  Onward \/ ((\E m \in Messages : CreateTask(m)) /\ handler = "idle")
  BY <1>4 DEF Handle, CreateTask, HandlerMoves, Translate, Refuse, Abandon, Prompt
<1>5. ASSUME NEW c, OwnerSubscribes \/ SubscribeToTask(c) \/ Receive(c) \/ EndOfStream(c)
                     \/ Leave(c) \/ GetTask(c)
      PROVE  Onward
  BY <1>5 DEF OwnerSubscribes, SubscribeToTask, Receive, EndOfStream, Leave, GetTask
<1>6. ASSUME UNCHANGED vars
      PROVE  Onward
  BY <1>6 DEF vars
<1> HIDE DEF Onward
<1>7. Onward \/ ((\E m \in Messages : CreateTask(m)) /\ handler = "idle")
  BY <1>2, <1>3, <1>4, <1>5, <1>6 DEF Next, Watch
<1> QED
  BY <1>7 DEF Onward

\* What the clients do is seen by no one else.
LEMMA ClientSteps ==
    ASSUME [Next]_vars
    PROVE  Handle \/ Bridge \/ CancelTask \/ UNCHANGED <<handlerVars, task, parts, bridgeVars, sinkVars>>
<1>1. ASSUME NEW c, OwnerSubscribes \/ SubscribeToTask(c) \/ Receive(c) \/ EndOfStream(c)
                     \/ Leave(c) \/ GetTask(c)
      PROVE  UNCHANGED <<handlerVars, task, parts, bridgeVars, sinkVars>>
  BY <1>1 DEF OwnerSubscribes, SubscribeToTask, Receive, EndOfStream, Leave, GetTask
<1>2. ASSUME UNCHANGED vars
      PROVE  UNCHANGED <<handlerVars, task, parts, bridgeVars, sinkVars>>
  BY <1>2 DEF vars
<1> QED
  BY <1>1, <1>2 DEF Next, Watch

\* The handler, the bridge, the registry and the sink keep in step, and what
\* the frames and the content say is true.
THEOREM KeepInStep == Spec => [](InStep /\ FramesTrue /\ ContentTrue)
<1> USE StreamAssumption
<1> DEFINE Inv == InStep /\ FramesTrue /\ ContentTrue
<1>1. Init => Inv
  BY DEF Init, InStep, FramesTrue, ContentTrue
<1>2. TypeOK /\ HasRecorded /\ Inv /\ [Next]_vars => Inv'
  <2> SUFFICES ASSUME TypeOK, HasRecorded, Inv, [Next]_vars
               PROVE  Inv'
    OBVIOUS
  <2>1. log \in Seq(Frame) /\ bridge \in BridgeState /\ item \in Item \union {None}
    BY DEF TypeOK
  <2>a. ASSUME UNCHANGED <<log, closed>>,
               \/ task' = task
               \/ task' \notin {"absent", "submitted"} /\ task \notin Terminal
        PROVE  FramesTrue'
    <3>1. \A i \in DOMAIN log : log[i].kind = "final" => task \in Terminal
      BY <2>1 DEF FramesTrue, Frame, PartFrame
    <3> QED
      BY <2>a, <3>1 DEF FramesTrue
  <2>b. ASSUME NEW e \in Frame, log' = Append(log, e), task' = task,
               closed => closed',
               e.kind = "working" => task \notin {"absent", "submitted"},
               e.kind = "final" => closed' /\ task = e.state
        PROVE  FramesTrue'
    <3>1. ASSUME NEW i \in DOMAIN log'
          PROVE  log'[i] = e \/ (i \in DOMAIN log /\ log'[i] = log[i])
      BY <2>1, <2>b
    <3> QED
      BY <2>b, <3>1 DEF FramesTrue
  <2>2. CASE Handle
    <3>1. ASSUME NEW m \in Messages, CreateTask(m)
          PROVE  Inv'
      BY <3>1 DEF CreateTask, HandlerMoves, InStep, FramesTrue, ContentTrue, bridgeVars, sinkVars
    <3>2. CASE Translate
      <4>1. InStep' /\ ContentTrue'
        BY <3>2 DEF Translate, HandlerMoves, InStep, ContentTrue, bridgeVars, sinkVars
      <4>2. FramesTrue'
        BY <2>a, <3>2 DEF Translate, sinkVars
      <4> QED
        BY <4>1, <4>2
    <3>3. CASE Refuse \/ Abandon
      <4>1. /\ handler \in {"created", "translated"} /\ handler' \in {"failed", "gone"}
            /\ UNCHANGED <<task, parts, bridgeVars, sinkVars>>
        BY <3>3 DEF Refuse, Abandon, HandlerMoves
      <4>2. InStep' /\ ContentTrue'
        BY <4>1 DEF InStep, ContentTrue, bridgeVars, sinkVars
      <4>3. FramesTrue'
        BY <2>a, <4>1 DEF sinkVars
      <4> QED
        BY <4>2, <4>3
    <3>4. CASE Prompt
      <4>1. /\ handler = "translated" /\ handler' = "prompted" /\ bridge' = "reading"
            /\ UNCHANGED <<task, parts, item, sinkVars>>
        BY <3>4 DEF Prompt, HandlerMoves
      <4>2. InStep' /\ ContentTrue'
        BY <4>1 DEF InStep, ContentTrue, sinkVars
      <4>3. FramesTrue'
        BY <2>a, <4>1 DEF sinkVars
      <4> QED
        BY <4>2, <4>3
    <3> QED
      BY <2>2, <3>1, <3>2, <3>3, <3>4 DEF Handle
  <2>3. CASE Bridge
    <3>1. UNCHANGED handlerVars
      BY <2>3 DEF Bridge, ReadItem, Start, Announce, Record, PublishPart, Ignore, Conclude,
                  PublishFinal, DropBridge, QuietStep
    <3>2. ContentTrue'
      BY <3>1 DEF ContentTrue, handlerVars
    <3>3. ASSUME UNCHANGED <<log, closed, task>>, bridge \notin {"off", "done"},
                 bridge' \notin {"off", "done", "announcing", "closing"}
          PROVE  Inv'
      <4>1. FramesTrue'
        BY <2>a, <3>3
      <4> QED
        BY <3>1, <3>2, <3>3, <4>1 DEF InStep, handlerVars
    <3>4. ASSUME NEW i \in Item, ReadItem(i)
          PROVE  Inv'
      BY <3>3, <3>4 DEF ReadItem, BridgeMoves, QuietStep, sinkVars
    <3>5. CASE Record \/ Ignore \/ DropBridge
      BY <3>3, <3>5 DEF Record, Ignore, DropBridge, BridgeMoves, QuietStep, sinkVars
    <3>6. ASSUME NEW to, NEW then \in {"announcing", "closing"}, Transition(to, then),
                 UNCHANGED <<log, closed, item>>, bridge \in {"starting", "handling"},
                 then = "closing" => to = FinalState(item.reason)
          PROVE  Inv'
      <4>1. \/ bridge' = "error" /\ task' = task
            \/ bridge' = then /\ task' = to /\ IsLegal(task, to)
        BY <3>6 DEF Transition
      <4>2. CASE bridge' = "error" /\ task' = task
        BY <3>3, <3>6, <4>2
      <4>3. CASE bridge' = then /\ task' = to /\ IsLegal(task, to)
        <5>1. to \notin {"absent", "submitted"} /\ task \notin Terminal /\ task # "absent"
          BY <4>3 DEF IsLegal, LegalArrows, Terminal
        <5>2. FramesTrue'
          BY <2>a, <3>6, <4>3, <5>1
        <5>3. InStep'
          BY <3>1, <3>6, <4>3, <5>1 DEF InStep, handlerVars
        <5> QED
          BY <3>2, <5>2, <5>3
      <4> QED
        BY <4>1, <4>2, <4>3
    <3>7. CASE Start
      <4>1. Transition("working", "announcing") /\ UNCHANGED <<log, closed, item>> /\ bridge = "starting"
        BY <3>7 DEF Start, QuietStep, sinkVars
      <4> QED
        BY <3>6, <4>1
    <3>8. CASE Conclude
      <4> DEFINE to == FinalState(item.reason)
      <4>1. Transition(to, "closing") /\ UNCHANGED <<log, closed, item>> /\ bridge = "handling"
        BY <3>8 DEF Conclude, QuietStep, sinkVars
      <4> QED
        BY <3>6, <4>1
    <3>9. CASE Announce
      <4> DEFINE e == [kind |-> "working"]
      <4>1. bridge = "announcing" /\ bridge' = "handling" /\ UNCHANGED <<task, closed>> /\ Publish(e)
        BY <3>9 DEF Announce, BridgeMoves
      <4>2. e \in Frame /\ e.kind = "working"
        BY DEF Frame
      <4> HIDE DEF e
      <4>3. log' = Append(log, e) /\ task \notin {"absent", "submitted"} /\ ~closed
        BY <4>1 DEF Publish, InStep
      <4>4. FramesTrue'
        BY <2>b, <4>1, <4>2, <4>3
      <4>5. InStep'
        BY <3>1, <4>1 DEF InStep, handlerVars
      <4> QED
        BY <3>2, <4>4, <4>5
    <3>10. CASE PublishPart
      <4> DEFINE e == [kind |-> "part", part |-> Last(parts), append |-> Len(parts) > 1]
      <4>1. /\ bridge = "publishing" /\ bridge' = "reading" /\ UNCHANGED <<task, closed>> /\ Publish(e)
        BY <3>10 DEF PublishPart, BridgeMoves
      <4>2. log' = Append(log, e)
        BY <4>1 DEF Publish, InStep
      <4>3. e \in Frame
        BY <4>1, LastPart DEF HasRecorded, TypeOK, Frame, PartFrame
      <4>4. e.kind = "part"
        OBVIOUS
      <4> HIDE DEF e
      <4>5. FramesTrue'
        BY <2>b, <4>1, <4>2, <4>3, <4>4
      <4>6. InStep'
        BY <3>1, <4>1 DEF InStep, handlerVars
      <4> QED
        BY <3>2, <4>5, <4>6
    <3>11. CASE PublishFinal
      <4> DEFINE e == [kind |-> "final", state |-> FinalState(item.reason)]
      <4>1. /\ bridge = "closing" /\ bridge' = "done" /\ closed' = TRUE /\ UNCHANGED task /\ Publish(e)
        BY <3>11 DEF PublishFinal, BridgeMoves
      <4>2. e \in Frame /\ e.kind = "final" /\ e.state = FinalState(item.reason)
        BY FinalIsTerminal DEF Frame
      <4> HIDE DEF e
      <4>3. log' = Append(log, e) /\ task = e.state
        BY <4>1, <4>2 DEF Publish, InStep
      <4>4. FramesTrue'
        BY <2>b, <4>1, <4>2, <4>3
      <4>5. InStep'
        BY <3>1, <4>1 DEF InStep, handlerVars
      <4> QED
        BY <3>2, <4>4, <4>5
    <3> QED
      BY <2>3, <3>4, <3>5, <3>7, <3>8, <3>9, <3>10, <3>11 DEF Bridge
  <2>4. CASE CancelTask
    <3>1. /\ task \in TaskState \ Terminal /\ task' = "canceled"
          /\ UNCHANGED <<handlerVars, sinkVars, parts, bridgeVars>>
      BY <2>4 DEF CancelTask, QuietStep
    <3>2. InStep' /\ ContentTrue'
      <4>1. bridge = "closing" => FALSE
        BY <3>1, FinalIsTerminal DEF InStep
      <4>2. task # "absent"
        BY <3>1 DEF TaskState, Terminal
      <4> QED
        BY <3>1, <4>1, <4>2 DEF InStep, ContentTrue, handlerVars, bridgeVars, sinkVars
    <3>3. FramesTrue'
      BY <2>a, <3>1 DEF sinkVars
    <3> QED
      BY <3>2, <3>3
  <2>5. CASE UNCHANGED <<handlerVars, task, parts, bridgeVars, sinkVars>>
    BY <2>5 DEF InStep, FramesTrue, ContentTrue, handlerVars, bridgeVars, sinkVars
  <2> QED
    BY <2>2, <2>3, <2>4, <2>5, ClientSteps
<1> QED
  BY <1>1, <1>2, TypeCorrect, PTL DEF Spec

-----------------------------------------------------------------------------
(* The parts in the frames of the sink.                                    *)

\* The parts of a sequence of frames are those of its part frames.
LEMMA PartsAre ==
    ASSUME NEW fs \in Seq(Frame)
    PROVE  /\ PartFrames(fs) \in Seq(PartFrame) /\ PartsOf(fs) \in Seq(Part)
           /\ Len(PartsOf(fs)) = Len(PartFrames(fs)) /\ Len(PartFrames(fs)) \in Nat
           /\ \A i \in 1 .. Len(PartFrames(fs)) : PartsOf(fs)[i] = PartFrames(fs)[i].part
<1> DEFINE f == PartFrames(fs)
           ps == PartsOf(fs)
<1>1. f \in Seq(PartFrame)
  <2>1. f \in Seq(Frame \intersect PartFrame)
    BY SiftType DEF PartFrames
  <2>2. Frame \intersect PartFrame = PartFrame
    BY DEF Frame
  <2> QED
    BY <2>1, <2>2
<1>2. ps = [i \in DOMAIN f |-> f[i].part]
  BY DEF PartsOf
<1> HIDE DEF f, ps
<1>3. \A i \in DOMAIN f : ps[i] = f[i].part /\ ps[i] \in Part
  <2>1. \A x \in PartFrame : x.part \in Part
    BY DEF PartFrame
  <2>2. \A i \in DOMAIN f : f[i] \in PartFrame
    BY <1>1
  <2>3. \A i \in DOMAIN f : ps[i] = f[i].part
    BY <1>2
  <2> QED
    BY <2>1, <2>2, <2>3
<1>4. ps = [i \in DOMAIN f |-> ps[i]]
  BY <1>2, <1>3
<1>5. ps \in Seq(Part) /\ Len(ps) = Len(f)
  BY <1>1, <1>3, <1>4, MapType
<1>6. Len(f) \in Nat /\ \A i \in 1 .. Len(f) : ps[i] = f[i].part
  BY <1>1, <1>3
<1>7. f = PartFrames(fs) /\ ps = PartsOf(fs)
  BY DEF f, ps
<1> QED
  BY <1>1, <1>5, <1>6, <1>7

\* A frame at the end adds its part, if it has one.
LEMMA PartsAppend ==
    ASSUME NEW fs \in Seq(Frame), NEW e \in Frame
    PROVE  /\ e \in PartFrame => /\ PartFrames(Append(fs, e)) = Append(PartFrames(fs), e)
                                 /\ PartsOf(Append(fs, e)) = Append(PartsOf(fs), e.part)
           /\ e \notin PartFrame => /\ PartFrames(Append(fs, e)) = PartFrames(fs)
                                    /\ PartsOf(Append(fs, e)) = PartsOf(fs)
<1> DEFINE longer == Append(fs, e)
           f == PartFrames(fs)
           g == PartFrames(longer)
           ps == PartsOf(fs)
           qs == PartsOf(longer)
<1>1. longer \in Seq(Frame) /\ g = IF e \in PartFrame THEN Append(f, e) ELSE f
  BY SiftAppend DEF PartFrames
<1>2. /\ f \in Seq(PartFrame) /\ ps \in Seq(Part) /\ Len(ps) = Len(f) /\ Len(f) \in Nat
      /\ \A i \in 1 .. Len(f) : ps[i] = f[i].part
  BY PartsAre
<1> HIDE DEF longer
<1>3. /\ g \in Seq(PartFrame) /\ qs \in Seq(Part) /\ Len(qs) = Len(g) /\ Len(g) \in Nat
      /\ \A i \in 1 .. Len(g) : qs[i] = g[i].part
  BY <1>1, PartsAre
<1>4. e \notin PartFrame => qs = ps
  BY <1>1 DEF PartsOf
<1> HIDE DEF f, g, ps, qs
<1>5. CASE e \in PartFrame
  <2> DEFINE n == Len(f)
             p == e.part
             rs == Append(ps, p)
  <2>1. g = Append(f, e) /\ p \in Part /\ n \in Nat
    BY <1>1, <1>2, <1>5 DEF PartFrame
  <2>2. /\ Len(g) = n + 1 /\ g[n + 1] = e /\ \A i \in 1 .. n : g[i] = f[i]
    BY <1>2, <2>1
  <2>3. qs[n + 1] = p /\ \A i \in 1 .. n : qs[i] = ps[i]
    <3>1. n + 1 \in 1 .. n + 1 /\ 1 .. n \subseteq 1 .. n + 1
      BY <2>1
    <3> QED
      BY <1>2, <1>3, <2>2, <3>1
  <2> HIDE DEF n, p
  <2>4. rs \in Seq(Part) /\ Len(rs) = n + 1 /\ rs[n + 1] = p /\ \A i \in 1 .. n : rs[i] = ps[i]
    <3>1. Len(ps) = n /\ ps \in Seq(Part)
      BY <1>2 DEF n
    <3>2. p \in Part
      BY <2>1
    <3> QED
      BY ONLY <3>1, <3>2
  <2>5. \A i \in 1 .. n + 1 : qs[i] = rs[i]
    <3>1. \A i \in 1 .. n + 1 : i \in 1 .. n \/ i = n + 1
      BY <2>1
    <3> QED
      BY <2>3, <2>4, <3>1
  <2> HIDE DEF rs
  <2>6. qs = rs
    BY <1>3, <2>2, <2>4, <2>5, SeqEqual
  <2> QED
    BY <1>5, <2>1, <2>6 DEF rs, p, f, g, ps, qs, longer
<1> QED
  BY <1>1, <1>4, <1>5 DEF f, g, ps, qs, longer

\* The parts of frames that follow others follow the parts of those.
LEMMA PartsJoin ==
    ASSUME NEW fs \in Seq(Frame), NEW gs \in Seq(Frame)
    PROVE  PartsOf(fs \o gs) = PartsOf(fs) \o PartsOf(gs)
<1> DEFINE all == fs \o gs
           f == PartFrames(fs)
           g == PartFrames(gs)
           h == PartFrames(all)
           ps == PartsOf(fs)
           qs == PartsOf(gs)
           rs == PartsOf(all)
<1>1. all \in Seq(Frame) /\ h = f \o g
  BY SiftConcat DEF PartFrames
<1>2. /\ f \in Seq(PartFrame) /\ ps \in Seq(Part) /\ Len(ps) = Len(f) /\ Len(f) \in Nat
      /\ \A i \in 1 .. Len(f) : ps[i] = f[i].part
      /\ g \in Seq(PartFrame) /\ qs \in Seq(Part) /\ Len(qs) = Len(g) /\ Len(g) \in Nat
      /\ \A i \in 1 .. Len(g) : qs[i] = g[i].part
  BY PartsAre
<1> HIDE DEF all
<1>3. /\ h \in Seq(PartFrame) /\ rs \in Seq(Part) /\ Len(rs) = Len(h) /\ Len(h) \in Nat
      /\ \A i \in 1 .. Len(h) : rs[i] = h[i].part
  BY <1>1, PartsAre
<1> HIDE DEF f, g, h, ps, qs, rs
<1> DEFINE m == Len(f)
           n == Len(g)
           both == ps \o qs
<1>4. m \in Nat /\ n \in Nat /\ Len(h) = m + n /\ Len(ps) = m /\ Len(qs) = n
  BY <1>1, <1>2
<1>5. both \in Seq(Part) /\ Len(both) = m + n
  <2>1. ps \in Seq(Part) /\ qs \in Seq(Part)
    BY <1>2
  <2> HIDE DEF m, n
  <2> QED
    BY <1>4, <2>1, ConcatProperties
<1>6. ASSUME NEW i \in 1 .. m + n
      PROVE  rs[i] = both[i]
  <2>1. rs[i] = h[i].part
    BY <1>3, <1>4
  <2>2. CASE i <= m
    <3>1. h[i] = f[i] /\ both[i] = ps[i]
      BY <1>1, <1>2, <2>2
    <3>2. i \in 1 .. m
      BY <1>4, <2>2
    <3> QED
      BY <1>2, <2>1, <3>1, <3>2
  <2>3. CASE i > m
    <3>1. h[i] = g[i - m] /\ both[i] = qs[i - m]
      BY <1>1, <1>2, <2>3
    <3>2. i - m \in 1 .. n
      BY <1>4, <2>3
    <3> QED
      BY <1>2, <2>1, <3>1, <3>2
  <2>4. i <= m \/ i > m
    <3>1. i \in Nat
      BY <1>4
    <3> QED
      BY <1>4, <3>1
  <2> QED
    BY <2>2, <2>3, <2>4
<1> HIDE DEF m, n, both
<1>7. rs = both
  BY <1>3, <1>4, <1>5, <1>6, SeqEqual
<1> QED
  BY <1>7 DEF both, ps, qs, rs, all

\* The sink has the parts that the registry has, but for one that the bridge
\* has recorded and is about to publish; and the first one alone starts anew.
AnswerTold ==
    /\ bridge # "publishing" => parts = PartsOf(log)
    /\ bridge = "publishing" => parts = Append(PartsOf(log), Last(parts))
    /\ \A i \in DOMAIN PartFrames(log) : PartFrames(log)[i].append <=> i > 1

\* The bridge records each part before it publishes it, and publishes all that
\* it has recorded before it goes on.
THEOREM AnswerIsTold == Spec => []AnswerTold
<1> USE StreamAssumption
<1>1. Init => AnswerTold
  <2> SUFFICES ASSUME Init
               PROVE  AnswerTold
    OBVIOUS
  <2>1. log = <<>> /\ parts = <<>> /\ bridge = "off"
    BY DEF Init
  <2>2. PartFrames(<<>>) = <<>>
    BY SiftEmpty DEF PartFrames
  <2> DEFINE f == PartFrames(log)
             ps == PartsOf(log)
  <2>3. f = <<>> /\ ps = [i \in DOMAIN f |-> f[i].part]
    BY <2>1, <2>2 DEF PartsOf
  <2> HIDE DEF f, ps
  <2>4. ps = <<>> /\ DOMAIN f = {}
    BY <2>3
  <2> QED
    BY <2>1, <2>4 DEF AnswerTold, f, ps
<1>2. TypeOK /\ HasRecorded /\ InStep /\ AnswerTold /\ [Next]_vars => AnswerTold'
  <2> SUFFICES ASSUME TypeOK, HasRecorded, InStep, AnswerTold, [Next]_vars
               PROVE  AnswerTold'
    OBVIOUS
  <2>1. log \in Seq(Frame) /\ parts \in Seq(Part)
    BY DEF TypeOK
  <2>2. /\ PartFrames(log) \in Seq(PartFrame) /\ PartsOf(log) \in Seq(Part)
        /\ Len(PartsOf(log)) = Len(PartFrames(log)) /\ Len(PartFrames(log)) \in Nat
    BY <2>1, PartsAre
  <2>a. ASSUME UNCHANGED <<parts, log>>, bridge' # "publishing", bridge # "publishing"
        PROVE  AnswerTold'
    BY <2>a DEF AnswerTold
  <2>b. ASSUME NEW e \in Frame, e \notin PartFrame, Publish(e), parts' = parts,
               bridge' # "publishing", bridge # "publishing"
        PROVE  AnswerTold'
    <3>1. CASE log' = log
      BY <2>a, <2>b, <3>1
    <3>2. CASE log' = Append(log, e)
      <4>1. PartFrames(log') = PartFrames(log) /\ PartsOf(log') = PartsOf(log)
        BY <2>1, <2>b, <3>2, PartsAppend
      <4> QED
        BY <2>b, <4>1 DEF AnswerTold
    <3> QED
      BY <2>b, <3>1, <3>2 DEF Publish
  <2>3. CASE Handle
    <3>1. UNCHANGED <<parts, log>> /\ (bridge' = bridge \/ (bridge' = "reading" /\ bridge = "off"))
      <4>1. CASE Prompt
        <5>1. handler = "translated" /\ bridge' = "reading" /\ UNCHANGED <<parts, log>>
          BY <4>1 DEF Prompt, HandlerMoves, sinkVars
        <5> QED
          BY <5>1 DEF InStep
      <4>2. CASE (\E m \in Messages : CreateTask(m)) \/ Translate \/ Refuse \/ Abandon
        BY <4>2 DEF CreateTask, Translate, Refuse, Abandon, bridgeVars, sinkVars
      <4> QED
        BY <2>3, <4>1, <4>2 DEF Handle
    <3> QED
      BY <3>1 DEF AnswerTold
  <2>4. CASE Bridge
    <3>1. CASE (\E i \in Item : ReadItem(i)) \/ Ignore \/ DropBridge \/ Start \/ Conclude
      BY <2>a, <3>1 DEF ReadItem, Ignore, DropBridge, Start, Conclude, Transition, BridgeMoves,
                        QuietStep, sinkVars
    <3>2. CASE Record
      <4> DEFINE p == PartOf(item)
                 b == item
      <4>1. bridge = "handling" /\ bridge' = "publishing" /\ log' = log
        BY <3>2 DEF Record, BridgeMoves, QuietStep, sinkVars
      <4>2. b \in Block /\ Outbound(<<b>>) # <<>> /\ parts' = parts \o Outbound(<<b>>)
        BY <3>2 DEF Record, Answering
      <4> HIDE DEF b
      <4>3. Outbound(<<b>>) = <<PartOf(b)>> /\ PartOf(b) \in Part
        BY <4>2, OutboundOne
      <4>4. p = PartOf(b)
        BY DEF b
      <4>5. parts' = parts \o <<p>> /\ p \in Part
        BY <4>2, <4>3, <4>4
      <4> HIDE DEF p
      <4>6. parts' = Append(parts, p)
        BY <2>1, <4>5
      <4>7. Last(parts') = p
        BY <2>1, <4>5, <4>6 DEF Last
      <4> QED
        <5>1. parts = PartsOf(log) /\ parts' = Append(parts, Last(parts'))
          BY <4>1, <4>6, <4>7 DEF AnswerTold
        <5> QED
          BY <4>1, <5>1 DEF AnswerTold
    <3>3. CASE PublishPart
      <4> DEFINE e == [kind |-> "part", part |-> Last(parts), append |-> Len(parts) > 1]
                 f == PartFrames(log)
                 ps == PartsOf(log)
                 n == Len(f)
      <4>1. /\ bridge = "publishing" /\ bridge' = "reading" /\ UNCHANGED parts /\ Publish(e) /\ ~closed
        BY <3>3 DEF PublishPart, BridgeMoves, InStep
      <4>2. /\ parts = Append(ps, Last(parts)) /\ Last(parts) \in Part
        BY <2>1, <4>1, LastPart DEF AnswerTold, HasRecorded
      <4>3. e \in PartFrame /\ e \in Frame /\ e.part = Last(parts)
        BY <4>2 DEF PartFrame, Frame
      <4>4. e.append <=> Len(parts) > 1
        OBVIOUS
      <4> HIDE DEF e
      <4>5. log' = Append(log, e)
        BY <4>1 DEF Publish
      <4>6. PartFrames(log') = Append(f, e) /\ PartsOf(log') = Append(ps, Last(parts))
        BY <2>1, <4>3, <4>5, PartsAppend
      <4>7. f \in Seq(PartFrame) /\ ps \in Seq(Part) /\ Len(ps) = n /\ n \in Nat
        BY <2>2
      <4>8. \A i \in DOMAIN f : f[i].append <=> i > 1
        BY DEF AnswerTold
      <4> HIDE DEF f, ps
      <4>9. Len(parts) = n + 1
        BY <4>2, <4>7
      <4> HIDE DEF n
      <4>10. ASSUME NEW i \in DOMAIN Append(f, e)
             PROVE  Append(f, e)[i].append <=> i > 1
        <5>1. DOMAIN f = 1 .. n /\ DOMAIN Append(f, e) = 1 .. n + 1
              /\ Append(f, e)[n + 1] = e /\ \A j \in 1 .. n : Append(f, e)[j] = f[j]
          BY <4>7 DEF n
        <5>2. CASE i \in 1 .. n
          BY <4>8, <5>1, <5>2
        <5>3. CASE i = n + 1
          BY <4>4, <4>9, <5>1, <5>3
        <5> QED
          BY <4>7, <5>1, <5>2, <5>3
      <4> QED
        BY <4>1, <4>2, <4>6, <4>10 DEF AnswerTold
    <3>4. CASE Announce
      <4> DEFINE e == [kind |-> "working"]
      <4>1. /\ bridge = "announcing" /\ bridge' = "handling" /\ parts' = parts /\ Publish(e)
        BY <3>4 DEF Announce, BridgeMoves
      <4>2. e \in Frame /\ e \notin PartFrame
        BY DEF Frame, PartFrame
      <4> HIDE DEF e
      <4> QED
        BY <2>b, <4>1, <4>2
    <3>5. CASE PublishFinal
      <4> DEFINE e == [kind |-> "final", state |-> FinalState(item.reason)]
      <4>1. /\ bridge = "closing" /\ bridge' = "done" /\ parts' = parts /\ Publish(e)
        BY <3>5 DEF PublishFinal, BridgeMoves
      <4>2. e \in Frame /\ e \notin PartFrame
        BY FinalIsTerminal DEF Frame, PartFrame
      <4> HIDE DEF e
      <4> QED
        BY <2>b, <4>1, <4>2
    <3> QED
      BY <2>4, <3>1, <3>2, <3>3, <3>4, <3>5 DEF Bridge
  <2>5. CASE CancelTask \/ UNCHANGED <<handlerVars, task, parts, bridgeVars, sinkVars>>
    <3>1. UNCHANGED <<parts, log, bridge>>
      BY <2>5 DEF CancelTask, QuietStep, sinkVars, bridgeVars
    <3> QED
      BY <3>1 DEF AnswerTold
  <2> QED
    BY <2>3, <2>4, <2>5, ClientSteps
<1> QED
  BY <1>1, <1>2, TypeCorrect, KeepInStep, PTL DEF Spec

\* What a stream tells a client the registry knows already: the parts of its
\* frames are a beginning of the recorded answer, and the states in its frames
\* are states that the Task has reached.
THEOREM FramesFollow == Spec => []FramesFollowRegistry
<1>1. TypeOK /\ HasRecorded /\ FramesTrue /\ AnswerTold => FramesFollowRegistry
  <2> SUFFICES ASSUME TypeOK, HasRecorded, FramesTrue, AnswerTold
               PROVE  FramesFollowRegistry
    OBVIOUS
  <2> DEFINE ps == PartsOf(log)
             n == Len(ps)
  <2>1. ps \in Seq(Part) /\ n \in Nat
    BY PartsAre DEF TypeOK
  <2>2. parts = ps \/ (parts = Append(ps, Last(parts)) /\ Last(parts) \in Part)
    BY LastPart DEF AnswerTold, TypeOK, HasRecorded
  <2> HIDE DEF ps
  <2>3. n <= Len(parts) /\ parts \in Seq(Part) /\ \A i \in 1 .. n : parts[i] = ps[i]
    BY <2>1, <2>2
  <2>4. SubSeq(ps, 1, n) = SubSeq(parts, 1, n)
    <3>1. /\ SubSeq(ps, 1, n) \in Seq(Part) /\ SubSeq(parts, 1, n) \in Seq(Part)
          /\ Len(SubSeq(ps, 1, n)) = n /\ Len(SubSeq(parts, 1, n)) = n
      BY <2>1, <2>3
    <3>2. \A i \in 1 .. n : SubSeq(ps, 1, n)[i] = SubSeq(parts, 1, n)[i]
      BY <2>1, <2>3
    <3> QED
      BY <3>1, <3>2, SeqEqual
  <2>5. IsPrefix(ps, parts)
    BY <2>3, <2>4 DEF IsPrefix
  <2> QED
    BY <2>5 DEF FramesFollowRegistry, FramesTrue, ps
<1> QED
  BY <1>1, TypeCorrect, KeepInStep, AnswerIsTold, PTL

\* The agent is prompted with all of the message that it can take, in order,
\* and with nothing beyond the limit.
THEOREM PromptCarries == Spec => []PromptCarriesMessage
<1>1. TypeOK /\ ContentTrue => PromptCarriesMessage
  <2> SUFFICES ASSUME TypeOK, ContentTrue, handler = "translated"
               PROVE  /\ Outbound(content) =
                            Sift(message, {p \in Part : p.type = "text" \/ (HasUrl(p) /\ ~HasRaw(p))})
                      /\ \A i \in DOMAIN content : content[i].payload = "small"
    BY DEF PromptCarriesMessage
  <2>1. message \in Seq(Part)
    BY StreamAssumption, EmptySeq DEF TypeOK
  <2>2. content = Inbound(message, {}) /\ WithinLimit(message)
    BY DEF ContentTrue
  <2> QED
    BY <2>1, <2>2, MessageCarried
<1> QED
  BY <1>1, TypeCorrect, KeepInStep, PTL

-----------------------------------------------------------------------------
(* What a client that does not fall behind can put together.               *)

\* What a client that watches has been sent, unless it fell behind, are the
\* frames from the one after it joined to the next it waits for; if it has
\* called GetTask, the answer it got there left out no part of the frames
\* before; and a stream that has ended by itself has brought all to the end.
StreamBrings ==
    \A c \in Clients :
        /\ next[c] <= Len(log) + 1
        /\ stream[c] = "none" => got[c] = {} /\ seen[c] = None
        /\ stream[c] \in {"open", "ended"} /\ c \notin behind =>
              \E k \in 1 .. Len(log) + 1 :
                  /\ k <= next[c] /\ got[c] = k .. next[c] - 1
                  /\ seen[c] # None => Len(PartsOf(SubSeq(log, 1, k - 1))) <= seen[c]
        /\ stream[c] = "ended" => closed /\ next[c] = Len(log) + 1

\* A sequence in two parts.
LEMMA Split ==
    ASSUME NEW A, NEW s \in Seq(A), NEW k \in 1 .. Len(s) + 1
    PROVE  /\ SubSeq(s, 1, k - 1) \in Seq(A) /\ SubSeq(s, k, Len(s)) \in Seq(A)
           /\ s = SubSeq(s, 1, k - 1) \o SubSeq(s, k, Len(s))
<1> DEFINE n == Len(s)
           a == SubSeq(s, 1, k - 1)
           b == SubSeq(s, k, n)
           both == a \o b
<1>1. k \in Nat /\ n \in Nat /\ 1 <= k /\ k <= n + 1
  OBVIOUS
<1>2. a \in Seq(A) /\ b \in Seq(A)
  BY <1>1
<1>3. /\ Len(a) = k - 1 /\ \A i \in 1 .. k - 1 : a[i] = s[i]
      /\ Len(b) = n - (k - 1) /\ \A i \in 1 .. n - (k - 1) : b[i] = s[(k - 1) + i]
  BY <1>1
<1> HIDE DEF a, b
<1> DEFINE m == k - 1
<1>4. m \in Nat /\ n \in Nat /\ m <= n /\ Len(a) = m /\ Len(b) = n - m
  BY <1>1, <1>3
<1>5. /\ both \in Seq(A) /\ Len(both) = Len(a) + Len(b)
      /\ \A i \in 1 .. Len(a) + Len(b) : both[i] = IF i <= Len(a) THEN a[i] ELSE b[i - Len(a)]
  BY <1>2, ConcatProperties
<1>6. \A i \in 1 .. m : a[i] = s[i]
  BY <1>3
<1>7. \A i \in 1 .. n - m : b[i] = s[m + i]
  BY <1>3
<1> HIDE DEF both, n, m
<1>8. Len(both) = n
  BY <1>4, <1>5
<1>9. ASSUME NEW i \in 1 .. n
      PROVE  s[i] = both[i]
  <2>1. both[i] = IF i <= m THEN a[i] ELSE b[i - m]
    BY <1>4, <1>5, <1>8
  <2>2. CASE i <= m
    BY <1>4, <1>6, <2>1, <2>2
  <2>3. CASE ~(i <= m)
    <3>1. i - m \in 1 .. n - m /\ m + (i - m) = i
      BY <1>4, <2>3
    <3>2. b[i - m] = s[i]
      BY <1>7, <3>1
    <3> QED
      BY <2>1, <2>3, <3>2
  <2> QED
    BY <2>2, <2>3
<1>10. s = both
  <2>1. Len(s) = n
    BY DEF n
  <2> QED
    BY <1>5, <1>8, <1>9, <2>1, SeqEqual
<1> QED
  BY <1>2, <1>10 DEF both, a, b, n

\* One sequence ends with another.
LEMMA SuffixIs ==
    ASSUME NEW A, NEW a \in Seq(A), NEW b \in Seq(A), Len(a) <= Len(b),
           \A i \in 1 .. Len(a) : a[i] = b[(Len(b) - Len(a)) + i]
    PROVE  IsSuffix(a, b)
<1> DEFINE m == Len(a)
           n == Len(b)
           u == Reverse(a)
           v == Reverse(b)
<1>1. m \in Nat /\ n \in Nat /\ m <= n /\ \A i \in 1 .. m : a[i] = b[(n - m) + i]
  OBVIOUS
<1>2. /\ u = [i \in 1 .. m |-> a[(m - i) + 1]]
      /\ v = [i \in 1 .. n |-> b[(n - i) + 1]]
  BY DEF Reverse
<1>3. \A i \in 1 .. m : a[i] \in A
  OBVIOUS
<1>4. \A i \in 1 .. n : b[i] \in A
  OBVIOUS
<1> HIDE DEF m, n, u, v
<1>5. \A i \in 1 .. m : (m - i) + 1 \in 1 .. m /\ (n - m) + ((m - i) + 1) = (n - i) + 1
  BY <1>1
<1>6. \A i \in 1 .. n : (n - i) + 1 \in 1 .. n
  BY <1>1
<1>7. u \in [1 .. m -> A] /\ v \in [1 .. n -> A]
  BY <1>2, <1>3, <1>4, <1>5, <1>6
<1>8. u \in Seq(A) /\ v \in Seq(A) /\ Len(u) = m /\ Len(v) = n
  BY <1>1, <1>7
<1>9. \A i \in 1 .. m : u[i] = v[i]
  <2> SUFFICES ASSUME NEW i \in 1 .. m
               PROVE  u[i] = v[i]
    OBVIOUS
  <2>1. u[i] = a[(m - i) + 1]
    BY <1>2
  <2>2. i \in 1 .. n
    BY <1>1
  <2>3. v[i] = b[(n - i) + 1]
    BY <1>2, <2>2
  <2>4. a[(m - i) + 1] = b[(n - m) + ((m - i) + 1)]
    BY <1>1, <1>5
  <2> QED
    BY <1>5, <2>1, <2>3, <2>4
<1>10. SubSeq(u, 1, m) = SubSeq(v, 1, m)
  <2>1. /\ SubSeq(u, 1, m) \in Seq(A) /\ SubSeq(v, 1, m) \in Seq(A)
        /\ Len(SubSeq(u, 1, m)) = m /\ Len(SubSeq(v, 1, m)) = m
        /\ \A i \in 1 .. m : SubSeq(u, 1, m)[i] = SubSeq(v, 1, m)[i]
    BY <1>1, <1>8, <1>9
  <2> QED
    BY <2>1, SeqEqual
<1>11. IsPrefix(u, v)
  BY <1>1, <1>8, <1>10 DEF IsPrefix
<1> QED
  BY <1>11 DEF IsSuffix, u, v

\* The frames before some frame have no more parts than the registry.
LEMMA FewerParts ==
    ASSUME TypeOK, HasRecorded, AnswerTold, NEW k \in 1 .. Len(log) + 1
    PROVE  Len(PartsOf(SubSeq(log, 1, k - 1))) <= Len(parts) /\ Len(parts) \in Nat
<1> DEFINE before == SubSeq(log, 1, k - 1)
           after == SubSeq(log, k, Len(log))
<1>1. log \in Seq(Frame) /\ parts \in Seq(Part)
  BY DEF TypeOK
<1>2. before \in Seq(Frame) /\ after \in Seq(Frame) /\ log = before \o after
  BY <1>1, Split
<1> HIDE DEF before, after
<1>3. PartsOf(log) = PartsOf(before) \o PartsOf(after)
  BY <1>2, PartsJoin
<1>4. PartsOf(before) \in Seq(Part) /\ PartsOf(after) \in Seq(Part) /\ PartsOf(log) \in Seq(Part)
  BY <1>1, <1>2, PartsAre
<1> DEFINE a == PartsOf(before)
           b == PartsOf(after)
           c == PartsOf(log)
<1>5. Len(c) = Len(a) + Len(b) /\ Len(a) \in Nat /\ Len(b) \in Nat
  <2>1. a \in Seq(Part) /\ b \in Seq(Part) /\ c = a \o b
    BY <1>3, <1>4
  <2> HIDE DEF a, b, c
  <2> QED
    BY <2>1, ConcatProperties
<1>6. parts = c \/ (parts = Append(c, Last(parts)) /\ Last(parts) \in Part)
  BY <1>1, LastPart DEF AnswerTold, HasRecorded
<1>7. Len(c) <= Len(parts) /\ Len(parts) \in Nat
  <2>1. c \in Seq(Part)
    BY <1>4
  <2> HIDE DEF c
  <2> QED
    BY <1>1, <1>6, <2>1
<1> HIDE DEF a, b, c
<1>8. Len(a) <= Len(parts)
  BY <1>5, <1>7
<1> QED
  BY <1>7, <1>8 DEF a, before

\* What has been sent to a client that keeps up is one stretch of the frames,
\* which begins with no part that its GetTask call left out.
THEOREM StreamsBring == Spec => []StreamBrings
<1> USE StreamAssumption
<1>1. Init => StreamBrings
  <2> SUFFICES ASSUME Init, NEW c \in Clients
               PROVE  next[c] = 1 /\ Len(log) = 0 /\ stream[c] = "none" /\ got[c] = {} /\ seen[c] = None
    BY DEF StreamBrings
  <2> QED
    BY EmptySeq DEF Init
<1>2. TypeOK /\ HasRecorded /\ AnswerTold /\ StreamBrings /\ [Next]_vars => StreamBrings'
  <2> SUFFICES ASSUME TypeOK, HasRecorded, AnswerTold, StreamBrings, [Next]_vars
               PROVE  StreamBrings'
    OBVIOUS
  <2>1. /\ log \in Seq(Frame) /\ Len(log) \in Nat
        /\ stream \in [Clients -> StreamState] /\ next \in [Clients -> Nat \ {0}]
        /\ got \in [Clients -> SUBSET (DOMAIN log)] /\ seen \in [Clients -> Nat \union {None}]
    BY DEF TypeOK
  <2> DEFINE Brings(c) ==
                /\ next[c] <= Len(log) + 1
                /\ stream[c] = "none" => got[c] = {} /\ seen[c] = None
                /\ stream[c] \in {"open", "ended"} /\ c \notin behind =>
                      \E k \in 1 .. Len(log) + 1 :
                          /\ k <= next[c] /\ got[c] = k .. next[c] - 1
                          /\ seen[c] # None => Len(PartsOf(SubSeq(log, 1, k - 1))) <= seen[c]
                /\ stream[c] = "ended" => closed /\ next[c] = Len(log) + 1
  <2>2. \A c \in Clients : Brings(c)
    BY DEF StreamBrings
  <2>3. SUFFICES \A c \in Clients : Brings(c)'
    BY DEF StreamBrings
  <2>a. ASSUME UNCHANGED <<log, closed, behind>>, NEW c \in Clients,
               next'[c] = next[c], got'[c] = got[c], stream'[c] = stream[c], seen'[c] = seen[c]
        PROVE  Brings(c)'
    BY <2>2, <2>a
  <2>b. ASSUME NEW e \in Frame, Publish(e), UNCHANGED clientVars, closed => closed'
        PROVE  \A c \in Clients : Brings(c)'
    <3> SUFFICES ASSUME NEW c \in Clients
                 PROVE  Brings(c)'
      OBVIOUS
    <3>1. UNCHANGED <<stream, next, got, behind, seen>>
      BY <2>b DEF clientVars
    <3>2. CASE log' = log
      BY <2>2, <2>b, <3>1, <3>2
    <3>3. CASE ~closed /\ log' = Append(log, e)
      <4>1. Len(log') = Len(log) + 1
        BY <2>1, <3>3
      <4>2. ASSUME NEW k \in 1 .. Len(log) + 1
            PROVE  k \in 1 .. Len(log') + 1 /\ SubSeq(log', 1, k - 1) = SubSeq(log, 1, k - 1)
        <5>1. k \in 1 .. Len(log') + 1
          BY <2>1, <4>1
        <5>2. /\ SubSeq(log, 1, k - 1) \in Seq(Frame) /\ Len(SubSeq(log, 1, k - 1)) = k - 1
              /\ \A i \in 1 .. k - 1 : SubSeq(log, 1, k - 1)[i] = log[i]
          BY <2>1
        <5>3. log' \in Seq(Frame) /\ \A i \in 1 .. k - 1 : log'[i] = log[i]
          BY <2>1, <3>3
        <5>4. /\ SubSeq(log', 1, k - 1) \in Seq(Frame) /\ Len(SubSeq(log', 1, k - 1)) = k - 1
              /\ \A i \in 1 .. k - 1 : SubSeq(log', 1, k - 1)[i] = log'[i]
          BY <4>1, <5>1, <5>3
        <5>5. \A i \in 1 .. k - 1 : SubSeq(log', 1, k - 1)[i] = SubSeq(log, 1, k - 1)[i]
          BY <5>2, <5>3, <5>4
        <5> QED
          BY <5>1, <5>2, <5>4, <5>5, SeqEqual
      <4>3. next'[c] <= Len(log') + 1
        BY <2>1, <2>2, <3>1, <4>1
      <4>4. stream[c] # "ended"
        BY <2>2, <3>3
      <4>5. ASSUME stream'[c] \in {"open", "ended"}, c \notin behind'
            PROVE  \E k \in 1 .. Len(log') + 1 :
                      /\ k <= next'[c] /\ got'[c] = k .. next'[c] - 1
                      /\ seen'[c] # None => Len(PartsOf(SubSeq(log', 1, k - 1))) <= seen'[c]
        <5>1. PICK k \in 1 .. Len(log) + 1 :
                  /\ k <= next[c] /\ got[c] = k .. next[c] - 1
                  /\ seen[c] # None => Len(PartsOf(SubSeq(log, 1, k - 1))) <= seen[c]
          BY <2>2, <3>1, <4>5
        <5> QED
          BY <3>1, <4>2, <5>1
      <4> QED
        BY <2>2, <3>1, <4>3, <4>4, <4>5
    <3> QED
      BY <2>b, <3>2, <3>3 DEF Publish
  <2>4. CASE Handle \/ CancelTask
    <3>1. UNCHANGED <<sinkVars, clientVars>>
      BY <2>4 DEF Handle, CreateTask, Translate, Refuse, Abandon, Prompt, CancelTask, QuietStep
    <3> QED
      BY <2>2, <3>1 DEF sinkVars, clientVars
  <2>5. CASE Bridge
    <3>1. CASE (\E i \in Item : ReadItem(i)) \/ Start \/ Record \/ Ignore \/ Conclude \/ DropBridge
      <4>1. UNCHANGED <<sinkVars, clientVars>>
        BY <3>1 DEF ReadItem, Start, Record, Ignore, Conclude, DropBridge, QuietStep
      <4> QED
        BY <2>2, <4>1 DEF sinkVars, clientVars
    <3>2. CASE Announce
      <4> DEFINE e == [kind |-> "working"]
      <4>1. e \in Frame
        BY DEF Frame
      <4>2. Publish(e) /\ UNCHANGED <<closed, clientVars>>
        BY <3>2 DEF Announce
      <4> HIDE DEF e
      <4> QED
        BY <2>b, <4>1, <4>2
    <3>3. CASE PublishPart
      <4> DEFINE e == [kind |-> "part", part |-> Last(parts), append |-> Len(parts) > 1]
      <4>1. e \in Frame
        BY <3>3, LastPart DEF PublishPart, BridgeMoves, HasRecorded, TypeOK, Frame, PartFrame
      <4>2. Publish(e) /\ UNCHANGED <<closed, clientVars>>
        BY <3>3 DEF PublishPart
      <4> HIDE DEF e
      <4> QED
        BY <2>b, <4>1, <4>2
    <3>4. CASE PublishFinal
      <4> DEFINE e == [kind |-> "final", state |-> FinalState(item.reason)]
      <4>1. e \in Frame
        BY FinalIsTerminal DEF Frame
      <4>2. Publish(e) /\ closed' = TRUE /\ UNCHANGED clientVars
        BY <3>4 DEF PublishFinal
      <4> HIDE DEF e
      <4> QED
        BY <2>b, <4>1, <4>2
    <3> QED
      BY <2>5, <3>1, <3>2, <3>3, <3>4 DEF Bridge
  <2>6. ASSUME NEW d \in Clients, \/ d = Owner /\ OwnerSubscribes
                                  \/ SubscribeToTask(d) \/ Receive(d) \/ EndOfStream(d)
                                  \/ Leave(d) \/ GetTask(d)
        PROVE  \A c \in Clients : Brings(c)'
    <3>1. /\ UNCHANGED <<log, closed>>
          /\ behind' = behind \/ behind' = behind \union {d}
          /\ \A c \in Clients \ {d} : /\ next'[c] = next[c] /\ got'[c] = got[c]
                                      /\ stream'[c] = stream[c] /\ seen'[c] = seen[c]
      BY <2>1, <2>6 DEF OwnerSubscribes, SubscribeToTask, Receive, EndOfStream, Leave, GetTask,
                        StreamMoves, Joins, sinkVars
    <3>2. SUFFICES Brings(d)'
      BY <2>2, <3>1
    <3>3. CASE (d = Owner /\ OwnerSubscribes) \/ SubscribeToTask(d)
      <4>1. /\ stream[d] = "none" /\ stream'[d] \in {"open", "panicked", "refused", "empty"}
            /\ next'[d] = Len(log) + 1 /\ UNCHANGED <<got, behind, seen>>
        BY <2>1, <3>3 DEF OwnerSubscribes, SubscribeToTask, StreamMoves, Joins
      <4>2. got[d] = {} /\ seen[d] = None
        BY <2>2, <4>1
      <4> DEFINE k == Len(log) + 1
      <4>3. k \in 1 .. Len(log) + 1 /\ k <= next'[d] /\ k .. next'[d] - 1 = {}
        BY <2>1, <4>1
      <4> QED
        BY <2>1, <3>1, <4>1, <4>2, <4>3
    <3>4. CASE Receive(d)
      <4>1. stream[d] = "open" /\ next[d] <= Len(log) /\ next[d] \in Nat \ {0} /\ UNCHANGED <<stream, seen>>
        BY <2>1, <3>4 DEF Receive
      <4>2. CASE next' = [next EXCEPT ![d] = Oldest] /\ behind' = behind \union {d}
        <5>1. next'[d] = Oldest /\ Oldest <= Len(log) + 1 /\ d \in behind' /\ stream'[d] = "open"
          BY <2>1, <4>1, <4>2, OldestSent
        <5> QED
          BY <3>1, <5>1
      <4>3. CASE /\ next' = [next EXCEPT ![d] = @ + 1]
                 /\ got' = [got EXCEPT ![d] = @ \union {next[d]}]
                 /\ UNCHANGED behind
        <5>1. next'[d] = next[d] + 1 /\ got'[d] = got[d] \union {next[d]} /\ next'[d] <= Len(log') + 1
          BY <2>1, <3>1, <4>1, <4>3
        <5>2. ASSUME d \notin behind
              PROVE  \E k \in 1 .. Len(log) + 1 :
                        /\ k <= next'[d] /\ got'[d] = k .. next'[d] - 1
                        /\ seen[d] # None => Len(PartsOf(SubSeq(log, 1, k - 1))) <= seen[d]
          <6>1. PICK k \in 1 .. Len(log) + 1 :
                    /\ k <= next[d] /\ got[d] = k .. next[d] - 1
                    /\ seen[d] # None => Len(PartsOf(SubSeq(log, 1, k - 1))) <= seen[d]
            BY <2>2, <4>1, <5>2
          <6>2. k \in Nat
            BY <2>1
          <6>3. (k .. next[d] - 1) \union {next[d]} = k .. (next[d] + 1) - 1
            BY <4>1, <6>1, <6>2
          <6>4. k <= next'[d]
            BY <4>1, <5>1, <6>1, <6>2
          <6> QED
            BY <5>1, <6>1, <6>3, <6>4
        <5> QED
          BY <3>1, <4>1, <4>3, <5>1, <5>2
      <4> QED
        BY <3>4, <4>2, <4>3 DEF Receive
    <3>5. CASE EndOfStream(d)
      <4>1. /\ closed /\ next[d] > Len(log) /\ stream[d] = "open" /\ stream'[d] = "ended"
            /\ UNCHANGED <<next, got, behind, seen>>
        BY <2>1, <3>5 DEF EndOfStream, StreamMoves
      <4>2. next[d] = Len(log) + 1
        BY <2>1, <2>2, <4>1
      <4> QED
        BY <2>2, <3>1, <4>1, <4>2
    <3>6. CASE Leave(d)
      <4>1. stream'[d] = "gone" /\ UNCHANGED <<next, got, behind, seen>>
        BY <2>1, <3>6 DEF Leave, StreamMoves
      <4> QED
        BY <2>2, <3>1, <4>1
    <3>7. CASE GetTask(d)
      <4>1. /\ stream[d] = "open" /\ seen'[d] = Len(parts) /\ UNCHANGED <<stream, next, got, behind>>
        BY <2>1, <3>7 DEF GetTask
      <4>2. \A k \in 1 .. Len(log) + 1 : Len(PartsOf(SubSeq(log, 1, k - 1))) <= Len(parts)
        BY FewerParts
      <4> QED
        BY <2>2, <3>1, <4>1, <4>2
    <3> QED
      BY <2>6, <3>3, <3>4, <3>5, <3>6, <3>7
  <2>7. CASE UNCHANGED vars
    BY <2>2, <2>7 DEF vars, sinkVars, clientVars
  <2>8. Owner \in Clients /\ Subscribers \subseteq Clients
    BY DEF Clients
  <2> QED
    BY <2>4, <2>5, <2>6, <2>7, <2>8 DEF Next, Watch
<1> QED
  BY <1>1, <1>2, TypeCorrect, AnswerIsTold, PTL DEF Spec

\* From all the frames of a sink, of which the first part alone starts anew,
\* comes the whole answer.
LEMMA RebuiltIsAll ==
    ASSUME NEW fs \in Seq(Frame), \A i \in DOMAIN PartFrames(fs) : PartFrames(fs)[i].append <=> i > 1
    PROVE  Rebuilt(fs) = PartsOf(fs)
<1> DEFINE f == PartFrames(fs)
           starts == {i \in DOMAIN f : ~f[i].append}
           first == CHOOSE i \in starts : \A j \in starts : j <= i
           n == Len(f)
<1>1. f \in Seq(PartFrame) /\ n \in Nat /\ DOMAIN f = 1 .. n
  BY PartsAre
<1>2. Rebuilt(fs) = IF f = <<>> THEN <<>> ELSE PartsOf(SubSeq(f, first, n))
  BY DEF Rebuilt
<1>3. PartsOf(fs) = [i \in DOMAIN f |-> f[i].part]
  BY DEF PartsOf
<1>4. \A i \in DOMAIN f : f[i].append <=> i > 1
  OBVIOUS
<1> HIDE DEF f
<1>5. CASE f = <<>>
  <2>1. PartsOf(fs) = <<>>
    BY <1>3, <1>5
  <2> QED
    BY <1>2, <1>5, <2>1
<1>6. CASE f # <<>>
  <2>1. n # 0
    BY <1>1, <1>6, EmptySeq
  <2> HIDE DEF n
  <2>2. starts = {1}
    <3>1. \A i \in 1 .. n : i \in starts <=> i = 1
      BY <1>1, <1>4
    <3>2. 1 \in 1 .. n
      BY <1>1, <2>1
    <3> QED
      BY <1>1, <3>1, <3>2
  <2> HIDE DEF starts
  <2>3. first = 1
    <3>1. \E i \in starts : \A j \in starts : j <= i
      BY <2>2
    <3>2. first \in starts
      BY <3>1
    <3> QED
      BY <2>2, <3>2
  <2> DEFINE g == SubSeq(f, 1, n)
  <2>4. g = f
    <3>1. /\ g \in Seq(PartFrame) /\ Len(g) = n /\ Len(f) = n
          /\ \A i \in 1 .. n : g[i] = f[i]
      BY <1>1 DEF n
    <3> HIDE DEF g
    <3> QED
      BY <1>1, <3>1, SeqEqual
  <2>5. PartFrames(f) = f
    BY <1>1, SiftAll DEF PartFrames
  <2>6. PartsOf(f) = [i \in DOMAIN f |-> f[i].part]
    BY <2>5 DEF PartsOf
  <2> HIDE DEF first
  <2> QED
    BY <1>2, <1>3, <1>6, <2>3, <2>4, <2>6
<1> QED
  BY <1>5, <1>6

\* A client that did not fall behind can put the answer together: what its
\* stream brought ends with all that a GetTask call made meanwhile left out.
THEOREM AnswerCanBeRebuilt == Spec => []AnswerIsRebuilt
<1>1. /\ TypeOK /\ HasRecorded /\ InStep /\ AnswerTold /\ StreamBrings
      => AnswerIsRebuilt
  <2> SUFFICES ASSUME TypeOK, HasRecorded, InStep, AnswerTold, StreamBrings,
                      NEW c \in Clients, stream[c] = "ended", c \notin behind
               PROVE  /\ Rebuilt(log) = parts
                      /\ seen[c] # None =>
                            IsSuffix(SubSeq(parts, seen[c] + 1, Len(parts)), PartsOf(Received(c)))
    BY DEF AnswerIsRebuilt
  <2>1. log \in Seq(Frame) /\ parts \in Seq(Part) /\ seen[c] \in Nat \union {None}
    BY DEF TypeOK
  <2>2. closed /\ next[c] = Len(log) + 1
    BY DEF StreamBrings
  <2>3. parts = PartsOf(log)
    BY <2>2 DEF InStep, AnswerTold
  <2>4. Rebuilt(log) = parts
    BY <2>1, <2>3, RebuiltIsAll DEF AnswerTold
  <2>5. ASSUME seen[c] # None
        PROVE  IsSuffix(SubSeq(parts, seen[c] + 1, Len(parts)), PartsOf(Received(c)))
    <3> DEFINE n == Len(log)
               s == seen[c]
               L == Len(parts)
               a == SubSeq(parts, s + 1, L)
    <3>1. PICK k \in 1 .. n + 1 :
             got[c] = k .. next[c] - 1 /\ Len(PartsOf(SubSeq(log, 1, k - 1))) <= s
      BY <2>5 DEF StreamBrings
    <3>2. n \in Nat /\ k \in Nat /\ 1 <= k /\ k <= n + 1 /\ s \in Nat /\ L \in Nat
      BY <2>1, <2>5
    <3> DEFINE before == SubSeq(log, 1, k - 1)
               after == SubSeq(log, k, n)
               ps == PartsOf(before)
               b == PartsOf(after)
               m == Len(ps)
    <3>3. Received(c) = after
      <4>1. got[c] = k .. n
        BY <2>2, <3>1, <3>2
      <4>2. Cardinality(k .. n) = IF k > n THEN 0 ELSE n - k + 1
        <5>1. k \in Int /\ n \in Int
          BY <3>2
        <5> HIDE DEF n
        <5> QED
          BY <5>1, FS_Interval
      <4>3. Cardinality(got[c]) = (n + 1) - k
        BY <3>2, <4>1, <4>2
      <4>4. n - Cardinality(got[c]) + 1 = k
        BY <3>2, <4>3
      <4> QED
        BY <4>4 DEF Received
    <3>4. before \in Seq(Frame) /\ after \in Seq(Frame) /\ log = before \o after
      BY <2>1, Split
    <3>5. m <= s
      BY <3>1
    <3> HIDE DEF before, after
    <3>6. parts = ps \o b /\ ps \in Seq(Part) /\ b \in Seq(Part)
      BY <2>3, <3>4, PartsJoin, PartsAre
    <3> HIDE DEF ps, b
    <3>7. /\ m \in Nat /\ Len(b) \in Nat /\ L = m + Len(b)
          /\ \A i \in 1 .. m + Len(b) : parts[i] = IF i <= m THEN ps[i] ELSE b[i - m]
      BY <3>6, ConcatProperties
    <3> HIDE DEF m, s, L
    <3>8. a \in Seq(Part) /\ Len(a) = IF s + 1 <= L THEN L - s ELSE 0
      <4>1. L = Len(parts)
        BY DEF L
      <4> QED
        BY <2>1, <3>2, <4>1
    <3>9. \A i \in 1 .. Len(a) : a[i] = parts[s + i]
      <4>1. L = Len(parts)
        BY DEF L
      <4> QED
        BY <2>1, <3>2, <3>8, <4>1
    <3> HIDE DEF a
    <3>10. Len(a) <= Len(b)
      BY <3>2, <3>5, <3>7, <3>8
    <3>11. ASSUME NEW i \in 1 .. Len(a)
           PROVE  a[i] = b[(Len(b) - Len(a)) + i]
      <4>1. s + 1 <= L /\ Len(a) = L - s /\ i \in Nat /\ 1 <= i /\ i <= L - s
        BY <3>2, <3>8, <3>11
      <4>2. s + i \in 1 .. m + Len(b) /\ ~(s + i <= m)
            /\ (s + i) - m = (Len(b) - Len(a)) + i
        BY <3>2, <3>5, <3>7, <4>1
      <4>3. parts[s + i] = b[(s + i) - m]
        BY <3>7, <4>2
      <4> QED
        BY <3>9, <4>2, <4>3
    <3>12. IsSuffix(a, b)
      BY <3>6, <3>8, <3>10, <3>11, SuffixIs
    <3> QED
      BY <3>3, <3>12 DEF a, b, s, L
  <2> QED
    BY <2>4, <2>5
<1> QED
  BY <1>1, TypeCorrect, KeepInStep, AnswerIsTold, StreamsBring, PTL
=============================================================================
