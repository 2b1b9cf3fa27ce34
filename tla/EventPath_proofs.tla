-------------------------- MODULE EventPath_proofs ---------------------------
(***************************************************************************)
(* Proofs about EventPath, for every stream of bytes, every division into  *)
(* reads, every set of subscribers and every queue size: what a queue      *)
(* holds, who is subscribed, that the bus with its streams implements      *)
(* LiveStream, what the decoder recovers from a connection's bytes, and    *)
(* that the bus behind it is such a bus.                                   *)
(***************************************************************************)
EXTENDS EventPath, FiniteSetTheorems, SequenceTheorems, WellFoundedInduction, TLAPS

-----------------------------------------------------------------------------
(* EventBus.                                                               *)

\* No stream is ahead of the bus.
CursorBehind == \A s \in Subscribers : cursor[s] <= published

\* queue is the newest part of the events after c when p are published.
Newest(queue, p, c) ==
    /\ Len(queue) = IF p - c <= Capacity THEN p - c ELSE Capacity
    /\ \A i \in 1 .. Len(queue) : queue[i] = p - Len(queue) + i

\* The inductive invariant: a queue is the newest part of what lies between its
\* cursor and the bus, which says nothing unless the cursor is not ahead.
BusInv ==
    /\ BusTypeOK
    /\ OnlyStreamsSubscribed
    /\ CursorBehind
    /\ QueueIsNewest

-----------------------------------------------------------------------------
\* Appending to a queue of event numbers, with or without dropping its head.
LEMMA PutProperties ==
    ASSUME NEW queue \in Seq(Nat), NEW e \in Nat, Len(queue) <= Capacity
    PROVE  /\ Put(queue, e) \in Seq(Nat)
           /\ Len(Put(queue, e)) = IF Len(queue) < Capacity THEN Len(queue) + 1 ELSE Capacity
           /\ Len(queue) < Capacity =>
                \A i \in 1 .. Len(queue) + 1 :
                    Put(queue, e)[i] = IF i <= Len(queue) THEN queue[i] ELSE e
           /\ Len(queue) = Capacity =>
                \A i \in 1 .. Capacity :
                    Put(queue, e)[i] = IF i < Capacity THEN queue[i + 1] ELSE e
<1>1. CASE Len(queue) < Capacity
  BY <1>1, BusAssumption DEF Put
<1>2. CASE Len(queue) = Capacity
  <2>1. /\ queue # <<>>
        /\ Tail(queue) \in Seq(Nat)
        /\ Len(Tail(queue)) = Capacity - 1
        /\ \A i \in 1 .. Capacity - 1 : Tail(queue)[i] = queue[i + 1]
    BY <1>2, BusAssumption
  <2>2. Put(queue, e) = Append(Tail(queue), e)
    BY <1>2, BusAssumption DEF Put
  <2>3. QED
    BY <1>2, <2>1, <2>2, BusAssumption
<1>3. QED
  BY <1>1, <1>2, BusAssumption

\* A queue that is the newest part of the events after c, of p published, stays
\* so when event p + 1 is put.
LEMMA PutNewest ==
    ASSUME NEW queue \in Seq(Nat), NEW p \in Nat, NEW c \in Nat, c <= p, Newest(queue, p, c)
    PROVE  Newest(Put(queue, p + 1), p + 1, c)
<1> DEFINE new == Put(queue, p + 1)
<1>1. /\ p + 1 \in Nat /\ Capacity \in Nat \ {0} /\ Len(queue) \in Nat
      /\ Len(queue) = IF p - c <= Capacity THEN p - c ELSE Capacity
      /\ \A i \in 1 .. Len(queue) : queue[i] = p - Len(queue) + i
  BY BusAssumption DEF Newest
<1>2. Len(queue) <= Capacity
  BY <1>1
<1>3. /\ Len(new) = IF Len(queue) < Capacity THEN Len(queue) + 1 ELSE Capacity
      /\ Len(queue) < Capacity =>
           \A i \in 1 .. Len(queue) + 1 : new[i] = IF i <= Len(queue) THEN queue[i] ELSE p + 1
      /\ Len(queue) = Capacity =>
           \A i \in 1 .. Capacity : new[i] = IF i < Capacity THEN queue[i + 1] ELSE p + 1
  BY <1>1, <1>2, PutProperties
<1> HIDE DEF new
<1>4. Len(new) = IF p + 1 - c <= Capacity THEN p + 1 - c ELSE Capacity
  BY <1>1, <1>3
<1>5. ASSUME NEW i \in 1 .. Len(new)
      PROVE  new[i] = p + 1 - Len(new) + i
  <2>1. CASE Len(queue) < Capacity
    <3>1. Len(new) = Len(queue) + 1 /\ i \in 1 .. Len(queue) + 1
      BY <1>3, <2>1
    <3>2. CASE i <= Len(queue)
      <4>1. i \in 1 .. Len(queue) /\ new[i] = queue[i]
        BY <1>1, <1>3, <2>1, <3>1, <3>2
      <4>2. queue[i] = p - Len(queue) + i
        BY <1>1, <4>1
      <4>3. QED
        BY <1>1, <3>1, <4>1, <4>2
    <3>3. CASE i = Len(queue) + 1
      BY <1>1, <1>3, <2>1, <3>1, <3>3
    <3>4. QED
      BY <1>1, <3>1, <3>2, <3>3
  <2>2. CASE Len(queue) = Capacity
    <3>1. Len(new) = Capacity /\ i \in 1 .. Capacity
      BY <1>1, <1>3, <2>2
    <3>2. CASE i < Capacity
      <4>1. i + 1 \in 1 .. Len(queue) /\ new[i] = queue[i + 1]
        BY <1>1, <1>3, <2>2, <3>1, <3>2
      <4>2. queue[i + 1] = p - Len(queue) + (i + 1)
        BY <1>1, <4>1
      <4>3. QED
        BY <1>1, <2>2, <3>1, <4>1, <4>2
    <3>3. CASE i = Capacity
      BY <1>1, <1>3, <2>2, <3>1, <3>3
    <3>4. QED
      BY <1>1, <3>1, <3>2, <3>3
  <2>3. QED
    BY <1>1, <1>2, <2>1, <2>2
<1>6. QED
  BY <1>4, <1>5 DEF Newest, new

\* What the invariant says of the queue of one subscriber.
LEMMA QueueOf ==
    ASSUME BusInv, NEW s \in subs
    PROVE  /\ s \in Subscribers /\ published \in Nat /\ cursor[s] \in Nat /\ cursor[s] <= published
           /\ q[s] \in Seq(Nat) /\ Len(q[s]) \in Nat /\ Len(q[s]) <= Capacity
           /\ Len(q[s]) = IF published - cursor[s] <= Capacity THEN published - cursor[s] ELSE Capacity
           /\ \A i \in 1 .. Len(q[s]) : q[s][i] = published - Len(q[s]) + i
<1>1. /\ s \in Subscribers /\ published \in Nat /\ cursor[s] \in Nat
      /\ q[s] \in Seq(Nat) /\ Len(q[s]) <= Capacity
  BY DEF BusInv, BusTypeOK
<1>2. Len(q[s]) \in Nat
  BY <1>1
<1>3. cursor[s] <= published
  BY <1>1 DEF BusInv, CursorBehind
<1>4. Len(q[s]) = IF published - cursor[s] <= Capacity THEN published - cursor[s] ELSE Capacity
  BY DEF BusInv, QueueIsNewest, Behind
<1>5. \A i \in 1 .. Len(q[s]) : q[s][i] = published - Len(q[s]) + i
  BY DEF BusInv, QueueIsNewest
<1>6. QED
  BY <1>1, <1>2, <1>3, <1>4, <1>5

\* The bus starts with no subscriber and empty queues.
LEMMA InitInv == ASSUME BusInit PROVE BusInv
BY BusAssumption DEF BusInit, BusInv, BusTypeOK, OnlyStreamsSubscribed, CursorBehind, QueueIsNewest, Stages

\* publish: every queue takes the new event, and a full one loses its oldest.
LEMMA BroadcastInv ==
    ASSUME BusInv, Broadcast, due' \in BOOLEAN, telemetry' \in Nat
    PROVE  BusInv'
<1> USE DEF Broadcast
<1>1. \A s \in subs : /\ q[s] \in Seq(Nat) /\ Len(q[s]) <= Capacity
                      /\ q'[s] = Put(q[s], published + 1)
  BY DEF BusInv, BusTypeOK
<1>2. \A s \in Subscribers : s \notin subs => q'[s] = q[s]
  BY DEF BusInv, BusTypeOK
<1>3. BusTypeOK'
  <2>1. \A s \in Subscribers : q'[s] \in Seq(Nat) /\ Len(q'[s]) <= Capacity
    BY <1>1, <1>2, PutProperties, BusAssumption DEF BusInv, BusTypeOK
  <2>2. q' \in [Subscribers -> Seq(Nat)]
    BY <2>1
  <2>3. QED
    BY <2>1, <2>2 DEF BusInv, BusTypeOK
<1>4. OnlyStreamsSubscribed'
  BY DEF BusInv, OnlyStreamsSubscribed
<1>5. CursorBehind'
  BY DEF BusInv, CursorBehind, BusTypeOK
<1>6. QueueIsNewest'
  <2> SUFFICES ASSUME NEW s \in subs
               PROVE  /\ Len(q'[s]) = IF published' - cursor'[s] <= Capacity
                                      THEN published' - cursor'[s] ELSE Capacity
                      /\ \A i \in 1 .. Len(q'[s]) : q'[s][i] = published' - Len(q'[s]) + i
    BY DEF QueueIsNewest, Behind
  <2>1. /\ published' = published + 1 /\ cursor'[s] = cursor[s]
        /\ q'[s] = Put(q[s], published + 1)
    BY <1>1 DEF BusInv, BusTypeOK
  <2>2. /\ q[s] \in Seq(Nat) /\ published \in Nat /\ cursor[s] \in Nat /\ cursor[s] <= published
        /\ Newest(q[s], published, cursor[s])
    BY QueueOf DEF Newest
  <2>3. Newest(Put(q[s], published + 1), published + 1, cursor[s])
    BY <2>2, PutNewest
  <2>4. QED
    BY <2>1, <2>3 DEF Newest
<1>7. QED
  BY <1>3, <1>4, <1>5, <1>6 DEF BusInv

\* Writing an event leaves a stream as it is, or stalls a live one.
LEMMA WrittenStage ==
    ASSUME stage \in [Subscribers -> Stages], NEW s \in Subscribers, Written(s)
    PROVE  /\ stage' \in [Subscribers -> Stages]
           /\ \A r \in Subscribers : stage'[r] = stage[r] \/ (r = s /\ stage[r] = "live" /\ stage'[r] = "stalled")
<1>1. CASE stage' = stage
  BY <1>1
<1>2. CASE stage[s] = "live" /\ stage' = [stage EXCEPT ![s] = "stalled"]
  BY <1>2 DEF Stages
<1>3. QED
  BY <1>1, <1>2 DEF Written

\* A step of one stream keeps the invariant.
LEMMA StreamInv ==
    ASSUME BusInv, NEW s \in Subscribers, StreamStep(s)
    PROVE  BusInv'
<1> USE DEF BusInv, BusTypeOK, Stages
<1>1. CASE Subscribe(s)
  <2> USE <1>1 DEF Subscribe
  <2>1. BusTypeOK'
    BY BusAssumption
  <2>2. OnlyStreamsSubscribed'
    BY DEF OnlyStreamsSubscribed
  <2>3. CursorBehind'
    BY DEF CursorBehind
  <2>4. QueueIsNewest'
    <3> SUFFICES ASSUME NEW r \in subs'
                 PROVE  /\ Len(q'[r]) = IF published' - cursor'[r] <= Capacity
                                        THEN published' - cursor'[r] ELSE Capacity
                        /\ \A i \in 1 .. Len(q'[r]) : q'[r][i] = published' - Len(q'[r]) + i
      BY DEF QueueIsNewest, Behind
    <3>1. CASE r = s
      BY <3>1, BusAssumption
    <3>2. CASE r # s
      <4>1. r \in subs /\ r \in Subscribers
        BY <3>2
      <4>2. q'[r] = q[r] /\ cursor'[r] = cursor[r] /\ published' = published
        BY <3>2, <4>1
      <4>3. QED
        BY <4>1, <4>2, QueueOf
    <3>3. QED
      BY <3>1, <3>2
  <2>5. QED
    BY <2>1, <2>2, <2>3, <2>4
<1>2. CASE Begin(s)
  BY <1>2 DEF Begin, SetStage, OnlyStreamsSubscribed, CursorBehind, QueueIsNewest, Behind
<1>3. CASE YieldEvent(s)
  <2> USE <1>3 DEF YieldEvent
  <2>0. /\ stage' \in [Subscribers -> Stages]
        /\ \A r \in Subscribers : stage'[r] = stage[r] \/ (r = s /\ stage[r] = "live" /\ stage'[r] = "stalled")
    BY WrittenStage
  <2>1. /\ s \in subs /\ q[s] \in Seq(Nat) /\ q[s] # <<>> /\ Len(q[s]) <= Capacity
        /\ Len(q[s]) >= 1
        /\ Head(q[s]) = q[s][1] /\ Tail(q[s]) \in Seq(Nat) /\ Len(Tail(q[s])) = Len(q[s]) - 1
        /\ \A i \in 1 .. Len(q[s]) - 1 : Tail(q[s])[i] = q[s][i + 1]
    BY DEF OnlyStreamsSubscribed
  <2>1a. \A i \in 1 .. Len(q[s]) : q[s][i] = published - Len(q[s]) + i
    BY <2>1, QueueOf
  <2>1b. 1 \in 1 .. Len(q[s])
    BY <2>1
  <2>2. /\ Head(q[s]) = published - Len(q[s]) + 1
        /\ \A i \in 1 .. Len(q[s]) : q[s][i] = published - Len(q[s]) + i
    BY <2>1, <2>1a, <2>1b
  <2>3. Head(q[s]) \in Nat /\ Head(q[s]) <= published
    BY <2>1, <2>2
  <2>4. BusTypeOK'
    <3>1. \A r \in Subscribers : q'[r] \in Seq(Nat) /\ Len(q'[r]) <= Capacity
      BY <2>1, BusAssumption
    <3>2. q' \in [Subscribers -> Seq(Nat)] /\ cursor' \in [Subscribers -> Nat]
      BY <2>1, <2>3
    <3>3. QED
      BY <2>0, <3>1, <3>2
  <2>5. OnlyStreamsSubscribed'
    BY <2>0 DEF OnlyStreamsSubscribed
  <2>6. CursorBehind'
    BY <2>3 DEF CursorBehind
  <2>7. QueueIsNewest'
    <3> SUFFICES ASSUME NEW r \in subs
                 PROVE  /\ Len(q'[r]) = IF published' - cursor'[r] <= Capacity
                                        THEN published' - cursor'[r] ELSE Capacity
                        /\ \A i \in 1 .. Len(q'[r]) : q'[r][i] = published' - Len(q'[r]) + i
      BY DEF QueueIsNewest, Behind
    <3>1. CASE r # s
      <4>1. q'[r] = q[r] /\ cursor'[r] = cursor[r] /\ published' = published
        BY <3>1
      <4>2. QED
        BY <4>1, QueueOf
    <3>2. CASE r = s
      <4>1. /\ q'[s] = Tail(q[s]) /\ published' = published
            /\ cursor'[s] = published - Len(q[s]) + 1
        BY <2>1, <2>2
      <4>2. QED
        BY <3>2, <4>1, <2>1, <2>2, QueueOf, BusAssumption
    <3>3. QED
      BY <3>1, <3>2
  <2>8. QED
    BY <2>4, <2>5, <2>6, <2>7
<1>4. CASE Disconnect(s) \/ KeepAlive(s) \/ ClientReads(s)
  BY <1>4 DEF Disconnect, KeepAlive, ClientReads, SetStage, OnlyStreamsSubscribed, CursorBehind, QueueIsNewest, Behind
<1>5. CASE EndStream(s)
  BY <1>5 DEF EndStream, OnlyStreamsSubscribed, CursorBehind, QueueIsNewest, Behind
<1>6. QED
  BY <1>1, <1>2, <1>3, <1>4, <1>5 DEF StreamStep

\* Every step of the bus, or a stutter, keeps the invariant.
LEMMA NextInv == ASSUME BusInv, [BusNext]_busVars PROVE BusInv'
<1>1. CASE PublishEvent
  <2>1. Broadcast /\ due' \in BOOLEAN /\ telemetry' \in Nat
    BY <1>1 DEF PublishEvent, BusInv, BusTypeOK
  <2>2. QED
    BY <2>1, BroadcastInv
<1>2. CASE PublishTelemetry
  <2>1. Broadcast /\ due' = FALSE /\ telemetry' = telemetry + 1
    BY <1>2 DEF PublishTelemetry
  <2>1a. due' \in BOOLEAN
    BY <2>1
  <2>1b. telemetry' \in Nat
    BY <2>1 DEF BusInv, BusTypeOK
  <2>2. QED
    BY <2>1, <2>1a, <2>1b, BroadcastInv
<1>3. CASE TelemetryDue
  BY <1>3 DEF TelemetryDue, BusInv, BusTypeOK, OnlyStreamsSubscribed, CursorBehind, QueueIsNewest, Behind
<1>4. CASE \E s \in Subscribers : StreamStep(s)
  BY <1>4, StreamInv
<1>5. CASE UNCHANGED busVars
  BY <1>5 DEF busVars, BusInv, BusTypeOK, OnlyStreamsSubscribed, CursorBehind, QueueIsNewest, Behind
<1>6. QED
  BY <1>1, <1>2, <1>3, <1>4, <1>5 DEF BusNext

\* The inductive invariant holds in every reachable state.
LEMMA BusInvHolds == BusSpec => []BusInv
<1>1. BusInit => BusInv
  BY InitInv
<1>2. BusInv /\ [BusNext]_busVars => BusInv'
  BY NextInv
<1>3. QED
  BY <1>1, <1>2, PTL DEF BusSpec

-----------------------------------------------------------------------------
\* The bus keeps its types, and no queue ever exceeds maxsize (publish).
THEOREM BusTypeCorrect == BusSpec => []BusTypeOK
<1>1. BusInv => BusTypeOK
  BY DEF BusInv
<1>2. QED
  BY <1>1, BusInvHolds, PTL

\* Exactly the streams that have not ended, and those whose client left before
\* they began, are subscribed (events_stream).
THEOREM SubscriptionsFollowStreams == BusSpec => []OnlyStreamsSubscribed
<1>1. BusInv => OnlyStreamsSubscribed
  BY DEF BusInv
<1>2. QED
  BY <1>1, BusInvHolds, PTL

\* Every queue is exactly the newest part of what its subscriber has not seen
\* (publish, YieldEvent).
THEOREM QueuesHoldTheNewest == BusSpec => []QueueIsNewest
<1>1. BusInv => QueueIsNewest
  BY DEF BusInv
<1>2. QED
  BY <1>1, BusInvHolds, PTL

\* An event a stream takes from its queue is the next one the abstract stream
\* would deliver.
LEMMA YieldDelivers ==
    ASSUME BusInv, NEW s \in Subscribers, YieldEvent(s)
    PROVE  Live!Deliver(s)
<1>1. /\ s \in subs /\ q[s] \in Seq(Nat) /\ Len(q[s]) >= 1
      /\ Head(q[s]) = q[s][1]
  BY DEF BusInv, BusTypeOK, OnlyStreamsSubscribed, YieldEvent
<1>2. /\ Len(q[s]) = IF published - cursor[s] <= Capacity THEN published - cursor[s] ELSE Capacity
      /\ Head(q[s]) = published - Len(q[s]) + 1
      /\ published \in Nat /\ cursor[s] \in Nat /\ cursor[s] <= published
  BY <1>1, QueueOf
<1>3. cursor[s] < published /\ Head(q[s]) = Live!NextFor(s)
  BY <1>1, <1>2, BusAssumption DEF Live!NextFor
<1>4. QED
  BY <1>1, <1>3 DEF Live!Deliver, YieldEvent

\* Every step of the bus is a step of the abstract stream, or a stutter.
LEMMA StepRefines ==
    ASSUME BusInv, [BusNext]_busVars
    PROVE  [Live!Next]_(Live!vars)
<1>1. CASE PublishEvent \/ PublishTelemetry
  BY <1>1 DEF PublishEvent, PublishTelemetry, Broadcast, Live!Next, Live!Publish
<1>2. CASE TelemetryDue
  BY <1>2 DEF TelemetryDue, Live!vars
<1>3. ASSUME NEW s \in Subscribers, StreamStep(s)
      PROVE  [Live!Next]_(Live!vars)
  <2>1. CASE Subscribe(s)
    <3>1. s \notin subs
      BY <2>1 DEF Subscribe, BusInv, OnlyStreamsSubscribed
    <3>2. Live!Open(s)
      BY <2>1, <3>1 DEF Subscribe, Live!Open
    <3>3. QED
      BY <3>2 DEF Live!Next
  <2>2. CASE Begin(s) \/ KeepAlive(s) \/ ClientReads(s) \/ Disconnect(s)
    BY <2>2 DEF Begin, KeepAlive, ClientReads, Disconnect, SetStage, Live!vars
  <2>3. CASE YieldEvent(s)
    BY <2>3, YieldDelivers DEF Live!Next
  <2>4. CASE EndStream(s)
    <3>1. s \in subs
      BY <2>4 DEF EndStream, BusInv, OnlyStreamsSubscribed
    <3>2. Live!Close(s)
      BY <2>4, <3>1 DEF EndStream, Live!Close
    <3>3. QED
      BY <3>2 DEF Live!Next
  <2>5. QED
    BY <1>3, <2>1, <2>2, <2>3, <2>4 DEF StreamStep
<1>4. CASE UNCHANGED busVars
  BY <1>4 DEF busVars, Live!vars
<1>5. QED
  BY <1>1, <1>2, <1>3, <1>4 DEF BusNext

\* The bus with its streams implements the abstract stream: every subscriber gets
\* events in order, at most once, and misses only what overflowed its queue.
THEOREM BusImplementsLiveStream == BusSpec => ImplementsLiveStream
<1>1. BusInit => Live!Init
  BY DEF BusInit, Live!Init
<1>2. BusInv /\ [BusNext]_busVars => [Live!Next]_(Live!vars)
  BY StepRefines
<1>3. QED
  BY <1>1, <1>2, BusInvHolds, PTL DEF BusSpec, ImplementsLiveStream, Live!Spec

-----------------------------------------------------------------------------
(* StreamDecoder.                                                          *)

\* Number of bytes that feed is done with.
Gone == fed - Len(buf)

\* The frames that end within the first n bytes of s.
Frames(s, n) == {i \in DOMAIN s.segs : s.segs[i].kind = "frame" /\ s.segs[i].last <= n}

\* After n bytes of s, no segment that was sent as a frame is cut.
Uncut(s, n) ==
    \A i \in DOMAIN s.segs : s.segs[i].kind # "garbage" => s.segs[i].last <= n \/ n < s.segs[i].first

\* o are the frames among the first n bytes of s, all of them.
Caught(s, o, n) ==
    /\ Len(o) = Cardinality(Frames(s, n))
    /\ \A i \in Frames(s, n) :
         o[Cardinality({j \in Frames(s, n) : j <= i})] = Stretch(s.bytes, s.segs[i])

\* o are frames among the first n bytes of s, in their order.
SentBy(s, o, n) ==
    \E sent \in [DOMAIN o -> Frames(s, n)] :
        /\ \A i \in DOMAIN o : o[i] = Stretch(s.bytes, s.segs[sent[i]])
        /\ \A i, j \in DOMAIN o : i < j => sent[i] < sent[j]

\* The buffer b holds the bytes of s after the first n.
Holds(s, b, n) ==
    /\ n \in Nat
    /\ b \in Seq(Byte)
    /\ n + Len(b) <= Len(s.bytes)
    /\ \A i \in 1 .. Len(b) : b[i] = s.bytes[n + i]

\* Without a false header and without a magic split by a clearing of the buffer, feed stands between segments and has yielded every frame it passed.
InStep ==
    NoFalseHeader /\ ~splitMagic => Uncut(stream, Gone) /\ Caught(stream, out, Gone)

\* The inductive invariant of the decoder: the buffer is what was read and not
\* consumed, and what was yielded is related to what was consumed, not to what was
\* read; a decoder at rest needs more bytes.
DecoderInv ==
    /\ stream \in Streams
    /\ fed \in Nat
    /\ Holds(stream, buf, Gone)
    /\ out \in Seq(Seq(Byte))
    /\ feeding \in BOOLEAN
    /\ splitMagic \in BOOLEAN
    /\ ~feeding => Incomplete
    /\ SentBy(stream, out, Gone)
    /\ InStep

-----------------------------------------------------------------------------
\* The segments of a stream, one after the other.
LEMMA SegmentOrder ==
    ASSUME NEW s \in Streams
    PROVE  /\ s.bytes \in Seq(Byte) /\ Len(s.bytes) \in Nat /\ DOMAIN s.bytes = 1 .. Len(s.bytes)
           /\ s.segs \in Seq(Segment) /\ Len(s.segs) \in Nat /\ DOMAIN s.segs = 1 .. Len(s.segs)
           /\ \A i \in DOMAIN s.segs :
                /\ i \in Nat /\ s.segs[i].first \in Nat /\ s.segs[i].last \in Nat
                /\ 1 <= s.segs[i].first /\ s.segs[i].first <= s.segs[i].last
                /\ s.segs[i].last <= Len(s.bytes)
           /\ \A i, j \in DOMAIN s.segs : i < j => s.segs[i].last < s.segs[j].first
<1>1. /\ s.bytes \in Seq(Byte) /\ s.segs \in Seq(Segment)
      /\ \A i \in DOMAIN s.segs : s.segs[i].first <= s.segs[i].last /\ s.segs[i].last <= Len(s.bytes)
      /\ \A i, j \in DOMAIN s.segs : i < j => s.segs[i].last < s.segs[j].first
  BY DecoderAssumption DEF WellSent
<1>2. \A x \in Segment : x.first \in Nat /\ x.last \in Nat /\ 1 <= x.first
  BY DEF Segment
<1>3. /\ Len(s.bytes) \in Nat /\ DOMAIN s.bytes = 1 .. Len(s.bytes)
      /\ Len(s.segs) \in Nat /\ DOMAIN s.segs = 1 .. Len(s.segs)
      /\ \A i \in DOMAIN s.segs : i \in Nat /\ s.segs[i] \in Segment
  BY <1>1
<1>4. QED
  BY <1>1, <1>2, <1>3

LEMMA ByteNat == \A x \in Byte : x \in Nat
BY DEF Byte

\* A stretch of a byte sequence.
LEMMA Slice ==
    ASSUME NEW w \in Seq(Byte), NEW a \in Nat \ {0}, NEW b \in Nat, a <= b + 1, b <= Len(w)
    PROVE  /\ SubSeq(w, a, b) \in Seq(Byte)
           /\ Len(SubSeq(w, a, b)) = b - a + 1
           /\ \A k \in 1 .. b - a + 1 : SubSeq(w, a, b)[k] = w[a + k - 1]
<1>1. \A i \in a .. b : w[i] \in Byte
  OBVIOUS
<1>2. /\ SubSeq(w, a, b) \in Seq(Byte)
      /\ Len(SubSeq(w, a, b)) = IF a <= b THEN b - a + 1 ELSE 0
      /\ \A i \in 1 .. b - a + 1 : SubSeq(w, a, b)[i] = w[a + i - 1]
  BY <1>1, SubSeqProperties, a \in Int, b \in Int
<1>3. QED
  BY <1>2

\* The bytes of a segment that was sent as a frame.
LEMMA FramedBytes ==
    ASSUME NEW s \in Streams, NEW i \in DOMAIN s.segs, s.segs[i].kind # "garbage"
    PROVE  LET f == s.segs[i].first
               l == s.segs[i].last
           IN  /\ s.bytes[f] = MagicT /\ s.bytes[f + 1] = MagicE /\ s.bytes[f + 2] <= MaxPayload
               /\ f + 3 <= l /\ l = f + HeaderLen + s.bytes[f + 2] + CrcLen - 1
<1> DEFINE f == s.segs[i].first
           l == s.segs[i].last
           b == Stretch(s.bytes, s.segs[i])
<1>1. /\ s.bytes \in Seq(Byte) /\ f \in Nat \ {0} /\ l \in Nat /\ f <= l + 1 /\ l <= Len(s.bytes)
  BY SegmentOrder
<1>2. Framed(b)
  BY DecoderAssumption DEF WellSent
<1>3. b = SubSeq(s.bytes, f, l)
  BY DEF Stretch
<1>4. /\ b \in Seq(Byte)
      /\ Len(b) = l - f + 1
      /\ \A k \in 1 .. l - f + 1 : b[k] = s.bytes[f + k - 1]
  <2> HIDE DEF b, f, l
  <2>1. QED
    BY <1>1, <1>3, Slice
<1> HIDE DEF b, f, l
<1>5. PICK x : x = b[3]
  OBVIOUS
<1>6. /\ b[1] = MagicT /\ b[2] = MagicE /\ x <= MaxPayload
      /\ Len(b) >= HeaderLen + CrcLen /\ Len(b) = HeaderLen + x + CrcLen
  BY <1>2, <1>5, Zenon DEF Framed
<1>7. HeaderLen = 3 /\ CrcLen = 1 /\ l - f + 1 >= 4
  BY <1>1, <1>4, <1>6 DEF HeaderLen, CrcLen
<1>8. x \in Nat
  <2>1. 3 \in 1 .. Len(b)
    BY <1>1, <1>4, <1>7
  <2>2. b[3] \in Byte
    BY <1>4, <2>1
  <2>3. QED
    BY <1>5, <2>2 DEF Byte
<1>9. b[1] = s.bytes[f] /\ b[2] = s.bytes[f + 1] /\ b[3] = s.bytes[f + 2]
  <2>1. 1 \in 1 .. l - f + 1 /\ 2 \in 1 .. l - f + 1 /\ 3 \in 1 .. l - f + 1
    BY <1>1, <1>7
  <2>2. f + 1 - 1 = f /\ f + 2 - 1 = f + 1 /\ f + 3 - 1 = f + 2
    BY <1>1
  <2>3. QED
    BY <1>4, <2>1, <2>2
<1>10. l = f + HeaderLen + x + CrcLen - 1 /\ f + 3 <= l
  BY <1>1, <1>4, <1>6, <1>7, <1>8
<1>11. /\ s.bytes[f] = MagicT /\ s.bytes[f + 1] = MagicE /\ s.bytes[f + 2] <= MaxPayload
       /\ f + 3 <= l /\ l = f + HeaderLen + s.bytes[f + 2] + CrcLen - 1
  BY <1>5, <1>6, <1>9, <1>10, Zenon
<1>12. QED
  BY <1>11 DEF f, l

\* A header at the front of the buffer, when no frame is cut and there is no false
\* header, is that of a segment that starts there and has the length it says.
LEMMA HeadSegment ==
    ASSUME NEW s \in Streams, NEW b, NEW n, Holds(s, b, n), Uncut(s, n), HeaderOk(b),
           \A i \in DOMAIN s.segs : s.segs[i].kind = "garbage" =>
               \A p \in s.segs[i].first .. s.segs[i].last : ~HeaderAt(s.bytes, p)
    PROVE  \E i \in DOMAIN s.segs :
              s.segs[i].kind # "garbage" /\ s.segs[i].first = n + 1 /\ s.segs[i].last = n + FrameLen(b)
<1>1. /\ n \in Nat /\ Len(b) \in Nat /\ 3 <= Len(b) /\ n + Len(b) <= Len(s.bytes)
      /\ b[1] = s.bytes[n + 1] /\ b[2] = s.bytes[n + 2] /\ b[3] = s.bytes[n + 3] /\ b[3] \in Byte
  <2>1. n \in Nat /\ b \in Seq(Byte) /\ Len(b) \in Nat /\ n + Len(b) <= Len(s.bytes)
    BY DEF Holds
  <2>2. 3 <= Len(b)
    BY <2>1 DEF HeaderOk, HeaderLen
  <2>3. 1 \in 1 .. Len(b) /\ 2 \in 1 .. Len(b) /\ 3 \in 1 .. Len(b)
    BY <2>1, <2>2
  <2>4. b[1] = s.bytes[n + 1] /\ b[2] = s.bytes[n + 2] /\ b[3] = s.bytes[n + 3]
    BY <2>3 DEF Holds
  <2>5. b[3] \in Byte
    BY <2>1, <2>3, ElementOfSeq
  <2>6. QED
    BY <2>1, <2>2, <2>4, <2>5
<1>2. n + 1 \in DOMAIN s.bytes
  BY <1>1, SegmentOrder
<1>3. PICK i \in DOMAIN s.segs : s.segs[i].first <= n + 1 /\ n + 1 <= s.segs[i].last
  BY <1>2, DecoderAssumption DEF WellSent
<1>4. s.segs[i].first \in Nat /\ s.segs[i].last \in Nat
  BY SegmentOrder
<1>5. s.segs[i].kind # "garbage"
  <2>1. HeaderAt(s.bytes, n + 1)
    <3>1. (n + 1) + 1 = n + 2 /\ (n + 1) + 2 = n + 3 /\ n + 3 <= Len(s.bytes)
      BY <1>1, SegmentOrder
    <3>2. s.bytes[n + 1] = MagicT /\ s.bytes[n + 2] = MagicE /\ s.bytes[n + 3] <= MaxPayload
      BY <1>1 DEF HeaderOk
    <3>3. QED
      BY <3>1, <3>2 DEF HeaderAt
  <2>2. n + 1 \in s.segs[i].first .. s.segs[i].last
    BY <1>1, <1>3, <1>4
  <2>3. QED
    BY <2>1, <2>2
<1>6. s.segs[i].first = n + 1
  <2>1. s.segs[i].last <= n \/ n < s.segs[i].first
    BY <1>5 DEF Uncut
  <2>2. QED
    BY <2>1, <1>1, <1>3, <1>4
<1>7. s.segs[i].last = s.segs[i].first + HeaderLen + s.bytes[s.segs[i].first + 2] + CrcLen - 1
  BY <1>5, FramedBytes
<1>8. s.segs[i].last = n + 1 + HeaderLen + s.bytes[n + 1 + 2] + CrcLen - 1
  BY <1>6, <1>7
<1>9. s.segs[i].last = n + FrameLen(b)
  <2>1. n + 1 + 2 = n + 3
    BY <1>1
  <2>2. PICK x, l : x = b[3] /\ x = s.bytes[n + 1 + 2] /\ x \in Nat /\ l = s.segs[i].last
    BY <1>1, <2>1, ByteNat, Zenon
  <2>3. l = n + 1 + HeaderLen + x + CrcLen - 1
    BY <1>8, <2>2, Zenon
  <2>4. FrameLen(b) = HeaderLen + x + CrcLen
    BY <2>2, Zenon DEF FrameLen
  <2>5. n \in Nat /\ x \in Nat
    BY <1>1, <2>2
  <2>6. l = n + FrameLen(b)
    BY <2>3, <2>4, <2>5 DEF HeaderLen, CrcLen
  <2>7. QED
    BY <2>2, <2>6, Zenon
<1>10. QED
  BY <1>5, <1>6, <1>9

\* A segment that starts after the first n bytes divides the others.
LEMMA Divides ==
    ASSUME NEW s \in Streams, NEW n \in Nat, NEW j \in DOMAIN s.segs, s.segs[j].first = n + 1
    PROVE  /\ s.segs[j].last \in Nat /\ n < s.segs[j].last
           /\ \A i \in DOMAIN s.segs : i < j => s.segs[i].last <= n
           /\ \A i \in DOMAIN s.segs : j < i => s.segs[j].last < s.segs[i].first
           /\ \A i \in DOMAIN s.segs : s.segs[i].last <= n => i < j
           /\ \A i \in DOMAIN s.segs : s.segs[i].last <= n \/ i = j \/ s.segs[j].last < s.segs[i].first
<1>1. /\ \A i \in DOMAIN s.segs :
           /\ i \in Nat /\ s.segs[i].first \in Nat /\ s.segs[i].last \in Nat
           /\ 1 <= s.segs[i].first /\ s.segs[i].first <= s.segs[i].last
      /\ \A i, k \in DOMAIN s.segs : i < k => s.segs[i].last < s.segs[k].first
  BY SegmentOrder
<1>2. s.segs[j].last \in Nat /\ n < s.segs[j].last
  BY <1>1
<1>3. \A i \in DOMAIN s.segs : i < j => s.segs[i].last <= n
  BY <1>1
<1>4. \A i \in DOMAIN s.segs : j < i => s.segs[j].last < s.segs[i].first
  BY <1>1
<1>5. \A i \in DOMAIN s.segs : i < j \/ i = j \/ j < i
  BY <1>1
<1>6. \A i \in DOMAIN s.segs : s.segs[i].last <= n => i < j
  BY <1>1, <1>2, <1>4, <1>5
<1>7. QED
  BY <1>2, <1>3, <1>4, <1>5, <1>6

\* A segment may be passed as a whole.
LEMMA UncutPast ==
    ASSUME NEW s \in Streams, NEW n \in Nat, NEW j \in DOMAIN s.segs, s.segs[j].first = n + 1
    PROVE  Uncut(s, s.segs[j].last)
<1>1. /\ s.segs[j].last \in Nat /\ n < s.segs[j].last
      /\ \A i \in DOMAIN s.segs : s.segs[i].last <= n \/ i = j \/ s.segs[j].last < s.segs[i].first
  BY Divides
<1>2. \A i \in DOMAIN s.segs : s.segs[i].first \in Nat /\ s.segs[i].last \in Nat
  BY SegmentOrder
<1>3. QED
  BY <1>1, <1>2 DEF Uncut

\* Passing a segment adds it to the frames, if it is one, and no other.
LEMMA FramesPast ==
    ASSUME NEW s \in Streams, NEW n \in Nat, NEW j \in DOMAIN s.segs, s.segs[j].first = n + 1
    PROVE  /\ Frames(s, s.segs[j].last) =
                IF s.segs[j].kind = "frame" THEN Frames(s, n) \cup {j} ELSE Frames(s, n)
           /\ \A i \in Frames(s, n) : i < j
<1>1. /\ s.segs[j].last \in Nat /\ n < s.segs[j].last
      /\ \A i \in DOMAIN s.segs : s.segs[i].last <= n => i < j
      /\ \A i \in DOMAIN s.segs : s.segs[i].last <= n \/ i = j \/ s.segs[j].last < s.segs[i].first
  BY Divides
<1>2. \A i \in DOMAIN s.segs :
        i \in Nat /\ s.segs[i].first \in Nat /\ s.segs[i].last \in Nat /\ s.segs[i].first <= s.segs[i].last
  BY SegmentOrder
<1>3. \A i \in DOMAIN s.segs : s.segs[i].last <= s.segs[j].last <=> (s.segs[i].last <= n \/ i = j)
  BY <1>1, <1>2
<1>4. \A i \in Frames(s, n) : i < j
  BY <1>1 DEF Frames
<1>5. \A i : i \in Frames(s, s.segs[j].last) <=>
               i \in (IF s.segs[j].kind = "frame" THEN Frames(s, n) \cup {j} ELSE Frames(s, n))
  <2>1. ASSUME NEW i PROVE i \in Frames(s, s.segs[j].last) <=>
                             (i \in Frames(s, n) \/ (i = j /\ s.segs[j].kind = "frame"))
    BY <1>3 DEF Frames
  <2>2. QED
    BY <2>1
<1>6. QED
  BY <1>4, <1>5

LEMMA FramesCount ==
    ASSUME NEW s \in Streams, NEW n, NEW F \in SUBSET Frames(s, n)
    PROVE  /\ IsFiniteSet(F) /\ Cardinality(F) \in Nat
           /\ \A i \in F : i \in Nat
           /\ F # {} => Cardinality(F) >= 1
<1>1. Len(s.segs) \in Nat /\ DOMAIN s.segs = 1 .. Len(s.segs)
  BY SegmentOrder
<1>2. IsFiniteSet(1 .. Len(s.segs))
  BY <1>1, FS_Interval
<1>3. F \in SUBSET (1 .. Len(s.segs))
  BY <1>1 DEF Frames
<1>4. IsFiniteSet(F)
  BY <1>2, <1>3, FS_Subset
<1>5. Cardinality(F) \in Nat
  BY <1>4, FS_CardinalityType
<1>6. F # {} => Cardinality(F) # 0
  BY <1>4, FS_EmptySet
<1>7. QED
  BY <1>1, <1>3, <1>4, <1>5, <1>6

\* The next frame is yielded.
LEMMA CaughtFrame ==
    ASSUME NEW s \in Streams, NEW n \in Nat, NEW j \in DOMAIN s.segs, s.segs[j].first = n + 1,
           s.segs[j].kind = "frame", NEW o \in Seq(Seq(Byte)), Caught(s, o, n),
           NEW chunk \in Seq(Byte), chunk = Stretch(s.bytes, s.segs[j])
    PROVE  Caught(s, Append(o, chunk), s.segs[j].last)
<1> DEFINE F == Frames(s, n)
           G == Frames(s, s.segs[j].last)
           t == Append(o, chunk)
<1>1. G = F \cup {j} /\ \A i \in F : i < j
  BY FramesPast
<1>2. /\ Len(o) = Cardinality(F)
      /\ \A i \in F : o[Cardinality({k \in F : k <= i})] = Stretch(s.bytes, s.segs[i])
  BY DEF Caught
<1>3. j \in Nat /\ j \notin F
  <2>1. j \in Nat
    BY SegmentOrder
  <2>2. QED
    BY <1>1, <2>1
<1>4. IsFiniteSet(F) /\ Cardinality(F) \in Nat /\ \A i \in F : i \in Nat
  BY FramesCount
<1>5. Cardinality(G) = Cardinality(F) + 1
  <2> HIDE DEF F, G
  <2>1. Cardinality(F \cup {j}) = Cardinality(F) + 1
    BY <1>3, <1>4, FS_AddElement
  <2>2. QED
    BY <1>1, <2>1
<1>6. /\ Len(t) = Len(o) + 1 /\ t[Len(o) + 1] = chunk
      /\ \A i \in 1 .. Len(o) : t[i] = o[i]
  BY AppendProperties
<1>7. ASSUME NEW i \in G PROVE t[Cardinality({k \in G : k <= i})] = Stretch(s.bytes, s.segs[i])
  <2>1. CASE i = j
    <3>1. {k \in G : k <= i} = G
      <4>1. \A k \in G : k <= i
        <5> HIDE DEF F, G
        <5>1. QED
          BY <1>1, <1>3, <1>4, <2>1
      <4>2. QED
        BY <4>1
    <3>2. QED
      BY <1>2, <1>5, <1>6, <2>1, <3>1
  <2>2. CASE i \in F
    <3>1. {k \in G : k <= i} = {k \in F : k <= i}
      <4>1. ~(j <= i)
        <5> HIDE DEF F, G
        <5>1. QED
          BY <1>1, <1>3, <1>4, <2>2
      <4>2. QED
        BY <1>1, <4>1
    <3>2. PICK K : K = {k \in F : k <= i}
      OBVIOUS
    <3>3. K \in SUBSET F /\ i \in K
      <4>1. i <= i
        BY <1>4, <2>2
      <4>2. QED
        BY <2>2, <3>2, <4>1
    <3>4. Cardinality(K) \in Nat /\ Cardinality(K) >= 1
      BY <3>3, FramesCount
    <3>5. Cardinality(K) <= Cardinality(F)
      BY <1>4, <3>3, FS_Subset
    <3>6. Cardinality(K) \in 1 .. Len(o)
      BY <1>2, <1>4, <3>4, <3>5
    <3>7. t[Cardinality(K)] = o[Cardinality(K)]
      BY <1>6, <3>6
    <3>8. QED
      BY <1>2, <2>2, <3>1, <3>2, <3>7
  <2>3. QED
    BY <1>1, <2>1, <2>2
<1>8. Len(t) = Cardinality(G)
  BY <1>2, <1>5, <1>6
<1>9. QED
  BY <1>7, <1>8 DEF Caught

LEMMA CaughtSame ==
    ASSUME NEW s, NEW o, NEW n, NEW m, Frames(s, m) = Frames(s, n), Caught(s, o, n)
    PROVE  Caught(s, o, m)
BY DEF Caught

\* Fewer bytes have fewer frames.
LEMMA SentMore ==
    ASSUME NEW s \in Streams, NEW o, NEW n \in Nat, NEW m \in Nat, n <= m, SentBy(s, o, n)
    PROVE  SentBy(s, o, m)
<1>1. Frames(s, n) \subseteq Frames(s, m)
  <2>1. \A i \in DOMAIN s.segs : s.segs[i].last \in Nat
    BY SegmentOrder
  <2>2. QED
    BY <2>1 DEF Frames
<1>2. [DOMAIN o -> Frames(s, n)] \subseteq [DOMAIN o -> Frames(s, m)]
  BY <1>1
<1>3. QED
  BY <1>2 DEF SentBy

\* A frame is yielded that lies after the ones yielded so far.
LEMMA SentNext ==
    ASSUME NEW s \in Streams, NEW n \in Nat, NEW j \in DOMAIN s.segs, s.segs[j].first = n + 1,
           s.segs[j].kind = "frame", NEW o \in Seq(Seq(Byte)), SentBy(s, o, n),
           NEW chunk \in Seq(Byte), chunk = Stretch(s.bytes, s.segs[j])
    PROVE  SentBy(s, Append(o, chunk), s.segs[j].last)
<1> DEFINE F == Frames(s, n)
           G == Frames(s, s.segs[j].last)
           t == Append(o, chunk)
<1>1. G = F \cup {j} /\ \A i \in F : i < j
  BY FramesPast
<1>2. PICK sent \in [DOMAIN o -> F] :
        /\ \A i \in DOMAIN o : o[i] = Stretch(s.bytes, s.segs[sent[i]])
        /\ \A i, k \in DOMAIN o : i < k => sent[i] < sent[k]
  BY DEF SentBy
<1>3. PICK len : len = Len(o) /\ len \in Nat
  OBVIOUS
<1>4. DOMAIN o = 1 .. len
  BY <1>3
<1>5. /\ DOMAIN t = 1 .. len + 1 /\ t[len + 1] = chunk
      /\ \A i \in 1 .. len : t[i] = o[i]
  <2>1. /\ Append(o, chunk) \in Seq(Seq(Byte)) /\ Len(Append(o, chunk)) = Len(o) + 1
        /\ \A i \in 1 .. Len(o) : Append(o, chunk)[i] = o[i]
        /\ Append(o, chunk)[Len(o) + 1] = chunk
    BY AppendProperties
  <2>2. DOMAIN Append(o, chunk) = 1 .. Len(Append(o, chunk))
    BY <2>1
  <2>3. QED
    BY <1>3, <2>1, <2>2
<1> DEFINE new == [i \in 1 .. len + 1 |-> IF i = len + 1 THEN j ELSE sent[i]]
<1> HIDE DEF F, G, t
<1>6. \A i \in 1 .. len + 1 : i = len + 1 \/ i \in 1 .. len
  BY <1>3
<1>7. \A i \in 1 .. len : sent[i] \in F /\ i # len + 1 /\ i \in 1 .. len + 1
  BY <1>2, <1>3, <1>4
<1>8. len + 1 \in 1 .. len + 1 /\ ~(\E k \in 1 .. len + 1 : len + 1 < k)
  BY <1>3
<1>9. /\ new \in [1 .. len + 1 -> G] /\ new[len + 1] = j
      /\ \A i \in 1 .. len : new[i] = sent[i]
  BY <1>1, <1>6, <1>7, <1>8
<1> HIDE DEF new
<1>10. \A i \in 1 .. len + 1 : t[i] = Stretch(s.bytes, s.segs[new[i]])
  BY <1>2, <1>4, <1>5, <1>6, <1>9, Zenon
<1>11. ASSUME NEW i \in 1 .. len + 1, NEW k \in 1 .. len + 1, i < k
       PROVE  new[i] < new[k]
  <2>1. i \in 1 .. len
    BY <1>3, <1>6, <1>8, <1>11
  <2>2. CASE k = len + 1
    BY <1>1, <1>7, <1>9, <2>1, <2>2, Zenon
  <2>3. CASE k \in 1 .. len
    BY <1>2, <1>4, <1>9, <1>11, <2>1, <2>3, Zenon
  <2>4. QED
    BY <1>6, <2>2, <2>3
<1>12. /\ new \in [DOMAIN t -> G]
       /\ \A i \in DOMAIN t : t[i] = Stretch(s.bytes, s.segs[new[i]])
       /\ \A i, k \in DOMAIN t : i < k => new[i] < new[k]
  BY <1>5, <1>9, <1>10, <1>11, Zenon
<1>13. G = Frames(s, s.segs[j].last)
  BY DEF G
<1>14. SentBy(s, t, s.segs[j].last)
  BY <1>12, <1>13, Zenon DEF SentBy
<1>15. QED
  BY <1>14 DEF t

\* The chunk that the header at the front of the buffer cuts out of the stream.
LEMMA FrontBytes ==
    ASSUME NEW s \in Streams, NEW b, NEW n, Holds(s, b, n), HeaderOk(b), Len(b) >= FrameLen(b)
    PROVE  /\ SubSeq(s.bytes, n + 1, n + FrameLen(b)) = SubSeq(b, 1, FrameLen(b))
           /\ n + 1 \in DOMAIN s.bytes /\ n + FrameLen(b) \in DOMAIN s.bytes
<1>1. PICK len : len = FrameLen(b)
  OBVIOUS
<1>2. /\ n \in Nat /\ b \in Seq(Byte) /\ Len(b) \in Nat /\ 3 <= Len(b) /\ n + Len(b) <= Len(s.bytes)
      /\ \A k \in 1 .. Len(b) : b[k] = s.bytes[n + k]
      /\ b[3] \in Byte
  BY DEF Holds, HeaderOk, HeaderLen
<1>3. len \in Nat /\ len >= 4 /\ len <= Len(b)
  <2>1. PICK x : x = b[3] /\ x \in Nat
    BY <1>2, ByteNat
  <2>2. len = HeaderLen + x + CrcLen
    BY <1>1, <2>1 DEF FrameLen
  <2>3. len \in Nat /\ len >= 4
    BY <2>1, <2>2 DEF HeaderLen, CrcLen
  <2>4. QED
    BY <1>1, <2>3
<1>4. s.bytes \in Seq(Byte) /\ Len(s.bytes) \in Nat /\ DOMAIN s.bytes = 1 .. Len(s.bytes)
  BY SegmentOrder
<1>5. n + 1 \in DOMAIN s.bytes /\ n + len \in DOMAIN s.bytes
  BY <1>2, <1>3, <1>4
<1>6. SubSeq(s.bytes, n + 1, n + len) = SubSeq(b, 1, len)
  <2>1. /\ SubSeq(b, 1, len) \in Seq(Byte) /\ Len(SubSeq(b, 1, len)) = len - 1 + 1
        /\ \A k \in 1 .. len - 1 + 1 : SubSeq(b, 1, len)[k] = b[1 + k - 1]
    BY <1>2, <1>3, Slice
  <2>2. PICK a, z : a = n + 1 /\ z = n + len
    OBVIOUS
  <2>3. a \in Nat \ {0} /\ z \in Nat /\ a <= z + 1 /\ z <= Len(s.bytes) /\ z - a + 1 = len
    <3>1. PICK lb, lw : lb = Len(b) /\ lw = Len(s.bytes)
      OBVIOUS
    <3>2. lb \in Nat /\ lw \in Nat /\ n \in Nat /\ n + lb <= lw /\ len <= lb
      BY <1>2, <1>3, <1>4, <3>1
    <3>3. a \in Nat \ {0} /\ z \in Nat /\ a <= z + 1 /\ z <= lw /\ z - a + 1 = len
      BY <1>3, <2>2, <3>2
    <3>4. QED
      BY <3>1, <3>3
  <2>4. /\ SubSeq(s.bytes, a, z) \in Seq(Byte) /\ Len(SubSeq(s.bytes, a, z)) = z - a + 1
        /\ \A k \in 1 .. z - a + 1 : SubSeq(s.bytes, a, z)[k] = s.bytes[a + k - 1]
    BY <1>4, <2>3, Slice
  <2>5. \A k \in 1 .. len : /\ k \in 1 .. Len(b) /\ k \in 1 .. len - 1 + 1
                            /\ 1 + k - 1 = k /\ a + k - 1 = n + k
    BY <1>2, <1>3, <2>2
  <2>6. ASSUME NEW k \in 1 .. len PROVE SubSeq(s.bytes, a, z)[k] = SubSeq(b, 1, len)[k]
    <3>1. SubSeq(s.bytes, a, z)[k] = s.bytes[n + k]
      <4>1. k \in 1 .. z - a + 1 /\ a + k - 1 = n + k
        BY <2>3, <2>5
      <4>2. SubSeq(s.bytes, a, z)[k] = s.bytes[a + k - 1]
        BY <2>4, <4>1, Zenon
      <4>3. QED
        BY <4>1, <4>2, Zenon
    <3>2. SubSeq(b, 1, len)[k] = b[k]
      <4>1. k \in 1 .. len - 1 + 1 /\ 1 + k - 1 = k
        BY <2>5
      <4>2. SubSeq(b, 1, len)[k] = b[1 + k - 1]
        BY <2>1, <4>1, Zenon
      <4>3. QED
        BY <4>1, <4>2, Zenon
    <3>3. b[k] = s.bytes[n + k]
      BY <1>2, <2>5, Zenon
    <3>4. QED
      BY <3>1, <3>2, <3>3, Zenon
  <2>7. Len(SubSeq(s.bytes, a, z)) = len /\ Len(SubSeq(b, 1, len)) = len
    BY <1>3, <2>1, <2>3, <2>4
  <2>8. SubSeq(s.bytes, a, z) = SubSeq(b, 1, len)
    BY <2>1, <2>4, <2>6, <2>7, SeqEqual
  <2>9. QED
    BY <2>2, <2>8
<1>7. QED
  BY <1>1, <1>5, <1>6, Zenon

\* A chunk at the front of the buffer that decodes is a frame that was sent there.
LEMMA NoForgery ==
    ASSUME NEW s \in Streams, NEW b, NEW n, Holds(s, b, n), HeaderOk(b), Len(b) >= FrameLen(b),
           NEW i \in DOMAIN s.segs, s.segs[i].kind = "frame",
           Stretch(s.bytes, s.segs[i]) = SubSeq(b, 1, FrameLen(b))
    PROVE  \E j \in DOMAIN s.segs : s.segs[j] = [kind |-> "frame", first |-> n + 1, last |-> n + FrameLen(b)]
<1>1. PICK len : len = FrameLen(b)
  OBVIOUS
<1>2. /\ SubSeq(s.bytes, n + 1, n + len) = SubSeq(b, 1, len)
      /\ n + 1 \in DOMAIN s.bytes /\ n + len \in DOMAIN s.bytes
  BY <1>1, FrontBytes
<1>3. \A p, r \in DOMAIN s.bytes :
        SubSeq(s.bytes, p, r) = Stretch(s.bytes, s.segs[i]) =>
          \E j \in DOMAIN s.segs : s.segs[j] = [kind |-> "frame", first |-> p, last |-> r]
  BY DecoderAssumption DEF WellSent
<1>4. \E j \in DOMAIN s.segs : s.segs[j] = [kind |-> "frame", first |-> n + 1, last |-> n + len]
  BY <1>1, <1>2, <1>3, Zenon
<1>5. QED
  BY <1>1, <1>4, Zenon

\* What is left of the buffer after its first k bytes.
LEMMA DropHolds ==
    ASSUME NEW s, Len(s.bytes) \in Nat, NEW b, NEW n, Holds(s, b, n), NEW k \in Nat, k <= Len(b)
    PROVE  Holds(s, Drop(b, k), n + k) /\ Len(Drop(b, k)) = Len(b) - k
<1>1. /\ n \in Nat /\ b \in Seq(Byte) /\ Len(b) \in Nat /\ n + Len(b) <= Len(s.bytes)
      /\ \A i \in 1 .. Len(b) : b[i] = s.bytes[n + i]
  BY DEF Holds
<1>2. PICK r, l : r = Drop(b, k) /\ l = Len(b)
  OBVIOUS
<1>3. /\ r \in Seq(Byte) /\ Len(r) = l - (k + 1) + 1
      /\ \A i \in 1 .. l - (k + 1) + 1 : r[i] = b[k + 1 + i - 1]
  <2>1. PICK a : a = k + 1
    OBVIOUS
  <2>2. a \in Nat \ {0} /\ l \in Nat /\ a <= l + 1 /\ l <= Len(b)
    BY <1>1, <1>2, <2>1
  <2>3. /\ SubSeq(b, a, l) \in Seq(Byte) /\ Len(SubSeq(b, a, l)) = l - a + 1
        /\ \A i \in 1 .. l - a + 1 : SubSeq(b, a, l)[i] = b[a + i - 1]
    BY <1>1, <2>2, Slice
  <2>4. r = SubSeq(b, a, l)
    BY <1>2, <2>1 DEF Drop
  <2>5. QED
    BY <2>1, <2>3, <2>4
<1>4. Len(r) = l - k /\ l \in Nat
  BY <1>1, <1>2, <1>3
<1>5. ASSUME NEW i \in 1 .. Len(r) PROVE r[i] = s.bytes[n + k + i]
  <2>1. /\ i \in 1 .. l - (k + 1) + 1 /\ k + i \in 1 .. l /\ k + 1 + i - 1 = k + i
        /\ n + k + i = n + (k + i)
    BY <1>1, <1>4
  <2>2. r[i] = b[k + i]
    BY <1>3, <2>1
  <2>3. b[k + i] = s.bytes[n + (k + i)]
    BY <1>1, <1>2, <2>1
  <2>4. QED
    BY <2>1, <2>2, <2>3
<1>6. n + k \in Nat /\ n + k + Len(r) <= Len(s.bytes)
  BY <1>1, <1>2, <1>4
<1>7. Holds(s, r, n + k)
  BY <1>3, <1>5, <1>6 DEF Holds
<1>8. QED
  BY <1>2, <1>4, <1>7

LEMMA LeastPlace ==
    ASSUME NEW T \in SUBSET Nat, T # {}
    PROVE  \E least \in T : \A y \in T : least <= y
<1> DEFINE R == OpToRel(<, Nat)
<1>1. IsWellFoundedOn(R, Nat)
  BY NatLessThanWellFounded
<1>2. \A x, y \in Nat : x < y => <<x, y>> \in R
  BY DEF OpToRel
<1> HIDE DEF R
<1>3. PICK least \in T : \A y \in T : ~(<<y, least>> \in R)
  BY <1>1, WFMin
<1>4. \A y \in T : ~(y < least)
  BY <1>2, <1>3
<1>5. QED
  BY <1>4

\* buf.find(b"TE") is the first place with both bytes.
LEMMA FindsFirst ==
    ASSUME NEW b \in Seq(Byte), NEW at, at = FindMagic(b)
    PROVE  /\ at \in Nat
           /\ at # 0 => at >= 1 /\ at <= Len(b) - 1
           /\ \A k \in Nat : /\ k >= 1 /\ k <= Len(b) - 1 /\ b[k] = MagicT /\ b[k + 1] = MagicE
                             => at # 0 /\ at <= k
<1> DEFINE S == {i \in 1 .. Len(b) - 1 : b[i] = MagicT /\ b[i + 1] = MagicE}
<1>1. Len(b) \in Nat
  OBVIOUS
<1>2. \A k \in Nat : k >= 1 /\ k <= Len(b) - 1 /\ b[k] = MagicT /\ b[k + 1] = MagicE => k \in S
  BY <1>1
<1>3. S \in SUBSET Nat /\ \A k \in S : k >= 1 /\ k <= Len(b) - 1 /\ k # 0
  BY <1>1
<1>4. at = IF S = {} THEN 0 ELSE CHOOSE i \in S : \A j \in S : i <= j
  BY DEF FindMagic
<1> HIDE DEF S
<1>5. CASE S = {}
  BY <1>2, <1>4, <1>5
<1>6. CASE S # {}
  <2>1. \E i \in S : \A j \in S : i <= j
    BY <1>3, <1>6, LeastPlace
  <2>2. at \in S /\ \A j \in S : at <= j
    BY <1>4, <1>6, <2>1, Zenon
  <2>3. QED
    BY <1>2, <1>3, <2>2
<1>7. QED
  BY <1>5, <1>6

\* The header of a segment that was sent as a frame, as the buffer sees it.
LEMMA HeaderSeen ==
    ASSUME NEW s \in Streams, NEW b, NEW n, Holds(s, b, n),
           NEW i \in DOMAIN s.segs, s.segs[i].kind # "garbage",
           NEW k \in Nat, k >= 1, s.segs[i].first = n + k
    PROVE  /\ k <= Len(b) => b[k] = MagicT
           /\ k + 1 <= Len(b) => b[k + 1] = MagicE
           /\ k + 2 <= Len(b) => b[k + 2] <= MaxPayload
<1>1. /\ n \in Nat /\ Len(b) \in Nat
      /\ \A j \in 1 .. Len(b) : b[j] = s.bytes[n + j]
  BY DEF Holds
<1>2. PICK f : f = n + k /\ s.bytes[f] = MagicT /\ s.bytes[f + 1] = MagicE /\ s.bytes[f + 2] <= MaxPayload
  BY FramedBytes
<1>3. f = n + k /\ f + 1 = n + (k + 1) /\ f + 2 = n + (k + 2)
  BY <1>1, <1>2
<1>4. s.bytes[n + k] = MagicT /\ s.bytes[n + (k + 1)] = MagicE /\ s.bytes[n + (k + 2)] <= MaxPayload
  BY <1>2, <1>3, Zenon
<1>5. /\ k <= Len(b) => k \in 1 .. Len(b)
      /\ k + 1 <= Len(b) => k + 1 \in 1 .. Len(b)
      /\ k + 2 <= Len(b) => k + 2 \in 1 .. Len(b)
  BY <1>1
<1>6. QED
  BY <1>1, <1>4, <1>5, Zenon

\* The search for the next magic skips no frame, unless it clears the first byte of one.
LEMMA ResyncSkips ==
    ASSUME NEW s \in Streams, NEW b, NEW n, Holds(s, b, n), Len(b) >= HeaderLen, ~HeaderOk(b),
           NEW i \in DOMAIN s.segs, s.segs[i].kind # "garbage", n < s.segs[i].first,
           NEW rest, rest = Tail(b), NEW at, at = FindMagic(rest)
    PROVE  /\ at # 0 => n + at < s.segs[i].first
           /\ at = 0 /\ s.segs[i].first # n + Len(b) => n + Len(b) < s.segs[i].first
<1>1. PICK len, f : len = Len(b) /\ f = s.segs[i].first
  OBVIOUS
<1>2. n \in Nat /\ b \in Seq(Byte) /\ len \in Nat /\ len >= 3 /\ f \in Nat /\ n < f
  <2>1. n \in Nat /\ b \in Seq(Byte) /\ Len(b) \in Nat
    BY DEF Holds
  <2>2. s.segs[i].first \in Nat
    BY SegmentOrder
  <2>3. QED
    BY <1>1, <2>1, <2>2 DEF HeaderLen
<1>3. /\ rest \in Seq(Byte) /\ Len(rest) = len - 1 /\ \A j \in 1 .. len - 1 : rest[j] = b[j + 1]
  <2>1. b # <<>>
    BY <1>1, <1>2
  <2>2. QED
    BY <1>1, <1>2, <2>1, HeadTailProperties
<1>4. PICK k : k = f - n /\ k \in Nat /\ k >= 1 /\ f = n + k
  BY <1>2
<1>5. /\ k <= len => b[k] = MagicT
      /\ k + 1 <= len => b[k + 1] = MagicE
      /\ k + 2 <= len => b[k + 2] <= MaxPayload
  BY <1>1, <1>4, HeaderSeen
<1>6. k # 1
  <2>1. SUFFICES ASSUME k = 1 PROVE FALSE
    OBVIOUS
  <2>2. b[1] = MagicT /\ b[1 + 1] = MagicE /\ b[1 + 2] <= MaxPayload
    <3>1. 1 <= len /\ 1 + 1 <= len /\ 1 + 2 <= len
      BY <1>2
    <3>2. QED
      BY <1>5, <2>1, <3>1
  <2>3. 1 + 1 = 2 /\ 1 + 2 = 3
    OBVIOUS
  <2>4. b[1] = MagicT /\ b[2] = MagicE /\ b[3] <= MaxPayload
    BY <2>2, <2>3
  <2>5. QED
    BY <2>4 DEF HeaderOk
<1>7. /\ at \in Nat
      /\ at # 0 => at >= 1 /\ at <= Len(rest) - 1
      /\ \A j \in Nat : j >= 1 /\ j <= Len(rest) - 1 /\ rest[j] = MagicT /\ rest[j + 1] = MagicE
                        => at # 0 /\ at <= j
  BY <1>3, FindsFirst
<1>8. PICK j \in Nat : j = k - 1 /\ j >= 1 /\ k = j + 1
  BY <1>4, <1>6
<1>9. j <= len - 1 => rest[j] = MagicT
  <2>1. j <= len - 1 => j \in 1 .. len - 1 /\ k <= len
    BY <1>2, <1>8
  <2>2. QED
    BY <1>3, <1>5, <1>8, <2>1
<1>10. j + 1 <= len - 1 => rest[j + 1] = MagicE
  <2>1. j + 1 <= len - 1 => j + 1 \in 1 .. len - 1 /\ k + 1 <= len /\ j + 1 + 1 = k + 1
    BY <1>2, <1>8
  <2>2. QED
    BY <1>3, <1>5, <2>1
<1>11. j <= Len(rest) - 1 => at # 0 /\ at <= j
  <2>1. j <= Len(rest) - 1 => j <= len - 1 /\ j + 1 <= len - 1
    BY <1>2, <1>3
  <2>2. QED
    BY <1>7, <1>8, <1>9, <1>10, <2>1
<1>12. at # 0 => n + at < f
  <2>1. SUFFICES ASSUME at # 0 PROVE at < k
    BY <1>2, <1>4, <1>7
  <2>2. CASE j <= Len(rest) - 1
    BY <1>7, <1>8, <1>11, <2>2
  <2>3. CASE ~(j <= Len(rest) - 1)
    BY <1>2, <1>3, <1>7, <1>8, <2>1, <2>3
  <2>4. QED
    BY <2>2, <2>3
<1>13. at = 0 /\ f # n + len => n + len < f
  <2>1. SUFFICES ASSUME at = 0, f # n + len PROVE len < k
    BY <1>2, <1>4
  <2>2. ~(j <= Len(rest) - 1)
    BY <1>11, <2>1
  <2>3. k # len
    BY <1>2, <1>4, <2>1
  <2>4. QED
    BY <1>2, <1>3, <1>8, <2>2, <2>3
<1>14. QED
  BY <1>1, <1>12, <1>13

-----------------------------------------------------------------------------
LEMMA DecoderInitInv == ASSUME DecoderInit PROVE DecoderInv
<1>1. /\ stream \in Streams /\ fed = 0 /\ buf = <<>> /\ feeding = FALSE /\ out = <<>> /\ splitMagic = FALSE
  BY DEF DecoderInit
<1>2. Len(buf) = 0 /\ Gone = 0 /\ buf \in Seq(Byte)
  <2>1. Len(buf) = 0 /\ buf \in Seq(Byte)
    BY <1>1
  <2>2. Gone = fed - Len(buf)
    BY DEF Gone
  <2>3. Gone = 0 - 0
    BY <1>1, <2>1, <2>2, Zenon
  <2>4. QED
    BY <2>1, <2>3
<1>3. Len(stream.bytes) \in Nat
  BY <1>1, SegmentOrder
<1>4. Holds(stream, buf, 0)
  BY <1>2, <1>3 DEF Holds
<1>5. Incomplete
  BY <1>2 DEF Incomplete, HeaderLen
<1>6. \A i \in DOMAIN stream.segs :
        stream.segs[i].first \in Nat /\ stream.segs[i].last \in Nat
        /\ 0 < stream.segs[i].first /\ ~(stream.segs[i].last <= 0)
  BY <1>1, SegmentOrder
<1>7. Frames(stream, 0) = {}
  BY <1>6 DEF Frames
<1>8. DOMAIN out = {} /\ Len(out) = 0 /\ out \in Seq(Seq(Byte))
  BY <1>1
<1>9. SentBy(stream, out, 0)
  <2>1. out \in [DOMAIN out -> Frames(stream, 0)]
    BY <1>7, <1>8, <1>1
  <2>2. QED
    BY <1>8, <2>1 DEF SentBy
<1>10. Caught(stream, out, 0)
  <2>1. Cardinality(Frames(stream, 0)) = 0
    BY <1>7, FS_EmptySet
  <2>2. QED
    BY <1>7, <1>8, <2>1 DEF Caught
<1>11. Uncut(stream, 0)
  BY <1>6 DEF Uncut
<1>12. QED
  BY <1>1, <1>2, <1>4, <1>5, <1>8, <1>9, <1>10, <1>11 DEF DecoderInv, InStep

\* A read adds bytes and consumes none.
LEMMA FeedInv ==
    ASSUME DecoderInv, NEW m \in Nat \ {0}, Feed(m)
    PROVE  DecoderInv'
<1>1. PICK n, more : n = Gone /\ more = SubSeq(stream.bytes, fed + 1, fed + m)
  OBVIOUS
<1>2. /\ stream \in Streams /\ fed \in Nat /\ Holds(stream, buf, n) /\ n = fed - Len(buf)
  BY <1>1 DEF DecoderInv, Gone
<1>3. /\ n \in Nat /\ buf \in Seq(Byte) /\ Len(buf) \in Nat /\ n + Len(buf) = fed
      /\ \A i \in 1 .. Len(buf) : buf[i] = stream.bytes[n + i]
  <2>1. /\ n \in Nat /\ buf \in Seq(Byte) /\ \A i \in 1 .. Len(buf) : buf[i] = stream.bytes[n + i]
    BY <1>2 DEF Holds
  <2>2. QED
    BY <1>2, <2>1
<1>4. stream.bytes \in Seq(Byte) /\ Len(stream.bytes) \in Nat
  BY <1>2, SegmentOrder
<1>5. /\ fed + m <= Len(stream.bytes) /\ fed' = fed + m /\ buf' = buf \o more /\ feeding' = TRUE
      /\ stream' = stream /\ out' = out /\ splitMagic' = splitMagic
  BY <1>1 DEF Feed, Wire
<1>6. /\ more \in Seq(Byte) /\ Len(more) = m
      /\ \A k \in 1 .. m : more[k] = stream.bytes[fed + k]
  <2>1. PICK a, z : a = fed + 1 /\ z = fed + m
    OBVIOUS
  <2>2. a \in Nat \ {0} /\ z \in Nat /\ a <= z + 1 /\ z <= Len(stream.bytes) /\ z - a + 1 = m
    BY <1>2, <1>5, <2>1
  <2>3. /\ SubSeq(stream.bytes, a, z) \in Seq(Byte) /\ Len(SubSeq(stream.bytes, a, z)) = z - a + 1
        /\ \A k \in 1 .. z - a + 1 : SubSeq(stream.bytes, a, z)[k] = stream.bytes[a + k - 1]
    BY <1>4, <2>2, Slice
  <2>4. more = SubSeq(stream.bytes, a, z)
    BY <1>1, <2>1
  <2>5. \A k \in 1 .. m : k \in 1 .. z - a + 1 /\ a + k - 1 = fed + k
    BY <1>2, <2>1, <2>2
  <2>6. QED
    BY <2>2, <2>3, <2>4, <2>5
<1>7. PICK b, len : b = buf \o more /\ len = Len(buf)
  OBVIOUS
<1>8. /\ b \in Seq(Byte) /\ Len(b) = len + m /\ len \in Nat
      /\ \A i \in 1 .. len + m : b[i] = IF i <= len THEN buf[i] ELSE more[i - len]
  <2>1. /\ buf \o more \in Seq(Byte) /\ Len(buf \o more) = Len(buf) + Len(more)
        /\ \A i \in 1 .. Len(buf) + Len(more) :
             (buf \o more)[i] = IF i <= Len(buf) THEN buf[i] ELSE more[i - Len(buf)]
    BY <1>3, <1>6, ConcatProperties
  <2>2. Len(more) = m /\ len \in Nat
    BY <1>3, <1>6, <1>7
  <2>3. QED
    BY <1>7, <2>1, <2>2, Zenon
<1>9. \A i \in 1 .. len + m : b[i] = stream.bytes[n + i]
  <2>1. TAKE i \in 1 .. len + m
  <2>2. i \in Nat
    BY <1>8
  <2>3. CASE i <= len
    <3>1. i \in 1 .. Len(buf)
      BY <1>7, <1>8, <2>3
    <3>2. QED
      BY <1>3, <1>8, <2>3, <3>1, Zenon
  <2>4. CASE ~(i <= len)
    <3>1. i - len \in 1 .. m
      BY <1>8, <2>4
    <3>2. fed = n + len
      BY <1>3, <1>7, Zenon
    <3>3. fed + (i - len) = n + i
      BY <1>3, <1>8, <2>2, <3>2
    <3>4. b[i] = more[i - len]
      BY <1>8, <2>4, Zenon
    <3>5. more[i - len] = stream.bytes[fed + (i - len)]
      BY <1>6, <3>1, Zenon
    <3>6. QED
      BY <3>3, <3>4, <3>5, Zenon
  <2>5. QED
    BY <2>3, <2>4
<1>10. n + Len(b) = fed + m
  BY <1>2, <1>3, <1>7, <1>8
<1>11. Holds(stream, b, n)
  BY <1>3, <1>5, <1>8, <1>9, <1>10 DEF Holds
<1>12. fed + m \in Nat /\ fed + m - Len(b) = n
  BY <1>2, <1>3, <1>8, <1>10
<1>13. buf' = b /\ Gone' = n /\ fed' \in Nat
  <2>1. Gone' = fed' - Len(buf')
    BY DEF Gone
  <2>2. buf' = b
    BY <1>5, <1>7
  <2>3. fed' = fed + m
    BY <1>5
  <2>4. fed' - Len(buf') = fed + m - Len(b)
    BY <1>2, <1>8, <1>12, <2>2, <2>3
  <2>5. Gone' = n
    BY <1>12, <2>1, <2>4, Zenon
  <2>6. fed' \in Nat
    BY <1>12, <2>3, Zenon
  <2>7. QED
    BY <2>2, <2>5, <2>6, Zenon
<1>14. InStep'
  <2>1. NoFalseHeader' <=> NoFalseHeader
    BY <1>5 DEF NoFalseHeader, HeaderAt, Segs, Wire
  <2>2. QED
    BY <1>1, <1>5, <1>13, <2>1 DEF DecoderInv, InStep
<1>15. QED
  BY <1>1, <1>2, <1>5, <1>11, <1>13, <1>14 DEF DecoderInv

LEMMA FeedReturnsInv ==
    ASSUME DecoderInv, FeedReturns
    PROVE  DecoderInv'
<1>1. /\ stream' = stream /\ fed' = fed /\ buf' = buf /\ out' = out /\ splitMagic' = splitMagic
      /\ feeding' = FALSE /\ Incomplete
  BY DEF FeedReturns
<1>2. Gone' = Gone /\ (Incomplete' <=> Incomplete) /\ (NoFalseHeader' <=> NoFalseHeader)
  BY <1>1 DEF Gone, Incomplete, HeaderOk, FrameLen, NoFalseHeader, HeaderAt, Segs, Wire
<1>3. QED
  BY <1>1, <1>2 DEF DecoderInv, InStep

LEMMA DecoderQuiet ==
    ASSUME DecoderInv, UNCHANGED decoderVars
    PROVE  DecoderInv'
<1>1. /\ stream' = stream /\ fed' = fed /\ buf' = buf /\ out' = out /\ splitMagic' = splitMagic
      /\ feeding' = feeding
  BY DEF decoderVars
<1>2. Gone' = Gone /\ (Incomplete' <=> Incomplete) /\ (NoFalseHeader' <=> NoFalseHeader)
  BY <1>1 DEF Gone, Incomplete, HeaderOk, FrameLen, NoFalseHeader, HeaderAt, Segs, Wire
<1>3. QED
  BY <1>1, <1>2 DEF DecoderInv, InStep

\* A frame length at the front of the buffer.
LEMMA FrameLenNat ==
    ASSUME NEW b \in Seq(Byte), HeaderOk(b)
    PROVE  FrameLen(b) \in Nat /\ FrameLen(b) >= 4
<1>1. Len(b) \in Nat /\ 3 <= Len(b)
  BY DEF HeaderOk, HeaderLen
<1>2. PICK x : x = b[3] /\ x \in Nat
  BY <1>1, ByteNat
<1>3. FrameLen(b) = HeaderLen + x + CrcLen
  BY <1>2 DEF FrameLen
<1>4. QED
  BY <1>2, <1>3 DEF HeaderLen, CrcLen

\* The first k bytes are dropped from the buffer.
LEMMA Dropped ==
    ASSUME DecoderInv, NEW n, n = Gone, NEW k \in Nat, k <= Len(buf), NEW b, b = Drop(buf, k),
           buf' = b, fed' = fed, stream' = stream
    PROVE  n \in Nat /\ n + k \in Nat /\ Holds(stream, b, n + k) /\ Gone' = n + k
<1>1. stream \in Streams /\ fed \in Nat /\ Holds(stream, buf, n) /\ n = fed - Len(buf)
  BY DEF DecoderInv, Gone
<1>2. Len(stream.bytes) \in Nat
  BY <1>1, SegmentOrder
<1>3. Holds(stream, b, n + k) /\ Len(b) = Len(buf) - k
  BY <1>1, <1>2, DropHolds
<1>4. n \in Nat /\ Len(buf) \in Nat
  BY <1>1 DEF Holds
<1>5. n + k \in Nat /\ fed - Len(b) = n + k
  BY <1>1, <1>3, <1>4
<1>6. Gone' = fed' - Len(buf')
  BY DEF Gone
<1>7. fed' - Len(buf') = fed - Len(b)
  OBVIOUS
<1>8. QED
  BY <1>3, <1>4, <1>5, <1>6, <1>7, Zenon

LEMMA YieldInv ==
    ASSUME DecoderInv, Yield
    PROVE  DecoderInv'
<1>1. PICK n, len, b, chunk : n = Gone /\ len = FrameLen(buf) /\ b = Drop(buf, len) /\ chunk = SubSeq(buf, 1, len)
  OBVIOUS
<1>2. /\ stream \in Streams /\ fed \in Nat /\ Holds(stream, buf, n) /\ out \in Seq(Seq(Byte))
      /\ SentBy(stream, out, n) /\ splitMagic \in BOOLEAN
  BY <1>1 DEF DecoderInv
<1>3. /\ feeding /\ HeaderOk(buf) /\ Len(buf) >= len
      /\ \E i \in DOMAIN stream.segs :
           stream.segs[i].kind = "frame" /\ Stretch(stream.bytes, stream.segs[i]) = chunk
      /\ out' = Append(out, chunk) /\ buf' = b
      /\ stream' = stream /\ fed' = fed /\ feeding' = feeding /\ splitMagic' = splitMagic
  BY <1>1 DEF Yield, Ready, Chunk, Decodes, Segs, Bytes, Wire
<1>4. buf \in Seq(Byte) /\ Len(buf) \in Nat /\ len \in Nat /\ len <= Len(buf)
  <2>1. buf \in Seq(Byte) /\ Len(buf) \in Nat
    BY <1>2 DEF Holds
  <2>2. len \in Nat
    BY <1>1, <1>3, <2>1, FrameLenNat
  <2>3. QED
    BY <1>3, <2>1, <2>2
<1>5. /\ n \in Nat /\ n + len \in Nat /\ Holds(stream, b, n + len) /\ Gone' = n + len
  BY <1>1, <1>3, <1>4, Dropped
<1>6. PICK j \in DOMAIN stream.segs :
        stream.segs[j] = [kind |-> "frame", first |-> n + 1, last |-> n + len]
  <2>1. PICK i \in DOMAIN stream.segs :
          stream.segs[i].kind = "frame" /\ Stretch(stream.bytes, stream.segs[i]) = SubSeq(buf, 1, FrameLen(buf))
    BY <1>1, <1>3
  <2>2. Len(buf) >= FrameLen(buf)
    BY <1>1, <1>3
  <2>3. \E j \in DOMAIN stream.segs :
          stream.segs[j] = [kind |-> "frame", first |-> n + 1, last |-> n + FrameLen(buf)]
    BY <1>2, <1>3, <2>1, <2>2, NoForgery
  <2>4. QED
    BY <1>1, <2>3
<1>7. stream.segs[j].kind = "frame" /\ stream.segs[j].first = n + 1 /\ stream.segs[j].last = n + len
  BY <1>6
<1>8. chunk \in Seq(Byte) /\ chunk = Stretch(stream.bytes, stream.segs[j])
  <2>1. SubSeq(buf, 1, len) \in Seq(Byte)
    BY <1>4, Slice
  <2>2. chunk \in Seq(Byte)
    BY <1>1, <2>1
  <2>3. SubSeq(stream.bytes, n + 1, n + len) = chunk
    BY <1>1, <1>2, <1>3, FrontBytes
  <2>4. Stretch(stream.bytes, stream.segs[j]) = SubSeq(stream.bytes, n + 1, n + len)
    BY <1>7 DEF Stretch
  <2>5. QED
    BY <2>2, <2>3, <2>4
<1>9. SentBy(stream, Append(out, chunk), n + len)
  <2>1. SentBy(stream, Append(out, chunk), stream.segs[j].last)
    BY <1>2, <1>5, <1>7, <1>8, SentNext
  <2>2. QED
    BY <1>7, <2>1
<1>10. ASSUME NoFalseHeader, ~splitMagic
       PROVE  Uncut(stream, n + len) /\ Caught(stream, Append(out, chunk), n + len)
  <2>1. Caught(stream, out, n)
    BY <1>1, <1>10 DEF DecoderInv, InStep
  <2>2. Uncut(stream, stream.segs[j].last)
    BY <1>2, <1>5, <1>7, UncutPast
  <2>3. Caught(stream, Append(out, chunk), stream.segs[j].last)
    BY <1>2, <1>5, <1>7, <1>8, <2>1, CaughtFrame
  <2>4. QED
    BY <1>7, <2>2, <2>3
<1>11. InStep'
  <2>1. NoFalseHeader' <=> NoFalseHeader
    BY <1>3 DEF NoFalseHeader, HeaderAt, Segs, Wire
  <2>2. QED
    BY <1>3, <1>5, <1>10, <2>1 DEF InStep
<1>12. out' \in Seq(Seq(Byte))
  BY <1>2, <1>3, <1>8
<1>13. QED
  BY <1>2, <1>3, <1>5, <1>9, <1>11, <1>12 DEF DecoderInv

LEMMA BadFrameInv ==
    ASSUME DecoderInv, BadFrame
    PROVE  DecoderInv'
<1>1. PICK n, len, b, chunk : n = Gone /\ len = FrameLen(buf) /\ b = Drop(buf, len) /\ chunk = SubSeq(buf, 1, len)
  OBVIOUS
<1>2. /\ stream \in Streams /\ fed \in Nat /\ Holds(stream, buf, n) /\ out \in Seq(Seq(Byte))
      /\ SentBy(stream, out, n) /\ splitMagic \in BOOLEAN
  BY <1>1 DEF DecoderInv
<1>3. /\ feeding /\ HeaderOk(buf) /\ Len(buf) >= len
      /\ \A i \in DOMAIN stream.segs :
           ~(stream.segs[i].kind = "frame" /\ Stretch(stream.bytes, stream.segs[i]) = chunk)
      /\ out' = out /\ buf' = b
      /\ stream' = stream /\ fed' = fed /\ feeding' = feeding /\ splitMagic' = splitMagic
  BY <1>1 DEF BadFrame, Ready, Chunk, Decodes, Segs, Bytes, Wire
<1>4. buf \in Seq(Byte) /\ Len(buf) \in Nat /\ len \in Nat /\ len <= Len(buf)
  <2>1. buf \in Seq(Byte) /\ Len(buf) \in Nat
    BY <1>2 DEF Holds
  <2>2. len \in Nat
    BY <1>1, <1>3, <2>1, FrameLenNat
  <2>3. QED
    BY <1>3, <2>1, <2>2
<1>5. /\ n \in Nat /\ n + len \in Nat /\ Holds(stream, b, n + len) /\ Gone' = n + len
  BY <1>1, <1>3, <1>4, Dropped
<1>6. SentBy(stream, out, n + len)
  <2>1. PICK m \in Nat : m = n + len
    BY <1>5
  <2>2. n <= m
    BY <1>4, <1>5, <2>1
  <2>3. SentBy(stream, out, m)
    BY <1>2, <1>5, <2>2, SentMore
  <2>4. QED
    BY <2>1, <2>3
<1>7. ASSUME NoFalseHeader, ~splitMagic
      PROVE  Uncut(stream, n + len) /\ Caught(stream, out, n + len)
  <2>1. Uncut(stream, n) /\ Caught(stream, out, n)
    BY <1>1, <1>7 DEF DecoderInv, InStep
  <2>2. \A i \in DOMAIN stream.segs : stream.segs[i].kind = "garbage" =>
           \A p \in stream.segs[i].first .. stream.segs[i].last : ~HeaderAt(stream.bytes, p)
    BY <1>7 DEF NoFalseHeader, Segs, Wire
  <2>3. PICK i \in DOMAIN stream.segs :
          stream.segs[i].kind # "garbage" /\ stream.segs[i].first = n + 1 /\ stream.segs[i].last = n + len
    BY <1>1, <1>2, <1>3, <2>1, <2>2, HeadSegment
  <2>4. stream.segs[i].kind # "frame"
    <3>1. SubSeq(stream.bytes, n + 1, n + len) = chunk
      BY <1>1, <1>2, <1>3, FrontBytes
    <3>2. Stretch(stream.bytes, stream.segs[i]) = SubSeq(stream.bytes, n + 1, n + len)
      BY <2>3 DEF Stretch
    <3>3. QED
      BY <1>3, <3>1, <3>2
  <2>5. Uncut(stream, stream.segs[i].last)
    BY <1>2, <1>5, <2>3, UncutPast
  <2>6. Frames(stream, stream.segs[i].last) = Frames(stream, n)
    BY <1>2, <1>5, <2>3, <2>4, FramesPast
  <2>7. Caught(stream, out, stream.segs[i].last)
    BY <2>1, <2>6, CaughtSame
  <2>8. QED
    BY <2>3, <2>5, <2>7
<1>8. InStep'
  <2>1. NoFalseHeader' <=> NoFalseHeader
    BY <1>3 DEF NoFalseHeader, HeaderAt, Segs, Wire
  <2>2. QED
    BY <1>3, <1>5, <1>7, <2>1 DEF InStep
<1>9. QED
  BY <1>2, <1>3, <1>5, <1>6, <1>8 DEF DecoderInv

\* Bytes are dropped and no segment sent as a frame is among them.
LEMMA SkipsNone ==
    ASSUME NEW s \in Streams, NEW n \in Nat, NEW m \in Nat, n <= m, Uncut(s, n),
           \A i \in DOMAIN s.segs : s.segs[i].kind # "garbage" /\ n < s.segs[i].first => m < s.segs[i].first
    PROVE  Uncut(s, m) /\ Frames(s, m) = Frames(s, n)
<1>1. \A i \in DOMAIN s.segs :
        s.segs[i].first \in Nat /\ s.segs[i].last \in Nat /\ s.segs[i].first <= s.segs[i].last
  BY SegmentOrder
<1>2. \A i \in DOMAIN s.segs : s.segs[i].kind # "garbage" =>
        \/ s.segs[i].last <= n /\ s.segs[i].last <= m
        \/ m < s.segs[i].first /\ ~(s.segs[i].last <= m) /\ ~(s.segs[i].last <= n)
  <2>1. SUFFICES ASSUME NEW i \in DOMAIN s.segs, s.segs[i].kind # "garbage"
                 PROVE  \/ s.segs[i].last <= n /\ s.segs[i].last <= m
                        \/ m < s.segs[i].first /\ ~(s.segs[i].last <= m) /\ ~(s.segs[i].last <= n)
    OBVIOUS
  <2>2. CASE s.segs[i].last <= n
    BY <1>1, <2>2
  <2>3. CASE n < s.segs[i].first
    <3>1. m < s.segs[i].first
      BY <2>1, <2>3
    <3>2. QED
      BY <1>1, <3>1
  <2>4. QED
    BY <2>1, <2>2, <2>3 DEF Uncut
<1>3. Uncut(s, m)
  BY <1>2 DEF Uncut
<1>4. \A i \in DOMAIN s.segs : s.segs[i].kind = "frame" => (s.segs[i].last <= m <=> s.segs[i].last <= n)
  BY <1>2
<1>5. Frames(s, m) = Frames(s, n)
  BY <1>4 DEF Frames
<1>6. QED
  BY <1>3, <1>5

LEMMA ResyncInv ==
    ASSUME DecoderInv, Resync
    PROVE  DecoderInv'
<1>1. PICK n, len, rest, at : n = Gone /\ len = Len(buf) /\ rest = Tail(buf) /\ at = FindMagic(rest)
  OBVIOUS
<1>2. /\ stream \in Streams /\ fed \in Nat /\ Holds(stream, buf, n) /\ out \in Seq(Seq(Byte))
      /\ SentBy(stream, out, n) /\ splitMagic \in BOOLEAN
  BY <1>1 DEF DecoderInv
<1>3. /\ feeding /\ Len(buf) >= HeaderLen /\ ~HeaderOk(buf)
      /\ buf' = (IF at = 0 THEN <<>> ELSE Drop(rest, at - 1))
      /\ feeding' = (at # 0)
      /\ splitMagic' = (splitMagic \/ (at = 0 /\ FrameBegun))
      /\ stream' = stream /\ fed' = fed /\ out' = out
  BY <1>1 DEF Resync
<1>4. n \in Nat /\ buf \in Seq(Byte) /\ len \in Nat /\ len >= 3 /\ n = fed - len /\ fed = n + len
  <2>1. n \in Nat /\ buf \in Seq(Byte) /\ n = fed - Len(buf)
    BY <1>1, <1>2 DEF Holds, Gone
  <2>2. QED
    BY <1>1, <1>2, <1>3, <2>1 DEF HeaderLen
<1>5. Len(stream.bytes) \in Nat
  BY <1>2, SegmentOrder
<1>6. rest = Drop(buf, 1) /\ Len(rest) = len - 1 /\ Holds(stream, rest, n + 1) /\ rest \in Seq(Byte)
  <2>1. buf # <<>>
    BY <1>1, <1>4
  <2>2. rest = SubSeq(buf, 2, Len(buf))
    BY <1>1, <1>4, <2>1, TailIsSubSeq
  <2>3. rest = Drop(buf, 1)
    BY <2>2 DEF Drop
  <2>4. 1 \in Nat /\ 1 <= Len(buf)
    BY <1>1, <1>4
  <2>5. Holds(stream, Drop(buf, 1), n + 1) /\ Len(Drop(buf, 1)) = Len(buf) - 1
    BY <1>2, <1>5, <2>4, DropHolds
  <2>6. QED
    BY <1>1, <2>3, <2>5 DEF Holds
<1>7. at \in Nat /\ (at # 0 => at >= 1 /\ at <= len - 2)
  <2>1. at \in Nat /\ (at # 0 => at >= 1 /\ at <= Len(rest) - 1)
    BY <1>1, <1>6, FindsFirst
  <2>2. QED
    BY <1>4, <1>6, <2>1
<1>8. PICK m : m = IF at = 0 THEN n + len ELSE n + at
  OBVIOUS
<1>9. m \in Nat /\ n <= m
  BY <1>4, <1>7, <1>8
<1>10. Holds(stream, buf', m) /\ Gone' = m
  <2>1. CASE at = 0
    <3>1. buf' = <<>> /\ m = n + len /\ m = fed
      BY <1>3, <1>4, <1>8, <2>1
    <3>2. Len(buf') = 0 /\ buf' \in Seq(Byte)
      BY <3>1
    <3>3. m <= Len(stream.bytes)
      BY <1>1, <1>2, <3>1 DEF Holds
    <3>4. Holds(stream, buf', m)
      BY <1>9, <3>2, <3>3 DEF Holds
    <3>5. Gone' = fed' - Len(buf')
      BY DEF Gone
    <3>6. Gone' = fed - 0
      BY <1>3, <3>2, <3>5
    <3>7. QED
      BY <1>2, <3>1, <3>4, <3>6
  <2>2. CASE at # 0
    <3>1. PICK k : k = at - 1
      OBVIOUS
    <3>2. k \in Nat /\ k <= Len(rest) /\ n + 1 + k = m /\ Len(rest) - k = fed - m
      BY <1>4, <1>6, <1>7, <1>8, <2>2, <3>1
    <3>3. buf' = Drop(rest, k)
      BY <1>3, <2>2, <3>1
    <3>4. PICK a : a = n + 1
      OBVIOUS
    <3>5. Holds(stream, rest, a)
      BY <1>6, <3>4
    <3>6. Holds(stream, Drop(rest, k), a + k) /\ Len(Drop(rest, k)) = Len(rest) - k
      BY <1>5, <3>2, <3>5, DropHolds
    <3>7. a + k = m
      BY <3>2, <3>4
    <3>8. Len(buf') = fed - m
      BY <3>2, <3>3, <3>6
    <3>9. Gone' = fed' - Len(buf')
      BY DEF Gone
    <3>10. Gone' = fed - (fed - m)
      BY <1>3, <3>8, <3>9
    <3>11. Gone' = m
      BY <1>2, <1>9, <3>10
    <3>12. QED
      BY <3>3, <3>6, <3>7, <3>11
  <2>3. QED
    BY <2>1, <2>2
<1>11. SentBy(stream, out, m)
  BY <1>2, <1>4, <1>9, SentMore
<1>12. ASSUME NoFalseHeader, ~splitMagic'
       PROVE  Uncut(stream, m) /\ Caught(stream, out, m)
  <2>1. ~splitMagic /\ ~(at = 0 /\ FrameBegun)
    BY <1>2, <1>3, <1>12
  <2>2. Uncut(stream, n) /\ Caught(stream, out, n)
    BY <1>1, <1>12, <2>1 DEF DecoderInv, InStep
  <2>3. ASSUME NEW i \in DOMAIN stream.segs, stream.segs[i].kind # "garbage", n < stream.segs[i].first
        PROVE  m < stream.segs[i].first
    <3>1. /\ at # 0 => n + at < stream.segs[i].first
          /\ at = 0 /\ stream.segs[i].first # n + Len(buf) => n + Len(buf) < stream.segs[i].first
      BY <1>1, <1>2, <1>3, <2>3, ResyncSkips
    <3>2. at = 0 => stream.segs[i].first # fed
      BY <2>1, <2>3 DEF FrameBegun, Segs
    <3>3. fed = n + Len(buf)
      BY <1>1, <1>4
    <3>4. QED
      BY <1>1, <1>8, <3>1, <3>2, <3>3
  <2>4. Uncut(stream, m) /\ Frames(stream, m) = Frames(stream, n)
    BY <1>2, <1>4, <1>9, <2>2, <2>3, SkipsNone
  <2>5. QED
    BY <2>2, <2>4, CaughtSame
<1>13. InStep'
  <2>1. NoFalseHeader' <=> NoFalseHeader
    BY <1>3 DEF NoFalseHeader, HeaderAt, Segs, Wire
  <2>2. QED
    BY <1>3, <1>10, <1>12, <2>1 DEF InStep
<1>14. ~feeding' => Incomplete'
  <2>1. SUFFICES ASSUME at = 0 PROVE Incomplete'
    BY <1>3
  <2>2. buf' = <<>>
    BY <1>3, <2>1
  <2>3. Len(buf') < HeaderLen
    BY <2>2 DEF HeaderLen
  <2>4. QED
    BY <2>3 DEF Incomplete, HeaderLen
<1>15. feeding' \in BOOLEAN /\ splitMagic' \in BOOLEAN
  BY <1>3
<1>16. QED
  BY <1>2, <1>3, <1>10, <1>11, <1>13, <1>14, <1>15 DEF DecoderInv

\* At rest, every frame that has arrived has been passed.
LEMMA NoneWaits ==
    ASSUME DecoderInv, ~feeding, NoFalseHeader, ~splitMagic
    PROVE  Frames(stream, fed) = Frames(stream, Gone)
<1>1. PICK n, len : n = Gone /\ len = Len(buf)
  OBVIOUS
<1>2. /\ stream \in Streams /\ fed \in Nat /\ Holds(stream, buf, n) /\ Uncut(stream, n) /\ Incomplete
  BY <1>1 DEF DecoderInv, InStep
<1>3. n \in Nat /\ buf \in Seq(Byte) /\ len \in Nat /\ fed = n + len
  <2>1. n \in Nat /\ buf \in Seq(Byte) /\ n = fed - Len(buf)
    BY <1>1, <1>2 DEF Holds, Gone
  <2>2. QED
    BY <1>1, <1>2, <2>1
<1>4. \A i \in DOMAIN stream.segs : i \in Nat /\ stream.segs[i].first \in Nat /\ stream.segs[i].last \in Nat
  BY <1>2, SegmentOrder
<1>5. ASSUME NEW i \in DOMAIN stream.segs, stream.segs[i].kind = "frame", stream.segs[i].last <= fed
      PROVE  stream.segs[i].last <= n
  <2>1. SUFFICES ASSUME ~(stream.segs[i].last <= n) PROVE FALSE
    OBVIOUS
  <2>2. n < stream.segs[i].first
    BY <1>2, <1>5, <2>1 DEF Uncut
  <2>3. stream.segs[i].first + 3 <= stream.segs[i].last
    BY <1>2, <1>5, FramedBytes
  <2>4. len >= 4
    <3>1. PICK f, l : f = stream.segs[i].first /\ l = stream.segs[i].last
      OBVIOUS
    <3>2. f \in Nat /\ l \in Nat /\ n < f /\ f + 3 <= l /\ l <= fed
      BY <1>4, <1>5, <2>2, <2>3, <3>1
    <3>3. QED
      BY <1>3, <3>2
  <2>5. HeaderOk(buf) /\ Len(buf) < FrameLen(buf)
    <3>1. ~(Len(buf) < HeaderLen)
      BY <1>1, <1>3, <2>4 DEF HeaderLen
    <3>2. QED
      BY <1>2, <3>1 DEF Incomplete
  <2>6. \A k \in DOMAIN stream.segs : stream.segs[k].kind = "garbage" =>
           \A p \in stream.segs[k].first .. stream.segs[k].last : ~HeaderAt(stream.bytes, p)
    BY DEF NoFalseHeader, Segs, Wire
  <2>7. PICK j \in DOMAIN stream.segs :
          stream.segs[j].first = n + 1 /\ stream.segs[j].last = n + FrameLen(buf)
    BY <1>2, <2>5, <2>6, HeadSegment
  <2>8. fed < stream.segs[j].last
    <3>1. PICK x : x = FrameLen(buf)
      OBVIOUS
    <3>2. x \in Nat /\ len < x
      BY <1>1, <1>3, <2>5, <3>1, FrameLenNat
    <3>3. fed < n + x
      BY <1>3, <3>2
    <3>4. QED
      BY <2>7, <3>1, <3>3
  <2>9. /\ \A k \in DOMAIN stream.segs :
             stream.segs[k].last <= n \/ k = j \/ stream.segs[j].last < stream.segs[k].first
    BY <1>2, <1>3, <2>7, Divides
  <2>10. stream.segs[i].last <= n \/ i = j \/ stream.segs[j].last < stream.segs[i].first
    BY <2>9
  <2>11. i # j
    <3>1. stream.segs[j].last \in Nat
      BY <1>4
    <3>2. ~(stream.segs[j].last <= fed)
      BY <1>2, <2>8, <3>1
    <3>3. QED
      BY <1>5, <3>2
  <2>12. ~(stream.segs[j].last < stream.segs[i].first)
    <3>1. PICK f, l, g : f = stream.segs[i].first /\ l = stream.segs[i].last /\ g = stream.segs[j].last
      OBVIOUS
    <3>2. f \in Nat /\ l \in Nat /\ g \in Nat /\ f + 3 <= l /\ l <= fed /\ fed < g
      BY <1>4, <1>5, <2>3, <2>8, <3>1
    <3>3. ~(g < f)
      BY <1>2, <3>2
    <3>4. QED
      BY <3>1, <3>3
  <2>13. QED
    BY <2>1, <2>10, <2>11, <2>12
<1>6. \A i \in DOMAIN stream.segs :
        stream.segs[i].kind = "frame" => (stream.segs[i].last <= fed <=> stream.segs[i].last <= n)
  <2>1. n <= fed
    BY <1>3
  <2>2. \A i \in DOMAIN stream.segs : stream.segs[i].last <= n => stream.segs[i].last <= fed
    BY <1>2, <1>3, <1>4, <2>1
  <2>3. QED
    BY <1>5, <2>2
<1>7. Frames(stream, fed) = Frames(stream, n)
  BY <1>6 DEF Frames
<1>8. QED
  BY <1>1, <1>7

LEMMA DecoderMeans == ASSUME DecoderInv PROVE DecodesWhatArrived /\ YieldsOnlySent
<1>1. \A n : Arrived(n) = Frames(stream, n)
  BY DEF Arrived, Frames, Segs
<1>2. \A i : Bytes(i) = Stretch(stream.bytes, stream.segs[i])
  BY DEF Bytes, Wire, Segs
<1>3. DecodesWhatArrived
  <2>1. SUFFICES ASSUME ~feeding, NoFalseHeader, ~splitMagic
                 PROVE  /\ Len(out) = Cardinality(Arrived(fed))
                        /\ \A i \in Arrived(fed) : out[Cardinality({j \in Arrived(fed) : j <= i})] = Bytes(i)
    BY DEF DecodesWhatArrived
  <2>2. Caught(stream, out, Gone)
    BY <2>1 DEF DecoderInv, InStep
  <2>3. Frames(stream, fed) = Frames(stream, Gone)
    BY <2>1, NoneWaits
  <2>4. Caught(stream, out, fed)
    BY <2>2, <2>3, CaughtSame
  <2>5. QED
    BY <1>1, <1>2, <2>4 DEF Caught
<1>4. YieldsOnlySent
  <2>1. PICK n : n = Gone
    OBVIOUS
  <2>2. stream \in Streams /\ n \in Nat /\ fed \in Nat /\ n <= fed /\ SentBy(stream, out, n)
    <3>1. stream \in Streams /\ n \in Nat /\ fed \in Nat /\ SentBy(stream, out, n)
          /\ buf \in Seq(Byte) /\ n = fed - Len(buf)
      BY <2>1 DEF DecoderInv, Holds, Gone
    <3>2. QED
      BY <3>1
  <2>3. SentBy(stream, out, fed)
    BY <2>2, SentMore
  <2>4. QED
    BY <1>1, <1>2, <2>3 DEF SentBy, YieldsOnlySent
<1>5. QED
  BY <1>3, <1>4

LEMMA DecoderNextInv == ASSUME DecoderInv, [Next]_vars PROVE DecoderInv'
<1>1. ASSUME Read PROVE DecoderInv'
  <2>1. PICK n \in 1 .. MaxRead : Feed(n)
    BY <1>1 DEF Read
  <2>2. n \in Nat \ {0}
    BY DecoderAssumption
  <2>3. QED
    BY <2>1, <2>2, FeedInv
<1>2. ASSUME DecoderStep PROVE DecoderInv'
  BY <1>2, FeedReturnsInv, ResyncInv, BadFrameInv DEF DecoderStep
<1>3. ASSUME DispatchLog PROVE DecoderInv'
  BY <1>3, YieldInv DEF DispatchLog
<1>4. ASSUME TelemetryStep PROVE DecoderInv'
  BY <1>4, DecoderQuiet DEF TelemetryStep
<1>5. ASSUME NEW s \in Subscribers, Streaming(s) PROVE DecoderInv'
  BY <1>5, DecoderQuiet DEF Streaming
<1>6. ASSUME UNCHANGED vars PROVE DecoderInv'
  <2>1. UNCHANGED decoderVars
    BY <1>6 DEF vars
  <2>2. QED
    BY <2>1, DecoderQuiet
<1>7. QED
  BY <1>1, <1>2, <1>3, <1>4, <1>5, <1>6 DEF Next

LEMMA DecoderInvHolds == Spec => []DecoderInv
<1>1. Init => DecoderInv
  BY DecoderInitInv DEF Init
<1>2. DecoderInv /\ [Next]_vars => DecoderInv'
  BY DecoderNextInv
<1>3. QED
  BY <1>1, <1>2, PTL DEF Spec

\* However the reads divide the bytes of a connection, a decoder at rest has yielded
\* exactly the frames that have arrived, in order, when no false header stands among
\* them and no clearing of the buffer took the first byte of one (StreamDecoder.feed).
THEOREM FramesAreRecovered == Spec => []DecodesWhatArrived
<1>1. DecoderInv => DecodesWhatArrived
  BY DecoderMeans
<1>2. QED
  BY <1>1, DecoderInvHolds, PTL

\* Whatever the bytes of a connection are, what the decoder yields are frames the
\* peer sent, in the order sent and none of them twice (StreamDecoder.feed, decode).
THEOREM OnlyFramesAreYielded == Spec => []YieldsOnlySent
<1>1. DecoderInv => YieldsOnlySent
  BY DecoderMeans
<1>2. QED
  BY <1>1, DecoderInvHolds, PTL

-----------------------------------------------------------------------------
(* The connection and the bus together.                                    *)

\* A bus fed by a connection's decoder takes the steps of a bus: what is proved
\* about the bus holds for it behind _dispatch.
THEOREM PathDrivesBus == Spec => BusSpec
<1>1. Init => BusInit
  BY DEF Init
<1>2. [Next]_vars => [BusNext]_busVars
  <2>1. SUFFICES ASSUME [Next]_vars PROVE [BusNext]_busVars
    OBVIOUS
  <2>2. CASE Read
    BY <2>2 DEF Read
  <2>3. CASE DecoderStep
    BY <2>3 DEF DecoderStep
  <2>4. CASE DispatchLog
    BY <2>4 DEF DispatchLog, BusNext
  <2>5. CASE TelemetryStep
    BY <2>5 DEF TelemetryStep, BusNext
  <2>6. CASE \E s \in Subscribers : Streaming(s)
    BY <2>6 DEF Streaming, BusNext
  <2>7. CASE UNCHANGED vars
    <3>1. UNCHANGED busVars
      BY <2>7 DEF vars
    <3>2. QED
      BY <3>1
  <2>8. QED
    BY <2>1, <2>2, <2>3, <2>4, <2>5, <2>6, <2>7 DEF Next
<1>3. QED
  BY <1>1, <1>2, PTL DEF Spec, BusSpec

\* The connection's frames, published on the bus, reach every stream in order, at
\* most once, with losses only where a queue overflowed: the whole path implements
\* the abstract stream.
THEOREM PathImplementsLiveStream == Spec => ImplementsLiveStream
BY PathDrivesBus, BusImplementsLiveStream, PTL
==============================================================================
