------------------------------ MODULE EventBus -------------------------------
(***************************************************************************)
(* EventBus of backend/app/bus.py with the SSE streams of                  *)
(* /api/events/stream in backend/app/api.py that consume it.  An event is  *)
(* known by its number, the value of `published` when it was published.    *)
(***************************************************************************)
EXTENDS Integers, Sequences

CONSTANTS
    Subscribers,    \* dashboard connections
    Capacity,       \* maxsize
    MaxTelemetry    \* bound: telemetry events published

ASSUME BusAssumption ==
    /\ Capacity \in Nat \ {0}
    /\ MaxTelemetry \in Nat

VARIABLES
    published,  \* self.published
    subs,       \* self.subs
    q,          \* the queue of each subscriber
    stage,      \* the stream of each subscriber
    cursor,     \* ghost: the last event its stream yielded, or the last before it came
    due,        \* _last_tel is at least 1 / max_hz old
    telemetry   \* telemetry events published

busVars == <<published, subs, q, stage, cursor, due, telemetry>>

\* "stalled": a yield waits in the ASGI send, the client does not read.
Stages == {"off", "new", "live", "stalled", "lost", "gone", "leaked"}

BusTypeOK ==
    /\ published \in Nat
    /\ subs \subseteq Subscribers
    /\ q \in [Subscribers -> Seq(Nat)]
    /\ \A s \in Subscribers : Len(q[s]) <= Capacity
    /\ stage \in [Subscribers -> Stages]
    /\ cursor \in [Subscribers -> Nat]
    /\ due \in BOOLEAN
    /\ telemetry \in Nat

BusInit ==
    /\ published = 0
    /\ subs = {}
    /\ q = [s \in Subscribers |-> <<>>]
    /\ stage = [s \in Subscribers |-> "off"]
    /\ cursor = [s \in Subscribers |-> 0]
    /\ due = TRUE
    /\ telemetry = 0

-----------------------------------------------------------------------------
\* Mutant of Put: a full queue refuses the new event.
PutRefusing(queue, e) == IF Len(queue) < Capacity THEN Append(queue, e) ELSE queue

\* put_nowait; a full queue loses its oldest event
Put(queue, e) ==
    IF Len(queue) < Capacity THEN Append(queue, e) ELSE Append(Tail(queue), e)

\* publish
Broadcast ==
    /\ published' = published + 1
    /\ q' = [s \in Subscribers |-> IF s \in subs THEN Put(q[s], published + 1) ELSE q[s]]
    /\ UNCHANGED <<subs, stage, cursor>>

PublishEvent == Broadcast /\ UNCHANGED <<due, telemetry>>

\* publish_telemetry, when the last event is old enough; otherwise it does nothing
PublishTelemetry ==
    /\ due
    /\ telemetry < MaxTelemetry
    /\ Broadcast
    /\ due' = FALSE
    /\ telemetry' = telemetry + 1

\* 1 / max_hz seconds pass.
TelemetryDue ==
    /\ ~due
    /\ due' = TRUE
    /\ UNCHANGED <<published, subs, q, stage, cursor, telemetry>>

-----------------------------------------------------------------------------
(* events_stream.                                                          *)

\* The handler subscribes and returns the response.
Subscribe(s) ==
    /\ stage[s] \in {"off", "gone"}
    /\ stage' = [stage EXCEPT ![s] = "new"]
    /\ subs' = subs \cup {s}
    /\ q' = [q EXCEPT ![s] = <<>>]
    /\ cursor' = [cursor EXCEPT ![s] = published]
    /\ UNCHANGED <<published, due, telemetry>>

SetStage(s, to) ==
    /\ stage' = [stage EXCEPT ![s] = to]
    /\ UNCHANGED <<published, subs, q, cursor, due, telemetry>>

\* The generator starts: "event: hello", which the client may leave unread.
Begin(s) == stage[s] = "new" /\ \E to \in {"live", "stalled"} : SetStage(s, to)

\* The yield of an event returns when it is written; while the client does not read
\* and the buffers of its connection are full, it waits.
Written(s) ==
    \/ UNCHANGED stage
    \/ stage[s] = "live" /\ stage' = [stage EXCEPT ![s] = "stalled"]

\* Mutant of YieldEvent: only the newest of the waiting events is sent.
YieldCoalesced(s) ==
    /\ stage[s] \in {"live", "lost"}
    /\ q[s] # <<>>
    /\ cursor' = [cursor EXCEPT ![s] = q[s][Len(q[s])]]
    /\ q' = [q EXCEPT ![s] = <<>>]
    /\ Written(s)
    /\ UNCHANGED <<published, subs, due, telemetry>>

\* Mutant of YieldEvent: events are sent a full queue at a time.
YieldWhenFull(s) ==
    /\ stage[s] \in {"live", "lost"}
    /\ Len(q[s]) = Capacity
    /\ cursor' = [cursor EXCEPT ![s] = Head(q[s])]
    /\ q' = [q EXCEPT ![s] = Tail(q[s])]
    /\ Written(s)
    /\ UNCHANGED <<published, subs, due, telemetry>>

\* q.get() and the yield of the event.  A stream whose client has gone may still
\* take events until it notices.
YieldEvent(s) ==
    /\ stage[s] \in {"live", "lost"}
    /\ q[s] # <<>>
    /\ cursor' = [cursor EXCEPT ![s] = Head(q[s])]
    /\ q' = [q EXCEPT ![s] = Tail(q[s])]
    /\ Written(s)
    /\ UNCHANGED <<published, subs, due, telemetry>>

\* The yield of a keep-alive waits; one that is written changes nothing.
KeepAlive(s) == stage[s] = "live" /\ q[s] = <<>> /\ SetStage(s, "stalled")

\* The client reads again and the yield returns.
ClientReads(s) == stage[s] = "stalled" /\ SetStage(s, "live")

\* The client closes the connection: of a running stream, or before the response
\* has started it (the generator then never runs, nor does its finally block).
Disconnect(s) ==
    \/ stage[s] \in {"live", "stalled"} /\ SetStage(s, "lost")
    \/ stage[s] = "new" /\ SetStage(s, "leaked")

\* Mutant of EndStream: the stream ends without its finally block.
EndStreamNoFinally(s) == stage[s] = "lost" /\ SetStage(s, "gone")

\* is_disconnected or cancellation, then the finally block: unsubscribe
EndStream(s) ==
    /\ stage[s] = "lost"
    /\ stage' = [stage EXCEPT ![s] = "gone"]
    /\ subs' = subs \ {s}
    /\ UNCHANGED <<published, q, cursor, due, telemetry>>

\* One stream: its request, its client and its generator.
StreamStep(s) ==
    \/ Subscribe(s)
    \/ Begin(s)
    \/ YieldEvent(s)
    \/ KeepAlive(s)
    \/ ClientReads(s)
    \/ Disconnect(s)
    \/ EndStream(s)

-----------------------------------------------------------------------------
BusNext ==
    \/ PublishEvent
    \/ PublishTelemetry
    \/ TelemetryDue
    \/ \E s \in Subscribers : StreamStep(s)

BusSpec == BusInit /\ [][BusNext]_busVars

-----------------------------------------------------------------------------
\* The bus feeds exactly the streams that have not ended; the exception is the
\* code's: a stream whose client left before it began stays subscribed for good
\* (subscribe is called outside the generator, unsubscribe inside it).
OnlyStreamsSubscribed ==
    \A s \in Subscribers : s \in subs <=> stage[s] \in {"new", "live", "stalled", "lost", "leaked"}

Behind(s) == published - cursor[s]

\* A queue is the newest part of what its subscriber has not seen: nothing out of
\* order, nothing twice, nothing missing but what overflowed (publish).
QueueIsNewest ==
    \A s \in subs :
        /\ Len(q[s]) = IF Behind(s) <= Capacity THEN Behind(s) ELSE Capacity
        /\ \A i \in 1 .. Len(q[s]) : q[s][i] = published - Len(q[s]) + i

Live == INSTANCE LiveStream WITH count <- published, open <- subs

\* The bus with its streams implements the abstract stream: in order, at most
\* once, and skipping only when a subscriber is Capacity events behind.
ImplementsLiveStream == Live!Spec
==============================================================================
