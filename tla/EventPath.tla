------------------------------ MODULE EventPath ------------------------------
(***************************************************************************)
(* From the bytes of a control connection to the dashboard: _handle_tcp of *)
(* backend/app/ingest.py feeds a StreamDecoder, dispatches each LOG frame, *)
(* which publishes it on the EventBus, while UDP telemetry is published    *)
(* too and dashboards come and go.                                         *)
(***************************************************************************)
EXTENDS StreamDecoder, EventBus

vars == <<decoderVars, busVars>>

Init == DecoderInit /\ BusInit

\* await reader.read(4096)
Read == (\E n \in 1 .. MaxRead : Feed(n)) /\ UNCHANGED busVars

DecoderStep == (FeedReturns \/ Resync \/ BadFrame) /\ UNCHANGED busVars

\* _dispatch of a LOG frame: bus.publish("log", row)
DispatchLog == Yield /\ PublishEvent

TelemetryStep == (PublishTelemetry \/ TelemetryDue) /\ UNCHANGED decoderVars

Streaming(s) == StreamStep(s) /\ UNCHANGED decoderVars

Next ==
    \/ Read
    \/ DecoderStep
    \/ DispatchLog
    \/ TelemetryStep
    \/ \E s \in Subscribers : Streaming(s)

Spec == Init /\ [][Next]_vars

\* The event loop runs every ready task: a stream with something to yield, unless it
\* waits for its client to read, and a stream whose client has gone.  That a client
\* ever reads is not assumed.
Fairness ==
    \A s \in Subscribers :
        /\ WF_vars(YieldEvent(s) /\ UNCHANGED decoderVars)
        /\ WF_vars(EndStream(s) /\ UNCHANGED decoderVars)

FairSpec == Spec /\ Fairness

-----------------------------------------------------------------------------
\* Every event that can be published within the bounds.
MaxEvents == MaxTelemetry + Max({Len(s.segs) : s \in Streams})

\* A running stream catches up with every event published so far, or its client goes,
\* however fast new events push old ones out of its queue and however often the client
\* stops reading for a while; the one exception is a client that stops for good.
StreamsCatchUp ==
    \A s \in Subscribers : \A n \in 1 .. MaxEvents :
        []<>(stage[s] # "stalled") =>
            (stage[s] \in {"live", "stalled"} /\ published = n)
                ~> (cursor[s] >= n \/ stage[s] \notin {"live", "stalled"})
==============================================================================
