--------------------------- MODULE FaultDiagnosis ----------------------------
(***************************************************************************)
(* Injected faults from the request to the diagnosis: the device's flags   *)
(* reach the backend in telemetry that may be lost, handle_telemetry keeps *)
(* the latest sample and raises flag alerts, and a diagnosis reads alerts, *)
(* sample and recent injections.  Alerts of other rules, and of flags that *)
(* are no longer reported, are an input (AlertEngine has their times).     *)
(***************************************************************************)
EXTENDS FaultInjection, Diagnostics

CONSTANTS
    Surroundings,   \* the rest of a context: [alerts, loss, reconnects, job, ack]
    RecentRows      \* fault_injections(device_id, 10)

\* The names of FAULT_FLAGS and of the rules of DEFAULT_RULES.
FlagNames ==
    {"OVERTEMP", "OVERCURRENT", "UNDERVOLTAGE", "VIBRATION_HIGH", "SENSOR_STUCK", "GPS_LOST",
     "COMM_DEGRADED", "ENCODER_FAULT"}
RuleNames ==
    {"temp_high", "temp_critical", "current_high", "rpm_high", "voltage_low", "vibration_high",
     "packet_loss", "offline", "rate:temp_c", "anomaly:temp_c", "anomaly:current_a",
     "anomaly:voltage_v", "anomaly:vibration_g"}

ASSUME DiagnosisAssumption ==
    /\ RecentRows \in Nat \ {0}
    /\ Flags \subseteq FlagNames
    /\ \A s \in Surroundings : s.alerts \subseteq ({"flag"} \X FlagNames) \cup ({"rule"} \X RuleNames)

VARIABLE latest     \* ingest.latest: [flags, rows], or None; rows is a ghost

vars == <<faultVars, latest>>

Init == FaultInit /\ latest = None

-----------------------------------------------------------------------------
\* The rows whose injections make the device report OVERTEMP.
OvertempRows(injs) == {inj.row : inj \in {x \in injs : "OVERTEMP" \in x.flags}} \ {0}

\* tick, and handle_telemetry of its frame unless the network loses it:
\* self.latest, and on_telemetry opens an alert for each of its flags.
TickAndReport(start, det, reading, readOk, arrives) ==
    /\ Tick(start, det, reading, readOk)
    /\ latest' = IF arrives THEN [flags |-> Reported', rows |-> OvertempRows(injections')] ELSE latest

\* Mutant of Recent: the first rows instead of the last.
Earliest == {i \in DOMAIN rows : i <= RecentRows}

\* fault_injections(device_id, 10): ORDER BY id DESC
Recent == {i \in DOMAIN rows : i > Len(rows) - RecentRows}

Active == IF latest = None THEN {} ELSE latest.flags

\* build_context: one turn of the event loop, so one state of everything.
Context(s) ==
    [alerts |-> {<<"flag", f>> : f \in Active} \cup s.alerts,
     active |-> Active,
     injected |-> UNION {rows[i].set : i \in Recent},
     loss |-> s.loss, reconnects |-> s.reconnects, job |-> s.job, ack |-> s.ack]

\* The inputs of a tick that make a difference.
TickInputs ==
    LET noReading == [high |-> {}, band |-> {}]
    IN  IF sensors
        THEN {<<{}, reading, TRUE>> : reading \in BoardReadings} \cup {<<det, noReading, FALSE>> : det \in Detections}
        ELSE {<<det, noReading, FALSE>> : det \in Detections}

Ticking(arrives) ==
    \E start \in BOOLEAN, in \in TickInputs : TickAndReport(start, in[1], in[2], in[3], arrives)

FaultStep ==
    /\ \/ HandleFaultInject
       \/ HandleClearFaults
       \/ Reboot
       \/ Cut
       \/ Reconnect
       \/ \E r \in Requests : PostFault(r)
       \/ PostClear
       \/ FaultAck
       \/ PassTime
    /\ UNCHANGED latest

Next ==
    \/ \E arrives \in BOOLEAN : Ticking(arrives)
    \/ FaultStep

Spec == Init /\ [][Next]_vars

\* The agent's loop ticks, and the network does not lose every frame.
FairSpec == Spec /\ WF_vars(Ticking(TRUE))

-----------------------------------------------------------------------------
\* A flag is injected exactly while some request, or the schedule, still asks for
\* it, or until the tick that notices that its time is over: overlapping injections
\* neither end one another nor outlive their time, and a clear ends all of them
\* (updateInjections, handleFaultInject).
InjectedWhileDue ==
    \A f \in Flags :
        f \in injected <=>
            \/ due[f] # 0
            \/ \E inj \in injections : inj.left = 0 /\ f \in inj.flags

\* Flags that only requests can raise.
OnlyRequested ==
    Flags \ ((UNION Detections) \cup (UNION {f.flags : f \in Scheduled}))

\* As long as the channel was never cut, once it is idle the newest row's ack
\* tells which requested flags the device runs, also when the last ack was that
\* of an earlier row's expiry (fault_injection_ack).  With board sensors the ack
\* still tells the flags of the last tick, so only the plant's device counts.
AckInSync ==
    ~sensors /\ cuts = 0 /\ toDev = <<>> /\ toBack = <<>> /\ rows # <<>> =>
        /\ rows[Len(rows)].ack # None
        /\ OnlyRequested \intersect rows[Len(rows)].ack = OnlyRequested \intersect injected

\* Whenever a diagnosis is asked for, the heuristic's answer to an overtemperature
\* in the latest sample that a recent request injected says so, whatever was
\* requested, lost, cleared or expired since (build_context, heuristic_diagnosis).
InjectedIsNamed ==
    "OVERTEMP" \in Active /\ (\E i \in latest.rows : i > Len(rows) - RecentRows) =>
        \A s \in Surroundings : "injected" \in Causes(Context(s))

\* The default rules heuristic_diagnosis has no test for.
Untested == {<<"rule", "anomaly:current_a">>}

\* "No active faults or alerts" is said only of a device with none, but for the
\* rules without a test: an injected flag, a trend or a stale open alert is
\* never overlooked (heuristic_diagnosis).
NominalMeansQuiet ==
    \A s \in Surroundings :
        "nominal" \in Causes(Context(s)) => Active = {} /\ Context(s).alerts \subseteq Untested

\* The loop from request to alert: a flag injected until it is cleared is in
\* the backend's latest sample, and so in an alert, although frames are lost (tick,
\* handle_telemetry, on_telemetry).
InjectionRaisesAlert ==
    \A f \in Flags : due[f] = None ~> (due[f] # None \/ f \in Active)
==============================================================================
