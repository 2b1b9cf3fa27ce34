----------------------------- MODULE Diagnostics -----------------------------
(***************************************************************************)
(* The heuristic of backend/app/diagnostics.py, which answers when there   *)
(* is no key or the model's call fails: the causes named for a context     *)
(* [alerts, active, injected, loss, reconnects, job, ack].  A cause stands *)
(* for its text, evidence and actions; likelihoods are left out.  Nothing  *)
(* but the diagnoses table depends on the answer.                          *)
(***************************************************************************)
EXTENDS Integers, FiniteSets

(* heuristic_diagnosis                                                     *)

\* Flags reported by the last sample, or with an open flag alert.
FaultsOf(ctx) == ctx.active \cup {a[2] : a \in {b \in ctx.alerts : b[1] = "flag"}}

Hit(ctx, rules, flags) ==
    \/ \E r \in rules : <<"rule", r>> \in ctx.alerts
    \/ FaultsOf(ctx) \intersect flags # {}

Thermal(ctx) ==
    Hit(ctx, {"temp_high", "temp_critical", "rate:temp_c", "anomaly:temp_c"}, {"OVERTEMP"})
Overload(ctx) == Hit(ctx, {"current_high"}, {"OVERCURRENT"})

\* Each cause of the chain of tests, and when it is added.
CauseTest(ctx) ==
    [injected    |-> Thermal(ctx) /\ "OVERTEMP" \in ctx.injected,
     runaway     |-> Thermal(ctx) /\ Overload(ctx),
     rapid       |-> Thermal(ctx) /\ ~Overload(ctx) /\ Hit(ctx, {"rate:temp_c"}, {}),
     cooling     |-> Thermal(ctx) /\ ~Overload(ctx) /\ ~Hit(ctx, {"rate:temp_c"}, {}),
     overcurrent |-> Overload(ctx),
     voltage     |-> Hit(ctx, {"voltage_low", "anomaly:voltage_v"}, {"UNDERVOLTAGE"}),
     vibration   |-> Hit(ctx, {"vibration_high", "anomaly:vibration_g"}, {"VIBRATION_HIGH"}),
     encoder     |-> Hit(ctx, {"rpm_high", "anomaly:rpm"}, {"ENCODER_FAULT"}),
     stuck       |-> Hit(ctx, {}, {"SENSOR_STUCK"}),
     gps         |-> Hit(ctx, {}, {"GPS_LOST"}),
     link        |-> Hit(ctx, {"packet_loss"}, {"COMM_DEGRADED"}) \/ ctx.loss > 10,
     offline     |-> Hit(ctx, {"offline"}, {}),
     unstable    |-> ctx.reconnects > 3 /\ ~Hit(ctx, {"offline"}, {}),
     firmware    |-> ctx.job \in {"rejected", "failed"},
     config      |-> ctx.ack \in {"rejected", "queued", "pending", "sent"}]

\* Mutant of Causes: rate and z-score alerts are not looked at.
CausesNoTrends(ctx) ==
    LET quiet == [ctx EXCEPT !.alerts = @ \ {<<"rule", "anomaly:temp_c">>, <<"rule", "rate:temp_c">>}]
        test == CauseTest(quiet)
        found == {c \in DOMAIN test : test[c]}
    IN  IF found = {} THEN {"nominal"} ELSE found

Causes(ctx) ==
    LET test == CauseTest(ctx)
        found == {c \in DOMAIN test : test[c]}
    IN  IF found = {} THEN {"nominal"} ELSE found
==============================================================================
