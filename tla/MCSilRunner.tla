----------------------------- MODULE MCSilRunner -----------------------------
(* A fleet scenario with a proxied and a direct device, a scenario on one   *)
(* device with the device checks, and two that validation must reject.      *)
EXTENDS SilRunner

Dev(id, via) == [id |-> id, via |-> via, remote |-> FALSE]
Act(at, action, device) == [at |-> at, action |-> action, device |-> device]
Chk(at, check, device) ==
    [at |-> at, check |-> check, device |-> device, online |-> TRUE, version |-> "1.1.0",
     min |-> 1, acked |-> TRUE, invert |-> FALSE, value |-> 10]

Fleet ==
    [wellFormed |-> TRUE, proxy |-> TRUE,
     devices |-> <<Dev("d1", FALSE), Dev("d2", TRUE)>>,
     timeline |-> <<Act(2, "fault", "d1"), Act(1, "proxy_set", None), Act(1, "note", None)>>,
     expect |-> <<Chk(2, "alert_open", "d1"), Chk(3, "no_alerts_of_severity", None)>>]

Single ==
    [wellFormed |-> TRUE, proxy |-> FALSE,
     devices |-> <<Dev("d1", FALSE)>>,
     timeline |-> <<Act(1, "config", "d1"), Act(2, "firmware_deploy", "d1")>>,
     expect |-> <<Chk(1, "config_version", "d1"), Chk(2, "device_fw", "d1"),
                  Chk(2, "diagnosis_nonempty", "d1")>>]

Quiet ==
    [wellFormed |-> TRUE, proxy |-> FALSE,
     devices |-> <<Dev("d1", FALSE)>>,
     timeline |-> <<>>,
     expect |-> <<Chk(1, "device_state", "d1"), Chk(1, "loss_pct_gt", "d1"), Chk(2, "alert_resolved", "d1")>>]

Misaddressed == [Single EXCEPT !.timeline = <<Act(1, "cmd", "d2")>>]
Unproxied == [Single EXCEPT !.timeline = <<Act(1, "proxy_set", None)>>]

MCScenarios == {Fleet, Single, Quiet, Misaddressed, Unproxied}
==============================================================================
