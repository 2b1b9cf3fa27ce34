------------------------------- MODULE MCRules --------------------------------
(***************************************************************************)
(* A temperature with a configured limit, a rate rule and an ungated       *)
(* anomaly rule; a voltage with a fixed limit, a model override and a      *)
(* gated anomaly rule.                                                     *)
(***************************************************************************)
EXTENDS RuleConditions

TempHigh ==
    [name |-> "temp_high", metric |-> "temp_c", op |-> ">",
     value |-> [key |-> "temp_limit_c", off |-> 0], overrides |-> <<>>]
TempCritical ==
    [TempHigh EXCEPT !.name = "temp_critical", !.value.off = 1]
VoltageLow ==
    [name |-> "voltage_low", metric |-> "voltage_v", op |-> "<",
     value |-> [key |-> None, off |-> 80],
     overrides |-> <<[device |-> FALSE, hw |-> "ORIN-NANO", value |-> [key |-> None, off |-> 4]]>>]

MCDefaultRules ==
    [thresholds |-> {TempHigh, TempCritical, VoltageLow},
     comm |-> [loss_pct |-> 10],
     fault_flags |-> [enabled |-> TRUE],
     rate |-> {"temp_c"},
     anomaly |-> [enabled |-> TRUE, metrics |-> {"temp_c", "voltage_v"}, gated |-> {"voltage_v"}]]

NoBody == [k \in {} |-> None]
MCBodies == {NoBody, [rate |-> {}, anomaly |-> [metrics |-> {"voltage_v"}]]}

MCDefaultConfig == [temp_limit_c |-> 1]
MCConfigs == {[temp_limit_c |-> 2]}
MCModels == {"ORIN-NANO"}

\* A cold sample of a 5 V board whose gate metric moves, and a hot one.
Cold ==
    [value |-> [temp_c |-> 1, voltage_v |-> 5], flags |-> {}, loss |-> 0,
     far |-> {"voltage_v"}, moving |-> TRUE]
Heated ==
    [value |-> [temp_c |-> 3, voltage_v |-> 90], flags |-> {"OVERTEMP"}, loss |-> 20,
     far |-> {"temp_c", "voltage_v"}, moving |-> FALSE]
MCSamples == {Cold, Heated}
===============================================================================
