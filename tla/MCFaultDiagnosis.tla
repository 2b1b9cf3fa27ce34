-------------------------- MODULE MCFaultDiagnosis ---------------------------
EXTENDS FaultDiagnosis

MCFlags == {"OVERTEMP", "GPS_LOST"}

Request(set, clear, dur) == [set |-> set, clear |-> clear, dur |-> dur]
MCRequests == {Request({"OVERTEMP", "GPS_LOST"}, {}, 0), Request({"GPS_LOST"}, {"OVERTEMP"}, 1)}

MCCommandLines ==
    {[sensors |-> FALSE, faults |-> <<[flags |-> {"OVERTEMP"}, dur |-> 0]>>],
     [sensors |-> TRUE, faults |-> <<>>]}

MCDetections == {{}, {"OVERTEMP"}}

MCBoardReadings ==
    {[high |-> {}, band |-> {}], [high |-> {"OVERTEMP"}, band |-> {}], [high |-> {}, band |-> {"OVERTEMP"}]}

Around(others, loss, reconnects, job, ack) ==
    [alerts |-> others, loss |-> loss, reconnects |-> reconnects, job |-> job, ack |-> ack]
MCSurroundings ==
    {Around({<<"rule", "rate:temp_c">>}, 0, 0, "none", "applied"),
     Around({<<"rule", "anomaly:current_a">>}, 0, 0, "complete", "applied"),
     Around({<<"flag", "OVERTEMP">>, <<"rule", "offline">>}, 20, 4, "rejected", "sent")}
==============================================================================
