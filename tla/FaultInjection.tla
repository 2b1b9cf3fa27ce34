--------------------------- MODULE FaultInjection ----------------------------
(***************************************************************************)
(* Injected faults of one device: FAULT_INJECT and CMD clear_faults from   *)
(* the API over the control channel, the timed injections of               *)
(* firmware/src/agent.cpp, the flags it reports (from the plant, or from   *)
(* the board's sensors with hysteresis), FAULT_ACK and the                 *)
(* fault_injections table.  COMM_DEGRADED and the readings are left out;   *)
(* which flags a reading trips is an input of the tick.                    *)
(***************************************************************************)
EXTENDS Integers, Sequences, FiniteSets

CONSTANTS
    Flags,          \* FAULT_FLAGS that can be injected or detected
    Requests,       \* bodies of POST fault: [set, clear, dur], dur 0 = until cleared
    CommandLines,   \* [sensors, faults]: --source jetson, and the --fault schedule, a sequence of
                    \* [flags, dur], none starting together
    Detections,     \* sets of flags the plant's readings can trip
    BoardReadings,  \* [high, band]: flags above the limit, and within the margin below it
    MaxRows,        \* bound: requests made
    MaxUpsets,      \* bound: clear_faults commands, breaks of the channel and reboots
    None

ASSUME FaultAssumption ==
    /\ Requests \subseteq [set : SUBSET Flags, clear : SUBSET Flags, dur : Nat]
    /\ CommandLines \subseteq [sensors : BOOLEAN, faults : Seq([flags : SUBSET Flags, dur : Nat])]
    /\ Detections \subseteq SUBSET Flags
    /\ BoardReadings \subseteq [high : SUBSET Flags, band : SUBSET Flags]
    /\ {MaxRows, MaxUpsets} \subseteq Nat
    /\ None \notin Nat /\ \A flags \in SUBSET Flags : None # flags

VARIABLES
    sensors,    \* the device runs with --source jetson
    cli,        \* scheduled faults that have not fired
    injections, \* injections_: a set (nothing depends on the vector's order) of
                \* [flags, left, row], left = None until cleared
    injected,   \* physics_.injectedFaults()
    detected,   \* flags of the plant's last readings (with sensors: not kept, never reported later)
    board,      \* live_detected_
    live,       \* live_.fault_flags
    up,         \* the control channel
    toDev,      \* frames on it, FIFO
    toBack,
    rows,       \* fault_injections rows: [set, ack]
    clears, cuts,
    due         \* ghost: flag -> time it has left, None until cleared, 0 none

deviceVars == <<sensors, cli, injections, injected, detected, board, live>>
linkVars == <<up, toDev, toBack>>
faultVars == <<deviceVars, linkVars, rows, clears, cuts, due>>

Scheduled == UNION {{c.faults[i] : i \in DOMAIN c.faults} : c \in CommandLines}

FaultInit ==
    /\ \E c \in CommandLines : sensors = c.sensors /\ cli = c.faults
    /\ injections = {}
    /\ injected = {}
    /\ detected = {}
    /\ board = {}
    /\ live = {}
    /\ up = TRUE
    /\ toDev = <<>>
    /\ toBack = <<>>
    /\ rows = <<>>
    /\ clears = 0
    /\ cuts = 0
    /\ due = [f \in Flags |-> 0]

-----------------------------------------------------------------------------
(* Device.                                                                 *)

MaskOf(injs) == UNION {inj.flags : inj \in injs}

\* current().fault_flags
ReportedFlags(mask, det, measured) == IF sensors THEN measured ELSE mask \cup det
Reported == ReportedFlags(injected, detected, live)

\* sendFaultAck, if the channel is up
Acked(flags) == IF up THEN Append(toBack, flags) ELSE toBack

NewInjection(flags, dur, row) == [flags |-> flags, left |-> IF dur = 0 THEN None ELSE dur, row |-> row]

\* The longer of two remaining times.
Longer(a, b) == IF a = None \/ b = None THEN None ELSE IF a > b THEN a ELSE b

DueWith(left, flags, dur) ==
    [f \in Flags |-> IF f \in flags THEN Longer(left[f], IF dur = 0 THEN None ELSE dur) ELSE left[f]]

\* Mutant of Unexpired: the flags of an expired injection go, whoever else holds them.
UnexpiredFlags(injs) ==
    LET over == UNION {inj.flags : inj \in {x \in injs : x.left = 0}}
    IN  {inj \in injs : inj.left # 0 /\ inj.flags \intersect over = {}}

\* updateInjections drops what has expired.
Unexpired(injs) == {inj \in injs : inj.left # 0}

\* Hysteresis of readSensors: a flag clears only below the margin.
BoardFlags(reading) == reading.high \cup (reading.band \intersect board)

\* Mutant of LiveFlags: the measured flags replace the injected ones.
LiveFlagsMeasured(mask, det, reading, readOk) == IF readOk THEN BoardFlags(reading) ELSE mask \cup det

\* The flags readSensors leaves in live_: the plant's sample when the read fails.
LiveFlags(mask, det, reading, readOk) == mask \cup (IF readOk THEN BoardFlags(reading) ELSE det)

\* tick: updateInjections (a scheduled fault may start), a plant step, readSensors;
\* the telemetry frame then carries Reported', which the composition delivers.
Tick(start, det, reading, readOk) ==
    LET all == IF start THEN injections \cup {NewInjection(Head(cli).flags, Head(cli).dur, 0)}
               ELSE injections
        kept == Unexpired(all)
        mask == MaskOf(kept)
    IN  /\ UNCHANGED <<sensors, up, toDev, rows, clears, cuts>>
        /\ start => cli # <<>>
        /\ cli' = IF start THEN Tail(cli) ELSE cli
        /\ detected' = IF sensors THEN detected ELSE det
        /\ board' = IF sensors /\ readOk THEN BoardFlags(reading) ELSE board
        /\ injections' = kept
        /\ injected' = mask
        /\ live' = IF sensors THEN LiveFlags(mask, det, reading, readOk) ELSE live
        /\ toBack' = IF mask # injected /\ kept # all
                     THEN Acked(ReportedFlags(mask, detected, live)) ELSE toBack
        /\ due' = IF start THEN DueWith(due, Head(cli).flags, Head(cli).dur) ELSE due

\* The clear_flags of a request leave every injection, and empty ones go.
Cleared(flags) ==
    {inj \in {[x EXCEPT !.flags = @ \ flags] : x \in injections} : inj.flags # {}}

\* Injections become injs: the plant's mask and flags follow at once, live_ does
\* not, and the ack tells current().fault_flags.
Injections(injs) ==
    /\ injections' = injs
    /\ injected' = MaskOf(injs)
    /\ toBack' = Acked(ReportedFlags(MaskOf(injs), detected, live))
    /\ toDev' = Tail(toDev)
    /\ UNCHANGED <<sensors, cli, detected, board, live, up, rows, clears, cuts>>

\* handleFaultInject: clear, then set
HandleFaultInject ==
    LET m == Head(toDev)
        cleared == Cleared(m.clear)
        left == [f \in Flags |-> IF f \in m.clear THEN 0 ELSE due[f]]
    IN  /\ toDev # <<>> /\ m.kind = "inject"
        /\ Injections(IF m.set = {} THEN cleared
                      ELSE cleared \cup {NewInjection(m.set, m.dur, m.row)})
        /\ due' = DueWith(left, m.set, m.dur)

\* handleCmd, CLEAR_FAULTS
HandleClearFaults ==
    /\ toDev # <<>> /\ Head(toDev).kind = "clear_faults"
    /\ Injections({})
    /\ due' = [f \in Flags |-> 0]

\* startReboot: the channel is flushed and closed (what is on it may still arrive)
\* and injected faults are gone; the silence that follows takes no step.
Reboot ==
    /\ clears + cuts < MaxUpsets
    /\ cuts' = cuts + 1
    /\ up' = FALSE /\ toDev' = <<>> /\ toBack' \in {toBack, <<>>}
    /\ injections' = {} /\ injected' = {}
    /\ due' = [f \in Flags |-> 0]
    /\ UNCHANGED <<sensors, cli, detected, board, live, rows, clears>>

-----------------------------------------------------------------------------
(* Channel: frames in flight are lost with it.                             *)

Cut ==
    /\ up
    /\ clears + cuts < MaxUpsets
    /\ cuts' = cuts + 1
    /\ up' = FALSE /\ toDev' = <<>> /\ toBack' = <<>>
    /\ UNCHANGED <<deviceVars, rows, clears, due>>

Reconnect ==
    /\ ~up
    /\ up' = TRUE
    /\ UNCHANGED <<deviceVars, toDev, toBack, rows, clears, cuts, due>>

-----------------------------------------------------------------------------
(* Backend.                                                                *)

\* fault_inject: the row is stored first and stays when the device is not
\* connected (409).
PostFault(r) ==
    /\ Len(rows) < MaxRows
    /\ rows' = Append(rows, [set |-> r.set, ack |-> None])
    /\ toDev' = IF up THEN Append(toDev, [kind |-> "inject", set |-> r.set, clear |-> r.clear,
                                          dur |-> r.dur, row |-> Len(rows) + 1])
                ELSE toDev
    /\ UNCHANGED <<deviceVars, up, toBack, clears, cuts, due>>

\* device_cmd clear_faults
PostClear ==
    /\ up
    /\ clears + cuts < MaxUpsets
    /\ clears' = clears + 1
    /\ toDev' = Append(toDev, [kind |-> "clear_faults"])
    /\ UNCHANGED <<deviceVars, up, toBack, rows, cuts, due>>

\* Mutant of AckedRows: the ack is credited to the first row without one.
AckedRowsOldest(flags) ==
    LET open == {i \in DOMAIN rows : rows[i].ack = None}
    IN  [i \in DOMAIN rows |->
           IF i \in open /\ \A j \in open : i <= j THEN [rows[i] EXCEPT !.ack = flags] ELSE rows[i]]

\* fault_injection_ack: the newest row, whichever request the ack answers
AckedRows(flags) ==
    [i \in DOMAIN rows |-> IF i = Len(rows) THEN [rows[i] EXCEPT !.ack = flags] ELSE rows[i]]

FaultAck ==
    /\ toBack # <<>>
    /\ rows' = AckedRows(Head(toBack))
    /\ toBack' = Tail(toBack)
    /\ UNCHANGED <<deviceVars, up, toDev, clears, cuts, due>>

-----------------------------------------------------------------------------
Sooner(left) == IF left = None \/ left = 0 THEN left ELSE left - 1

PassTime ==
    /\ injections' = {[inj EXCEPT !.left = Sooner(@)] : inj \in injections}
    /\ due' = [f \in Flags |-> Sooner(due[f])]
    /\ UNCHANGED <<sensors, cli, injected, detected, board, live, linkVars, rows, clears, cuts>>
==============================================================================
