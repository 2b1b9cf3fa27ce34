---------------------------- MODULE ControlPlane -----------------------------
(***************************************************************************)
(* The control plane: one ECU agent (EcuAgent) and the backend (Ingest)    *)
(* over their TCP channel (ControlLink), an operator using the API, and an *)
(* environment that cuts connections and restarts either process.          *)
(***************************************************************************)
EXTENDS EcuAgent, Ingest

CONSTANTS
    MaxCmds,    \* bound: commands the operator sends
    MaxFaults   \* bound: cut links and process restarts

ASSUME BudgetAssumption == MaxCmds \in Nat /\ MaxFaults \in Nat

VARIABLES
    cmds,       \* commands sent so far
    faults      \* faults so far

vars == <<linkVars, agentVars, ingestVars, cmds, faults>>

TypeOK ==
    /\ LinkTypeOK
    /\ AgentTypeOK
    /\ IngestTypeOK
    /\ cmds \in Nat
    /\ faults \in Nat

Init == LinkInit /\ AgentInit /\ IngestInit /\ cmds = 0 /\ faults = 0

-----------------------------------------------------------------------------
(* Steps of the device.                                                    *)

TcpConnect(c) == TcpOnConnected(c) /\ Accept(c)

AgentStep ==
    /\ \/ TcpFail
       \/ RebootDone
       \/ SendHeartbeat
       \/ OtaProgress
       \/ OtaDone
       \/ HandleConfigSet
       \/ HandleFwUpdate
       \/ HandleReboot
       \/ HandleRequestHello
    /\ UNCHANGED <<handler, closing, broken, ingestVars>>

(* Steps of the backend: its handlers, and requests served.                *)
HandlerStep(c) ==
    /\ \/ DispatchHello(c)
       \/ DispatchHeartbeat(c)
       \/ DispatchConfigAck(c)
       \/ DispatchFwAck(c)
       \/ EndHandler(c)
    /\ UNCHANGED agentVars

Request ==
    /\ \/ \E ok \in BOOLEAN : PutConfig(ok)
       \/ \E target \in Targets : FirmwareDeploy(target)
    /\ UNCHANGED agentVars

\* UDP telemetry reaches the backend before the first HELLO does.
FirstTelemetry == ~known /\ ~rebooting /\ TelemetrySeen /\ UNCHANGED agentVars

Command ==
    /\ cmds < MaxCmds
    /\ cmds' = cmds + 1
    /\ \E code \in CmdCodes : DeviceCmd(code)
    /\ UNCHANGED <<agentVars, faults>>

(* The environment.                                                        *)
DeviceRestart == ProcessRestart /\ UNCHANGED <<handler, closing, broken, ingestVars>>

BackendFault ==
    /\ \/ BackendRestart
       \/ \E ok \in BOOLEAN : PutConfigInterrupted(ok)
       \/ \E target \in Targets : FirmwareDeployInterrupted(target)
    /\ UNCHANGED agentVars

LinkFault == \E c \in Conns : BreakLink(c) /\ UNCHANGED <<agentVars, ingestVars>>

Fault ==
    /\ faults < MaxFaults
    /\ faults' = faults + 1
    /\ DeviceRestart \/ BackendFault \/ LinkFault
    /\ UNCHANGED cmds

Next ==
    \/ (\E c \in Conns : TcpConnect(c)) /\ UNCHANGED <<cmds, faults>>
    \/ AgentStep /\ UNCHANGED <<cmds, faults>>
    \/ (\E c \in Conns : HandlerStep(c)) /\ UNCHANGED <<cmds, faults>>
    \/ Request /\ UNCHANGED <<cmds, faults>>
    \/ FirstTelemetry /\ UNCHANGED <<cmds, faults>>
    \/ Command
    \/ Fault

Spec == Init /\ [][Next]_vars

(***************************************************************************)
(* Fairness.  The agent's loop never blocks: it connects when it is        *)
(* disconnected, reads what has arrived and finishes a reboot or download. *)
(* The event loop resumes every handler whose connection has data or has   *)
(* ended.  Requests, commands and faults are not required to happen.       *)
(***************************************************************************)
Fairness ==
    /\ WF_vars((\E c \in Conns : TcpConnect(c)) /\ UNCHANGED <<cmds, faults>>)
    /\ WF_vars((TcpFail \/ RebootDone \/ OtaDone \/ HandleConfigSet
                  \/ HandleFwUpdate \/ HandleReboot \/ HandleRequestHello)
               /\ UNCHANGED <<handler, closing, broken, ingestVars, cmds, faults>>)
    /\ \A c \in Conns : WF_vars(HandlerStep(c) /\ UNCHANGED <<cmds, faults>>)

FairSpec == Spec /\ Fairness

-----------------------------------------------------------------------------
(* The writer registry.                                                    *)

\* The registry names the live connection: a registered writer has a running
\* handler that nobody has closed, and every other registered handler has had
\* its writer closed.  This is what the identity test in _handle_tcp's finally
\* block and the closing of the old writer in _register are for.
RegistryConsistent ==
    /\ writers # None => handler[writers] = "reg" /\ writers \notin closing
    /\ \A c \in Conns : handler[c] = "reg" => c = writers \/ c \in closing
    /\ \A c \in closing : handler[c] = "reg"

-----------------------------------------------------------------------------
(* Configuration.                                                          *)

\* The channel is up and idle: the device's connection is the registered one,
\* and nothing is in flight in either direction.
Drained ==
    /\ conn # None
    /\ conn = writers
    /\ conn \notin broken
    /\ d2b[conn] = <<>>
    /\ b2d[conn] = <<>>

\* The newest stored configuration is one the device could not have by itself.
Pushable == HasConfig /\ CurrentConfig.ver > BootCfg

\* Whatever was cut, restarted, queued or re-sent before, once the channel is
\* idle the device runs the newest stored configuration, or has rejected it and
\* the row says so (_after_hello re-pushes, push_config and the ack update the row).
DrainedConfigInSync ==
    Drained /\ Pushable =>
        IF CurrentConfig.ok
        THEN cfg = [ver |-> CurrentConfig.ver, pushed |-> TRUE]
        ELSE CurrentConfig.ack = "rejected"

ProcessRestarts == DeviceRestart /\ faults' > faults

\* A running device never goes back to an older configuration version, although
\* handleConfigSet itself takes any version: only a process restart does.
ConfigNeverRegresses == [][ProcessRestarts \/ cfg'.ver >= cfg.ver]_vars

\* A stored valid configuration is eventually running on the device, unless a
\* newer one replaces it.
Wanted(v) == Pushable /\ CurrentConfig.ver = v /\ CurrentConfig.ok

ConfigConverges ==
    \A v \in (BootCfg + 1) .. (BootCfg + MaxConfigs) :
        Wanted(v) ~> (~Wanted(v) \/ cfg = [ver |-> v, pushed |-> TRUE])

\* A row as the service promises it: whether it is waiting, queued or sent is the
\* backend's own business.
Row(row) ==
    [ver |-> row.ver, ok |-> row.ok,
     answer |-> IF row.ack \in {"applied", "rejected"} THEN row.ack ELSE "none"]

Rows == [i \in DOMAIN configs |-> Row(configs[i])]

Service == INSTANCE ConfigService WITH rows <- Rows, running <- cfg

\* Table, channel and agent together implement the configuration service: the device
\* runs only valid stored configurations, newer and newer until it is restarted, and
\* an answer a row carries is the device's verdict on that very row, kept until the
\* row is pushed again (new_config, push_config, _after_hello, CONFIG_ACK,
\* handleConfigSet).
ImplementsConfigService == Service!Spec

-----------------------------------------------------------------------------
(* Firmware updates.                                                       *)

\* A running device never boots a firmware older than the one it runs, across
\* any mix of jobs, re-pushed updates, reboots and lost connections.
FirmwareNeverDowngraded == [][ProcessRestarts \/ fw' >= fw]_vars

\* A download lives on a channel and a pending firmware on a reboot: neither
\* survives the loss of what it depends on (tcpFail, startReboot, run).
OtaPhases ==
    /\ ota # None => conn # None /\ pendingFw = None
    /\ rebooting => conn = None
    /\ pendingFw # None => rebooting /\ ParseFwVersion(pendingFw) >= fw

\* A finished job stays finished: a late FW_ACK or HELLO never reopens it, and
\* rows of superseded jobs never change again.
FinishedJobsStay ==
    [][\A i \in DOMAIN jobs :
         i # Len(jobs) \/ jobs[i].status \in Terminal => jobs'[i] = jobs[i]]_vars

Started(n) == Len(jobs) = n /\ LatestJob.status \in {"accepted", "downloading"}

\* A job known to be under way when the device is off the channel (lost
\* connection, reboot, restart) is not forgotten: HELLO re-pushes it or finds it
\* done until the device has reported an outcome, or a newer job replaces it.
InterruptedJobGetsOutcome ==
    \A n \in 1 .. MaxJobs : (Started(n) /\ conn = None) ~> ~Started(n)

-----------------------------------------------------------------------------
(* What the documents say and the code does not do.                        *)

\* backend/README.md: on HELLO "an unfinished OTA job is resumed".  On an idle
\* channel an unfinished job would then be in progress on the device.
UnfinishedJobResumed == Drained /\ JobUnfinished => ota # None
==============================================================================
