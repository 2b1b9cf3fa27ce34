------------------------- MODULE ControlPlane_proofs -------------------------
(***************************************************************************)
(* Proofs about ControlPlane for every set of connections, every set of    *)
(* deployable versions and every bound: its types, the writer registry,    *)
(* the phases of an update, the history of jobs and of configurations, and *)
(* that the newest configuration reaches the device and never goes back.   *)
(* Each safety theorem rests on TypeCorrect; the lemmas follow the shape   *)
(* of Next (agent, handlers, requests, commands, faults, connecting).      *)
(***************************************************************************)
EXTENDS ControlPlane, TLAPS

USE DEF FwAckStatus, CmdCodes

\* Sending from the device keeps the queues towards the backend well typed.
LEMMA DeviceSendsType ==
    ASSUME LinkTypeOK, NEW c \in Conns, NEW ms \in Seq(DeviceFrames)
    PROVE  DeviceSends(c, ms) \in [Conns -> Seq(DeviceFrames)]
BY DEF LinkTypeOK, DeviceSends

\* Writing to any writer, or to none, keeps the queues towards the device well typed.
LEMMA BackendSendsType ==
    ASSUME LinkTypeOK, NEW w \in Conns \cup {None}, NEW ms \in Seq(BackendFrames)
    PROVE  BackendSends(w, ms) \in [Conns -> Seq(BackendFrames)]
BY DEF LinkTypeOK, BackendSends

\* Every frame constructor, given typed fields, builds a frame of its direction.
LEMMA FrameTypes ==
    /\ \A v \in Nat, f \in FwString : Hello(v, f) \in DeviceFrames
    /\ \A v \in Nat : Heartbeat(v) \in DeviceFrames
    /\ \A v \in Nat, s \in {"applied", "rejected"} : ConfigAck(v, s) \in DeviceFrames
    /\ \A s \in FwAckStatus : FwAck(s) \in DeviceFrames
    /\ \A v \in Nat, ok \in BOOLEAN : ConfigSet(v, ok) \in BackendFrames
    /\ \A t \in FwString : FwUpdate(t) \in BackendFrames
    /\ \A k \in CmdCodes : Cmd(k) \in BackendFrames
BY DEF Hello, Heartbeat, ConfigAck, FwAck, ConfigSet, FwUpdate, Cmd,
       DeviceFrames, BackendFrames

\* The HELLO a typed agent sends is a device frame.
LEMMA HelloFrameType ==
    ASSUME AgentTypeOK PROVE HelloFrame \in DeviceFrames
BY DEF AgentTypeOK, HelloFrame, Hello, FwVersionToString, FwString, DeviceFrames

\* The frame the device reads next is a backend frame, so its fields have their types.
LEMMA InFrameTypes ==
    ASSUME LinkTypeOK, conn \in Conns, b2d[conn] # <<>>
    PROVE  /\ InFrame \in BackendFrames
           /\ Consumed \in [Conns -> Seq(BackendFrames)]
<1>1. b2d[conn] \in Seq(BackendFrames)
  BY DEF LinkTypeOK
<1>2. Head(b2d[conn]) \in BackendFrames /\ Tail(b2d[conn]) \in Seq(BackendFrames)
  BY <1>1
<1>3. QED
  BY <1>2 DEF LinkTypeOK, InFrame, Consumed

\* The frame a handler reads next is a device frame, so its fields have their types.
LEMMA OutFrameTypes ==
    ASSUME LinkTypeOK, NEW c \in Conns, d2b[c] # <<>>
    PROVE  /\ OutFrame(c) \in DeviceFrames
           /\ [d2b EXCEPT ![c] = Tail(@)] \in [Conns -> Seq(DeviceFrames)]
<1>1. d2b[c] \in Seq(DeviceFrames)
  BY DEF LinkTypeOK
<1>2. Head(d2b[c]) \in DeviceFrames /\ Tail(d2b[c]) \in Seq(DeviceFrames)
  BY <1>1
<1>3. QED
  BY <1>2 DEF LinkTypeOK, OutFrame

-----------------------------------------------------------------------------
\* Every handler of the agent's loop preserves the types of the device and the link.
LEMMA AgentStepType ==
    ASSUME TypeOK, AgentStep
    PROVE  LinkTypeOK' /\ AgentTypeOK' /\ IngestTypeOK'
<1> USE DEF TypeOK, LinkTypeOK, AgentTypeOK, IngestTypeOK, ingestVars, agentVars
<1>0. LinkTypeOK /\ AgentTypeOK
  OBVIOUS
<1>f. \A s \in FwAckStatus : <<FwAck(s)>> \in Seq(DeviceFrames)
  BY FrameTypes
<1>1. CASE TcpFail
  BY <1>1 DEF AgentStep, TcpFail, DeviceCloses
<1>2. CASE RebootDone
  BY <1>2 DEF AgentStep, RebootDone, ParseFwVersion, FwString
<1>3. CASE SendHeartbeat
  <2>1. <<Heartbeat(cfg.ver)>> \in Seq(DeviceFrames)
    BY FrameTypes
  <2> QED
    BY <1>3, <2>1, DeviceSendsType, <1>0 DEF AgentStep, SendHeartbeat
<1>4. CASE OtaProgress
  BY <1>4, <1>f, DeviceSendsType, <1>0 DEF AgentStep, OtaProgress
<1>5. CASE OtaDone
  <2>1. d2b' \in [Conns -> Seq(DeviceFrames)]
    BY <1>5, <1>f, DeviceSendsType, <1>0 DEF OtaDone
  <2>2. conn' = None /\ b2d' \in [Conns -> Seq(BackendFrames)]
    BY <1>5 DEF OtaDone, StartReboot, DeviceCloses
  <2>3. AgentTypeOK'
    BY <1>5 DEF OtaDone, StartReboot
  <2>4. IngestTypeOK' /\ UNCHANGED <<handler, closing, broken>>
    BY DEF AgentStep
  <2> QED
    BY <2>1, <2>2, <2>3, <2>4
<1>6. CASE HandleConfigSet
  <2>1. conn \in Conns /\ b2d[conn] # <<>> /\ InFrame.type = "CONFIG_SET"
    BY <1>6 DEF HandleConfigSet, Receives, InFrame
  <2>2. InFrame \in BackendFrames /\ Consumed \in [Conns -> Seq(BackendFrames)]
    BY <2>1, InFrameTypes, <1>0
  <2>3. InFrame.ver \in Nat /\ InFrame.ok \in BOOLEAN
    BY <2>1, <2>2 DEF BackendFrames
  <2>4. <<ConfigAck(InFrame.ver, IF InFrame.ok THEN "applied" ELSE "rejected")>> \in Seq(DeviceFrames)
    BY <2>3, FrameTypes
  <2>5. d2b' \in [Conns -> Seq(DeviceFrames)]
    BY <1>6, <2>1, <2>4, DeviceSendsType, <1>0 DEF HandleConfigSet
  <2> QED
    BY <1>6, <2>2, <2>3, <2>5 DEF AgentStep, HandleConfigSet
<1>7. CASE HandleFwUpdate
  <2>1. conn \in Conns /\ b2d[conn] # <<>> /\ InFrame.type = "FW_UPDATE"
    BY <1>7 DEF HandleFwUpdate, Receives, InFrame
  <2>2. InFrame \in BackendFrames /\ Consumed \in [Conns -> Seq(BackendFrames)]
    BY <2>1, InFrameTypes, <1>0
  <2>3. InFrame.target \in FwString
    BY <2>1, <2>2 DEF BackendFrames
  <2>4. <<FwAck("accepted"), FwAck("downloading")>> \in Seq(DeviceFrames)
    BY FrameTypes
  <2>5. d2b' \in [Conns -> Seq(DeviceFrames)]
    BY <1>7, <1>f, <2>1, <2>4, DeviceSendsType, <1>0 DEF HandleFwUpdate
  <2> QED
    BY <1>7, <2>2, <2>3, <2>5 DEF AgentStep, HandleFwUpdate
<1>8. CASE HandleReboot
  BY <1>8 DEF AgentStep, HandleReboot, StartReboot, DeviceCloses
<1>9. CASE HandleRequestHello
  <2>1. conn \in Conns /\ b2d[conn] # <<>>
    BY <1>9 DEF HandleRequestHello, Receives
  <2>2. <<HelloFrame>> \in Seq(DeviceFrames)
    BY <1>0, HelloFrameType
  <2> QED
    BY <1>9, <2>1, <2>2, InFrameTypes, DeviceSendsType, <1>0 DEF AgentStep, HandleRequestHello
<1>10. QED
  BY <1>1, <1>2, <1>3, <1>4, <1>5, <1>6, <1>7, <1>8, <1>9 DEF AgentStep

\* Acknowledging a configuration or updating the newest job keeps the tables typed.
LEMMA RowsType ==
    ASSUME IngestTypeOK
    PROVE  /\ HasConfig => CurrentConfig \in ConfigRow
           /\ jobs # <<>> => LatestJob \in JobRow
           /\ NewVersion \in Nat
           /\ \A v \in Nat, st \in AckStatus : AckConfig(configs, v, st) \in Seq(ConfigRow)
           /\ \A st \in JobStatus : jobs # <<>> => UpdateLatestJob(st) \in Seq(JobRow)
<1>1. HasConfig => CurrentConfig \in ConfigRow
  BY DEF IngestTypeOK, HasConfig, CurrentConfig
<1>2. jobs # <<>> => LatestJob \in JobRow
  BY DEF IngestTypeOK, LatestJob
<1>3. NewVersion \in Nat
  BY <1>1 DEF IngestTypeOK, NewVersion, ConfigRow
<1>4. ASSUME NEW v \in Nat, NEW st \in AckStatus
      PROVE  AckConfig(configs, v, st) \in Seq(ConfigRow)
  <2>1. configs \in [1 .. Len(configs) -> ConfigRow] /\ Len(configs) \in Nat
    BY DEF IngestTypeOK
  <2>2. \A i \in DOMAIN configs : [configs[i] EXCEPT !.ack = st] \in ConfigRow
    BY <2>1 DEF ConfigRow
  <2>3. AckConfig(configs, v, st) \in [1 .. Len(configs) -> ConfigRow]
    BY <2>1, <2>2 DEF AckConfig
  <2>4. QED
    BY <2>1, <2>3
<1>5. ASSUME NEW st \in JobStatus, jobs # <<>>
      PROVE  UpdateLatestJob(st) \in Seq(JobRow)
  <2>1. jobs \in [1 .. Len(jobs) -> JobRow] /\ Len(jobs) \in Nat \ {0}
    BY <1>5 DEF IngestTypeOK
  <2>2. [jobs[Len(jobs)] EXCEPT !.status = st] \in JobRow
    BY <2>1 DEF JobRow
  <2>3. UpdateLatestJob(st) \in [1 .. Len(jobs) -> JobRow]
    BY <2>1, <2>2 DEF UpdateLatestJob
  <2>4. QED
    BY <2>1, <2>3
<1>6. QED
  BY <1>1, <1>2, <1>3, <1>4, <1>5

\* What _after_hello pushes is a sequence of backend frames.
LEMMA AfterHelloFramesType ==
    ASSUME IngestTypeOK, NEW h
    PROVE  AfterHelloFrames(h) \in Seq(BackendFrames)
<1>1. ConfigStale(h) => <<ConfigSet(CurrentConfig.ver, CurrentConfig.ok)>> \in Seq(BackendFrames)
  BY RowsType, FrameTypes DEF ConfigStale, ConfigRow
<1>2. JobResumed(h) => <<FwUpdate(LatestJob.target)>> \in Seq(BackendFrames)
  BY RowsType, FrameTypes DEF JobResumed, JobUnfinished, JobRow
<1>3. QED
  BY <1>1, <1>2 DEF AfterHelloFrames

\* What Register leaves of the link and the registry.
LEMMA RegisterType ==
    ASSUME TypeOK, NEW c \in Conns, handler[c] # "none", d2b[c] # <<>>, Register(c)
    PROVE  /\ writers' \in Conns \cup {None}
           /\ conn' \in Conns \cup {None}
           /\ handler' \in [Conns -> {"none", "new", "reg"}]
           /\ closing' \in SUBSET Conns
           /\ broken' \in SUBSET Conns
           /\ d2b' \in [Conns -> Seq(DeviceFrames)]
<1> USE DEF TypeOK, LinkTypeOK, IngestTypeOK
<1>1. d2b' \in [Conns -> Seq(DeviceFrames)]
  BY OutFrameTypes DEF Register
<1>2. QED
  BY <1>1 DEF Register, WriterAfter

\* Dispatching any frame, or ending a handler, preserves the types.
LEMMA HandlerStepType ==
    ASSUME TypeOK, NEW c \in Conns, HandlerStep(c)
    PROVE  LinkTypeOK' /\ AgentTypeOK' /\ IngestTypeOK'
<1>0. LinkTypeOK /\ AgentTypeOK /\ IngestTypeOK
  BY DEF TypeOK
<1>a. AgentTypeOK'
  BY <1>0 DEF HandlerStep, AgentTypeOK, agentVars
<1>1. CASE DispatchHello(c)
  <2>1. handler[c] # "none" /\ d2b[c] # <<>> /\ OutFrame(c).type = "HELLO" /\ Register(c)
    BY <1>1 DEF DispatchHello, Gets
  <2>2. OutFrame(c) \in DeviceFrames
    BY <2>1, <1>0, OutFrameTypes
  <2>3. OutFrame(c).ver \in Nat
    BY <2>1, <2>2 DEF DeviceFrames
  <2>4. configs' \in Seq(ConfigRow)
    <3>1. PICK ok \in SendResults(WriterAfter(c)) :
            configs' = IF ConfigStale(OutFrame(c))
                       THEN AckConfig(configs, CurrentConfig.ver, Pushed(ok))
                       ELSE configs
      BY <1>1 DEF DispatchHello
    <3>2. Pushed(ok) \in AckStatus
      BY DEF Pushed, AckStatus
    <3>3. ConfigStale(OutFrame(c)) => CurrentConfig.ver \in Nat
      BY <1>0, RowsType DEF ConfigStale, ConfigRow
    <3>4. QED
      BY <3>1, <3>2, <3>3, <1>0, RowsType DEF IngestTypeOK
  <2>5. jobs' \in Seq(JobRow)
    BY <1>1, <1>0, RowsType DEF DispatchHello, JobReached, JobUnfinished, JobStatus,
       Terminal, IngestTypeOK
  <2>6. b2d' \in [Conns -> Seq(BackendFrames)]
    <3>1. WriterAfter(c) \in Conns \cup {None}
      BY <1>0 DEF WriterAfter, IngestTypeOK
    <3>2. QED
      BY <1>1, <1>0, <3>1, AfterHelloFramesType, BackendSendsType DEF DispatchHello
  <2>7. known' \in BOOLEAN /\ reported' \in Nat
    BY <1>1, <2>3 DEF DispatchHello
  <2>8. QED
    BY <2>1, <2>4, <2>5, <2>6, <2>7, <1>a, RegisterType DEF LinkTypeOK, IngestTypeOK
<1>2. CASE DispatchHeartbeat(c)
  <2>1. handler[c] # "none" /\ d2b[c] # <<>> /\ OutFrame(c).type = "HEARTBEAT" /\ Register(c)
    BY <1>2 DEF DispatchHeartbeat, Gets
  <2>2. OutFrame(c).ver \in Nat
    BY <2>1, <1>0, OutFrameTypes DEF DeviceFrames
  <2>3. known' \in BOOLEAN /\ reported' \in Nat /\ UNCHANGED <<configs, jobs, b2d>>
    BY <1>2, <2>2 DEF DispatchHeartbeat
  <2>4. QED
    BY <2>1, <2>3, <1>0, <1>a, RegisterType DEF LinkTypeOK, IngestTypeOK
<1>3. CASE DispatchConfigAck(c)
  <2>1. handler[c] # "none" /\ d2b[c] # <<>> /\ OutFrame(c).type = "CONFIG_ACK" /\ Register(c)
    BY <1>3 DEF DispatchConfigAck, Gets
  <2>2. OutFrame(c).ver \in Nat /\ OutFrame(c).status \in {"applied", "rejected"}
    BY <2>1, <1>0, OutFrameTypes DEF DeviceFrames
  <2>3. configs' \in Seq(ConfigRow)
    BY <1>3, <2>2, <1>0, RowsType DEF DispatchConfigAck, AckStatus
  <2>4. reported' \in Nat /\ UNCHANGED <<jobs, b2d>>
    BY <1>3, <2>2, <1>0 DEF DispatchConfigAck, IngestTypeOK
  <2>k. known' \in BOOLEAN
    BY <1>3 DEF DispatchConfigAck
  <2>5. QED
    BY <2>1, <2>3, <2>4, <2>k, <1>0, <1>a, RegisterType DEF LinkTypeOK, IngestTypeOK
<1>4. CASE DispatchFwAck(c)
  <2>1. handler[c] # "none" /\ d2b[c] # <<>> /\ OutFrame(c).type = "FW_ACK" /\ Register(c)
    BY <1>4 DEF DispatchFwAck, Gets
  <2>2. OutFrame(c).status \in JobStatus
    BY <2>1, <1>0, OutFrameTypes DEF DeviceFrames, JobStatus
  <2>3. jobs' \in Seq(JobRow)
    BY <1>4, <2>2, <1>0, RowsType DEF DispatchFwAck, JobUnfinished, IngestTypeOK
  <2>4. UNCHANGED <<known, reported, configs, b2d>>
    BY <1>4 DEF DispatchFwAck
  <2>5. QED
    BY <2>1, <2>3, <2>4, <1>0, <1>a, RegisterType DEF LinkTypeOK, IngestTypeOK
<1>5. CASE EndHandler(c)
  BY <1>5, <1>0, <1>a DEF EndHandler, LinkTypeOK, IngestTypeOK
<1>6. QED
  BY <1>1, <1>2, <1>3, <1>4, <1>5 DEF HandlerStep

\* The rows put_config and firmware_deploy insert have the tables' types.
LEMMA NewRowTypes ==
    ASSUME IngestTypeOK
    PROVE  /\ \A ok \in BOOLEAN, a \in AckStatus : NewConfigRow(ok, a) \in Seq(ConfigRow)
           /\ \A t \in Targets, st \in JobStatus :
                Append(jobs, [target |-> t, status |-> st]) \in Seq(JobRow)
<1>1. ASSUME NEW ok \in BOOLEAN, NEW a \in AckStatus
      PROVE  NewConfigRow(ok, a) \in Seq(ConfigRow)
  <2>1. [ver |-> NewVersion, ok |-> ok, ack |-> a] \in ConfigRow
    BY RowsType DEF ConfigRow
  <2>2. QED
    BY <2>1 DEF NewConfigRow, IngestTypeOK
<1>2. ASSUME NEW t \in Targets, NEW st \in JobStatus
      PROVE  Append(jobs, [target |-> t, status |-> st]) \in Seq(JobRow)
  <2>1. [target |-> t, status |-> st] \in JobRow
    BY BoundsAssumption DEF JobRow
  <2>2. QED
    BY <2>1 DEF IngestTypeOK
<1>3. QED
  BY <1>1, <1>2

\* Serving put_config or firmware_deploy preserves the types.
LEMMA RequestType ==
    ASSUME TypeOK, Request
    PROVE  LinkTypeOK' /\ AgentTypeOK' /\ IngestTypeOK'
<1>0. LinkTypeOK /\ AgentTypeOK /\ IngestTypeOK
  BY DEF TypeOK
<1>a. AgentTypeOK'
  BY <1>0 DEF Request, AgentTypeOK, agentVars
<1>1. ASSUME NEW ok \in BOOLEAN, PutConfig(ok)
      PROVE  LinkTypeOK' /\ IngestTypeOK'
  <2>1. configs' \in Seq(ConfigRow)
    BY <1>0, <1>1, NewRowTypes DEF PutConfig, Pushed, AckStatus
  <2>2. <<ConfigSet(NewVersion, ok)>> \in Seq(BackendFrames)
    BY <1>0, RowsType, FrameTypes
  <2>3. b2d' \in [Conns -> Seq(BackendFrames)]
    BY <1>0, <1>1, <2>2, BackendSendsType DEF PutConfig, IngestTypeOK
  <2>4. QED
    BY <1>0, <1>1, <2>1, <2>3 DEF PutConfig, LinkTypeOK, IngestTypeOK
<1>2. ASSUME NEW t \in Targets, FirmwareDeploy(t)
      PROVE  LinkTypeOK' /\ IngestTypeOK'
  <2>1. jobs' \in Seq(JobRow)
    BY <1>0, <1>2, NewRowTypes DEF FirmwareDeploy, Pushed, JobStatus
  <2>2. <<FwUpdate(t)>> \in Seq(BackendFrames)
    BY BoundsAssumption, FrameTypes
  <2>3. b2d' \in [Conns -> Seq(BackendFrames)]
    BY <1>0, <1>2, <2>2, BackendSendsType DEF FirmwareDeploy, IngestTypeOK
  <2>4. QED
    BY <1>0, <1>2, <2>1, <2>3 DEF FirmwareDeploy, LinkTypeOK, IngestTypeOK
<1>3. QED
  BY <1>a, <1>1, <1>2 DEF Request

\* Serving device_cmd preserves the types.
LEMMA CommandType ==
    ASSUME TypeOK, Command
    PROVE  TypeOK'
<1>0. LinkTypeOK /\ AgentTypeOK /\ IngestTypeOK
  BY DEF TypeOK
<1>1. PICK k \in CmdCodes : DeviceCmd(k)
  BY DEF Command
<1>2. b2d' \in [Conns -> Seq(BackendFrames)]
  <2>1. <<Cmd(k)>> \in Seq(BackendFrames)
    BY FrameTypes
  <2>2. QED
    BY <1>0, <1>1, <2>1, BackendSendsType DEF DeviceCmd, IngestTypeOK
<1>3. UNCHANGED <<conn, handler, closing, broken, d2b>> /\ UNCHANGED ingestVars
  BY <1>1 DEF DeviceCmd
<1>4. LinkTypeOK'
  BY <1>0, <1>2, <1>3 DEF LinkTypeOK
<1>5. AgentTypeOK' /\ IngestTypeOK'
  BY <1>0, <1>3 DEF Command, ingestVars, agentVars, AgentTypeOK, IngestTypeOK
<1>6. QED
  BY <1>4, <1>5 DEF Command, TypeOK

\* A restart of either process, or a cut link, preserves the types.
LEMMA FaultType ==
    ASSUME TypeOK, Fault
    PROVE  TypeOK'
<1>0. LinkTypeOK /\ AgentTypeOK /\ IngestTypeOK
  BY DEF TypeOK
<1>1. CASE DeviceRestart
  <2>1. AgentTypeOK'
    BY <1>1, BootAssumption DEF DeviceRestart, ProcessRestart, Booted, AgentTypeOK
  <2>2. LinkTypeOK'
    BY <1>0, <1>1 DEF DeviceRestart, ProcessRestart, DeviceCloses, LinkTypeOK
  <2>3. IngestTypeOK'
    BY <1>0, <1>1 DEF DeviceRestart, ingestVars, IngestTypeOK
  <2>4. QED
    BY <2>1, <2>2, <2>3 DEF Fault, TypeOK
<1>2. CASE BackendFault
  <2>1. Stopped => LinkTypeOK' /\ writers' = None
    BY <1>0 DEF Stopped, LinkTypeOK
  <2>2. CASE BackendRestart
    BY <1>0, <1>2, <2>1, <2>2 DEF BackendFault, BackendRestart, agentVars, TypeOK, AgentTypeOK,
       IngestTypeOK, Fault
  <2>3. ASSUME NEW ok \in BOOLEAN, PutConfigInterrupted(ok)
        PROVE  TypeOK'
    <3>1. configs' \in Seq(ConfigRow)
      BY <1>0, <2>3, NewRowTypes DEF PutConfigInterrupted, AckStatus
    <3>2. QED
      BY <1>0, <1>2, <2>1, <2>3, <3>1 DEF BackendFault, PutConfigInterrupted, agentVars, TypeOK,
         AgentTypeOK, IngestTypeOK, Fault
  <2>4. ASSUME NEW t \in Targets, FirmwareDeployInterrupted(t)
        PROVE  TypeOK'
    <3>1. jobs' \in Seq(JobRow)
      BY <1>0, <2>4, NewRowTypes DEF FirmwareDeployInterrupted, JobStatus
    <3>2. QED
      BY <1>0, <1>2, <2>1, <2>4, <3>1 DEF BackendFault, FirmwareDeployInterrupted, agentVars,
         TypeOK, AgentTypeOK, IngestTypeOK, Fault
  <2>5. QED
    BY <1>2, <2>2, <2>3, <2>4 DEF BackendFault
<1>3. CASE LinkFault
  BY <1>0, <1>3 DEF LinkFault, BreakLink, agentVars, ingestVars, TypeOK, LinkTypeOK,
     AgentTypeOK, IngestTypeOK, Fault
<1>4. QED
  BY <1>1, <1>2, <1>3 DEF Fault

\* A new connection preserves the types.
LEMMA ConnectType ==
    ASSUME TypeOK, NEW c \in Conns, TcpConnect(c)
    PROVE  LinkTypeOK' /\ AgentTypeOK' /\ IngestTypeOK'
<1>0. LinkTypeOK /\ AgentTypeOK /\ IngestTypeOK
  BY DEF TypeOK
<1>1. <<HelloFrame>> \in Seq(DeviceFrames)
  BY <1>0, HelloFrameType
<1>2. d2b' \in [Conns -> Seq(DeviceFrames)] /\ b2d' \in [Conns -> Seq(BackendFrames)]
  BY <1>0, <1>1 DEF TcpConnect, TcpOnConnected, LinkTypeOK
<1>3. QED
  BY <1>0, <1>2 DEF TcpConnect, TcpOnConnected, Accept, agentVars, ingestVars, LinkTypeOK,
     AgentTypeOK, IngestTypeOK

\* The initial state is well typed.
LEMMA TypeInit == Init => TypeOK
<1> SUFFICES ASSUME Init PROVE TypeOK
  OBVIOUS
<1>1. LinkTypeOK
  BY DEF Init, LinkInit, LinkTypeOK
<1>2. AgentTypeOK
  BY BootAssumption DEF Init, AgentInit, AgentTypeOK
<1>3. IngestTypeOK
  <2>1. configs \in Seq(ConfigRow) /\ jobs \in Seq(JobRow)
    BY DEF Init, IngestInit
  <2>2. writers \in Conns \cup {None} /\ reported \in Nat
    BY DEF Init, IngestInit
  <2>3. known \in BOOLEAN
    BY DEF Init, IngestInit
  <2>4. QED
    BY <2>1, <2>2, <2>3 DEF IngestTypeOK
<1>4. QED
  BY <1>1, <1>2, <1>3 DEF Init, TypeOK

\* TypeOK is inductive.
LEMMA TypeStep == TypeOK /\ [Next]_vars => TypeOK'
<1> SUFFICES ASSUME TypeOK, [Next]_vars PROVE TypeOK'
  OBVIOUS
<1>0. LinkTypeOK /\ AgentTypeOK /\ IngestTypeOK /\ cmds \in Nat /\ faults \in Nat
  BY DEF TypeOK
<1>1. CASE (\E c \in Conns : TcpConnect(c)) /\ UNCHANGED <<cmds, faults>>
  BY <1>0, <1>1, ConnectType DEF TypeOK
<1>2. CASE AgentStep /\ UNCHANGED <<cmds, faults>>
  BY <1>0, <1>2, AgentStepType DEF TypeOK
<1>3. CASE (\E c \in Conns : HandlerStep(c)) /\ UNCHANGED <<cmds, faults>>
  BY <1>0, <1>3, HandlerStepType DEF TypeOK
<1>4. CASE Request /\ UNCHANGED <<cmds, faults>>
  BY <1>0, <1>4, RequestType DEF TypeOK
<1>5. CASE FirstTelemetry /\ UNCHANGED <<cmds, faults>>
  BY <1>0, <1>5 DEF FirstTelemetry, TelemetrySeen, linkVars, agentVars, TypeOK, LinkTypeOK,
     AgentTypeOK, IngestTypeOK
<1>6. CASE Command
  BY <1>6, CommandType
<1>7. CASE Fault
  BY <1>7, FaultType
<1>8. CASE UNCHANGED vars
  BY <1>0, <1>8 DEF vars, linkVars, agentVars, ingestVars, TypeOK, LinkTypeOK, AgentTypeOK,
     IngestTypeOK
<1>9. QED
  BY <1>1, <1>2, <1>3, <1>4, <1>5, <1>6, <1>7, <1>8 DEF Next

\* Every variable of the control plane keeps its type, for any number of
\* connections, rows, commands and faults.
THEOREM TypeCorrect == Spec => []TypeOK
<1>1. QED
  BY TypeInit, TypeStep, PTL DEF Spec

-----------------------------------------------------------------------------
(* The writer registry.                                                    *)

\* _register keeps the registry consistent: the writer it replaces is closed.
LEMMA RegistryRegister ==
    ASSUME TypeOK, RegistryConsistent, NEW c \in Conns, handler[c] # "none", Register(c)
    PROVE  RegistryConsistent'
<1> USE DEF TypeOK, LinkTypeOK, IngestTypeOK, RegistryConsistent, Register, WriterAfter
<1>1. CASE handler[c] = "new"
  BY <1>1, ConnsAssumption
<1>2. CASE handler[c] = "reg"
  BY <1>2, ConnsAssumption
<1>3. QED
  BY <1>1, <1>2

\* RegistryConsistent is inductive given the types.
LEMMA RegistryStep == TypeOK /\ RegistryConsistent /\ [Next]_vars => RegistryConsistent'
<1> SUFFICES ASSUME TypeOK, RegistryConsistent, [Next]_vars PROVE RegistryConsistent'
  OBVIOUS
<1>0. UNCHANGED <<handler, closing, writers>> => RegistryConsistent'
  BY DEF RegistryConsistent
<1>1. ASSUME NEW c \in Conns, TcpConnect(c) PROVE RegistryConsistent'
  BY <1>1, ConnsAssumption DEF TcpConnect, Accept, Free, ingestVars, TypeOK, LinkTypeOK,
     IngestTypeOK, RegistryConsistent
<1>2. CASE AgentStep
  BY <1>0, <1>2 DEF AgentStep, ingestVars
<1>3. ASSUME NEW c \in Conns, HandlerStep(c) PROVE RegistryConsistent'
  <2>1. CASE EndHandler(c)
    BY <2>1, ConnsAssumption DEF EndHandler, TypeOK, LinkTypeOK, IngestTypeOK, RegistryConsistent
  <2>2. CASE ~EndHandler(c)
    <3>1. handler[c] # "none" /\ Register(c)
      BY <1>3, <2>2 DEF HandlerStep, DispatchHello, DispatchHeartbeat, DispatchConfigAck,
         DispatchFwAck, Gets
    <3>2. QED
      BY <3>1, RegistryRegister
  <2>3. QED
    BY <2>1, <2>2
<1>4. CASE Request
  BY <1>0, <1>4 DEF Request, PutConfig, FirmwareDeploy
<1>5. CASE FirstTelemetry
  BY <1>0, <1>5 DEF FirstTelemetry, TelemetrySeen, linkVars
<1>6. CASE Command
  BY <1>0, <1>6 DEF Command, DeviceCmd, ingestVars
<1>7. CASE Fault
  <2>1. Stopped => RegistryConsistent'
    BY DEF Stopped, RegistryConsistent
  <2>2. CASE DeviceRestart
    BY <1>0, <2>2 DEF DeviceRestart, ingestVars
  <2>3. CASE BackendFault
    BY <2>1, <2>3 DEF BackendFault, BackendRestart, PutConfigInterrupted,
       FirmwareDeployInterrupted
  <2>4. CASE LinkFault
    BY <1>0, <2>4 DEF LinkFault, BreakLink, ingestVars
  <2>5. QED
    BY <1>7, <2>2, <2>3, <2>4 DEF Fault
<1>8. CASE UNCHANGED vars
  BY <1>0, <1>8 DEF vars, linkVars, ingestVars
<1>9. QED
  BY <1>1, <1>2, <1>3, <1>4, <1>5, <1>6, <1>7, <1>8 DEF Next

\* The writer registry names the live connection in every reachable state, for
\* any number of connections: RegistryConsistent is inductive given the types.
THEOREM RegistryAlwaysConsistent == Spec => []RegistryConsistent
<1>1. Init => RegistryConsistent
  BY DEF Init, LinkInit, IngestInit, RegistryConsistent
<1>2. QED
  BY <1>1, RegistryStep, TypeCorrect, PTL DEF Spec

-----------------------------------------------------------------------------
(* Firmware updates.                                                       *)

\* OtaPhases with the fact that carries it over the end of a download: what is
\* being downloaded is not older than what runs.
OtaInv ==
    /\ OtaPhases
    /\ ota # None => ParseFwVersion(ota) >= fw

\* The agent's own steps preserve OtaInv, the strengthened phase invariant.
LEMMA OtaAgentStep ==
    ASSUME TypeOK, OtaInv, AgentStep
    PROVE  OtaInv' /\ fw' >= fw
<1> USE DEF TypeOK, LinkTypeOK, AgentTypeOK, OtaInv, OtaPhases, ParseFwVersion, FwString
<1>1. CASE TcpFail
  BY <1>1 DEF TcpFail, DeviceCloses
<1>2. CASE RebootDone
  BY <1>2 DEF RebootDone
<1>3. CASE SendHeartbeat \/ OtaProgress \/ HandleRequestHello
  BY <1>3 DEF SendHeartbeat, OtaProgress, HandleRequestHello, agentVars
<1>4. CASE OtaDone
  BY <1>4 DEF OtaDone, StartReboot, DeviceCloses
<1>5. CASE HandleConfigSet
  BY <1>5 DEF HandleConfigSet
<1>6. CASE HandleFwUpdate
  BY <1>6 DEF HandleFwUpdate, FwAcceptable, Receives
<1>7. CASE HandleReboot
  <2>1. conn # None
    BY <1>7 DEF HandleReboot, Receives
  <2>2. QED
    BY <1>7, <2>1 DEF HandleReboot, StartReboot, DeviceCloses
<1>8. QED
  BY <1>1, <1>2, <1>3, <1>4, <1>5, <1>6, <1>7 DEF AgentStep

\* OtaInv is inductive given the types.
LEMMA OtaStep ==
    TypeOK /\ OtaInv /\ [Next]_vars => OtaInv' /\ (ProcessRestarts \/ fw' >= fw)
<1> SUFFICES ASSUME TypeOK, OtaInv, [Next]_vars
             PROVE  OtaInv' /\ (ProcessRestarts \/ fw' >= fw)
  OBVIOUS
<1>0. UNCHANGED <<conn, agentVars>> => OtaInv' /\ fw' >= fw
  BY DEF agentVars, OtaInv, OtaPhases, TypeOK, AgentTypeOK
<1>1. ASSUME NEW c \in Conns, TcpConnect(c) PROVE OtaInv' /\ fw' >= fw
  BY <1>1, ConnsAssumption DEF TcpConnect, TcpOnConnected, agentVars, OtaInv, OtaPhases, TypeOK,
     AgentTypeOK
<1>2. CASE AgentStep
  BY <1>2, OtaAgentStep
<1>3. ASSUME NEW c \in Conns, HandlerStep(c) PROVE OtaInv' /\ fw' >= fw
  BY <1>0, <1>3 DEF HandlerStep, DispatchHello, DispatchHeartbeat, DispatchConfigAck,
     DispatchFwAck, EndHandler, Register
<1>4. CASE Request
  BY <1>0, <1>4 DEF Request, PutConfig, FirmwareDeploy
<1>5. CASE FirstTelemetry
  BY <1>0, <1>5 DEF FirstTelemetry, TelemetrySeen, linkVars
<1>6. CASE Command
  BY <1>0, <1>6 DEF Command, DeviceCmd
<1>7. CASE Fault
  <2>1. CASE DeviceRestart
    <3>1. ProcessRestarts
      BY <1>7, <2>1 DEF ProcessRestarts, Fault, TypeOK
    <3>2. OtaInv'
      BY <2>1 DEF DeviceRestart, ProcessRestart, Booted, OtaInv, OtaPhases
    <3>3. QED
      BY <3>1, <3>2
  <2>2. CASE BackendFault
    BY <1>0, <2>2 DEF BackendFault, BackendRestart, PutConfigInterrupted,
       FirmwareDeployInterrupted, Stopped
  <2>3. CASE LinkFault
    BY <1>0, <2>3 DEF LinkFault, BreakLink
  <2>4. QED
    BY <1>7, <2>1, <2>2, <2>3 DEF Fault
<1>8. CASE UNCHANGED vars
  BY <1>0, <1>8 DEF vars, linkVars
<1>9. QED
  BY <1>1, <1>2, <1>3, <1>4, <1>5, <1>6, <1>7, <1>8 DEF Next

\* OtaInv holds in every reachable state.
LEMMA OtaInvariant == Spec => []OtaInv
<1>1. Init => OtaInv
  BY DEF Init, LinkInit, AgentInit, OtaInv, OtaPhases
<1>2. QED
  BY <1>1, OtaStep, TypeCorrect, PTL DEF Spec

\* A download never outlives its channel, nor a pending firmware its reboot, for
\* any set of deployable versions and any number of jobs and faults.
THEOREM OtaPhasesHold == Spec => []OtaPhases
<1>1. OtaInv => OtaPhases
  BY DEF OtaInv
<1>2. QED
  BY <1>1, OtaInvariant, PTL

\* No sequence of updates, reboots and lost connections takes a running device
\* to an older firmware.
THEOREM NoDowngrade == Spec => FirmwareNeverDowngraded
<1>1. TypeOK /\ OtaInv /\ [Next]_vars => [ProcessRestarts \/ fw' >= fw]_vars
  BY OtaStep
<1>2. QED
  BY <1>1, OtaInvariant, TypeCorrect, PTL DEF Spec, FirmwareNeverDowngraded

\* What a step may do to fw_jobs: nothing, append a row, or change the status of
\* the newest row, and the last only while that row is unfinished.
LEMMA JobsStep ==
    ASSUME TypeOK, [Next]_vars
    PROVE  \/ UNCHANGED jobs
           \/ \E row \in JobRow : jobs' = Append(jobs, row)
           \/ JobUnfinished /\ \E st \in JobStatus : jobs' = UpdateLatestJob(st)
<1>1. ASSUME NEW c \in Conns, HandlerStep(c)
      PROVE  \/ UNCHANGED jobs
             \/ JobUnfinished /\ \E st \in JobStatus : jobs' = UpdateLatestJob(st)
  <2>1. CASE DispatchHello(c)
    BY <2>1 DEF DispatchHello, JobReached, JobStatus, Terminal
  <2>2. CASE DispatchFwAck(c)
    <3>1. OutFrame(c).status \in JobStatus
      BY <2>2, OutFrameTypes DEF TypeOK, DispatchFwAck, Gets, DeviceFrames, JobStatus
    <3>2. QED
      BY <2>2, <3>1 DEF DispatchFwAck
  <2>3. QED
    BY <1>1, <2>1, <2>2 DEF HandlerStep, DispatchHeartbeat, DispatchConfigAck, EndHandler
<1>2. \A t \in Targets, st \in JobStatus : [target |-> t, status |-> st] \in JobRow
  BY BoundsAssumption DEF JobRow
<1>3. ASSUME NEW t \in Targets, FirmwareDeploy(t) \/ FirmwareDeployInterrupted(t)
      PROVE  \E row \in JobRow : jobs' = Append(jobs, row)
  BY <1>2, <1>3 DEF FirmwareDeploy, FirmwareDeployInterrupted, Pushed, JobStatus
<1>4. CASE AgentStep \/ \E c \in Conns : TcpConnect(c)
  BY <1>4 DEF AgentStep, TcpConnect, Accept, ingestVars
<1>5. CASE Request
  BY <1>3, <1>5 DEF Request, PutConfig
<1>6. CASE FirstTelemetry \/ Command
  BY <1>6 DEF FirstTelemetry, TelemetrySeen, Command, DeviceCmd, ingestVars
<1>7. CASE Fault
  <2>1. CASE BackendFault
    BY <1>3, <2>1 DEF BackendFault, BackendRestart, PutConfigInterrupted
  <2>2. CASE DeviceRestart \/ LinkFault
    BY <2>2 DEF DeviceRestart, LinkFault, ingestVars
  <2>3. QED
    BY <1>7, <2>1, <2>2 DEF Fault
<1>8. CASE UNCHANGED vars
  BY <1>8 DEF vars, ingestVars
<1>9. QED
  BY <1>1, <1>4, <1>5, <1>6, <1>7, <1>8 DEF Next

\* Finished and superseded jobs never change, for any number of jobs.
THEOREM FinishedJobsAreFinal == Spec => FinishedJobsStay
<1>1. ASSUME TypeOK, [Next]_vars
      PROVE  \A i \in DOMAIN jobs :
               i # Len(jobs) \/ jobs[i].status \in Terminal => jobs'[i] = jobs[i]
  <2>0. jobs \in Seq(JobRow)
    BY <1>1 DEF TypeOK, IngestTypeOK
  <2>1. CASE \E row \in JobRow : jobs' = Append(jobs, row)
    BY <2>0, <2>1
  <2>2. CASE JobUnfinished /\ \E st \in JobStatus : jobs' = UpdateLatestJob(st)
    BY <2>0, <2>2 DEF JobUnfinished, LatestJob, UpdateLatestJob
  <2>3. QED
    BY <1>1, <2>1, <2>2, JobsStep
<1>2. QED
  BY <1>1, TypeCorrect, PTL DEF Spec, FinishedJobsStay

-----------------------------------------------------------------------------
(* Configuration versions.                                                 *)

\* new_config never reuses a version, whatever stale version was last reported:
\* rows are in strictly increasing version order (device_config is UNIQUE on it).
VersionsIncrease ==
    \A i, j \in DOMAIN configs : i < j => configs[i].ver < configs[j].ver

\* An ack changes the status of rows, never their number or their versions.
LEMMA AckConfigKeepsVersions ==
    ASSUME IngestTypeOK, NEW v, NEW st
    PROVE  /\ DOMAIN AckConfig(configs, v, st) = DOMAIN configs
           /\ \A i \in DOMAIN configs : AckConfig(configs, v, st)[i].ver = configs[i].ver
BY DEF IngestTypeOK, AckConfig, ConfigRow

\* What a step may do to device_config: nothing, acknowledge rows, or append one
\* with the version NewVersion.
LEMMA ConfigsStep ==
    ASSUME TypeOK, [Next]_vars
    PROVE  \/ UNCHANGED configs
           \/ \E v, st : configs' = AckConfig(configs, v, st)
           \/ \E ok, a : configs' = NewConfigRow(ok, a)
<1>1. CASE AgentStep \/ \E c \in Conns : TcpConnect(c)
  BY <1>1 DEF AgentStep, TcpConnect, Accept, ingestVars
<1>2. ASSUME NEW c \in Conns, HandlerStep(c)
      PROVE  UNCHANGED configs \/ \E v, st : configs' = AckConfig(configs, v, st)
  BY <1>2 DEF HandlerStep, DispatchHello, DispatchHeartbeat, DispatchConfigAck, DispatchFwAck,
     EndHandler
<1>3. CASE Request
  BY <1>3 DEF Request, PutConfig, FirmwareDeploy
<1>4. CASE FirstTelemetry \/ Command
  BY <1>4 DEF FirstTelemetry, TelemetrySeen, Command, DeviceCmd, ingestVars
<1>5. CASE Fault
  <2>1. CASE BackendFault
    BY <2>1 DEF BackendFault, BackendRestart, PutConfigInterrupted, FirmwareDeployInterrupted
  <2>2. CASE DeviceRestart \/ LinkFault
    BY <2>2 DEF DeviceRestart, LinkFault, ingestVars
  <2>3. QED
    BY <1>5, <2>1, <2>2 DEF Fault
<1>6. CASE UNCHANGED vars
  BY <1>6 DEF vars, ingestVars
<1>7. QED
  BY <1>1, <1>2, <1>3, <1>4, <1>5, <1>6 DEF Next

\* new_config: the version of a new row is above every stored one.
LEMMA NewVersionAbove ==
    ASSUME TypeOK, VersionsIncrease
    PROVE  /\ NewVersion \in Nat
           /\ \A i \in DOMAIN configs : configs[i].ver \in Nat /\ configs[i].ver < NewVersion
<1>0. IngestTypeOK /\ configs \in Seq(ConfigRow) /\ reported \in Nat
  BY DEF TypeOK, IngestTypeOK
<1>1. ASSUME HasConfig PROVE CurrentConfig.ver \in Nat
  <2>1. Len(configs) \in DOMAIN configs
    BY <1>0, <1>1 DEF HasConfig
  <2>2. CurrentConfig \in ConfigRow
    BY <1>0, <2>1 DEF CurrentConfig
  <2>3. QED
    BY <2>2 DEF ConfigRow
<1>2. NewVersion \in Nat
  BY <1>0, <1>1 DEF NewVersion
<1>3. ASSUME NEW i \in DOMAIN configs
      PROVE  configs[i].ver \in Nat /\ configs[i].ver < NewVersion
  <2>1. Len(configs) \in DOMAIN configs /\ i \in 1 .. Len(configs) /\ HasConfig
    BY <1>0 DEF HasConfig
  <2>2. configs[i] \in ConfigRow /\ CurrentConfig \in ConfigRow
    BY <1>0, <2>1 DEF CurrentConfig
  <2>3. configs[i].ver \in Nat /\ CurrentConfig.ver \in Nat
    BY <2>2 DEF ConfigRow
  <2>4. configs[i].ver <= CurrentConfig.ver
    BY <2>1, <2>3 DEF VersionsIncrease, CurrentConfig
  <2>5. QED
    BY <1>0, <2>1, <2>3, <2>4 DEF NewVersion
<1>4. QED
  BY <1>2, <1>3

\* VersionsIncrease is inductive: NewVersion is above the last row's version.
LEMMA VersionsStep == TypeOK /\ VersionsIncrease /\ [Next]_vars => VersionsIncrease'
<1> SUFFICES ASSUME TypeOK, VersionsIncrease, [Next]_vars PROVE VersionsIncrease'
  OBVIOUS
<1>0. IngestTypeOK /\ configs \in Seq(ConfigRow)
  BY DEF TypeOK, IngestTypeOK
<1>1. CASE UNCHANGED configs
  BY <1>1 DEF VersionsIncrease
<1>2. ASSUME NEW v, NEW st, configs' = AckConfig(configs, v, st) PROVE VersionsIncrease'
  BY <1>0, <1>2, AckConfigKeepsVersions DEF VersionsIncrease
<1>3. ASSUME NEW ok, NEW a, configs' = NewConfigRow(ok, a) PROVE VersionsIncrease'
  <2>1. \A i \in DOMAIN configs : configs[i].ver \in Nat /\ configs[i].ver < NewVersion
    BY NewVersionAbove
  <2>2. QED
    BY <1>0, <1>3, <2>1 DEF NewConfigRow, VersionsIncrease
<1>4. QED
  BY <1>1, <1>2, <1>3, ConfigsStep

\* new_config never reuses a version, whatever the device last reported.
THEOREM VersionsAlwaysIncrease == Spec => []VersionsIncrease
<1>1. Init => VersionsIncrease
  BY DEF Init, IngestInit, VersionsIncrease
<1>2. QED
  BY <1>1, VersionsStep, TypeCorrect, PTL DEF Spec

-----------------------------------------------------------------------------
(* What the device and the queues know of the stored configurations.       *)

\* device_config has a row of version v, which the device accepts iff ok.
Stored(v, ok) == \E k \in DOMAIN configs : configs[k].ver = v /\ configs[k].ok = ok

\* What a step may never do to a stored configuration: lose it.
StaysStored == \A v, ok : Stored(v, ok) => Stored(v, ok)'

\* A frame from the device reports no version below the one it booted with, and
\* an ack answers a stored configuration the way the device treats it.
TrueReport(m) ==
    /\ m.type \in {"HELLO", "HEARTBEAT"} => m.ver >= BootCfg
    /\ m.type = "CONFIG_ACK" =>
          /\ m.ver > BootCfg
          /\ m.status = "applied" => Stored(m.ver, TRUE)
          /\ m.status = "rejected" => Stored(m.ver, FALSE)

Reports == \A c \in Conns : \A i \in DOMAIN d2b[c] : TrueReport(d2b[c][i])

\* The first frame of a connection is a HELLO.  Until it is dispatched nothing has
\* been pushed on that connection, so it still tells what the device runs.
FirstIsHello ==
    \A c \in Conns : handler[c] = "new" =>
        /\ d2b[c] # <<>> /\ d2b[c][1].type = "HELLO"
        /\ c = conn => d2b[c][1].ver = cfg.ver /\ b2d[c] = <<>>

\* With a registered writer, devices.reported_config_version came from the device.
ReportedKnown == writers # None => reported >= BootCfg

\* The device runs its boot configuration or a stored one that was pushed.
Running ==
    /\ cfg.ver >= BootCfg
    /\ cfg.ver > BootCfg => cfg.pushed /\ Stored(cfg.ver, TRUE)

IsPush(m) == m.type = "CONFIG_SET"

\* The CONFIG_SETs on their way are stored configurations, in version order, and
\* none is older than what the device runs.
Queued ==
    conn # None =>
        /\ \A i \in DOMAIN b2d[conn] : IsPush(b2d[conn][i]) =>
              /\ b2d[conn][i].ver > BootCfg /\ b2d[conn][i].ver >= cfg.ver
              /\ Stored(b2d[conn][i].ver, b2d[conn][i].ok)
        /\ \A i, j \in DOMAIN b2d[conn] :
              i < j /\ IsPush(b2d[conn][i]) /\ IsPush(b2d[conn][j]) =>
                 b2d[conn][i].ver <= b2d[conn][j].ver

\* The device's connection is the registered one and sound.
Sound == conn # None /\ conn = writers /\ conn \notin broken

\* On a sound connection the newest stored configuration is on its way, or runs, or
\* is rejected and its row says so or will when the ack is dispatched.
Synced ==
    \/ cfg.ver = CurrentConfig.ver
    \/ \E i \in DOMAIN b2d[conn] : IsPush(b2d[conn][i]) /\ b2d[conn][i].ver = CurrentConfig.ver
    \/ /\ ~CurrentConfig.ok
       /\ \/ CurrentConfig.ack = "rejected"
          \/ \E i \in DOMAIN d2b[conn] :
                d2b[conn][i].type = "CONFIG_ACK" /\ d2b[conn][i].ver = CurrentConfig.ver

InSync == Sound /\ Pushable => Synced

ConfigInv == Reports /\ FirstIsHello /\ ReportedKnown /\ Running /\ Queued /\ InSync

\* The elements of a tail are those of the sequence, one place further.
LEMMA TailElements ==
    ASSUME NEW S, NEW s \in Seq(S), s # <<>>
    PROVE  /\ 1 \in DOMAIN s /\ Head(s) = s[1]
           /\ \A i \in DOMAIN Tail(s) : i + 1 \in DOMAIN s /\ Tail(s)[i] = s[i + 1]
           /\ \A i \in DOMAIN s : i # 1 => i - 1 \in DOMAIN Tail(s) /\ Tail(s)[i - 1] = s[i]
           /\ \A i \in DOMAIN s : i \in Nat
           /\ \A i \in DOMAIN Tail(s) : i \in Nat
<1>1. Len(s) \in Nat \ {0} /\ DOMAIN s = 1 .. Len(s)
  OBVIOUS
<1>2. Tail(s) \in Seq(S) /\ Len(Tail(s)) = Len(s) - 1 /\ DOMAIN Tail(s) = 1 .. Len(s) - 1
  BY <1>1
<1>3. \A i \in 1 .. Len(s) - 1 : Tail(s)[i] = s[i + 1]
  BY <1>1
<1>4. QED
  BY <1>1, <1>2, <1>3

\* The elements of a concatenation are those of its two parts.
LEMMA CatElements ==
    ASSUME NEW S, NEW s \in Seq(S), NEW t \in Seq(S)
    PROVE  /\ \A i \in DOMAIN s : i \in DOMAIN (s \o t) /\ (s \o t)[i] = s[i]
           /\ \A i \in DOMAIN t : Len(s) + i \in DOMAIN (s \o t) /\ (s \o t)[Len(s) + i] = t[i]
           /\ \A i \in DOMAIN (s \o t) : i \notin DOMAIN s =>
                i - Len(s) \in DOMAIN t /\ (s \o t)[i] = t[i - Len(s)]
<1>1. Len(s) \in Nat /\ DOMAIN s = 1 .. Len(s) /\ Len(t) \in Nat /\ DOMAIN t = 1 .. Len(t)
  OBVIOUS
<1>2. s \o t \in Seq(S) /\ Len(s \o t) = Len(s) + Len(t) /\ DOMAIN (s \o t) = 1 .. Len(s) + Len(t)
  BY <1>1
<1>3. \A i \in 1 .. Len(s) + Len(t) : (s \o t)[i] = IF i <= Len(s) THEN s[i] ELSE t[i - Len(s)]
  BY <1>1
<1>4. QED
  BY <1>1, <1>2, <1>3

\* A stored configuration stays stored: acks change only the status of a row.
LEMMA StoredStays ==
    ASSUME TypeOK, [Next]_vars
    PROVE  StaysStored
<1> SUFFICES \A v, ok : Stored(v, ok) => Stored(v, ok)'
  BY DEF StaysStored
<1>0. configs \in Seq(ConfigRow)
  BY DEF TypeOK, IngestTypeOK
<1>1. CASE UNCHANGED configs
  BY <1>1 DEF Stored
<1>2. ASSUME NEW w, NEW st, configs' = AckConfig(configs, w, st)
      PROVE  \A v, ok : Stored(v, ok) => Stored(v, ok)'
  <2>1. /\ DOMAIN configs' = DOMAIN configs
        /\ \A k \in DOMAIN configs : configs'[k].ver = configs[k].ver /\ configs'[k].ok = configs[k].ok
    BY <1>0, <1>2 DEF AckConfig, ConfigRow
  <2>2. QED
    BY <2>1 DEF Stored
<1>3. ASSUME NEW o, NEW a, configs' = NewConfigRow(o, a)
      PROVE  \A v, ok : Stored(v, ok) => Stored(v, ok)'
  <2>1. \A k \in DOMAIN configs : k \in DOMAIN configs' /\ configs'[k] = configs[k]
    BY <1>0, <1>3 DEF NewConfigRow
  <2>2. QED
    BY <2>1 DEF Stored
<1>4. QED
  BY <1>1, <1>2, <1>3, ConfigsStep

\* No stored version is above the newest row's, and that row alone has its version.
LEMMA StoredBelow ==
    ASSUME TypeOK, VersionsIncrease, NEW v, NEW ok, Stored(v, ok)
    PROVE  /\ HasConfig /\ CurrentConfig \in ConfigRow /\ CurrentConfig.ver \in Nat
           /\ v \in Nat /\ v <= CurrentConfig.ver
           /\ v = CurrentConfig.ver => ok = CurrentConfig.ok
<1>0. configs \in Seq(ConfigRow)
  BY DEF TypeOK, IngestTypeOK
<1>1. PICK k \in DOMAIN configs : configs[k].ver = v /\ configs[k].ok = ok
  BY DEF Stored
<1>2. Len(configs) \in DOMAIN configs /\ k \in 1 .. Len(configs) /\ Len(configs) \in Nat /\ HasConfig
  BY <1>0, <1>1 DEF HasConfig
<1>3. configs[k] \in ConfigRow /\ CurrentConfig \in ConfigRow
  BY <1>0, <1>2 DEF CurrentConfig
<1>4. v \in Nat /\ CurrentConfig.ver \in Nat
  BY <1>1, <1>3 DEF ConfigRow
<1>5. k = Len(configs) \/ v < CurrentConfig.ver
  BY <1>1, <1>2 DEF VersionsIncrease, CurrentConfig
<1>6. k = Len(configs) => v = CurrentConfig.ver /\ ok = CurrentConfig.ok
  BY <1>1 DEF CurrentConfig
<1>7. QED
  BY <1>2, <1>3, <1>4, <1>5, <1>6

\* The newest row is stored.
LEMMA CurrentStored ==
    ASSUME TypeOK, HasConfig PROVE Stored(CurrentConfig.ver, CurrentConfig.ok)
<1>1. Len(configs) \in DOMAIN configs
  BY DEF TypeOK, IngestTypeOK, HasConfig
<1>2. QED
  BY <1>1 DEF Stored, CurrentConfig

\* What the device sends adds true reports at the end of its queue and changes
\* nothing before them.
LEMMA AgentSends ==
    ASSUME TypeOK, Reports, conn \in Conns, NEW ms \in Seq(DeviceFrames),
           \A k \in DOMAIN ms : TrueReport(ms[k]),
           d2b' = DeviceSends(conn, ms), UNCHANGED configs
    PROVE  /\ Reports'
           /\ \A c \in Conns : \A i \in DOMAIN d2b[c] : i \in DOMAIN d2b'[c] /\ d2b'[c][i] = d2b[c][i]
           /\ BackendReads(conn) =>
                \A k \in DOMAIN ms : \E i \in DOMAIN d2b'[conn] : d2b'[conn][i] = ms[k]
<1>0. d2b \in [Conns -> Seq(DeviceFrames)]
  BY DEF TypeOK, LinkTypeOK
<1>1. \A m : TrueReport(m) => TrueReport(m)'
  BY DEF TrueReport, Stored
<1>2. CASE ~BackendReads(conn)
  BY <1>1, <1>2 DEF DeviceSends, Reports
<1>3. CASE BackendReads(conn)
  <2>1. /\ d2b'[conn] = d2b[conn] \o ms /\ d2b[conn] \in Seq(DeviceFrames)
        /\ \A c \in Conns : c # conn => d2b'[c] = d2b[c]
    BY <1>0, <1>3 DEF DeviceSends
  <2>2. /\ \A i \in DOMAIN d2b[conn] : i \in DOMAIN d2b'[conn] /\ d2b'[conn][i] = d2b[conn][i]
        /\ \A k \in DOMAIN ms : \E i \in DOMAIN d2b'[conn] : d2b'[conn][i] = ms[k]
        /\ \A i \in DOMAIN d2b'[conn] : i \notin DOMAIN d2b[conn] =>
             \E k \in DOMAIN ms : d2b'[conn][i] = ms[k]
    <3> DEFINE s == d2b[conn]
               q == d2b'[conn]
    <3>0. s \in Seq(DeviceFrames) /\ q = s \o ms
      BY <2>1
    <3> HIDE DEF s, q
    <3>1. /\ q = s \o ms
          /\ \A i \in DOMAIN s : i \in DOMAIN (s \o ms) /\ (s \o ms)[i] = s[i]
          /\ \A i \in DOMAIN ms : Len(s) + i \in DOMAIN (s \o ms) /\ (s \o ms)[Len(s) + i] = ms[i]
          /\ \A i \in DOMAIN (s \o ms) : i \notin DOMAIN s =>
               i - Len(s) \in DOMAIN ms /\ (s \o ms)[i] = ms[i - Len(s)]
      BY <3>0, CatElements
    <3>2. \A k \in DOMAIN ms : \E i \in DOMAIN q : q[i] = ms[k]
      BY <3>1, Zenon
    <3>3. \A i \in DOMAIN q : i \notin DOMAIN s => \E k \in DOMAIN ms : q[i] = ms[k]
      BY <3>1, Zenon
    <3>4. \A i \in DOMAIN s : i \in DOMAIN q /\ q[i] = s[i]
      BY <3>1, Zenon
    <3>5. QED
      BY <3>2, <3>3, <3>4 DEF s, q
  <2>3. ASSUME NEW c \in Conns, NEW i \in DOMAIN d2b'[c] PROVE TrueReport(d2b[c][i])'
    BY <1>1, <2>1, <2>2, <2>3 DEF Reports
  <2>4. QED
    BY <2>1, <2>2, <2>3 DEF Reports
<1>4. QED
  BY <1>2, <1>3

\* The device reads one frame: what stays in the queue is in order as before.
LEMMA AgentConsumes ==
    ASSUME TypeOK, conn \in Conns, b2d[conn] # <<>>, b2d' = Consumed
    PROVE  /\ InFrame = b2d[conn][1] /\ 1 \in DOMAIN b2d[conn] /\ InFrame \in BackendFrames
           /\ \A i \in DOMAIN b2d'[conn] :
                i \in Nat /\ i + 1 \in DOMAIN b2d[conn] /\ b2d'[conn][i] = b2d[conn][i + 1]
           /\ \A i \in DOMAIN b2d[conn] : i # 1 =>
                i - 1 \in DOMAIN b2d'[conn] /\ b2d'[conn][i - 1] = b2d[conn][i]
<1>1. b2d[conn] \in Seq(BackendFrames) /\ b2d'[conn] = Tail(b2d[conn])
  BY DEF TypeOK, LinkTypeOK, Consumed
<1>2. InFrame \in BackendFrames
  BY InFrameTypes DEF TypeOK
<1>3. QED
  BY <1>1, <1>2, TailElements DEF InFrame

\* The agent's sends and closes keep the device's part of the invariant.
LEMMA ConfigAgentKeeps ==
    ASSUME TypeOK, ConfigInv, UNCHANGED <<handler, broken, ingestVars, cfg>>,
           Reports',
           \A c \in Conns : \A i \in DOMAIN d2b[c] : i \in DOMAIN d2b'[c] /\ d2b'[c][i] = d2b[c][i],
           conn' = None \/ UNCHANGED <<conn, b2d>>
    PROVE  ConfigInv'
<1>0. d2b \in [Conns -> Seq(DeviceFrames)]
  BY DEF TypeOK, LinkTypeOK
<1>1. FirstIsHello'
  <2>1. SUFFICES ASSUME NEW c \in Conns, handler[c] = "new"
                 PROVE  /\ d2b'[c] # <<>> /\ d2b'[c][1].type = "HELLO"
                        /\ c = conn' => d2b'[c][1].ver = cfg.ver /\ b2d'[c] = <<>>
    BY DEF FirstIsHello
  <2>2. /\ d2b[c] # <<>> /\ d2b[c][1].type = "HELLO"
        /\ c = conn => d2b[c][1].ver = cfg.ver /\ b2d[c] = <<>>
    BY <2>1 DEF ConfigInv, FirstIsHello
  <2>3. 1 \in DOMAIN d2b[c]
    BY <1>0, <2>2, TailElements
  <2>4. 1 \in DOMAIN d2b'[c] /\ d2b'[c][1] = d2b[c][1]
    BY <2>3
  <2>5. d2b'[c] # <<>>
    BY <2>4
  <2>6. QED
    BY <2>2, <2>4, <2>5, ConnsAssumption
<1>2. ReportedKnown' /\ Running'
  BY DEF ConfigInv, ReportedKnown, Running, Stored, ingestVars
<1>3. Queued'
  BY DEF ConfigInv, Queued, Stored, ingestVars
<1>4. InSync'
  <2>1. SUFFICES ASSUME (Sound /\ Pushable)' PROVE Synced'
    BY DEF InSync
  <2>2. UNCHANGED <<conn, b2d, configs>> /\ Sound /\ Pushable
    BY <2>1 DEF Sound, Pushable, HasConfig, CurrentConfig, ingestVars
  <2>3. Synced /\ conn \in Conns
    BY <2>2 DEF ConfigInv, InSync, Sound, TypeOK, LinkTypeOK
  <2>4. QED
    BY <2>2, <2>3 DEF Synced, CurrentConfig
<1>5. QED
  BY <1>1, <1>2, <1>3, <1>4 DEF ConfigInv

\* Handling a frame that is not a CONFIG_SET keeps the invariant: pushes behind it
\* move up, and its answer is a true report.
LEMMA ConfigOtherFrame ==
    ASSUME TypeOK, ConfigInv, conn \in Conns, b2d[conn] # <<>>, b2d' = Consumed,
           ~IsPush(InFrame), UNCHANGED <<conn, handler, broken, ingestVars, cfg>>,
           NEW ms \in Seq(DeviceFrames), \A k \in DOMAIN ms : TrueReport(ms[k]),
           d2b' = DeviceSends(conn, ms)
    PROVE  ConfigInv'
<1>0. d2b \in [Conns -> Seq(DeviceFrames)]
  BY DEF TypeOK, LinkTypeOK
<1>1. /\ Reports'
      /\ \A c \in Conns : \A i \in DOMAIN d2b[c] : i \in DOMAIN d2b'[c] /\ d2b'[c][i] = d2b[c][i]
  BY AgentSends DEF ConfigInv, ingestVars
<1>2. /\ InFrame = b2d[conn][1] /\ 1 \in DOMAIN b2d[conn]
      /\ \A i \in DOMAIN b2d'[conn] :
           i \in Nat /\ i + 1 \in DOMAIN b2d[conn] /\ b2d'[conn][i] = b2d[conn][i + 1]
      /\ \A i \in DOMAIN b2d[conn] : i # 1 =>
           i - 1 \in DOMAIN b2d'[conn] /\ b2d'[conn][i - 1] = b2d[conn][i]
  BY AgentConsumes
<1>3. FirstIsHello'
  <2>1. SUFFICES ASSUME NEW c \in Conns, handler[c] = "new"
                 PROVE  /\ d2b'[c] # <<>> /\ d2b'[c][1].type = "HELLO"
                        /\ c # conn
    BY DEF FirstIsHello
  <2>2. d2b[c] # <<>> /\ d2b[c][1].type = "HELLO" /\ c # conn
    BY <2>1 DEF ConfigInv, FirstIsHello
  <2>3. 1 \in DOMAIN d2b[c]
    BY <1>0, <2>2, TailElements
  <2>4. 1 \in DOMAIN d2b'[c] /\ d2b'[c][1] = d2b[c][1]
    BY <1>1, <2>3
  <2>5. QED
    BY <2>2, <2>4
<1>4. ReportedKnown' /\ Running'
  BY DEF ConfigInv, ReportedKnown, Running, Stored, ingestVars
<1>5. Queued'
  <2>1. conn # None /\ Queued
    BY ConnsAssumption DEF ConfigInv
  <2>2. ASSUME NEW i \in DOMAIN b2d'[conn], IsPush(b2d'[conn][i])
        PROVE  /\ b2d'[conn][i].ver > BootCfg /\ b2d'[conn][i].ver >= cfg.ver
               /\ Stored(b2d'[conn][i].ver, b2d'[conn][i].ok)
    BY <1>2, <2>1, <2>2 DEF Queued
  <2>3. ASSUME NEW i \in DOMAIN b2d'[conn], NEW j \in DOMAIN b2d'[conn], i < j,
               IsPush(b2d'[conn][i]), IsPush(b2d'[conn][j])
        PROVE  b2d'[conn][i].ver <= b2d'[conn][j].ver
    <3>1. i + 1 < j + 1 /\ i + 1 \in DOMAIN b2d[conn] /\ j + 1 \in DOMAIN b2d[conn]
      BY <1>2, <2>3
    <3>2. QED
      BY <1>2, <2>1, <2>3, <3>1 DEF Queued
  <2>4. QED
    BY <2>2, <2>3 DEF Queued, Stored, IsPush, ingestVars
<1>6. InSync'
  <2>1. SUFFICES ASSUME (Sound /\ Pushable)' PROVE Synced'
    BY DEF InSync
  <2>2. UNCHANGED <<conn, configs>> /\ Sound /\ Pushable
    BY <2>1 DEF Sound, Pushable, HasConfig, CurrentConfig, ingestVars
  <2>3. Synced
    BY <2>2 DEF ConfigInv, InSync
  <2>4. CASE \E i \in DOMAIN b2d[conn] : IsPush(b2d[conn][i]) /\ b2d[conn][i].ver = CurrentConfig.ver
    <3>1. PICK i \in DOMAIN b2d[conn] : IsPush(b2d[conn][i]) /\ b2d[conn][i].ver = CurrentConfig.ver
      BY <2>4
    <3>2. i - 1 \in DOMAIN b2d'[conn] /\ b2d'[conn][i - 1] = b2d[conn][i]
      BY <1>2, <3>1
    <3>3. QED
      BY <2>2, <3>1, <3>2 DEF Synced, CurrentConfig, IsPush
  <2>5. QED
    BY <1>1, <2>2, <2>3, <2>4 DEF Synced, CurrentConfig
<1>7. QED
  BY <1>1, <1>3, <1>4, <1>5, <1>6 DEF ConfigInv

\* handleConfigSet keeps the invariant and takes the device forward: the frame is
\* stored and not older than what runs, and what is queued behind it is not older
\* than the frame.
LEMMA ConfigHandled ==
    ASSUME TypeOK, RegistryConsistent, VersionsIncrease, ConfigInv, HandleConfigSet,
           UNCHANGED <<handler, broken, ingestVars>>
    PROVE  ConfigInv' /\ cfg'.ver >= cfg.ver
<1> DEFINE f == InFrame
           ack == ConfigAck(f.ver, IF f.ok THEN "applied" ELSE "rejected")
<1>0. /\ conn \in Conns /\ conn # None /\ b2d[conn] # <<>> /\ f.type = "CONFIG_SET"
      /\ UNCHANGED <<conn, configs, writers, reported>>
      /\ d2b \in [Conns -> Seq(DeviceFrames)] /\ cfg.ver \in Nat /\ BootCfg \in Nat
  BY BootAssumption, ConnsAssumption DEF HandleConfigSet, Receives, InFrame, TypeOK, LinkTypeOK,
     AgentTypeOK, ingestVars
<1>1. /\ f = b2d[conn][1] /\ 1 \in DOMAIN b2d[conn] /\ f \in BackendFrames
      /\ \A i \in DOMAIN b2d'[conn] :
           i \in Nat /\ i + 1 \in DOMAIN b2d[conn] /\ b2d'[conn][i] = b2d[conn][i + 1]
      /\ \A i \in DOMAIN b2d[conn] : i # 1 =>
           i - 1 \in DOMAIN b2d'[conn] /\ b2d'[conn][i - 1] = b2d[conn][i]
  BY <1>0, AgentConsumes DEF HandleConfigSet
<1>2. f.ver \in Nat /\ f.ok \in BOOLEAN
  BY <1>0, <1>1 DEF BackendFrames
<1>3. f.ver > BootCfg /\ f.ver >= cfg.ver /\ Stored(f.ver, f.ok)
  BY <1>0, <1>1 DEF ConfigInv, Queued, IsPush
<1>4. cfg' = IF f.ok THEN [ver |-> f.ver, pushed |-> TRUE] ELSE cfg
  BY DEF HandleConfigSet
<1>5. cfg'.ver \in Nat /\ cfg'.ver >= cfg.ver /\ cfg'.ver <= f.ver
  BY <1>0, <1>2, <1>3, <1>4
<1>6. <<ack>> \in Seq(DeviceFrames) /\ d2b' = DeviceSends(conn, <<ack>>)
  BY <1>2, FrameTypes DEF HandleConfigSet
<1>7. ack.type = "CONFIG_ACK" /\ ack.ver = f.ver /\ TrueReport(ack)
  <2>1. f.ok = TRUE \/ f.ok = FALSE
    BY <1>2
  <2>2. QED
    BY <1>3, <2>1 DEF TrueReport, ConfigAck
<1> HIDE DEF f, ack
<1>8. /\ Reports'
      /\ \A c \in Conns : \A i \in DOMAIN d2b[c] : i \in DOMAIN d2b'[c] /\ d2b'[c][i] = d2b[c][i]
      /\ BackendReads(conn) => \E i \in DOMAIN d2b'[conn] : d2b'[conn][i] = ack
  <2>1. DOMAIN <<ack>> = {1} /\ <<ack>>[1] = ack
    OBVIOUS
  <2>2. \A k \in DOMAIN <<ack>> : TrueReport(<<ack>>[k])
    BY <1>7, <2>1
  <2>3. /\ Reports'
        /\ \A c \in Conns : \A i \in DOMAIN d2b[c] : i \in DOMAIN d2b'[c] /\ d2b'[c][i] = d2b[c][i]
        /\ BackendReads(conn) =>
             \A k \in DOMAIN <<ack>> : \E i \in DOMAIN d2b'[conn] : d2b'[conn][i] = <<ack>>[k]
    <3>1. Reports /\ UNCHANGED configs
      BY <1>0 DEF ConfigInv
    <3>2. QED
      BY <1>0, <1>6, <2>2, <3>1, AgentSends
  <2>4. QED
    BY <2>1, <2>3
<1>9. FirstIsHello'
  <2>1. SUFFICES ASSUME NEW c \in Conns, handler[c] = "new"
                 PROVE  d2b'[c] # <<>> /\ d2b'[c][1].type = "HELLO" /\ c # conn
    BY <1>0 DEF FirstIsHello
  <2>2. d2b[c] # <<>> /\ d2b[c][1].type = "HELLO" /\ c # conn
    BY <1>0, <2>1 DEF ConfigInv, FirstIsHello
  <2>3. 1 \in DOMAIN d2b[c]
    BY <1>0, <2>2, TailElements
  <2>4. 1 \in DOMAIN d2b'[c] /\ d2b'[c][1] = d2b[c][1]
    BY <1>8, <2>3
  <2>5. QED
    BY <2>2, <2>4
<1>10. ReportedKnown'
  BY <1>0 DEF ConfigInv, ReportedKnown
<1>11. Running'
  <2>1. CASE f.ok
    <3>0. f.ok = TRUE /\ cfg' = [ver |-> f.ver, pushed |-> TRUE]
      BY <1>2, <1>4, <2>1
    <3>1. cfg'.ver = f.ver /\ cfg'.pushed /\ Stored(f.ver, TRUE) /\ f.ver >= BootCfg
      <4>1. Stored(f.ver, TRUE)
        BY <1>3, <3>0
      <4>2. f.ver >= BootCfg
        BY <1>0, <1>2, <1>3
      <4>3. QED
        BY <3>0, <4>1, <4>2
    <3>2. QED
      BY <1>0, <3>1 DEF Running, Stored
  <2>2. CASE ~f.ok
    BY <1>0, <1>4, <2>2 DEF ConfigInv, Running, Stored
  <2>3. QED
    BY <2>1, <2>2
<1>12. Queued'
  <2>1. Queued
    BY DEF ConfigInv
  <2>2. ASSUME NEW i \in DOMAIN b2d'[conn], IsPush(b2d'[conn][i])
        PROVE  /\ b2d'[conn][i].ver > BootCfg /\ b2d'[conn][i].ver >= cfg'.ver
               /\ Stored(b2d'[conn][i].ver, b2d'[conn][i].ok)
    <3>1. /\ i \in Nat /\ i + 1 \in DOMAIN b2d[conn] /\ 1 < i + 1 /\ b2d'[conn][i] = b2d[conn][i + 1]
      <4>1. i \in Nat /\ i + 1 \in DOMAIN b2d[conn] /\ b2d'[conn][i] = b2d[conn][i + 1]
        BY <1>1
      <4>2. b2d'[conn] \in Seq(BackendFrames)
        BY <1>0, TypeStep, InFrameTypes DEF TypeOK, HandleConfigSet
      <4>3. QED
        BY <4>1, <4>2
    <3>2. IsPush(b2d[conn][1]) /\ IsPush(b2d[conn][i + 1])
      BY <1>0, <1>1, <2>2, <3>1 DEF IsPush
    <3>3. /\ f.ver <= b2d[conn][i + 1].ver /\ b2d[conn][i + 1].ver > BootCfg
          /\ Stored(b2d[conn][i + 1].ver, b2d[conn][i + 1].ok)
      BY <1>0, <1>1, <2>1, <3>1, <3>2 DEF Queued
    <3>4. b2d[conn][i + 1].ver \in Nat
      BY <3>3, StoredBelow
    <3>5. QED
      BY <1>2, <1>5, <3>1, <3>3, <3>4
  <2>3. ASSUME NEW i \in DOMAIN b2d'[conn], NEW j \in DOMAIN b2d'[conn], i < j,
               IsPush(b2d'[conn][i]), IsPush(b2d'[conn][j])
        PROVE  b2d'[conn][i].ver <= b2d'[conn][j].ver
    <3>1. i + 1 < j + 1 /\ i + 1 \in DOMAIN b2d[conn] /\ j + 1 \in DOMAIN b2d[conn]
      BY <1>1, <2>3
    <3>2. QED
      BY <1>0, <1>1, <2>1, <2>3, <3>1 DEF Queued
  <2>4. QED
    BY <1>0, <2>2, <2>3 DEF Queued, Stored, IsPush
<1>13. InSync'
  <2>1. SUFFICES ASSUME (Sound /\ Pushable)' PROVE Synced'
    BY DEF InSync
  <2>2. Sound /\ Pushable
    BY <1>0, <2>1 DEF Sound, Pushable, HasConfig, CurrentConfig
  <2>3. Synced /\ BackendReads(conn)
    BY <2>2 DEF ConfigInv, InSync, Sound, RegistryConsistent, BackendReads
  <2>4. f.ver <= CurrentConfig.ver /\ CurrentConfig.ver \in Nat
        /\ (f.ver = CurrentConfig.ver => f.ok = CurrentConfig.ok)
    BY <1>3, StoredBelow
  <2>5. CurrentConfig' = CurrentConfig
    BY <1>0 DEF CurrentConfig
  <2>6. CASE f.ver = CurrentConfig.ver
    <3>1. CASE f.ok
      BY <1>4, <2>5, <2>6, <3>1 DEF Synced
    <3>2. CASE ~f.ok
      <4>1. ~CurrentConfig.ok
        BY <2>4, <2>6, <3>2
      <4>2. PICK i \in DOMAIN d2b'[conn] : d2b'[conn][i] = ack
        BY <1>8, <2>3
      <4>3. QED
        BY <1>0, <1>7, <2>5, <2>6, <4>1, <4>2 DEF Synced
    <3>3. QED
      BY <3>1, <3>2
  <2>7. CASE f.ver # CurrentConfig.ver
    <3>1. cfg.ver # CurrentConfig.ver
      BY <1>0, <1>2, <1>3, <2>4, <2>7
    <3>2. CASE \E i \in DOMAIN b2d[conn] : IsPush(b2d[conn][i]) /\ b2d[conn][i].ver = CurrentConfig.ver
      <4>1. PICK i \in DOMAIN b2d[conn] : IsPush(b2d[conn][i]) /\ b2d[conn][i].ver = CurrentConfig.ver
        BY <3>2
      <4>2. i - 1 \in DOMAIN b2d'[conn] /\ b2d'[conn][i - 1] = b2d[conn][i]
        BY <1>1, <2>7, <4>1
      <4>3. QED
        BY <1>0, <2>5, <4>1, <4>2 DEF Synced, IsPush
    <3>3. QED
      BY <1>0, <1>8, <2>3, <2>5, <3>1, <3>2 DEF Synced
  <2>8. QED
    BY <2>6, <2>7
<1>14. QED
  BY <1>5, <1>8, <1>9, <1>10, <1>11, <1>12, <1>13 DEF ConfigInv

\* The agent's steps keep the invariant and never take the configuration back.
LEMMA ConfigAgentStep ==
    ASSUME TypeOK, RegistryConsistent, VersionsIncrease, ConfigInv, AgentStep
    PROVE  ConfigInv' /\ cfg'.ver >= cfg.ver
<1>0. /\ UNCHANGED <<handler, broken, ingestVars>> /\ UNCHANGED configs
      /\ Reports /\ cfg.ver \in Nat /\ BootCfg \in Nat
  BY BootAssumption DEF AgentStep, ingestVars, ConfigInv, TypeOK, AgentTypeOK
<1>1. ASSUME UNCHANGED <<d2b, cfg>>, conn' = None \/ UNCHANGED <<conn, b2d>>
      PROVE  ConfigInv' /\ cfg'.ver >= cfg.ver
  <2>1. Reports'
    BY <1>0, <1>1 DEF Reports, TrueReport, Stored
  <2>2. ConfigInv'
    BY <1>0, <1>1, <2>1, ConfigAgentKeeps
  <2>3. QED
    BY <1>0, <1>1, <2>2
<1>2. ASSUME NEW m \in DeviceFrames, TrueReport(m), conn \in Conns, UNCHANGED cfg,
             d2b' = DeviceSends(conn, <<m>>), conn' = None \/ UNCHANGED <<conn, b2d>>
      PROVE  ConfigInv' /\ cfg'.ver >= cfg.ver
  <2>1. <<m>> \in Seq(DeviceFrames) /\ \A k \in DOMAIN <<m>> : TrueReport(<<m>>[k])
    BY <1>2
  <2>2. /\ Reports'
        /\ \A c \in Conns : \A i \in DOMAIN d2b[c] : i \in DOMAIN d2b'[c] /\ d2b'[c][i] = d2b[c][i]
    BY <1>0, <1>2, <2>1, AgentSends
  <2>3. ConfigInv'
    BY <1>0, <1>2, <2>2, ConfigAgentKeeps
  <2>4. QED
    BY <1>0, <1>2, <2>3
<1>3. \A st \in FwAckStatus : FwAck(st) \in DeviceFrames /\ TrueReport(FwAck(st))
  BY FrameTypes DEF FwAck, TrueReport
<1>4. HelloFrame \in DeviceFrames /\ TrueReport(HelloFrame)
  BY HelloFrameType DEF TypeOK, HelloFrame, Hello, TrueReport, ConfigInv, Running
<1>5. Heartbeat(cfg.ver) \in DeviceFrames /\ TrueReport(Heartbeat(cfg.ver))
  BY <1>0, FrameTypes DEF Heartbeat, TrueReport, ConfigInv, Running
<1>6. CASE TcpFail \/ RebootDone \/ HandleReboot
  BY <1>1, <1>6 DEF TcpFail, RebootDone, HandleReboot, StartReboot, DeviceCloses
<1>7. CASE SendHeartbeat
  BY <1>2, <1>5, <1>7 DEF SendHeartbeat, agentVars, TypeOK, LinkTypeOK
<1>8. CASE OtaProgress
  BY <1>2, <1>3, <1>8 DEF OtaProgress, agentVars, TypeOK, LinkTypeOK
<1>9. CASE OtaDone
  BY <1>2, <1>3, <1>9 DEF OtaDone, StartReboot, DeviceCloses, TypeOK, LinkTypeOK
<1>10. CASE HandleConfigSet
  BY <1>0, <1>10, ConfigHandled
<1>11. CASE HandleFwUpdate
  <2>1. /\ conn \in Conns /\ b2d[conn] # <<>> /\ ~IsPush(InFrame) /\ b2d' = Consumed
        /\ UNCHANGED <<conn, cfg>>
    BY <1>11 DEF HandleFwUpdate, Receives, InFrame, IsPush, TypeOK, LinkTypeOK
  <2>2. PICK ms \in Seq(DeviceFrames) :
          d2b' = DeviceSends(conn, ms) /\ \A k \in DOMAIN ms : TrueReport(ms[k])
    <3>1. <<FwAck("accepted"), FwAck("downloading")>> \in Seq(DeviceFrames) /\
          <<FwAck("rejected")>> \in Seq(DeviceFrames)
      BY <1>3
    <3>2. /\ \A k \in DOMAIN <<FwAck("accepted"), FwAck("downloading")>> :
               TrueReport(<<FwAck("accepted"), FwAck("downloading")>>[k])
          /\ \A k \in DOMAIN <<FwAck("rejected")>> : TrueReport(<<FwAck("rejected")>>[k])
      BY <1>3
    <3>3. QED
      BY <1>11, <3>1, <3>2 DEF HandleFwUpdate
  <2>3. ConfigInv'
    BY <1>0, <2>1, <2>2, ConfigOtherFrame
  <2>4. QED
    BY <1>0, <2>1, <2>3
<1>12. CASE HandleRequestHello
  <2>1. /\ conn \in Conns /\ b2d[conn] # <<>> /\ ~IsPush(InFrame) /\ b2d' = Consumed
        /\ UNCHANGED <<conn, cfg>> /\ d2b' = DeviceSends(conn, <<HelloFrame>>)
    BY <1>12 DEF HandleRequestHello, Receives, InFrame, IsPush, TypeOK, LinkTypeOK, agentVars
  <2>2. <<HelloFrame>> \in Seq(DeviceFrames) /\ \A k \in DOMAIN <<HelloFrame>> : TrueReport(<<HelloFrame>>[k])
    BY <1>4
  <2>3. ConfigInv'
    BY <1>0, <2>1, <2>2, ConfigOtherFrame
  <2>4. QED
    BY <1>0, <2>1, <2>3
<1>13. QED
  BY <1>6, <1>7, <1>8, <1>9, <1>10, <1>11, <1>12 DEF AgentStep

-----------------------------------------------------------------------------
\* Acknowledging rows leaves the newest row the newest, with its limits.
LEMMA AckCurrent ==
    ASSUME TypeOK, NEW v, NEW st, configs' = AckConfig(configs, v, st)
    PROVE  /\ HasConfig' = HasConfig
           /\ HasConfig =>
                /\ CurrentConfig'.ver = CurrentConfig.ver
                /\ CurrentConfig'.ok = CurrentConfig.ok
                /\ CurrentConfig'.ack = IF CurrentConfig.ver = v THEN st ELSE CurrentConfig.ack
<1>1. configs \in Seq(ConfigRow) /\ configs \in [1 .. Len(configs) -> ConfigRow] /\ Len(configs) \in Nat
  BY DEF TypeOK, IngestTypeOK
<1>2. DOMAIN configs' = 1 .. Len(configs) /\ Len(configs') = Len(configs)
  <2>1. configs' \in [1 .. Len(configs) -> {configs'[i] : i \in 1 .. Len(configs)}]
    BY <1>1 DEF AckConfig
  <2>2. QED
    BY <1>1, <2>1
<1>3. HasConfig' = HasConfig
  <2>1. HasConfig <=> Len(configs) # 0
    BY <1>1 DEF HasConfig
  <2>2. HasConfig' <=> Len(configs') # 0
    BY <1>1, <1>2 DEF HasConfig
  <2>3. QED
    BY <1>2, <2>1, <2>2 DEF HasConfig
<1>4. ASSUME HasConfig
      PROVE  CurrentConfig' = IF CurrentConfig.ver = v THEN [CurrentConfig EXCEPT !.ack = st] ELSE CurrentConfig
  <2>1. Len(configs) \in DOMAIN configs
    BY <1>1, <1>4 DEF HasConfig
  <2>2. QED
    BY <1>2, <2>1 DEF CurrentConfig, AckConfig
<1>5. HasConfig => CurrentConfig \in ConfigRow
  BY RowsType DEF TypeOK
<1>6. QED
  BY <1>3, <1>4, <1>5 DEF ConfigRow

\* The version of the frame m is one that no stored version exceeds.
Newest(m) ==
    /\ m.ver \in Nat /\ m.ver > BootCfg
    /\ \A v, ok : Stored(v, ok) => v \in Nat /\ v <= m.ver

\* The pushes among the frames ms are of the newest version, which a row has by now.
NewPushes(ms) ==
    \A k \in DOMAIN ms : IsPush(ms[k]) =>
        /\ Newest(ms[k]) /\ Stored(ms[k].ver, ms[k].ok)'
        /\ \A l \in DOMAIN ms : IsPush(ms[l]) => ms[l].ver = ms[k].ver

\* A push to the device's connection is of a version no stored one exceeds, so it
\* goes to the end of an ordered queue.
LEMMA BackendPushes ==
    ASSUME TypeOK, ConfigInv, UNCHANGED <<conn, cfg>>,
           StaysStored, NEW w \in Conns \cup {None}, NEW ms \in Seq(BackendFrames),
           b2d' = BackendSends(w, ms),
           w # None => NewPushes(ms)
    PROVE  /\ Queued'
           /\ conn # None =>
                \A i \in DOMAIN b2d[conn] : i \in DOMAIN b2d'[conn] /\ b2d'[conn][i] = b2d[conn][i]
           /\ w = conn /\ conn # None /\ conn \notin broken =>
                \A k \in DOMAIN ms : \E i \in DOMAIN b2d'[conn] : b2d'[conn][i] = ms[k]
<1>0. b2d \in [Conns -> Seq(BackendFrames)] /\ cfg.ver \in Nat /\ BootCfg \in Nat
  BY BootAssumption DEF TypeOK, LinkTypeOK, AgentTypeOK
<1>1. CASE conn = None \/ w # conn \/ conn \in broken
  <2>1. conn # None => conn \in Conns /\ b2d'[conn] = b2d[conn]
    BY <1>0, <1>1 DEF BackendSends, DeviceReads, TypeOK, LinkTypeOK
  <2>2. Queued'
    BY <2>1 DEF ConfigInv, Queued, StaysStored
  <2>3. QED
    BY <1>1, <2>1, <2>2
<1>2. CASE conn # None /\ w = conn /\ conn \notin broken
  <2>0. conn \in Conns
    BY <1>2
  <2>s. PICK s : s = b2d[conn]
    OBVIOUS
  <2>q. PICK q : q = b2d'[conn]
    OBVIOUS
  <2>1. s \in Seq(BackendFrames) /\ q = s \o ms
    BY <1>0, <1>2, <2>0, <2>s, <2>q DEF BackendSends, DeviceReads
  <2>2. /\ \A i \in DOMAIN s : IsPush(s[i]) =>
             s[i].ver > BootCfg /\ s[i].ver >= cfg.ver /\ Stored(s[i].ver, s[i].ok)
        /\ \A i, j \in DOMAIN s : i < j /\ IsPush(s[i]) /\ IsPush(s[j]) => s[i].ver <= s[j].ver
    BY <1>2, <2>s DEF ConfigInv, Queued
  <2>3. \A k \in DOMAIN ms : IsPush(ms[k]) => ms[k].ver >= cfg.ver
    <3>1. SUFFICES ASSUME NEW k \in DOMAIN ms, IsPush(ms[k]) PROVE ms[k].ver >= cfg.ver
      OBVIOUS
    <3>2. Newest(ms[k])
      BY <1>2, <3>1 DEF NewPushes
    <3>3. CASE cfg.ver > BootCfg
      <4>1. Stored(cfg.ver, TRUE)
        BY <3>3 DEF ConfigInv, Running
      <4>2. cfg.ver <= ms[k].ver /\ ms[k].ver \in Nat
        BY <3>2, <4>1, Zenon DEF Newest
      <4>3. QED
        BY <1>0, <4>2
    <3>4. CASE ~(cfg.ver > BootCfg)
      <4>1. ms[k].ver \in Nat /\ ms[k].ver > BootCfg
        BY <3>2, Zenon DEF Newest
      <4>2. QED
        BY <1>0, <3>4, <4>1
    <3>5. QED
      BY <3>3, <3>4
  <2>4. /\ Len(s) \in Nat /\ DOMAIN s = 1 .. Len(s) /\ DOMAIN q \subseteq Nat
        /\ \A i \in DOMAIN s : i \in DOMAIN (s \o ms) /\ (s \o ms)[i] = s[i]
        /\ \A i \in DOMAIN ms : Len(s) + i \in DOMAIN (s \o ms) /\ (s \o ms)[Len(s) + i] = ms[i]
        /\ \A i \in DOMAIN (s \o ms) : i \notin DOMAIN s =>
             i - Len(s) \in DOMAIN ms /\ (s \o ms)[i] = ms[i - Len(s)]
    BY <2>1, CatElements
  <2>5. /\ \A i \in DOMAIN s : i \in DOMAIN q /\ q[i] = s[i]
        /\ \A k \in DOMAIN ms : \E i \in DOMAIN q : q[i] = ms[k]
        /\ \A i \in DOMAIN q : i \notin DOMAIN s => \E k \in DOMAIN ms : q[i] = ms[k]
    BY <2>1, <2>4, Zenon
  <2>6. ASSUME NEW i \in DOMAIN q, IsPush(q[i])
        PROVE  q[i].ver > BootCfg /\ q[i].ver >= cfg.ver /\ Stored(q[i].ver, q[i].ok)'
    <3>1. CASE i \in DOMAIN s
      BY <2>2, <2>5, <2>6, <3>1, Zenon DEF StaysStored
    <3>2. CASE i \notin DOMAIN s
      BY <1>2, <2>3, <2>5, <2>6, <3>2, Zenon DEF Newest, NewPushes
    <3>3. QED
      BY <3>1, <3>2
  <2>7. ASSUME NEW i \in DOMAIN q, NEW j \in DOMAIN q, i < j, IsPush(q[i]), IsPush(q[j])
        PROVE  q[i].ver <= q[j].ver
    <3>1. CASE j \in DOMAIN s
      <4>1. i \in DOMAIN s
        BY <2>4, <2>7, <3>1
      <4>2. QED
        BY <2>2, <2>5, <2>7, <3>1, <4>1
    <3>2. CASE j \notin DOMAIN s
      <4>1. PICK k \in DOMAIN ms : q[j] = ms[k]
        BY <2>5, <3>2
      <4>2. CASE i \in DOMAIN s
        BY <1>2, <2>2, <2>5, <2>7, <4>1, <4>2, Zenon DEF Newest, NewPushes
      <4>3. CASE i \notin DOMAIN s
        <5>1. PICK l \in DOMAIN ms : q[i] = ms[l]
          BY <2>5, <4>3
        <5>2. ms[l].ver = ms[k].ver /\ ms[k].ver \in Nat
          BY <1>2, <2>7, <4>1, <5>1, Zenon DEF Newest, NewPushes
        <5>3. QED
          BY <4>1, <5>1, <5>2
      <4>4. QED
        BY <4>2, <4>3
    <3>3. QED
      BY <3>1, <3>2
  <2>8. Queued'
    <3>1. b2d'[conn'] = q /\ cfg' = cfg
      BY <2>q
    <3>2. QED
      BY <2>6, <2>7, <3>1, Zenon DEF Queued, IsPush
  <2>9. QED
    BY <2>5, <2>8, <2>s, <2>q
<1>3. QED
  BY <1>1, <1>2

-----------------------------------------------------------------------------
\* Dispatching a frame takes it from its queue; everything else that is queued
\* stays, and the first frame of a connection has told what the device runs.
LEMMA ConfigRegister ==
    ASSUME TypeOK, ConfigInv, StaysStored, NEW c \in Conns,
           handler[c] # "none", d2b[c] # <<>>, Register(c), UNCHANGED <<conn, broken, agentVars>>,
           \A x \in Conns : x = conn /\ handler[x] = "new" /\ x # c => b2d'[x] = b2d[x]
    PROVE  /\ Reports' /\ FirstIsHello' /\ Running'
           /\ TrueReport(OutFrame(c)) /\ OutFrame(c) = d2b[c][1]
           /\ handler[c] = "new" =>
                OutFrame(c).type = "HELLO" /\ (c = conn => OutFrame(c).ver = cfg.ver)
           /\ \A x \in Conns : \A i \in DOMAIN d2b[x] :
                (x = c /\ i = 1) \/ \E j \in DOMAIN d2b'[x] : d2b'[x][j] = d2b[x][i]
<1>0. d2b \in [Conns -> Seq(DeviceFrames)] /\ handler \in [Conns -> {"none", "new", "reg"}]
  BY DEF TypeOK, LinkTypeOK
<1>1. /\ d2b'[c] = Tail(d2b[c]) /\ \A x \in Conns : x # c => d2b'[x] = d2b[x]
      /\ handler'[c] = "reg" /\ \A x \in Conns : x # c => handler'[x] = handler[x]
  BY <1>0 DEF Register
<1>2. /\ 1 \in DOMAIN d2b[c] /\ OutFrame(c) = d2b[c][1]
      /\ \A i \in DOMAIN d2b'[c] : i + 1 \in DOMAIN d2b[c] /\ d2b'[c][i] = d2b[c][i + 1]
      /\ \A i \in DOMAIN d2b[c] : i # 1 => i - 1 \in DOMAIN d2b'[c] /\ d2b'[c][i - 1] = d2b[c][i]
  BY <1>0, <1>1, TailElements DEF OutFrame
<1>3. \A m : TrueReport(m) => TrueReport(m)'
  BY Zenon DEF TrueReport, StaysStored
<1>4. Reports'
  <2>1. SUFFICES ASSUME NEW x \in Conns, NEW i \in DOMAIN d2b'[x] PROVE TrueReport(d2b[x][i])'
    BY DEF Reports
  <2>2. \E j \in DOMAIN d2b[x] : d2b'[x][i] = d2b[x][j]
    <3>1. CASE x = c
      BY <1>2, <3>1, Zenon
    <3>2. CASE x # c
      BY <1>1, <3>2, Zenon
    <3>3. QED
      BY <3>1, <3>2
  <2>3. QED
    BY <1>3, <2>2, Zenon DEF ConfigInv, Reports
<1>5. FirstIsHello'
  <2>1. SUFFICES ASSUME NEW x \in Conns, handler'[x] = "new"
                 PROVE  /\ d2b'[x] # <<>> /\ d2b'[x][1].type = "HELLO"
                        /\ x = conn => d2b'[x][1].ver = cfg.ver /\ b2d'[x] = <<>>
    BY DEF FirstIsHello, agentVars
  <2>2. x # c /\ handler[x] = "new"
    BY <1>1, <2>1
  <2>3. QED
    BY <1>1, <2>2 DEF ConfigInv, FirstIsHello
<1>6. Running'
  BY Zenon DEF ConfigInv, Running, StaysStored, agentVars
<1>7. TrueReport(OutFrame(c))
  BY <1>2 DEF ConfigInv, Reports
<1>8. handler[c] = "new" =>
        OutFrame(c).type = "HELLO" /\ (c = conn => OutFrame(c).ver = cfg.ver)
  BY <1>2 DEF ConfigInv, FirstIsHello
<1>9. \A x \in Conns : \A i \in DOMAIN d2b[x] :
        (x = c /\ i = 1) \/ \E j \in DOMAIN d2b'[x] : d2b'[x][j] = d2b[x][i]
  <2>1. SUFFICES ASSUME NEW x \in Conns, NEW i \in DOMAIN d2b[x], ~(x = c /\ i = 1)
                 PROVE  \E j \in DOMAIN d2b'[x] : d2b'[x][j] = d2b[x][i]
    BY Zenon
  <2>2. CASE x = c
    BY <1>2, <2>1, <2>2, Zenon
  <2>3. CASE x # c
    BY <1>1, <2>3, Zenon
  <2>4. QED
    BY <2>2, <2>3
<1>10. QED
  BY <1>2, <1>4, <1>5, <1>6, <1>7, <1>8, <1>9

\* What _after_hello pushes is the newest stored configuration, at most once, and
\* only when the HELLO reports an older one.
LEMMA AfterHelloPushes ==
    ASSUME TypeOK, VersionsIncrease, StaysStored, NEW h, TrueReport(h), h.type = "HELLO",
           h.ver \in Nat, NEW ms, ms = AfterHelloFrames(h)
    PROVE  /\ NewPushes(ms)
           /\ ConfigStale(h) => \E k \in DOMAIN ms : IsPush(ms[k]) /\ ms[k].ver = CurrentConfig.ver
<1> DEFINE a == IF ConfigStale(h) THEN <<ConfigSet(CurrentConfig.ver, CurrentConfig.ok)>> ELSE <<>>
           b == IF JobResumed(h) THEN <<FwUpdate(LatestJob.target)>> ELSE <<>>
<1>0. BootCfg \in Nat /\ h.ver >= BootCfg
  BY BootAssumption DEF TrueReport
<1>1. a \in Seq(BackendFrames) /\ b \in Seq(BackendFrames) /\ ms = a \o b
  <2>1. ConfigStale(h) => <<ConfigSet(CurrentConfig.ver, CurrentConfig.ok)>> \in Seq(BackendFrames)
    BY RowsType, FrameTypes DEF ConfigStale, ConfigRow, TypeOK
  <2>2. JobResumed(h) => <<FwUpdate(LatestJob.target)>> \in Seq(BackendFrames)
    BY RowsType, FrameTypes DEF JobResumed, JobUnfinished, JobRow, TypeOK
  <2>3. QED
    BY <2>1, <2>2 DEF AfterHelloFrames
<1>2. \A k \in DOMAIN a : ConfigStale(h) /\ a[k] = ConfigSet(CurrentConfig.ver, CurrentConfig.ok)
  OBVIOUS
<1>3. \A k \in DOMAIN b : ~IsPush(b[k])
  BY DEF IsPush, FwUpdate
<1>4. ConfigStale(h) => 1 \in DOMAIN a /\ a[1] = ConfigSet(CurrentConfig.ver, CurrentConfig.ok)
  OBVIOUS
<1> HIDE DEF a, b
<1>5. /\ \A k \in DOMAIN a : k \in DOMAIN (a \o b) /\ (a \o b)[k] = a[k]
      /\ \A k \in DOMAIN (a \o b) : k \notin DOMAIN a =>
           k - Len(a) \in DOMAIN b /\ (a \o b)[k] = b[k - Len(a)]
  BY <1>1, CatElements
<1>p. PICK p : p = ConfigSet(CurrentConfig.ver, CurrentConfig.ok)
  OBVIOUS
<1>q. p.ver = CurrentConfig.ver /\ p.ok = CurrentConfig.ok /\ IsPush(p)
  BY <1>p DEF ConfigSet, IsPush
<1>6. ASSUME NEW k \in DOMAIN ms, IsPush(ms[k])
      PROVE  ConfigStale(h) /\ ms[k] = p
  BY <1>1, <1>2, <1>3, <1>5, <1>6, <1>p, Zenon
<1>7. ASSUME ConfigStale(h)
      PROVE  Newest(p) /\ Stored(p.ver, p.ok)'
  <2>1. HasConfig /\ CurrentConfig.ver > h.ver
    BY <1>7 DEF ConfigStale
  <2>2. Stored(CurrentConfig.ver, CurrentConfig.ok)
    BY <2>1, CurrentStored
  <2>3. CurrentConfig.ver \in Nat /\ \A v, ok : Stored(v, ok) => v \in Nat /\ v <= CurrentConfig.ver
    BY <2>2, StoredBelow
  <2>4. CurrentConfig.ver > BootCfg
    BY <1>0, <2>1, <2>3
  <2>5. Newest(p)
    BY <1>q, <2>3, <2>4, Zenon DEF Newest
  <2>6. Stored(p.ver, p.ok)'
    BY <1>q, <2>2, Zenon DEF StaysStored
  <2>7. QED
    BY <2>5, <2>6
<1>8. NewPushes(ms)
  BY <1>6, <1>7, Zenon DEF NewPushes
<1>9. ConfigStale(h) => \E k \in DOMAIN ms : IsPush(ms[k]) /\ ms[k].ver = CurrentConfig.ver
  <2>1. SUFFICES ASSUME ConfigStale(h) PROVE 1 \in DOMAIN ms /\ ms[1] = p
    BY <1>q
  <2>2. 1 \in DOMAIN a /\ a[1] = p
    BY <1>4, <1>p, <2>1
  <2>3. QED
    BY <1>1, <1>5, <2>2
<1>10. QED
  BY <1>8, <1>9

\* Dispatching a HELLO keeps the invariant: on a new connection it tells what the
\* device runs, and whatever is newer is pushed.
LEMMA ConfigHello ==
    ASSUME TypeOK, RegistryConsistent, VersionsIncrease, ConfigInv, StaysStored,
           NEW c \in Conns, DispatchHello(c), UNCHANGED agentVars
    PROVE  ConfigInv'
<1> DEFINE m == OutFrame(c)
<1>0. /\ handler[c] # "none" /\ d2b[c] # <<>> /\ m.type = "HELLO" /\ Register(c)
      /\ UNCHANGED <<conn, broken, cfg>> /\ writers' = WriterAfter(c)
      /\ reported' = m.ver /\ WriterAfter(c) \in Conns \cup {None}
  BY DEF DispatchHello, Gets, Register, agentVars, WriterAfter, TypeOK, IngestTypeOK
<1>1. m \in DeviceFrames /\ m.ver \in Nat /\ cfg.ver \in Nat /\ BootCfg \in Nat
  BY <1>0, OutFrameTypes, BootAssumption DEF TypeOK, AgentTypeOK, DeviceFrames
<1>2. PICK ms : ms = AfterHelloFrames(m)
  OBVIOUS
<1>3. ms \in Seq(BackendFrames) /\ b2d' = BackendSends(WriterAfter(c), ms)
  BY <1>2, AfterHelloFramesType DEF TypeOK, DispatchHello
<1>4. \A x \in Conns : x = conn /\ handler[x] = "new" /\ x # c => b2d'[x] = b2d[x]
  <2>1. ASSUME NEW x \in Conns, handler[x] = "new", x # c PROVE WriterAfter(c) # x
    BY <2>1, ConnsAssumption DEF WriterAfter, RegistryConsistent
  <2>2. QED
    BY <1>3, <2>1 DEF BackendSends, TypeOK, LinkTypeOK
<1>5. /\ Reports' /\ FirstIsHello' /\ Running' /\ TrueReport(m) /\ m = d2b[c][1]
      /\ handler[c] = "new" => (c = conn => m.ver = cfg.ver)
      /\ \A x \in Conns : \A i \in DOMAIN d2b[x] :
           (x = c /\ i = 1) \/ \E j \in DOMAIN d2b'[x] : d2b'[x][j] = d2b[x][i]
  BY <1>0, <1>4, ConfigRegister
<1> HIDE DEF m
<1>6. /\ NewPushes(ms)
      /\ ConfigStale(m) => \E k \in DOMAIN ms : IsPush(ms[k]) /\ ms[k].ver = CurrentConfig.ver
  BY <1>0, <1>1, <1>2, <1>5, AfterHelloPushes
<1>7. /\ Queued'
      /\ conn # None =>
           \A i \in DOMAIN b2d[conn] : i \in DOMAIN b2d'[conn] /\ b2d'[conn][i] = b2d[conn][i]
      /\ WriterAfter(c) = conn /\ conn # None /\ conn \notin broken =>
           \A k \in DOMAIN ms : \E i \in DOMAIN b2d'[conn] : b2d'[conn][i] = ms[k]
  BY <1>0, <1>3, <1>6, BackendPushes
<1>8. ReportedKnown'
  BY <1>0, <1>1, <1>5 DEF ReportedKnown, TrueReport
<1>9. InSync'
  <2>1. SUFFICES ASSUME Sound', Pushable' PROVE Synced'
    BY DEF InSync
  <2>2. conn \in Conns /\ conn # None /\ conn = WriterAfter(c) /\ conn \notin broken
    BY <1>0, <2>1 DEF Sound, TypeOK, LinkTypeOK
  <2>3. CASE ConfigStale(m)
    <3>1. HasConfig
      BY <2>3 DEF ConfigStale
    <3>2. CurrentConfig'.ver = CurrentConfig.ver
      <4>1. PICK ok \in SendResults(WriterAfter(c)) :
              configs' = AckConfig(configs, CurrentConfig.ver, Pushed(ok))
        BY <2>3 DEF DispatchHello, m
      <4>2. QED
        BY <3>1, <4>1, AckCurrent
    <3>3. PICK k \in DOMAIN ms : IsPush(ms[k]) /\ ms[k].ver = CurrentConfig.ver
      BY <1>6, <2>3
    <3>4. PICK i \in DOMAIN b2d'[conn] : b2d'[conn][i] = ms[k]
      BY <1>7, <2>2, <3>3
    <3>5. QED
      BY <1>0, <3>2, <3>3, <3>4 DEF Synced, IsPush
  <2>4. CASE ~ConfigStale(m)
    <3>1. UNCHANGED configs /\ Pushable /\ CurrentConfig' = CurrentConfig
      <4>1. UNCHANGED configs
        BY <2>4 DEF DispatchHello, m
      <4>2. QED
        BY <2>1, <4>1 DEF Pushable, HasConfig, CurrentConfig
    <3>2. CurrentConfig.ver \in Nat /\ HasConfig /\ CurrentConfig.ver > BootCfg
      BY <3>1, CurrentStored, StoredBelow DEF Pushable
    <3>3. CASE handler[c] = "new"
      <4>1. c = conn
        BY <2>2, <3>3 DEF WriterAfter
      <4>2. m.ver = cfg.ver
        BY <1>5, <3>3, <4>1
      <4>3. cfg.ver >= CurrentConfig.ver
        BY <1>1, <2>4, <3>2, <4>2 DEF ConfigStale
      <4>4. Stored(cfg.ver, TRUE)
        <5>1. cfg.ver > BootCfg
          BY <1>1, <3>2, <4>3
        <5>2. QED
          BY <5>1, Zenon DEF ConfigInv, Running
      <4>5. cfg.ver <= CurrentConfig.ver
        BY <4>4, StoredBelow
      <4>6. QED
        BY <1>0, <1>1, <3>1, <3>2, <4>3, <4>5 DEF Synced
    <3>4. CASE handler[c] # "new"
      <4>1. Sound
        BY <2>2, <3>4 DEF Sound, WriterAfter
      <4>2. Synced
        BY <3>1, <4>1 DEF ConfigInv, InSync
      <4>3. ASSUME NEW i \in DOMAIN d2b[conn], d2b[conn][i].type = "CONFIG_ACK",
                   d2b[conn][i].ver = CurrentConfig.ver
            PROVE  \E j \in DOMAIN d2b'[conn] :
                     d2b'[conn][j].type = "CONFIG_ACK" /\ d2b'[conn][j].ver = CurrentConfig.ver
        <5>1. ~(conn = c /\ i = 1)
          BY <1>0, <1>5, <4>3
        <5>2. QED
          BY <1>5, <2>2, <4>3, <5>1
      <4>4. QED
        BY <1>0, <1>7, <2>2, <3>1, <4>2, <4>3 DEF Synced, IsPush
    <3>5. QED
      BY <3>3, <3>4
  <2>5. QED
    BY <2>3, <2>4
<1>10. QED
  BY <1>5, <1>7, <1>8, <1>9 DEF ConfigInv

\* Dispatching any other frame keeps the invariant: an ack of the newest
\* configuration puts into its row what the device did with it.
LEMMA ConfigOtherDispatch ==
    ASSUME TypeOK, RegistryConsistent, VersionsIncrease, ConfigInv, StaysStored, NEW c \in Conns,
           DispatchHeartbeat(c) \/ DispatchConfigAck(c) \/ DispatchFwAck(c), UNCHANGED agentVars
    PROVE  ConfigInv'
<1> DEFINE m == OutFrame(c)
<1>0. /\ handler[c] # "none" /\ d2b[c] # <<>> /\ m.type # "HELLO" /\ Register(c)
      /\ UNCHANGED <<conn, broken, cfg, b2d>> /\ writers' = WriterAfter(c)
  BY DEF DispatchHeartbeat, DispatchConfigAck, DispatchFwAck, Gets, Register, agentVars
<1>1. /\ Reports' /\ FirstIsHello' /\ Running' /\ TrueReport(m) /\ m = d2b[c][1]
      /\ handler[c] # "new"
      /\ \A x \in Conns : \A i \in DOMAIN d2b[x] :
           (x = c /\ i = 1) \/ \E j \in DOMAIN d2b'[x] : d2b'[x][j] = d2b[x][i]
  BY <1>0, ConfigRegister
<1>2. UNCHANGED writers /\ BootCfg \in Nat /\ m \in DeviceFrames
  BY <1>0, <1>1, OutFrameTypes, BootAssumption DEF WriterAfter, TypeOK
<1>3. Queued'
  BY <1>0, Zenon DEF ConfigInv, Queued, StaysStored
<1> HIDE DEF m
<1>4. ReportedKnown'
  <2>1. reported' = reported \/ reported' >= BootCfg
    <3>1. CASE DispatchHeartbeat(c)
      BY <1>1, <3>1 DEF DispatchHeartbeat, Gets, TrueReport, m
    <3>2. CASE DispatchConfigAck(c)
      <4>1. m.type = "CONFIG_ACK" /\ m.ver \in Nat
        BY <1>2, <3>2 DEF DispatchConfigAck, Gets, DeviceFrames, m
      <4>2. m.ver > BootCfg
        BY <1>1, <4>1 DEF TrueReport
      <4>3. reported' = reported \/ reported' = m.ver
        BY <3>2 DEF DispatchConfigAck, m
      <4>4. QED
        BY <1>2, <4>1, <4>2, <4>3
    <3>3. CASE DispatchFwAck(c)
      BY <3>3 DEF DispatchFwAck
    <3>4. QED
      BY <3>1, <3>2, <3>3
  <2>2. QED
    BY <1>2, <2>1 DEF ConfigInv, ReportedKnown
<1>5. InSync'
  <2>1. SUFFICES ASSUME Sound', Pushable' PROVE Synced'
    BY DEF InSync
  <2>2. conn \in Conns /\ Sound
    BY <1>0, <1>2, <2>1 DEF Sound, TypeOK, LinkTypeOK
  <2>3. \A i \in DOMAIN d2b[conn] :
          (conn = c /\ i = 1) \/ \E j \in DOMAIN d2b'[conn] : d2b'[conn][j] = d2b[conn][i]
    BY <1>1, <2>2
  <2>4. CASE DispatchConfigAck(c)
    <3>1. /\ m.type = "CONFIG_ACK" /\ m.status \in {"applied", "rejected"}
          /\ configs' = AckConfig(configs, m.ver, m.status)
      BY <1>2, <2>4 DEF DispatchConfigAck, Gets, DeviceFrames, m
    <3>2. /\ HasConfig' = HasConfig
          /\ HasConfig =>
               /\ CurrentConfig'.ver = CurrentConfig.ver
               /\ CurrentConfig'.ok = CurrentConfig.ok
               /\ CurrentConfig'.ack = IF CurrentConfig.ver = m.ver THEN m.status ELSE CurrentConfig.ack
      BY <3>1, AckCurrent
    <3>3. Pushable /\ HasConfig
      BY <2>1, <3>2 DEF Pushable
    <3>4. Synced
      BY <2>2, <3>3 DEF ConfigInv, InSync
    <3>5. CASE CurrentConfig.ver = m.ver /\ ~CurrentConfig.ok
      <4>1. m.status # "applied"
        <5>1. SUFFICES ASSUME m.status = "applied" PROVE FALSE
          OBVIOUS
        <5>2. Stored(m.ver, TRUE)
          BY <1>1, <3>1, <5>1 DEF TrueReport
        <5>3. TRUE = CurrentConfig.ok
          BY <3>5, <5>2, StoredBelow
        <5>4. QED
          BY <3>5, <5>3
      <4>2. ~CurrentConfig'.ok /\ CurrentConfig'.ack = "rejected"
        BY <3>1, <3>2, <3>3, <3>5, <4>1
      <4>3. QED
        BY <4>2 DEF Synced
    <3>6. CASE CurrentConfig.ver # m.ver
      <4>1. ASSUME NEW i \in DOMAIN d2b[conn], d2b[conn][i].type = "CONFIG_ACK",
                   d2b[conn][i].ver = CurrentConfig.ver
            PROVE  \E j \in DOMAIN d2b'[conn] :
                     d2b'[conn][j].type = "CONFIG_ACK" /\ d2b'[conn][j].ver = CurrentConfig.ver
        <5>1. ~(conn = c /\ i = 1)
          BY <1>1, <3>6, <4>1
        <5>2. QED
          BY <2>3, <4>1, <5>1
      <4>2. QED
        BY <1>0, <3>2, <3>3, <3>4, <3>6, <4>1 DEF Synced, IsPush
    <3>7. CASE CurrentConfig.ok
      BY <1>0, <3>2, <3>3, <3>4, <3>7 DEF Synced, IsPush
    <3>8. QED
      BY <3>5, <3>6, <3>7
  <2>5. CASE ~DispatchConfigAck(c)
    <3>1. UNCHANGED configs /\ m.type # "CONFIG_ACK"
      BY <2>5 DEF DispatchHeartbeat, DispatchFwAck, Gets, m
    <3>2. Synced /\ CurrentConfig' = CurrentConfig
      BY <2>1, <2>2, <3>1 DEF ConfigInv, InSync, Pushable, HasConfig, CurrentConfig
    <3>3. ASSUME NEW i \in DOMAIN d2b[conn], d2b[conn][i].type = "CONFIG_ACK",
                 d2b[conn][i].ver = CurrentConfig.ver
          PROVE  \E j \in DOMAIN d2b'[conn] :
                   d2b'[conn][j].type = "CONFIG_ACK" /\ d2b'[conn][j].ver = CurrentConfig.ver
      <4>1. ~(conn = c /\ i = 1)
        BY <1>1, <3>1, <3>3
      <4>2. QED
        BY <2>3, <3>3, <4>1
    <3>4. QED
      BY <1>0, <3>2, <3>3 DEF Synced, IsPush
  <2>6. QED
    BY <2>4, <2>5
<1>6. QED
  BY <1>1, <1>3, <1>4, <1>5 DEF ConfigInv

\* The end of a handler empties its queue, and takes the device's connection out of
\* the registry if it was there.
LEMMA ConfigEndHandler ==
    ASSUME TypeOK, RegistryConsistent, ConfigInv, NEW c \in Conns, EndHandler(c), UNCHANGED agentVars
    PROVE  ConfigInv'
<1>0. /\ UNCHANGED <<conn, broken, b2d, configs, reported, cfg>>
      /\ d2b'[c] = <<>> /\ handler'[c] = "none"
      /\ \A x \in Conns : x # c => d2b'[x] = d2b[x] /\ handler'[x] = handler[x]
      /\ writers' = IF writers = c THEN None ELSE writers
  BY DEF EndHandler, agentVars, TypeOK, LinkTypeOK
<1>1. Reports'
  <2>0. \A m : TrueReport(m) => TrueReport(m)'
    BY <1>0 DEF TrueReport, Stored
  <2>1. SUFFICES ASSUME NEW x \in Conns, NEW i \in DOMAIN d2b'[x] PROVE TrueReport(d2b'[x][i])
    BY <2>0, Zenon DEF Reports
  <2>2. x # c
    BY <1>0, <2>1
  <2>3. QED
    BY <1>0, <2>2 DEF ConfigInv, Reports
<1>2. FirstIsHello'
  BY <1>0 DEF ConfigInv, FirstIsHello
<1>3. ReportedKnown' /\ Running' /\ Queued'
  BY <1>0 DEF ConfigInv, ReportedKnown, Running, Queued, Stored
<1>4. InSync'
  <2>1. SUFFICES ASSUME Sound', Pushable' PROVE Synced'
    BY DEF InSync
  <2>2. conn # None /\ conn = writers /\ conn # c /\ conn \in Conns /\ Sound
    BY <1>0, <2>1 DEF Sound, TypeOK, LinkTypeOK
  <2>3. Synced /\ CurrentConfig' = CurrentConfig
    BY <1>0, <2>1, <2>2 DEF ConfigInv, InSync, Pushable, HasConfig, CurrentConfig
  <2>4. QED
    BY <1>0, <2>2, <2>3 DEF Synced, IsPush
<1>5. QED
  BY <1>1, <1>2, <1>3, <1>4 DEF ConfigInv

\* A connection starts with a HELLO that tells what the device runs.
LEMMA ConfigConnect ==
    ASSUME TypeOK, RegistryConsistent, ConfigInv, NEW c \in Conns, TcpConnect(c)
    PROVE  ConfigInv'
<1>0. /\ conn' = c /\ handler[c] = "none" /\ UNCHANGED <<configs, writers, reported, cfg>>
      /\ d2b'[c] = <<HelloFrame>> /\ b2d'[c] = <<>>
      /\ \A x \in Conns : x # c => d2b'[x] = d2b[x] /\ handler'[x] = handler[x]
  BY DEF TcpConnect, TcpOnConnected, Accept, Free, agentVars, ingestVars, TypeOK, LinkTypeOK
<1>1. HelloFrame.type = "HELLO" /\ HelloFrame.ver = cfg.ver /\ TrueReport(HelloFrame)
  BY DEF HelloFrame, Hello, TrueReport, ConfigInv, Running
<1>2. Reports'
  <2>0. \A m : TrueReport(m) => TrueReport(m)'
    BY <1>0 DEF TrueReport, Stored
  <2>1. SUFFICES ASSUME NEW x \in Conns, NEW i \in DOMAIN d2b'[x] PROVE TrueReport(d2b'[x][i])
    BY <2>0, Zenon DEF Reports
  <2>2. CASE x = c
    <3>1. d2b'[x][i] = HelloFrame
      BY <1>0, <2>1, <2>2
    <3>2. QED
      BY <1>1, <3>1
  <2>3. CASE x # c
    BY <1>0, <2>3 DEF ConfigInv, Reports
  <2>4. QED
    BY <2>2, <2>3
<1>3. FirstIsHello'
  BY <1>0, <1>1 DEF ConfigInv, FirstIsHello
<1>4. ReportedKnown' /\ Running'
  BY <1>0 DEF ConfigInv, ReportedKnown, Running, Stored
<1>5. Queued'
  BY <1>0 DEF Queued
<1>6. InSync'
  BY <1>0 DEF InSync, Sound, RegistryConsistent
<1>7. QED
  BY <1>2, <1>3, <1>4, <1>5, <1>6 DEF ConfigInv

\* The backend stops: connections and registry are gone, rows may have been added.
LEMMA ConfigStopped ==
    ASSUME TypeOK, ConfigInv, StaysStored, Stopped, UNCHANGED <<reported, agentVars>>
    PROVE  ConfigInv'
<1>0. UNCHANGED <<conn, b2d, cfg>> /\ writers' = None
  BY DEF Stopped, agentVars
<1>1. Reports' /\ FirstIsHello' /\ ReportedKnown'
  BY DEF Stopped, Reports, FirstIsHello, ReportedKnown
<1>2. Running'
  BY <1>0, Zenon DEF ConfigInv, Running, StaysStored
<1>3. Queued'
  BY <1>0, Zenon DEF ConfigInv, Queued, StaysStored
<1>4. InSync'
  BY <1>0 DEF InSync, Sound
<1>5. QED
  BY <1>1, <1>2, <1>3, <1>4 DEF ConfigInv

\* A request or a command pushes frames to the registered connection; a new row is
\* the newest one, and its CONFIG_SET is among the frames.
LEMMA ConfigPushed ==
    ASSUME TypeOK, RegistryConsistent, ConfigInv, StaysStored,
           UNCHANGED <<conn, handler, broken, d2b, writers, reported, agentVars>>,
           NEW ms \in Seq(BackendFrames), b2d' = BackendSends(writers, ms),
           writers # None => NewPushes(ms),
           UNCHANGED configs \/ \E k \in DOMAIN ms : IsPush(ms[k]) /\ ms[k].ver = CurrentConfig'.ver
    PROVE  ConfigInv'
<1>0. cfg' = cfg /\ writers \in Conns \cup {None}
  BY DEF agentVars, TypeOK, IngestTypeOK
<1>1. Reports'
  <2>1. \A m : TrueReport(m) => TrueReport(m)'
    BY Zenon DEF TrueReport, StaysStored
  <2>2. QED
    BY <2>1, Zenon DEF ConfigInv, Reports
<1>2. FirstIsHello'
  <2>1. \A x \in Conns : handler[x] = "new" => b2d'[x] = b2d[x]
    BY ConnsAssumption DEF RegistryConsistent, BackendSends, TypeOK, LinkTypeOK
  <2>2. QED
    BY <1>0, <2>1 DEF ConfigInv, FirstIsHello
<1>3. ReportedKnown'
  BY DEF ConfigInv, ReportedKnown
<1>4. Running'
  BY <1>0, Zenon DEF ConfigInv, Running, StaysStored
<1>5. /\ Queued'
      /\ conn # None =>
           \A i \in DOMAIN b2d[conn] : i \in DOMAIN b2d'[conn] /\ b2d'[conn][i] = b2d[conn][i]
      /\ writers = conn /\ conn # None /\ conn \notin broken =>
           \A k \in DOMAIN ms : \E i \in DOMAIN b2d'[conn] : b2d'[conn][i] = ms[k]
  BY <1>0, BackendPushes
<1>6. InSync'
  <2>1. SUFFICES ASSUME Sound', Pushable' PROVE Synced'
    BY DEF InSync
  <2>2. Sound /\ conn # None
    BY <2>1 DEF Sound
  <2>3. CASE UNCHANGED configs
    <3>1. Synced /\ CurrentConfig' = CurrentConfig
      BY <2>1, <2>2, <2>3 DEF ConfigInv, InSync, Pushable, HasConfig, CurrentConfig
    <3>2. QED
      BY <1>0, <1>5, <2>2, <3>1 DEF Synced, IsPush
  <2>4. CASE \E k \in DOMAIN ms : IsPush(ms[k]) /\ ms[k].ver = CurrentConfig'.ver
    <3>1. PICK k \in DOMAIN ms : IsPush(ms[k]) /\ ms[k].ver = CurrentConfig'.ver
      BY <2>4
    <3>2. PICK i \in DOMAIN b2d'[conn] : b2d'[conn][i] = ms[k]
      BY <1>5, <2>2 DEF Sound
    <3>3. QED
      BY <3>1, <3>2 DEF Synced, IsPush
  <2>5. QED
    BY <2>3, <2>4
<1>7. QED
  BY <1>1, <1>2, <1>3, <1>4, <1>5, <1>6 DEF ConfigInv

\* put_config pushes the row it inserts, whose version is the newest: when a writer
\* is registered, the reported version is one of the device's.
LEMMA ConfigPut ==
    ASSUME TypeOK, RegistryConsistent, VersionsIncrease, ConfigInv, StaysStored,
           NEW ok \in BOOLEAN, PutConfig(ok), UNCHANGED agentVars
    PROVE  ConfigInv'
<1>0. configs \in Seq(ConfigRow) /\ NewVersion \in Nat /\ reported \in Nat /\ BootCfg \in Nat
  BY BootAssumption, RowsType DEF TypeOK, IngestTypeOK
<1>1. PICK ack : configs' = NewConfigRow(ok, ack)
  BY DEF PutConfig
<1>2. PICK p : p = ConfigSet(NewVersion, ok)
  OBVIOUS
<1>3. p.ver = NewVersion /\ p.ok = ok /\ IsPush(p) /\ p \in BackendFrames
  BY <1>0, <1>2, FrameTypes DEF ConfigSet, IsPush
<1>4. CurrentConfig'.ver = NewVersion /\ Stored(p.ver, p.ok)'
  <2>1. /\ configs' = Append(configs, [ver |-> NewVersion, ok |-> ok, ack |-> ack])
        /\ Len(configs') = Len(configs) + 1 /\ Len(configs') \in DOMAIN configs'
        /\ configs'[Len(configs')] = [ver |-> NewVersion, ok |-> ok, ack |-> ack]
    BY <1>0, <1>1 DEF NewConfigRow
  <2>2. configs'[Len(configs')].ver = p.ver /\ configs'[Len(configs')].ok = p.ok
    BY <1>3, <2>1
  <2>3. QED
    BY <1>3, <2>1, <2>2 DEF Stored, CurrentConfig
<1>5. \A v, o : Stored(v, o) => v \in Nat /\ v <= p.ver
  <2>1. SUFFICES ASSUME NEW v, NEW o, Stored(v, o) PROVE v \in Nat /\ v <= NewVersion
    BY <1>3
  <2>2. HasConfig /\ CurrentConfig.ver \in Nat /\ v \in Nat /\ v <= CurrentConfig.ver
    BY <2>1, StoredBelow
  <2>3. QED
    BY <1>0, <2>2 DEF NewVersion
<1>6. writers # None => p.ver > BootCfg
  <2>1. NewVersion > reported
    <3>1. HasConfig => CurrentConfig.ver \in Nat
      BY RowsType DEF TypeOK, ConfigRow
    <3>2. QED
      BY <1>0, <3>1 DEF NewVersion
  <2>2. QED
    BY <1>0, <1>3, <2>1 DEF ConfigInv, ReportedKnown
<1>7. DOMAIN <<p>> = {1} /\ <<p>>[1] = p /\ <<p>> \in Seq(BackendFrames)
  BY <1>3
<1>8. writers # None => Newest(p)
  BY <1>0, <1>3, <1>5, <1>6, Zenon DEF Newest
<1>9. PICK ms : ms = <<p>>
  OBVIOUS
<1>10. DOMAIN ms = {1} /\ ms[1] = p /\ ms \in Seq(BackendFrames)
  BY <1>7, <1>9
<1>11. writers # None => NewPushes(ms)
  BY <1>4, <1>8, <1>10 DEF NewPushes
<1>12. b2d' = BackendSends(writers, ms)
  BY <1>2, <1>9 DEF PutConfig
<1>13. UNCHANGED <<conn, handler, broken, d2b, writers, reported>>
  BY DEF PutConfig
<1>14. \E k \in DOMAIN ms : IsPush(ms[k]) /\ ms[k].ver = CurrentConfig'.ver
  BY <1>3, <1>4, <1>10
<1>15. QED
  BY <1>10, <1>11, <1>12, <1>13, <1>14, ConfigPushed

-----------------------------------------------------------------------------
\* ConfigInv is inductive, given the types, the registry and the order of versions;
\* only a restart of the device process takes the configuration back.
LEMMA ConfigStep ==
    ASSUME TypeOK, RegistryConsistent, VersionsIncrease, ConfigInv, [Next]_vars
    PROVE  ConfigInv' /\ (ProcessRestarts \/ cfg'.ver >= cfg.ver)
<1>0. StaysStored
  BY StoredStays
<1>1. UNCHANGED agentVars => cfg'.ver >= cfg.ver
  BY DEF agentVars, TypeOK, AgentTypeOK
<1>2. ASSUME UNCHANGED <<conn, handler, d2b, b2d, writers, reported, configs, agentVars>>,
             broken \subseteq broken'
      PROVE  ConfigInv'
  <2>1. Reports' /\ FirstIsHello' /\ ReportedKnown' /\ Running'
    BY <1>2 DEF ConfigInv, Reports, FirstIsHello, ReportedKnown, Running, TrueReport, Stored, agentVars
  <2>2. Queued'
    BY <1>2 DEF ConfigInv, Queued, Stored, IsPush, agentVars
  <2>3. InSync'
    BY <1>2 DEF ConfigInv, InSync, Sound, Pushable, HasConfig, Synced, CurrentConfig, IsPush, agentVars
  <2>4. QED
    BY <2>1, <2>2, <2>3 DEF ConfigInv
<1>3. ASSUME NEW m \in BackendFrames, ~IsPush(m), b2d' = BackendSends(writers, <<m>>),
             UNCHANGED <<conn, handler, broken, d2b, writers, reported, configs, agentVars>>
      PROVE  ConfigInv'
  <2>1. PICK ms : ms = <<m>>
    OBVIOUS
  <2>2. ms \in Seq(BackendFrames) /\ DOMAIN ms = {1} /\ ms[1] = m
    BY <2>1
  <2>3. NewPushes(ms)
    BY <1>3, <2>2 DEF NewPushes
  <2>4. QED
    BY <1>0, <1>3, <2>1, <2>2, <2>3, ConfigPushed
<1>4. ASSUME NEW c \in Conns, TcpConnect(c) PROVE ConfigInv' /\ cfg'.ver >= cfg.ver
  BY <1>1, <1>4, ConfigConnect DEF TcpConnect, TcpOnConnected
<1>5. CASE AgentStep
  BY <1>5, ConfigAgentStep
<1>6. ASSUME NEW c \in Conns, HandlerStep(c) PROVE ConfigInv' /\ cfg'.ver >= cfg.ver
  BY <1>0, <1>1, <1>6, ConfigHello, ConfigOtherDispatch, ConfigEndHandler DEF HandlerStep
<1>7. CASE Request
  <2>1. UNCHANGED agentVars
    BY <1>7 DEF Request
  <2>2. ASSUME NEW t \in Targets, FirmwareDeploy(t) PROVE ConfigInv'
    <3>1. FwUpdate(t) \in BackendFrames /\ ~IsPush(FwUpdate(t))
      BY BoundsAssumption, FrameTypes DEF IsPush, FwUpdate
    <3>2. QED
      BY <1>3, <2>1, <2>2, <3>1 DEF FirmwareDeploy
  <2>3. QED
    BY <1>0, <1>1, <1>7, <2>1, <2>2, ConfigPut DEF Request
<1>8. CASE FirstTelemetry
  BY <1>1, <1>2, <1>8 DEF FirstTelemetry, TelemetrySeen, linkVars
<1>9. CASE Command
  <2>1. UNCHANGED agentVars
    BY <1>9 DEF Command
  <2>2. PICK code \in CmdCodes : DeviceCmd(code)
    BY <1>9 DEF Command
  <2>3. Cmd(code) \in BackendFrames /\ ~IsPush(Cmd(code))
    BY FrameTypes DEF IsPush, Cmd
  <2>4. QED
    BY <1>1, <1>3, <2>1, <2>2, <2>3 DEF DeviceCmd, ingestVars
<1>10. CASE Fault
  <2>1. CASE DeviceRestart
    <3>1. ProcessRestarts
      BY <1>10, <2>1 DEF ProcessRestarts, Fault, TypeOK
    <3>2. /\ conn' = None /\ UNCHANGED <<d2b, handler, writers, reported, configs>>
          /\ cfg' = [ver |-> BootCfg, pushed |-> FALSE]
      BY <2>1 DEF DeviceRestart, ProcessRestart, Booted, DeviceCloses, ingestVars
    <3>3. Reports' /\ FirstIsHello' /\ ReportedKnown' /\ Queued' /\ InSync'
      BY <3>2, ConnsAssumption DEF ConfigInv, Reports, FirstIsHello, ReportedKnown, Queued, InSync,
         Sound, TrueReport, Stored
    <3>4. Running'
      BY <3>2, BootAssumption DEF Running
    <3>5. QED
      BY <3>1, <3>3, <3>4 DEF ConfigInv
  <2>2. CASE BackendFault
    <3>1. Stopped /\ UNCHANGED <<reported, agentVars>>
      BY <2>2 DEF BackendFault, BackendRestart, PutConfigInterrupted, FirmwareDeployInterrupted
    <3>2. QED
      BY <1>0, <1>1, <3>1, ConfigStopped
  <2>3. CASE LinkFault
    <3>1. /\ UNCHANGED <<conn, handler, d2b, b2d, writers, reported, configs, agentVars>>
          /\ broken \subseteq broken'
      BY <2>3 DEF LinkFault, BreakLink, ingestVars
    <3>2. QED
      BY <1>1, <1>2, <3>1 DEF agentVars
  <2>4. QED
    BY <1>10, <2>1, <2>2, <2>3 DEF Fault
<1>11. CASE UNCHANGED vars
  <2>1. /\ UNCHANGED <<conn, handler, d2b, b2d, writers, reported, configs, agentVars>>
        /\ broken \subseteq broken'
    BY <1>11 DEF vars, linkVars, ingestVars
  <2>2. QED
    BY <1>1, <1>2, <2>1 DEF agentVars
<1>12. QED
  BY <1>4, <1>5, <1>6, <1>7, <1>8, <1>9, <1>10, <1>11 DEF Next

\* ConfigInv holds in every reachable state.
LEMMA ConfigInvariant == Spec => []ConfigInv
<1>1. Init => ConfigInv
  <2>1. SUFFICES ASSUME Init PROVE ConfigInv
    OBVIOUS
  <2>2. Reports /\ FirstIsHello /\ ReportedKnown
    BY <2>1 DEF Init, LinkInit, IngestInit, Reports, FirstIsHello, ReportedKnown
  <2>3. Running
    BY <2>1, BootAssumption DEF Init, AgentInit, Running
  <2>4. Queued /\ InSync
    BY <2>1 DEF Init, LinkInit, Queued, InSync, Sound
  <2>5. QED
    BY <2>2, <2>3, <2>4 DEF ConfigInv
<1>2. TypeOK /\ RegistryConsistent /\ VersionsIncrease /\ ConfigInv /\ [Next]_vars => ConfigInv'
  BY ConfigStep
<1>3. QED
  BY <1>1, <1>2, TypeCorrect, RegistryAlwaysConsistent, VersionsAlwaysIncrease, PTL DEF Spec

\* No step but a restart of the device process takes a running device back to an
\* older configuration, although handleConfigSet takes any version it is sent.
THEOREM ConfigGoesForward == Spec => ConfigNeverRegresses
<1>1. TypeOK /\ RegistryConsistent /\ VersionsIncrease /\ ConfigInv /\ [Next]_vars
        => [ProcessRestarts \/ cfg'.ver >= cfg.ver]_vars
  BY ConfigStep
<1>2. QED
  BY <1>1, ConfigInvariant, TypeCorrect, RegistryAlwaysConsistent, VersionsAlwaysIncrease, PTL
     DEF Spec, ConfigNeverRegresses

\* Whenever the channel is up and idle, the device runs the newest stored
\* configuration or has rejected it and the row says so, for any number of
\* connections, configurations, commands and faults.
THEOREM IdleChannelInSync == Spec => []DrainedConfigInSync
<1>1. TypeOK /\ VersionsIncrease /\ ConfigInv => DrainedConfigInSync
  <2>1. SUFFICES ASSUME TypeOK, VersionsIncrease, ConfigInv, Drained, Pushable
                 PROVE  IF CurrentConfig.ok
                        THEN cfg = [ver |-> CurrentConfig.ver, pushed |-> TRUE]
                        ELSE CurrentConfig.ack = "rejected"
    BY DEF DrainedConfigInSync
  <2>2. Synced /\ b2d[conn] = <<>> /\ d2b[conn] = <<>>
    BY <2>1 DEF ConfigInv, InSync, Sound, Drained
  <2>3. cfg.ver = CurrentConfig.ver \/ (~CurrentConfig.ok /\ CurrentConfig.ack = "rejected")
    BY <2>2 DEF Synced
  <2>4. CASE cfg.ver = CurrentConfig.ver
    <3>1. cfg.ver > BootCfg
      BY <2>1, <2>4 DEF Pushable
    <3>2. cfg.pushed /\ Stored(cfg.ver, TRUE)
      BY <2>1, <3>1 DEF ConfigInv, Running
    <3>3. TRUE = CurrentConfig.ok
      BY <2>1, <2>4, <3>2, StoredBelow
    <3>4. cfg = [ver |-> cfg.ver, pushed |-> cfg.pushed] /\ cfg.pushed \in BOOLEAN
      BY <2>1 DEF TypeOK, AgentTypeOK
    <3>5. QED
      BY <2>4, <3>2, <3>3, <3>4
  <2>5. QED
    BY <2>3, <2>4
<1>2. QED
  BY <1>1, ConfigInvariant, TypeCorrect, VersionsAlwaysIncrease, PTL

-----------------------------------------------------------------------------
(* The control plane implements the configuration service.                 *)

ServiceRow == [ver : Nat, ok : BOOLEAN, answer : {"none", "applied", "rejected"}]

\* The rows the service sees are those of the table, one by one.
LEMMA RowsAre ==
    ASSUME TypeOK
    PROVE  /\ configs \in Seq(ConfigRow) /\ Len(configs) \in Nat /\ DOMAIN configs = 1 .. Len(configs)
           /\ Rows \in Seq(ServiceRow) /\ DOMAIN Rows = DOMAIN configs /\ Len(Rows) = Len(configs)
           /\ \A i \in DOMAIN configs :
                /\ configs[i] \in ConfigRow /\ Rows[i] = Row(configs[i])
                /\ Rows[i].ver = configs[i].ver /\ Rows[i].ok = configs[i].ok
<1>1. configs \in Seq(ConfigRow) /\ Len(configs) \in Nat /\ DOMAIN configs = 1 .. Len(configs)
  BY DEF TypeOK, IngestTypeOK
<1>2. \A i \in DOMAIN configs : configs[i] \in ConfigRow
  BY <1>1
<1>3. \A r \in ConfigRow : Row(r) \in ServiceRow /\ Row(r).ver = r.ver /\ Row(r).ok = r.ok
  BY DEF Row, ConfigRow, ServiceRow
<1>4. DOMAIN Rows = DOMAIN configs /\ \A i \in DOMAIN configs : Rows[i] = Row(configs[i])
  BY DEF Rows
<1>5. Rows \in [1 .. Len(configs) -> ServiceRow]
  BY <1>1, <1>2, <1>3 DEF Rows
<1>6. Rows \in Seq(ServiceRow) /\ Len(Rows) = Len(configs)
  BY <1>1, <1>5
<1>7. QED
  BY <1>1, <1>2, <1>3, <1>4, <1>6

\* put_config, whether or not the push gets through.
LEMMA StoreRefines ==
    ASSUME TypeOK, VersionsIncrease, NEW ok \in BOOLEAN, NEW a \in {"pending", "queued", "sent"},
           configs' = NewConfigRow(ok, a), UNCHANGED cfg
    PROVE  Service!Next
<1> DEFINE new == [ver |-> NewVersion, ok |-> ok, ack |-> a]
           len == Len(configs)
<1>1. /\ configs \in Seq(ConfigRow) /\ len \in Nat /\ DOMAIN configs = 1 .. len
      /\ Rows \in Seq(ServiceRow) /\ DOMAIN Rows = 1 .. len /\ Len(Rows) = len
      /\ \A i \in DOMAIN configs :
           /\ configs[i] \in ConfigRow /\ Rows[i] = Row(configs[i]) /\ Rows[i].ver = configs[i].ver
  BY RowsAre
<1>2. NewVersion \in Nat /\ \A i \in DOMAIN configs : configs[i].ver < NewVersion
  BY NewVersionAbove
<1>3. new \in ConfigRow /\ configs' = Append(configs, new)
  BY <1>2 DEF NewConfigRow, ConfigRow, AckStatus
<1>4. /\ DOMAIN configs' = 1 .. len + 1 /\ configs'[len + 1] = new
      /\ \A i \in 1 .. len : configs'[i] = configs[i]
  BY <1>1, <1>3
<1>5. Row(new) \in ServiceRow /\ Row(new).ver = NewVersion /\ Row(new).answer = "none"
  BY <1>2 DEF Row, ServiceRow
<1> HIDE DEF new, len
<1>6. Rows' = [i \in DOMAIN configs' |-> Row(configs'[i])]
  BY DEF Rows, Row
<1>7. DOMAIN Rows' = 1 .. len + 1 /\ Rows' \in [1 .. len + 1 -> ServiceRow]
  <2>1. \A i \in 1 .. len + 1 : Row(configs'[i]) \in ServiceRow
    <3>1. TAKE i \in 1 .. len + 1
    <3>2. i = len + 1 \/ i \in 1 .. len
      BY <1>1
    <3>3. \A k \in 1 .. len : Rows[k] \in ServiceRow
      BY <1>1
    <3>4. QED
      BY <1>1, <1>4, <1>5, <3>2, <3>3
  <2>2. QED
    BY <1>4, <1>6, <2>1
<1>8. Rows' \in Seq(ServiceRow) /\ Len(Rows') = len + 1
  BY <1>1, <1>7
<1>9. len + 1 \in 1 .. len + 1 /\ \A i \in 1 .. len : i \in 1 .. len + 1
  BY <1>1
<1>10. Rows'[len + 1] = Row(new) /\ \A i \in 1 .. len : Rows'[i] = Rows[i]
  BY <1>1, <1>4, <1>6, <1>9
<1>11. Append(Rows, Row(new)) \in Seq(ServiceRow) /\ Len(Append(Rows, Row(new))) = len + 1
       /\ \A i \in 1 .. len + 1 : Append(Rows, Row(new))[i] = Rows'[i]
  <2>1. /\ Append(Rows, Row(new)) \in Seq(ServiceRow) /\ Len(Append(Rows, Row(new))) = len + 1
        /\ \A i \in 1 .. len : Append(Rows, Row(new))[i] = Rows[i]
        /\ Append(Rows, Row(new))[len + 1] = Row(new)
    BY <1>1, <1>5
  <2>2. \A i \in 1 .. len + 1 : i = len + 1 \/ i \in 1 .. len
    BY <1>1
  <2>3. QED
    BY <1>10, <2>1, <2>2
<1>12. Rows' = Append(Rows, Row(new))
  BY <1>8, <1>11
<1>13. Rows'[Len(Rows')] = Row(new)
  BY <1>8, <1>10
<1>14. Service!Store
  <2>1. \A i \in DOMAIN Rows : Rows[i].ver < Row(new).ver
    BY <1>1, <1>2, <1>5
  <2>2. Len(Rows') = Len(Rows) + 1
    BY <1>1, <1>8
  <2>3. QED
    BY <1>5, <1>12, <1>13, <2>1, <2>2 DEF Service!Store
<1>15. QED
  BY <1>14 DEF Service!Next

\* Rows are acknowledged or pushed again by version: one row has it.
LEMMA AckRefines ==
    ASSUME TypeOK, VersionsIncrease, NEW k \in DOMAIN configs, NEW st \in AckStatus,
           configs' = AckConfig(configs, configs[k].ver, st)
    PROVE  Rows' = [Rows EXCEPT ![k].answer = IF st \in {"applied", "rejected"} THEN st ELSE "none"]
<1> DEFINE ans == IF st \in {"applied", "rejected"} THEN st ELSE "none"
<1>1. /\ configs \in Seq(ConfigRow) /\ DOMAIN configs = 1 .. Len(configs) /\ Len(configs) \in Nat
      /\ Rows \in Seq(ServiceRow) /\ DOMAIN Rows = DOMAIN configs
      /\ \A i \in DOMAIN configs : configs[i] \in ConfigRow /\ Rows[i] = Row(configs[i])
  BY RowsAre
<1>2. DOMAIN configs' = DOMAIN configs
  BY DEF AckConfig
<1>3. ASSUME NEW i \in DOMAIN configs, i # k PROVE configs'[i] = configs[i]
  <2>1. configs[i].ver \in Nat /\ configs[k].ver \in Nat
    BY <1>1 DEF ConfigRow
  <2>2. i < k \/ k < i
    BY <1>1, <1>3
  <2>3. configs[i].ver # configs[k].ver
    BY <2>1, <2>2 DEF VersionsIncrease
  <2>4. QED
    BY <2>3 DEF AckConfig
<1>4. configs'[k] = [configs[k] EXCEPT !.ack = st]
  BY DEF AckConfig
<1>5. Row(configs'[k]) = [Rows[k] EXCEPT !.answer = ans]
  <2>1. configs[k] \in ConfigRow /\ Rows[k] = Row(configs[k])
    BY <1>1
  <2>2. QED
    BY <1>4, <2>1 DEF Row, ConfigRow
<1>6. Rows' = [i \in DOMAIN configs' |-> Row(configs'[i])]
  BY DEF Rows, Row
<1>7. \A i \in DOMAIN configs : Rows'[i] = IF i = k THEN [Rows[k] EXCEPT !.answer = ans] ELSE Rows[i]
  BY <1>1, <1>2, <1>3, <1>5, <1>6
<1> HIDE DEF ans
<1>8. Rows' = [Rows EXCEPT ![k] = [Rows[k] EXCEPT !.answer = ans]]
  <2>1. Rows' = [i \in DOMAIN configs |-> Rows'[i]]
    BY <1>2, <1>6
  <2>2. [Rows EXCEPT ![k] = [Rows[k] EXCEPT !.answer = ans]]
          = [i \in DOMAIN configs |-> IF i = k THEN [Rows[k] EXCEPT !.answer = ans] ELSE Rows[i]]
    BY <1>1
  <2>3. QED
    BY <1>7, <2>1, <2>2
<1>9. QED
  BY <1>8 DEF ans

\* The device's answer to a row.
LEMMA AnswerRefines ==
    ASSUME TypeOK, VersionsIncrease, NEW v, NEW st \in {"applied", "rejected"}, Stored(v, st = "applied"),
           configs' = AckConfig(configs, v, st), UNCHANGED cfg
    PROVE  Service!Next
<1>1. PICK k \in DOMAIN configs : configs[k].ver = v /\ configs[k].ok = (st = "applied")
  BY DEF Stored
<1>2. st \in AckStatus
  BY DEF AckStatus
<1>3. Rows' = [Rows EXCEPT ![k].answer = st]
  BY <1>1, <1>2, AckRefines
<1>4. k \in DOMAIN Rows /\ Rows[k].ok = configs[k].ok
  BY <1>1, RowsAre
<1>5. Service!Verdict(Rows[k]) = st
  BY <1>1, <1>4 DEF Service!Verdict
<1>6. Service!Answered(k)
  BY <1>3, <1>5 DEF Service!Answered
<1>7. QED
  BY <1>4, <1>6 DEF Service!Next

\* The newest row is pushed again on HELLO.
LEMMA PushRefines ==
    ASSUME TypeOK, VersionsIncrease, HasConfig, NEW st \in {"queued", "sent"},
           configs' = AckConfig(configs, CurrentConfig.ver, st), UNCHANGED cfg
    PROVE  Service!Next
<1>1. PICK k : k = Len(configs)
  OBVIOUS
<1>2. k \in DOMAIN configs /\ Rows # <<>> /\ Len(Rows) = k
  BY <1>1, RowsAre DEF HasConfig
<1>3. st \in AckStatus /\ ~(st \in {"applied", "rejected"})
  BY DEF AckStatus
<1>4. configs' = AckConfig(configs, configs[k].ver, st)
  BY <1>1 DEF CurrentConfig
<1>5. Rows' = [Rows EXCEPT ![k].answer = "none"]
  BY <1>2, <1>3, <1>4, AckRefines
<1>6. Service!PushedAgain
  BY <1>2, <1>5 DEF Service!PushedAgain
<1>7. QED
  BY <1>6 DEF Service!Next

\* handleConfigSet: the device runs the configuration it is sent, which is a stored
\* one and newer, or the one it has; an invalid one changes nothing.
LEMMA RunRefines ==
    ASSUME TypeOK, ConfigInv, HandleConfigSet, UNCHANGED configs
    PROVE  Service!Next \/ UNCHANGED cfg
<1> DEFINE f == InFrame
<1>0. /\ conn \in Conns /\ conn # None /\ b2d[conn] # <<>> /\ f.type = "CONFIG_SET"
      /\ cfg.ver \in Nat /\ cfg.pushed \in BOOLEAN /\ BootCfg \in Nat
      /\ cfg = [ver |-> cfg.ver, pushed |-> cfg.pushed]
  BY BootAssumption, ConnsAssumption DEF HandleConfigSet, Receives, InFrame, TypeOK, LinkTypeOK,
     AgentTypeOK
<1>1. f = b2d[conn][1] /\ 1 \in DOMAIN b2d[conn] /\ f \in BackendFrames
  BY <1>0, AgentConsumes DEF HandleConfigSet
<1>2. f.ver \in Nat /\ f.ok \in BOOLEAN
  BY <1>0, <1>1 DEF BackendFrames
<1>3. f.ver > BootCfg /\ f.ver >= cfg.ver /\ Stored(f.ver, f.ok)
  BY <1>0, <1>1 DEF ConfigInv, Queued, IsPush
<1>4. cfg' = IF f.ok THEN [ver |-> f.ver, pushed |-> TRUE] ELSE cfg
  BY DEF HandleConfigSet
<1> HIDE DEF f
<1>5. CASE ~f.ok
  BY <1>4, <1>5
<1>6. CASE f.ok /\ f.ver = cfg.ver
  <2>1. cfg.pushed = TRUE
    BY <1>0, <1>3, <1>6 DEF ConfigInv, Running
  <2>2. QED
    BY <1>0, <1>4, <1>6, <2>1
<1>7. CASE f.ok /\ f.ver > cfg.ver
  <2>1. PICK k \in DOMAIN configs : configs[k].ver = f.ver /\ configs[k].ok = f.ok
    BY <1>3 DEF Stored
  <2>2. k \in DOMAIN Rows /\ Rows[k].ver = f.ver /\ Rows[k].ok = f.ok
    BY <2>1, RowsAre
  <2>3. UNCHANGED Rows
    BY DEF Rows, Row
  <2>4. Service!Run(k)
    BY <1>4, <1>7, <2>2, <2>3 DEF Service!Run
  <2>5. QED
    BY <2>2, <2>4 DEF Service!Next
<1>8. QED
  BY <1>0, <1>2, <1>3, <1>5, <1>6, <1>7

\* _dispatch: a HELLO may push the newest row again, an ack records the answer.
LEMMA DispatchRefines ==
    ASSUME TypeOK, VersionsIncrease, ConfigInv, NEW c \in Conns, HandlerStep(c)
    PROVE  Service!Next \/ UNCHANGED <<configs, cfg>>
<1>0. UNCHANGED cfg
  BY DEF HandlerStep, agentVars
<1>1. CASE DispatchHello(c)
  <2>1. CASE ConfigStale(OutFrame(c))
    <3>1. PICK ok \in SendResults(WriterAfter(c)) :
            configs' = AckConfig(configs, CurrentConfig.ver, Pushed(ok))
      BY <1>1, <2>1 DEF DispatchHello
    <3>2. Pushed(ok) \in {"queued", "sent"} /\ HasConfig
      BY <2>1 DEF Pushed, ConfigStale
    <3>3. QED
      BY <1>0, <3>1, <3>2, PushRefines
  <2>2. CASE ~ConfigStale(OutFrame(c))
    BY <1>0, <1>1, <2>2 DEF DispatchHello
  <2>3. QED
    BY <2>1, <2>2
<1>2. CASE DispatchConfigAck(c)
  <2>1. /\ d2b[c] # <<>> /\ OutFrame(c).type = "CONFIG_ACK" /\ d2b[c] \in Seq(DeviceFrames)
        /\ configs' = AckConfig(configs, OutFrame(c).ver, OutFrame(c).status)
    BY <1>2 DEF DispatchConfigAck, Gets, TypeOK, LinkTypeOK
  <2>2. OutFrame(c) = d2b[c][1] /\ 1 \in DOMAIN d2b[c]
    BY <2>1 DEF OutFrame
  <2>3. TrueReport(OutFrame(c))
    BY <2>2 DEF ConfigInv, Reports
  <2>4. OutFrame(c) \in DeviceFrames
    BY <2>1, OutFrameTypes DEF TypeOK
  <2>5. OutFrame(c).status \in {"applied", "rejected"}
    BY <2>1, <2>4 DEF DeviceFrames
  <2>6. Stored(OutFrame(c).ver, OutFrame(c).status = "applied")
    <3>1. CASE OutFrame(c).status = "applied"
      <4>1. Stored(OutFrame(c).ver, TRUE)
        BY <2>1, <2>3, <3>1 DEF TrueReport
      <4>2. QED
        BY <3>1, <4>1 DEF Stored
    <3>2. CASE OutFrame(c).status = "rejected"
      <4>1. Stored(OutFrame(c).ver, FALSE)
        BY <2>1, <2>3, <3>2 DEF TrueReport
      <4>2. (OutFrame(c).status = "applied") = FALSE
        BY <3>2
      <4>3. QED
        BY <4>1, <4>2 DEF Stored
    <3>3. QED
      BY <2>5, <3>1, <3>2
  <2>7. QED
    BY <1>0, <2>1, <2>5, <2>6, AnswerRefines
<1>3. CASE DispatchHeartbeat(c) \/ DispatchFwAck(c) \/ EndHandler(c)
  BY <1>0, <1>3 DEF DispatchHeartbeat, DispatchFwAck, EndHandler
<1>4. QED
  BY <1>1, <1>2, <1>3 DEF HandlerStep

\* Every step of the control plane is a step of the service, or changes nothing it
\* promises about.
LEMMA ServiceStep ==
    ASSUME TypeOK, VersionsIncrease, ConfigInv, [Next]_vars
    PROVE  [Service!Next]_(Service!vars)
<1>0. SUFFICES Service!Next \/ UNCHANGED <<configs, cfg>>
  BY DEF Service!vars, Rows, Row
<1>1. ASSUME NEW c \in Conns, TcpConnect(c) PROVE UNCHANGED <<configs, cfg>>
  BY <1>1 DEF TcpConnect, TcpOnConnected, Accept, ingestVars, agentVars
<1>2. CASE AgentStep
  <2>1. UNCHANGED configs
    BY <1>2 DEF AgentStep, ingestVars
  <2>2. CASE HandleConfigSet
    BY <2>1, <2>2, RunRefines
  <2>3. CASE ~HandleConfigSet
    BY <1>2, <2>1, <2>3 DEF AgentStep, TcpFail, RebootDone, SendHeartbeat, OtaProgress, OtaDone,
       HandleFwUpdate, HandleReboot, HandleRequestHello, StartReboot, agentVars
  <2>4. QED
    BY <2>2, <2>3
<1>3. ASSUME NEW c \in Conns, HandlerStep(c)
      PROVE  Service!Next \/ UNCHANGED <<configs, cfg>>
  BY <1>3, DispatchRefines
<1>4. ASSUME NEW ok \in BOOLEAN, PutConfig(ok) \/ PutConfigInterrupted(ok), UNCHANGED cfg
      PROVE  Service!Next
  <2>1. PICK a \in {"pending", "queued", "sent"} : configs' = NewConfigRow(ok, a)
    BY <1>4 DEF PutConfig, PutConfigInterrupted, Pushed
  <2>2. QED
    BY <1>4, <2>1, StoreRefines
<1>5. CASE Request
  BY <1>4, <1>5 DEF Request, FirmwareDeploy, agentVars
<1>6. CASE FirstTelemetry \/ Command
  BY <1>6 DEF FirstTelemetry, TelemetrySeen, Command, DeviceCmd, ingestVars, agentVars
<1>7. CASE Fault
  <2>1. CASE DeviceRestart
    <3>1. UNCHANGED configs /\ cfg' = [ver |-> BootCfg, pushed |-> FALSE]
      BY <2>1 DEF DeviceRestart, ProcessRestart, Booted, ingestVars
    <3>2. Service!Restart
      BY <3>1 DEF Service!Restart, Service!Boot, Rows, Row
    <3>3. QED
      BY <3>2 DEF Service!Next
  <2>2. CASE BackendFault
    BY <1>4, <2>2 DEF BackendFault, BackendRestart, FirmwareDeployInterrupted, agentVars
  <2>3. CASE LinkFault
    BY <2>3 DEF LinkFault, ingestVars, agentVars
  <2>4. QED
    BY <1>7, <2>1, <2>2, <2>3 DEF Fault
<1>8. CASE UNCHANGED vars
  BY <1>8 DEF vars, ingestVars, agentVars
<1>9. QED
  BY <1>1, <1>2, <1>3, <1>5, <1>6, <1>7, <1>8 DEF Next

\* The control plane implements the configuration service, for any number of
\* connections, configurations, firmware jobs, commands and faults: the device runs
\* valid stored configurations only, newer and newer until it is restarted, and an
\* answer a row of device_config carries is the device's verdict on that row, kept
\* until _after_hello pushes the row again.
THEOREM ControlPlaneImplementsService == Spec => ImplementsConfigService
<1>1. Init => Service!Init
  BY DEF Init, IngestInit, AgentInit, Booted, Service!Init, Service!Boot, Rows
<1>2. TypeOK /\ VersionsIncrease /\ ConfigInv /\ [Next]_vars => [Service!Next]_(Service!vars)
  BY ServiceStep
<1>3. QED
  BY <1>1, <1>2, TypeCorrect, VersionsAlwaysIncrease, ConfigInvariant, PTL
     DEF Spec, ImplementsConfigService, Service!Spec
==============================================================================
