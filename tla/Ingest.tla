------------------------------- MODULE Ingest --------------------------------
(***************************************************************************)
(* The backend's control plane for one device: the TCP half of             *)
(* backend/app/ingest.py, the endpoints of api.py that push frames, and    *)
(* the tables of db.py they read and write.                                *)
(*                                                                         *)
(* The coroutines run on one event loop and suspend only in reader.read(): *)
(* StreamWriter.drain() returns at once below the 64 KiB high-water mark,  *)
(* so dispatching one frame, or serving one request, is one atomic step.   *)
(***************************************************************************)
EXTENDS ControlLink

CONSTANTS
    Targets,    \* firmware registry: the version strings an operator may deploy
    MaxConfigs, \* bound: rows of device_config
    MaxJobs     \* bound: rows of fw_jobs

ASSUME BoundsAssumption ==
    /\ Targets \subseteq FwString
    /\ MaxConfigs \in Nat
    /\ MaxJobs \in Nat

VARIABLES
    writers,    \* self.writers[device]: a connection, or None
    known,      \* the devices row exists
    reported,   \* devices.reported_config_version
    configs,    \* device_config rows, oldest first
    jobs        \* fw_jobs rows, oldest first

ingestVars == <<writers, known, reported, configs, jobs>>

AckStatus == {"pending", "queued", "sent", "applied", "rejected"}

Terminal == {"complete", "rejected", "failed"}

JobStatus == {"pending", "sent", "queued"} \cup FwAckStatus \cup Terminal

ConfigRow == [ver : Nat, ok : BOOLEAN, ack : AckStatus]

JobRow == [target : FwString, status : JobStatus]

IngestTypeOK ==
    /\ writers \in Conns \cup {None}
    /\ known \in BOOLEAN
    /\ reported \in Nat
    /\ configs \in Seq(ConfigRow)
    /\ jobs \in Seq(JobRow)

IngestInit ==
    /\ writers = None
    /\ known = FALSE
    /\ reported = 0
    /\ configs = <<>>
    /\ jobs = <<>>

-----------------------------------------------------------------------------
(* Database queries and updates.                                           *)

\* current_config: ORDER BY version DESC LIMIT 1.  NewVersion keeps the rows
\* in version order, so the newest row is the last one.
CurrentConfig == configs[Len(configs)]

HasConfig == configs # <<>>

\* fw_job_latest
LatestJob == jobs[Len(jobs)]

\* Mutant of JobUnfinished: the terminal states are not excluded.
JobExists == jobs # <<>>

JobUnfinished == jobs # <<>> /\ LatestJob.status \notin Terminal

\* Mutant of NewVersion: the reported version is forgotten.
NewVersionFromStored == (IF HasConfig THEN CurrentConfig.ver ELSE 0) + 1

\* new_config: one above both the stored and the reported version.
NewVersion ==
    LET cur == IF HasConfig THEN CurrentConfig.ver ELSE 0
    IN  (IF cur > reported THEN cur ELSE reported) + 1

\* Mutant of AckConfig: rows of earlier versions are updated too.
AckConfigUpTo(rows, ver, status) ==
    [i \in DOMAIN rows |->
        IF rows[i].ver <= ver THEN [rows[i] EXCEPT !.ack = status] ELSE rows[i]]

\* UPDATE device_config SET ack_status=status WHERE version=ver
AckConfig(rows, ver, status) ==
    [i \in DOMAIN rows |->
        IF rows[i].ver = ver THEN [rows[i] EXCEPT !.ack = status] ELSE rows[i]]

\* fw_job_update on the newest job
UpdateLatestJob(status) == [jobs EXCEPT ![Len(jobs)].status = status]

\* Mutant of Pushed: a status the table does not know.
PushedOffline(ok) == IF ok THEN "sent" ELSE "offline"

Pushed(ok) == IF ok THEN "sent" ELSE "queued"

-----------------------------------------------------------------------------
(* Connections.                                                            *)

\* asyncio accepts a connection and starts _handle_tcp.
Accept(c) ==
    /\ Free(c)
    /\ handler' = [handler EXCEPT ![c] = "new"]
    /\ broken' = broken \ {c}
    /\ closing' = closing \ {c}
    /\ UNCHANGED ingestVars

OutFrame(c) == Head(d2b[c])

Gets(c, type) == handler[c] # "none" /\ d2b[c] # <<>> /\ OutFrame(c).type = type

\* The writer after _register, which runs for the first frame of c only.
WriterAfter(c) == IF handler[c] = "new" THEN c ELSE writers

\* _register: c becomes the device's writer and a writer it replaces is closed.
Register(c) ==
    /\ writers' = WriterAfter(c)
    /\ handler' = [handler EXCEPT ![c] = "reg"]
    /\ closing' = IF handler[c] = "new" /\ writers \notin {None, c}
                  THEN closing \cup {writers} ELSE closing
    /\ d2b' = [d2b EXCEPT ![c] = Tail(@)]
    /\ UNCHANGED <<conn, broken>>

\* Mutant of EndHandler: the finally block without its identity test.
EndHandlerAnyWriter(c) ==
    /\ handler[c] # "none"
    /\ conn # c \/ c \in broken \cup closing
    /\ writers' = None
    /\ handler' = [handler EXCEPT ![c] = "none"]
    /\ closing' = closing \ {c}
    /\ d2b' = [d2b EXCEPT ![c] = <<>>]
    /\ UNCHANGED <<conn, broken, b2d, known, reported, configs, jobs>>

\* The read loop of _handle_tcp ends (EOF, socket error, or its own writer was
\* closed) and the finally block runs: only the registered writer is removed.
EndHandler(c) ==
    /\ handler[c] # "none"
    /\ conn # c \/ c \in broken \cup closing
    /\ writers' = IF writers = c THEN None ELSE writers
    /\ handler' = [handler EXCEPT ![c] = "none"]
    /\ closing' = closing \ {c}
    /\ d2b' = [d2b EXCEPT ![c] = <<>>]
    /\ UNCHANGED <<conn, broken, b2d, known, reported, configs, jobs>>

\* The process stops and is started again: connections and the registry are
\* gone, the database stays.
Stopped ==
    /\ writers' = None
    /\ handler' = [c \in Conns |-> "none"]
    /\ closing' = {}
    /\ d2b' = [c \in Conns |-> <<>>]
    /\ UNCHANGED <<conn, broken, b2d>>

BackendRestart ==
    /\ Stopped
    /\ UNCHANGED <<known, reported, configs, jobs>>

-----------------------------------------------------------------------------
(* _dispatch, one action per frame type.                                   *)

\* Mutant of ConfigStale: re-pushing queued rows only.
ConfigQueued(hello) ==
    HasConfig /\ CurrentConfig.ver > hello.ver /\ CurrentConfig.ack = "queued"

\* _after_hello: is the stored configuration newer than the one reported?
ConfigStale(hello) == HasConfig /\ CurrentConfig.ver > hello.ver

JobReached(hello) == JobUnfinished /\ hello.fw = LatestJob.target

\* Mutant of JobResumed: a job that was under way is not resumed.
JobResumedIfPending(hello) ==
    JobUnfinished /\ hello.fw # LatestJob.target /\ LatestJob.status = "pending"

JobResumed(hello) ==
    /\ JobUnfinished
    /\ hello.fw # LatestJob.target
    /\ LatestJob.status \in {"pending", "accepted", "downloading"}

AfterHelloFrames(hello) ==
    (IF ConfigStale(hello)
     THEN <<ConfigSet(CurrentConfig.ver, CurrentConfig.ok)>> ELSE <<>>)
    \o (IF JobResumed(hello) THEN <<FwUpdate(LatestJob.target)>> ELSE <<>>)

DispatchHello(c) ==
    /\ Gets(c, "HELLO")
    /\ Register(c)
    /\ known' = TRUE
    /\ reported' = OutFrame(c).ver
    /\ \E ok \in SendResults(WriterAfter(c)) :
         configs' = IF ConfigStale(OutFrame(c))
                    THEN AckConfig(configs, CurrentConfig.ver, Pushed(ok))
                    ELSE configs
    /\ jobs' = IF JobReached(OutFrame(c)) THEN UpdateLatestJob("complete") ELSE jobs
    /\ b2d' = BackendSends(WriterAfter(c), AfterHelloFrames(OutFrame(c)))

DispatchHeartbeat(c) ==
    /\ Gets(c, "HEARTBEAT")
    /\ Register(c)
    /\ known' = TRUE
    /\ reported' = OutFrame(c).ver
    /\ UNCHANGED <<configs, jobs, b2d>>

DispatchConfigAck(c) ==
    /\ Gets(c, "CONFIG_ACK")
    /\ Register(c)
    /\ configs' = AckConfig(configs, OutFrame(c).ver, OutFrame(c).status)
    /\ reported' = IF OutFrame(c).status = "applied" THEN OutFrame(c).ver ELSE reported
    /\ known' = (known \/ OutFrame(c).status = "applied")
    /\ UNCHANGED <<jobs, b2d>>

\* The ack is credited to the newest job, whatever version it is about.
DispatchFwAck(c) ==
    /\ Gets(c, "FW_ACK")
    /\ Register(c)
    /\ jobs' = IF JobUnfinished THEN UpdateLatestJob(OutFrame(c).status) ELSE jobs
    /\ UNCHANGED <<known, reported, configs, b2d>>

\* handle_telemetry creates the devices row; it reports no config version.
TelemetrySeen ==
    /\ known' = TRUE
    /\ UNCHANGED <<linkVars, writers, reported, configs, jobs>>

-----------------------------------------------------------------------------
(* The API endpoints.                                                      *)

NewConfigRow(ok, ack) == Append(configs, [ver |-> NewVersion, ok |-> ok, ack |-> ack])

\* put_config; ok is FALSE for limits the API lets through and the device
\* rejects (rpm_limit = 0 passes ge=0).
PutConfig(ok) ==
    /\ known
    /\ Len(configs) < MaxConfigs
    /\ \E sent \in SendResults(writers) : configs' = NewConfigRow(ok, Pushed(sent))
    /\ b2d' = BackendSends(writers, <<ConfigSet(NewVersion, ok)>>)
    /\ UNCHANGED <<conn, handler, closing, broken, d2b, writers, known, reported, jobs>>

\* The process dies between the INSERT and the push.
PutConfigInterrupted(ok) ==
    /\ known
    /\ Len(configs) < MaxConfigs
    /\ configs' = NewConfigRow(ok, "pending")
    /\ Stopped
    /\ UNCHANGED <<known, reported, jobs>>

\* firmware_deploy of a registered version
FirmwareDeploy(target) ==
    /\ known
    /\ Len(jobs) < MaxJobs
    /\ \E sent \in SendResults(writers) :
         jobs' = Append(jobs, [target |-> target, status |-> Pushed(sent)])
    /\ b2d' = BackendSends(writers, <<FwUpdate(target)>>)
    /\ UNCHANGED <<conn, handler, closing, broken, d2b, writers, known, reported, configs>>

\* The process dies between fw_job_create and the push.
FirmwareDeployInterrupted(target) ==
    /\ known
    /\ Len(jobs) < MaxJobs
    /\ jobs' = Append(jobs, [target |-> target, status |-> "pending"])
    /\ Stopped
    /\ UNCHANGED <<known, reported, configs>>

\* device_cmd; without a writer it answers 409 and changes nothing.
DeviceCmd(code) ==
    /\ known
    /\ writers # None
    /\ b2d' = BackendSends(writers, <<Cmd(code)>>)
    /\ UNCHANGED <<conn, handler, closing, broken, d2b, ingestVars>>
==============================================================================
