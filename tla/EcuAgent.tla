------------------------------ MODULE EcuAgent -------------------------------
(***************************************************************************)
(* The control side of the ECU agent (firmware/src/agent.cpp): one process *)
(* with one select() loop, so every handler below is atomic.  The actions  *)
(* change the device's own variables and its end of the link.  Log         *)
(* shipping, fault injection and the plant model do not touch this state.  *)
(***************************************************************************)
EXTENDS ControlLink

CONSTANTS
    BootCfg,    \* config_version of the defaults / --config file
    BootFw      \* number of the --fw version the process starts with

ASSUME BootAssumption == BootCfg \in Nat /\ BootFw \in Nat

VARIABLES
    cfg,        \* cfg_: version, and whether a CONFIG_SET put it there
    fw,         \* fw_version_ (fw_string_ is its canonical spelling)
    ota,        \* ota_.target while ota_.active, else None
    pendingFw,  \* pending_fw_: what the reboot in progress will boot
    rebooting

agentVars == <<cfg, fw, ota, pendingFw, rebooting>>

AgentTypeOK ==
    /\ cfg \in [ver : Nat, pushed : BOOLEAN]
    /\ fw \in Nat
    /\ ota \in FwString \cup {None}
    /\ pendingFw \in FwString \cup {None}
    /\ rebooting \in BOOLEAN

\* The state the constructor leaves: CONFIG_SET's <config>.applied is never read.
Booted ==
    /\ cfg' = [ver |-> BootCfg, pushed |-> FALSE]
    /\ fw' = BootFw
    /\ ota' = None
    /\ pendingFw' = None
    /\ rebooting' = FALSE

AgentInit ==
    /\ cfg = [ver |-> BootCfg, pushed |-> FALSE]
    /\ fw = BootFw
    /\ ota = None
    /\ pendingFw = None
    /\ rebooting = FALSE

HelloFrame == Hello(cfg.ver, FwVersionToString(fw))

-----------------------------------------------------------------------------
(* Connection management.                                                  *)

\* tcpOnConnected: HELLO is the first frame on the new channel.
TcpOnConnected(c) ==
    /\ ~rebooting
    /\ conn = None
    /\ conn' = c
    /\ d2b' = [d2b EXCEPT ![c] = <<HelloFrame>>]
    /\ b2d' = [b2d EXCEPT ![c] = <<>>]
    /\ UNCHANGED agentVars

\* Mutants of TcpFail: a cut link goes unnoticed, and the download survives the channel.
TcpFailOnEof ==
    /\ conn # None
    /\ conn \notin broken
    /\ ~BackendReads(conn)
    /\ DeviceCloses
    /\ ota' = None
    /\ UNCHANGED <<d2b, cfg, fw, pendingFw, rebooting>>

TcpFailKeepsOta ==
    /\ conn # None
    /\ ~BackendReads(conn)
    /\ DeviceCloses
    /\ UNCHANGED <<d2b, agentVars>>

\* tcpFail on a connected channel: EOF once the backend has closed its end,
\* a socket error once the link is cut.  What was received is discarded.
TcpFail ==
    /\ conn # None
    /\ ~BackendReads(conn)
    /\ DeviceCloses
    /\ ota' = None
    /\ UNCHANGED <<d2b, cfg, fw, pendingFw, rebooting>>

\* startReboot closes the channel; what was already sent may still arrive.
StartReboot ==
    /\ DeviceCloses
    /\ ota' = None
    /\ rebooting' = TRUE

\* Mutant of RebootDone: a boot of a new image may fall back to the factory one.
RebootDoneFallback ==
    /\ rebooting
    /\ rebooting' = FALSE
    /\ fw' \in IF pendingFw = None THEN {fw} ELSE {BootFw, ParseFwVersion(pendingFw)}
    /\ pendingFw' = None
    /\ UNCHANGED <<conn, d2b, b2d, cfg, ota>>

\* run(): the reboot is over, a pending firmware is booted.
RebootDone ==
    /\ rebooting
    /\ rebooting' = FALSE
    /\ fw' = IF pendingFw = None THEN fw ELSE ParseFwVersion(pendingFw)
    /\ pendingFw' = None
    /\ UNCHANGED <<conn, d2b, b2d, cfg, ota>>

\* The process dies and is started again with the same command line.
ProcessRestart ==
    /\ Booted
    /\ DeviceCloses
    /\ UNCHANGED d2b

-----------------------------------------------------------------------------
(* Periodic work of the loop.                                              *)

\* Bound: a heartbeat (or progress ack) waits until the previous one has been
\* read; a second copy in the queue would say the same.
NotQueued(m) == \A i \in DOMAIN d2b[conn] : d2b[conn][i] # m

SendHeartbeat ==
    /\ ~rebooting
    /\ conn # None
    /\ NotQueued(Heartbeat(cfg.ver))
    /\ d2b' = DeviceSends(conn, <<Heartbeat(cfg.ver)>>)
    /\ UNCHANGED <<conn, b2d, agentVars>>

\* serviceOta, download still running.
OtaProgress ==
    /\ ota # None
    /\ conn # None
    /\ NotQueued(FwAck("downloading"))
    /\ d2b' = DeviceSends(conn, <<FwAck("downloading")>>)
    /\ UNCHANGED <<conn, b2d, agentVars>>

\* serviceOta, download over: APPLIED is sent, then the agent reboots whether
\* or not that frame could be written.
OtaDone ==
    /\ ota # None
    /\ conn # None
    /\ d2b' = DeviceSends(conn, <<FwAck("applied")>>)
    /\ pendingFw' = ota
    /\ StartReboot
    /\ UNCHANGED <<cfg, fw>>

-----------------------------------------------------------------------------
(* Inbound frames (tcpRead, handleFrame).                                  *)

Receives(type) == conn # None /\ b2d[conn] # <<>> /\ Head(b2d[conn]).type = type

InFrame == Head(b2d[conn])

Consumed == [b2d EXCEPT ![conn] = Tail(@)]

\* The version is taken as it comes: there is no check that it is newer.
HandleConfigSet ==
    /\ Receives("CONFIG_SET")
    /\ cfg' = IF InFrame.ok THEN [ver |-> InFrame.ver, pushed |-> TRUE] ELSE cfg
    /\ d2b' = DeviceSends(conn,
                <<ConfigAck(InFrame.ver, IF InFrame.ok THEN "applied" ELSE "rejected")>>)
    /\ b2d' = Consumed
    /\ UNCHANGED <<conn, fw, ota, pendingFw, rebooting>>

FwAcceptable(target) == ParseFwVersion(target) >= fw /\ ota = None

HandleFwUpdate ==
    /\ Receives("FW_UPDATE")
    /\ ota' = IF FwAcceptable(InFrame.target) THEN InFrame.target ELSE ota
    /\ d2b' = DeviceSends(conn,
                IF FwAcceptable(InFrame.target)
                THEN <<FwAck("accepted"), FwAck("downloading")>>
                ELSE <<FwAck("rejected")>>)
    /\ b2d' = Consumed
    /\ UNCHANGED <<conn, cfg, fw, pendingFw, rebooting>>

HandleReboot ==
    /\ Receives("CMD")
    /\ InFrame.cmd = "reboot"
    /\ StartReboot
    /\ UNCHANGED <<d2b, cfg, fw, pendingFw>>

HandleRequestHello ==
    /\ Receives("CMD")
    /\ InFrame.cmd = "request_hello"
    /\ d2b' = DeviceSends(conn, <<HelloFrame>>)
    /\ b2d' = Consumed
    /\ UNCHANGED <<conn, agentVars>>
==============================================================================
