----------------------------- MODULE ControlLink -----------------------------
(***************************************************************************)
(* The TCP control channel between one ECU agent and the backend, as the   *)
(* two programs use it: the agent's socket (agent.cpp) on one side, an     *)
(* asyncio StreamReader/StreamWriter pair (ingest.py) on the other.        *)
(*                                                                         *)
(* A connection is a slot of Conns with two ends.  The device's end is     *)
(* open while conn = c; the backend's end is open while its _handle_tcp    *)
(* coroutine runs (handler[c] # "none").  A slot is reused only when both  *)
(* ends are gone, so any number of reconnections fits in a few slots and   *)
(* Cardinality(Conns) bounds how many connections linger at once.          *)
(*                                                                         *)
(* Each direction is a FIFO.  A frame reaches its queue only while the     *)
(* other end can still read it; a connection may break at any moment, and  *)
(* after that either end may still consume what has already arrived or     *)
(* notice the error first and discard it.                                  *)
(***************************************************************************)
EXTENDS Integers, Sequences, FiniteSets

CONSTANTS
    Conns,      \* connection slots
    None        \* "no connection", "no firmware": absent values

ASSUME ConnsAssumption == Conns # {} /\ None \notin Conns

VARIABLES
    conn,       \* device's end: the connected tcp_fd_, or None
    handler,    \* backend's end: "none", "new" (device_id is None) or "reg"
    closing,    \* connections whose writer the backend has closed
    broken,     \* connections the network has cut
    d2b,        \* frames in flight device -> backend, per connection
    b2d         \* frames in flight backend -> device, per connection

linkVars == <<conn, handler, closing, broken, d2b, b2d>>

-----------------------------------------------------------------------------
(* Frames.  Only the payload fields that some decision reads are kept.     *)

Hello(ver, fwString) == [type |-> "HELLO", ver |-> ver, fw |-> fwString]

Heartbeat(ver) == [type |-> "HEARTBEAT", ver |-> ver]

ConfigAck(ver, status) == [type |-> "CONFIG_ACK", ver |-> ver, status |-> status]

FwAck(status) == [type |-> "FW_ACK", status |-> status]

\* ok: the limits pass the device's validation (handleConfigSet).
ConfigSet(ver, ok) == [type |-> "CONFIG_SET", ver |-> ver, ok |-> ok]

FwUpdate(target) == [type |-> "FW_UPDATE", target |-> target]

Cmd(code) == [type |-> "CMD", cmd |-> code]

CmdCodes == {"reboot", "request_hello"}

FwAckStatus == {"accepted", "downloading", "applied", "rejected"}

(***************************************************************************)
(* A firmware version string "MAJOR.MINOR.PATCH" is its number and whether *)
(* some field is written with leading zeros ("1.01.0"): both parsers       *)
(* accept the padding, and both printers drop it.                          *)
(***************************************************************************)
FwString == [num : Nat, padded : BOOLEAN]

ParseFwVersion(s) == s.num

FwVersionToString(n) == [num |-> n, padded |-> FALSE]

DeviceFrames ==
    [type : {"HELLO"}, ver : Nat, fw : FwString]
        \cup [type : {"HEARTBEAT"}, ver : Nat]
        \cup [type : {"CONFIG_ACK"}, ver : Nat, status : {"applied", "rejected"}]
        \cup [type : {"FW_ACK"}, status : FwAckStatus]

BackendFrames ==
    [type : {"CONFIG_SET"}, ver : Nat, ok : BOOLEAN]
        \cup [type : {"FW_UPDATE"}, target : FwString]
        \cup [type : {"CMD"}, cmd : CmdCodes]

LinkTypeOK ==
    /\ conn \in Conns \cup {None}
    /\ handler \in [Conns -> {"none", "new", "reg"}]
    /\ closing \in SUBSET Conns
    /\ broken \in SUBSET Conns
    /\ d2b \in [Conns -> Seq(DeviceFrames)]
    /\ b2d \in [Conns -> Seq(BackendFrames)]

LinkInit ==
    /\ conn = None
    /\ handler = [c \in Conns |-> "none"]
    /\ closing = {}
    /\ broken = {}
    /\ d2b = [c \in Conns |-> <<>>]
    /\ b2d = [c \in Conns |-> <<>>]

-----------------------------------------------------------------------------
\* Neither end holds the slot.
Free(c) == handler[c] = "none" /\ conn # c

\* A frame the device sends on c can still reach the backend's reader.
BackendReads(c) == handler[c] # "none" /\ c \notin closing \cup broken

\* A frame the backend writes to c can still reach the device.
DeviceReads(c) == conn = c /\ c \notin broken

\* d2b after the device sends the frames ms on its connection c.
DeviceSends(c, ms) ==
    IF BackendReads(c) THEN [d2b EXCEPT ![c] = @ \o ms] ELSE d2b

\* b2d after the backend writes the frames ms to w (None: no writer).
BackendSends(w, ms) ==
    IF w # None /\ DeviceReads(w) THEN [b2d EXCEPT ![w] = @ \o ms] ELSE b2d

(***************************************************************************)
(* What Ingest.send returns for writer w.  It is False without a writer,   *)
(* True on a sound connection (the bytes are buffered, not yet delivered), *)
(* and depends on what the transport has noticed when the peer is gone.    *)
(***************************************************************************)
SendResults(w) ==
    CASE w = None -> {FALSE}
      [] w # None /\ DeviceReads(w) -> {TRUE}
      [] OTHER -> BOOLEAN

\* The device drops its end of c: nobody will read b2d[c] any more.
DeviceCloses == conn' = None /\ b2d' = [c \in Conns |-> IF c = conn THEN <<>> ELSE b2d[c]]

\* The network cuts a connection that is in use; each end finds out by itself.
BreakLink(c) ==
    /\ ~Free(c)
    /\ c \notin broken
    /\ broken' = broken \cup {c}
    /\ UNCHANGED <<conn, handler, closing, d2b, b2d>>
==============================================================================
