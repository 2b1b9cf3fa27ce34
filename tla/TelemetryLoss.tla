---------------------------- MODULE TelemetryLoss ----------------------------
(***************************************************************************)
(* The telemetry path of one device, seen through its sequence numbers:    *)
(* sendTelemetry of firmware/src/agent.cpp numbers the frames, UDP (or     *)
(* sim/lossy_proxy.py) drops, corrupts, duplicates and reorders them, and  *)
(* DeviceStats.note_seq of backend/app/ingest.py infers the loss.          *)
(*                                                                         *)
(* A frame also carries its true position n among all frames ever sent,    *)
(* which the backend does not see: the ghost variables count with it.      *)
(***************************************************************************)
EXTENDS Integers, Sequences, FiniteSets

CONSTANTS
    SeqMod,         \* 2^32
    RestartGap,     \* 10_000
    LossWindow,     \* LOSS_WINDOW
    None,           \* last_seq is None
    MaxSent,        \* bound: frames sent
    MaxInFlight,    \* bound: frames in the network at once
    MaxRestarts     \* bound: restarts of the device process

Half == SeqMod \div 2

ASSUME LossAssumption ==
    /\ SeqMod \in Nat \ {0}
    /\ SeqMod % 2 = 0
    /\ RestartGap \in 0 .. Half - 1
    /\ LossWindow \in Nat \ {0}
    /\ None \notin Nat
    /\ MaxSent \in Nat
    /\ MaxInFlight \in Nat
    /\ MaxRestarts \in Nat

VARIABLES
    udpSeq,     \* udp_seq_ of the device
    net,        \* frames in flight: [seq, n, epoch]
    lastSeq,    \* s.last_seq
    gaps,       \* s.seq_gaps
    window,     \* s.window: the expected counts (every received count is 1)
    sent,       \* ghost: frames sent so far
    epoch,      \* ghost: restarts of the device process
    taken,      \* ghost: every frame counted, in order: its position, its expected count
    forgiven    \* ghost: frames skipped in jumps longer than RestartGap

ghostVars == <<taken, forgiven>>

vars == <<udpSeq, net, lastSeq, gaps, window, sent, epoch, ghostVars>>

Frame == [seq : 0 .. SeqMod - 1, n : Nat, epoch : Nat]

TypeOK ==
    /\ udpSeq \in 0 .. SeqMod - 1
    /\ net \in SUBSET Frame
    /\ lastSeq \in (0 .. SeqMod - 1) \cup {None}
    /\ gaps \in Int
    /\ window \in Seq(Int)
    /\ sent \in 0 .. MaxSent
    /\ epoch \in 0 .. MaxRestarts
    /\ taken \in Seq([n : Nat, expected : Int])
    /\ forgiven \in Nat

Init ==
    /\ udpSeq = 0
    /\ net = {}
    /\ lastSeq = None
    /\ gaps = 0
    /\ window = <<>>
    /\ sent = 0
    /\ epoch = 0
    /\ taken = <<>>
    /\ forgiven = 0

-----------------------------------------------------------------------------
\* udp_seq_++ on a uint32_t
NextSeq == (udpSeq + 1) % SeqMod

\* sendTelemetry: the number advances whether or not the frame is dropped on
\* purpose (--loss) or by the socket.
SendTelemetry ==
    /\ sent < MaxSent
    /\ sent' = sent + 1
    /\ udpSeq' = NextSeq
    /\ \/ /\ Cardinality(net) < MaxInFlight
          /\ net' = net \cup {[seq |-> udpSeq, n |-> sent, epoch |-> epoch]}
       \/ UNCHANGED net
    /\ UNCHANGED <<lastSeq, gaps, window, epoch, ghostVars>>

\* The device process starts again and numbers its frames from 0.
DeviceRestart ==
    /\ epoch < MaxRestarts
    /\ epoch' = epoch + 1
    /\ udpSeq' = 0
    /\ UNCHANGED <<net, lastSeq, gaps, window, sent, ghostVars>>

\* A frame is lost, or arrives corrupted and is dropped by on_datagram.
Drop(f) ==
    /\ net' = net \ {f}
    /\ UNCHANGED <<udpSeq, lastSeq, gaps, window, sent, epoch, ghostVars>>

-----------------------------------------------------------------------------
(* note_seq.                                                               *)

Delta(seq) == (seq - lastSeq) % SeqMod

\* Mutant of OldFrame: a duplicate counts as a full turn of the counter.
OldFrameNotDuplicate(seq) == lastSeq # None /\ Delta(seq) > Half - 1

\* A duplicate, or a reordered old frame.
OldFrame(seq) == lastSeq # None /\ (Delta(seq) = 0 \/ Delta(seq) > Half - 1)

\* Mutant of Gap: the expected frame itself is counted as missing.
GapInclusive(seq) ==
    IF lastSeq = None \/ Delta(seq) > RestartGap THEN 0 ELSE Delta(seq)

\* The frames missing before this one; a long jump is taken for a restart.
Gap(seq) ==
    IF lastSeq = None \/ Delta(seq) - 1 > RestartGap THEN 0 ELSE Delta(seq) - 1

\* Mutant of Appended: a full window keeps its oldest entries.
AppendedWhileRoom(entry) == IF Len(window) < LossWindow THEN Append(window, entry) ELSE window

\* window.append on a deque(maxlen=LOSS_WINDOW)
Appended(entry) ==
    IF Len(window) < LossWindow THEN Append(window, entry) ELSE Append(Tail(window), entry)

\* Positions of the first and the last frame counted.
Counting == taken # <<>>
First == taken[1].n
Top == taken[Len(taken)].n

NoteSeq(f) ==
    /\ gaps' = gaps + Gap(f.seq)
    /\ window' = Appended(1 + Gap(f.seq))
    /\ lastSeq' = f.seq
    /\ taken' = Append(taken, [n |-> f.n, expected |-> 1 + Gap(f.seq)])
    /\ forgiven' = IF Counting /\ f.n - Top - 1 > RestartGap
                   THEN forgiven + (f.n - Top - 1) ELSE forgiven

\* Assumption on the network: no frame arrives, and no outage lasts, half a turn
\* of the counter (2^31 frames) late.
InRange(f) == Counting => f.n - Top < Half /\ Top - f.n < Half

\* handle_telemetry; the network may keep a copy to deliver again.
Deliver(f) ==
    /\ InRange(f)
    /\ net' \in {net, net \ {f}}
    /\ IF OldFrame(f.seq) THEN UNCHANGED <<lastSeq, gaps, window, ghostVars>> ELSE NoteSeq(f)
    /\ UNCHANGED <<udpSeq, sent, epoch>>

Next ==
    \/ SendTelemetry
    \/ DeviceRestart
    \/ \E f \in net : Drop(f)
    \/ \E f \in net : Deliver(f)

Spec == Init /\ [][Next]_vars

-----------------------------------------------------------------------------
\* Until the device process restarts, every frame between the first and the last
\* one counted is counted exactly once: as received, as a gap, or as part of a long
\* jump.  Loss, duplication, reordering and the wrap of the 32-bit number neither
\* hide nor invent a frame, take last_seq back, or count one twice (note_seq).
GapsExact ==
    epoch = 0 /\ Counting =>
        /\ Top - First + 1 = Len(taken) + gaps + forgiven
        /\ Len(taken) <= Top - First + 1

\* sum
Total(w) ==
    LET upTo[n \in 0 .. Len(w)] == IF n = 0 THEN 0 ELSE upTo[n - 1] + w[n]
    IN  upTo[Len(w)]

Expected == Total(window)

\* Frames counted so long ago that they have left the window.
Gone == IF Len(taken) <= LossWindow THEN 0 ELSE Len(taken) - LossWindow

\* The k-th counted frame came after a jump that is not taken for loss.
LongJump(k) == k > 1 /\ taken[k].n - taken[k - 1].n - 1 > RestartGap

\* The window holds the entries of the newest LossWindow counted frames, in order,
\* also across restarts.  Until the device restarts and without a long jump, what
\* loss_pct divides by is the number of frames the device sent over that stretch: from
\* the first counted frame on, or since the one that left the window last.
WindowExact ==
    /\ window = [i \in 1 .. Len(taken) - Gone |-> taken[Gone + i].expected]
    /\ epoch = 0 /\ Counting /\ (\A k \in Gone + 1 .. Len(taken) : ~LongJump(k)) =>
          Expected = Top - (IF Gone = 0 THEN First - 1 ELSE taken[Gone].n)

-----------------------------------------------------------------------------
\* note_seq's comment on a long jump: "device reset its sequence: treat as a
\* restart, not loss".  A frame a restarted device sends would then be taken, unless
\* its number happens to be the last one counted.
RestartNoticed ==
    \A f \in net :
        f.epoch = epoch /\ epoch > 0 /\ Counting /\ f.n > Top /\ f.seq # lastSeq => ~OldFrame(f.seq)
==============================================================================
