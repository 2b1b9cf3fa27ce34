---------------------------- MODULE StreamDecoder ----------------------------
(***************************************************************************)
(* StreamDecoder of backend/app/protocol.py: frames cut out of the bytes   *)
(* of one control connection, however the reads divide them, and the       *)
(* search for the next frame after bytes that are not one.                 *)
(*                                                                         *)
(* Scaled down: a header is the two magic bytes and one byte for version   *)
(* and payload_len, a CRC is one byte, and it holds exactly for chunks     *)
(* that were encoded as a frame.                                           *)
(***************************************************************************)
EXTENDS Integers, Sequences, FiniteSets, SequencesExt

CONSTANTS
    MaxPayload,     \* MAX_PAYLOAD
    Streams,        \* what a peer may send: bytes, and the segments they are made of
    MaxRead         \* bound: bytes returned by one read

MagicT == 84
MagicE == 69
HeaderLen == 3
CrcLen == 1

Byte == 0 .. 255

\* A stretch of the stream: a frame, a frame with a payload of the wrong size, or
\* bytes that are no frame.
Segment == [kind : {"frame", "odd", "garbage"}, first : Nat \ {0}, last : Nat]

Stretch(bytes, seg) == SubSeq(bytes, seg.first, seg.last)

\* Header.pack, encode: what the peer sends as a frame has a header and its length.
Framed(b) ==
    /\ Len(b) >= HeaderLen + CrcLen
    /\ b[1] = MagicT /\ b[2] = MagicE /\ b[3] <= MaxPayload
    /\ Len(b) = HeaderLen + b[3] + CrcLen

\* The segments cover the stream one after the other, and no other stretch of it
\* has the bytes, and with them the CRC, of a frame.
WellSent(s) ==
    /\ s.bytes \in Seq(Byte)
    /\ s.segs \in Seq(Segment)
    /\ \A i \in DOMAIN s.segs : s.segs[i].first <= s.segs[i].last /\ s.segs[i].last <= Len(s.bytes)
    /\ \A i, j \in DOMAIN s.segs : i < j => s.segs[i].last < s.segs[j].first
    /\ \A p \in DOMAIN s.bytes : \E i \in DOMAIN s.segs : s.segs[i].first <= p /\ p <= s.segs[i].last
    /\ \A i \in DOMAIN s.segs : s.segs[i].kind # "garbage" => Framed(Stretch(s.bytes, s.segs[i]))
    /\ \A i \in DOMAIN s.segs : s.segs[i].kind = "frame" =>
         \A p, q \in DOMAIN s.bytes :
            SubSeq(s.bytes, p, q) = Stretch(s.bytes, s.segs[i]) =>
                \E j \in DOMAIN s.segs : s.segs[j] = [kind |-> "frame", first |-> p, last |-> q]

ASSUME DecoderAssumption ==
    /\ MaxPayload \in Nat
    /\ MaxRead \in Nat \ {0}
    /\ \A s \in Streams : WellSent(s)

VARIABLES
    stream,     \* what the peer sends
    fed,        \* number of bytes read so far
    buf,        \* self.buf
    feeding,    \* feed is running (its generator has not returned)
    bad,        \* self.bad
    out,        \* ghost: chunks yielded as frames
    splitMagic  \* ghost: the buffer was cleared with the first byte of a frame in it

decoderVars == <<stream, fed, buf, feeding, bad, out, splitMagic>>

Wire == stream.bytes
Segs == stream.segs
Bytes(i) == Stretch(Wire, Segs[i])

DecoderInit ==
    /\ stream \in Streams
    /\ fed = 0
    /\ buf = <<>>
    /\ feeding = FALSE
    /\ bad = 0
    /\ out = <<>>
    /\ splitMagic = FALSE

-----------------------------------------------------------------------------
\* Header.unpack: size, magic, version and payload_len
HeaderOk(b) ==
    Len(b) >= HeaderLen /\ b[1] = MagicT /\ b[2] = MagicE /\ b[3] <= MaxPayload

FrameLen(b) == HeaderLen + b[3] + CrcLen

\* Mutant of Decodes: the CRC is not compared.
DecodesAny(chunk) == TRUE

\* decode: the CRC holds and the payload has the size of its type
Decodes(chunk) == \E i \in DOMAIN Segs : Segs[i].kind = "frame" /\ Bytes(i) = chunk

\* self.buf.find(b"TE"), or 0
FindMagic(b) ==
    LET at == {i \in 1 .. Len(b) - 1 : b[i] = MagicT /\ b[i + 1] = MagicE}
    IN  IF at = {} THEN 0 ELSE CHOOSE i \in at : \A j \in at : i <= j

Drop(b, n) == SubSeq(b, n + 1, Len(b))

\* A read returns up to MaxRead bytes and feed is called with them.
Feed(n) ==
    /\ ~feeding
    /\ fed + n <= Len(Wire)
    /\ fed' = fed + n
    /\ buf' = buf \o SubSeq(Wire, fed + 1, fed + n)
    /\ feeding' = TRUE
    /\ UNCHANGED <<stream, bad, out, splitMagic>>

Incomplete ==
    \/ Len(buf) < HeaderLen
    \/ HeaderOk(buf) /\ Len(buf) < FrameLen(buf)

\* feed returns: the rest waits in the buffer for the next read.
FeedReturns ==
    /\ feeding
    /\ Incomplete
    /\ feeding' = FALSE
    /\ UNCHANGED <<stream, fed, buf, bad, out, splitMagic>>

\* Mutant of Resync: the buffer is cleared without a search for the next magic.
ResyncClears ==
    /\ feeding
    /\ Len(buf) >= HeaderLen
    /\ ~HeaderOk(buf)
    /\ bad' = bad + 1
    /\ buf' = <<>>
    /\ feeding' = FALSE
    /\ UNCHANGED <<stream, fed, out, splitMagic>>

\* The last byte read is the first of a frame.
FrameBegun == \E i \in DOMAIN Segs : Segs[i].kind # "garbage" /\ Segs[i].first = fed

\* A bad header: one byte is dropped and the next magic is searched; without one
\* the buffer is cleared, a trailing 'T' included.
Resync ==
    LET rest == Tail(buf)
        at == FindMagic(rest)
    IN  /\ feeding
        /\ Len(buf) >= HeaderLen
        /\ ~HeaderOk(buf)
        /\ bad' = bad + 1
        /\ buf' = IF at = 0 THEN <<>> ELSE Drop(rest, at - 1)
        /\ feeding' = (at # 0)
        /\ splitMagic' = (splitMagic \/ (at = 0 /\ FrameBegun))
        /\ UNCHANGED <<stream, fed, out>>

Ready == feeding /\ HeaderOk(buf) /\ Len(buf) >= FrameLen(buf)

Chunk == SubSeq(buf, 1, FrameLen(buf))

\* A whole frame is yielded.
Yield ==
    /\ Ready
    /\ Decodes(Chunk)
    /\ out' = Append(out, Chunk)
    /\ buf' = Drop(buf, FrameLen(buf))
    /\ UNCHANGED <<stream, fed, feeding, bad, splitMagic>>

\* The CRC or the payload is wrong: the whole chunk is dropped.
BadFrame ==
    /\ Ready
    /\ ~Decodes(Chunk)
    /\ bad' = bad + 1
    /\ buf' = Drop(buf, FrameLen(buf))
    /\ UNCHANGED <<stream, fed, feeding, out, splitMagic>>

-----------------------------------------------------------------------------
(* Properties.                                                             *)

\* At p the bytes look like a header: both magic bytes and a plausible length.
HeaderAt(bytes, p) ==
    /\ p + 2 <= Len(bytes)
    /\ bytes[p] = MagicT /\ bytes[p + 1] = MagicE /\ bytes[p + 2] <= MaxPayload

\* There is no false header: none begins in bytes that are no frame.
NoFalseHeader ==
    \A i \in DOMAIN Segs : Segs[i].kind = "garbage" =>
        \A p \in Segs[i].first .. Segs[i].last : ~HeaderAt(Wire, p)

\* The frames that end within the first n bytes.
Arrived(n) == {i \in DOMAIN Segs : Segs[i].kind = "frame" /\ Segs[i].last <= n}

\* However the reads divide the stream, once feed has returned exactly the frames
\* that have arrived in full were yielded, in order, also after bytes that are no
\* frame, a stray 'T' or a magic with an impossible length among them.  The code
\* loses frames in two cases only: a false header, whose plausible length makes feed
\* take the bytes after it, good frames included, for its payload and drop them
\* together; and a buffer cleared when a read ended between the two magic bytes of a
\* frame that follows such bytes (StreamDecoder.feed).
DecodesWhatArrived ==
    ~feeding /\ NoFalseHeader /\ ~splitMagic =>
        /\ Len(out) = Cardinality(Arrived(fed))
        /\ \A i \in Arrived(fed) : out[Cardinality({j \in Arrived(fed) : j <= i})] = Bytes(i)

\* Whatever the bytes are, what is yielded was sent as a frame, in the order it
\* was sent, and no frame is yielded twice (decode, StreamDecoder.feed).
YieldsOnlySent ==
    \E sent \in [DOMAIN out -> Arrived(fed)] :
        /\ \A i \in DOMAIN out : out[i] = Bytes(sent[i])
        /\ \A i, j \in DOMAIN out : i < j => sent[i] < sent[j]
==============================================================================
