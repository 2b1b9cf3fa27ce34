----------------------------- MODULE MCEventPath -----------------------------
EXTENDS EventPath

Frame(id) == [kind |-> "frame", bytes |-> <<MagicT, MagicE, 1, id, 255 - id>>]
\* CRC right, payload of the wrong size for its type
Odd == [kind |-> "odd", bytes |-> <<MagicT, MagicE, 0, 200>>]
Noise(bytes) == [kind |-> "garbage", bytes |-> bytes]

\* The stream that consists of the given parts.
Laid(parts) ==
    LET upTo(n) == FlattenSeq([i \in 1 .. n |-> parts[i].bytes])
    IN  [bytes |-> upTo(Len(parts)),
         segs  |-> [i \in DOMAIN parts |->
                      [kind |-> parts[i].kind, first |-> Len(upTo(i - 1)) + 1, last |-> Len(upTo(i))]]]

MCStreams == {
    Laid(<<Frame(1), Frame(2), Frame(3)>>),
    \* bytes that cannot start a frame
    Laid(<<Noise(<<7>>), Frame(1), Odd, Noise(<<7, MagicE, 7>>), Frame(2)>>),
    \* a false magic with a bad length, and a false header whose length swallows a frame
    Laid(<<Noise(<<MagicT, MagicE, 99>>), Frame(1), Noise(<<MagicT, MagicE, 2>>), Frame(2), Frame(3)>>),
    \* a false magic with a bad length, and half a magic
    Laid(<<Noise(<<MagicT, MagicE, 99>>), Frame(1), Noise(<<MagicT, 7>>), Frame(2)>>),
    \* a payload byte that looks like half a magic
    Laid(<<Frame(1), Noise(<<7, 7, MagicT>>), Frame(MagicT), Frame(2)>>) }
==============================================================================
