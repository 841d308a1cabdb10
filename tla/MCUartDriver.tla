----------------------------- MODULE MCUartDriver -----------------------------
(* Two-bit bytes and a four-bit CRC (x^4 + x + 1): frames carry up to three *)
(* payload bytes, SOF1 = 2 and SOF2 = 1 also occur as data.                 *)
EXTENDS UartDriver, SequencesExt

CRC == INSTANCE Crc16 WITH
           ByteBits <- 2, CrcBits <- 4, Poly <- 3, ByteSet <- {}, MaxBytes <- 0

MCUpdate(crc, byte) == CRC!update(crc, byte)
MCCompute(bytes) == CRC!compute(bytes)

FrameOf(t, load) ==
    LET crc == MCCompute(<<t>> \o load)
    IN  <<kSof1, kSof2, Len(load), t>> \o load \o <<crc % 4, crc \div 4>>

Flipped(frame, i) == [frame EXCEPT ![i] = (@ + 1) % 4]

Segments ==
    LET empty == FrameOf(0, <<>>)
        full == FrameOf(3, <<kSof1, kSof2, 0>>)
    IN  {empty, full,
         Flipped(empty, 6),          \* corrupt CRC
         Flipped(full, 6),           \* corrupt payload
         Flipped(empty, 3),          \* corrupt length: swallows what follows
         SubSeq(full, 1, 5),         \* truncated frame
         <<0>>, <<kSof1>>, <<kSof1, kSof1>>, <<kSof2>>}

MCStreams ==
    {FlattenSeq(s) : s \in BoundedSeq(Segments, 3)} \cup BoundedSeq(Byte, 5)
=============================================================================
