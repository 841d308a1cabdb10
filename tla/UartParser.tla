----------------------------- MODULE UartParser -----------------------------
(***************************************************************************)
(* The streaming UART packet parser of task 1 (class uart::UartParser).    *)
(*                                                                         *)
(*    SOF1 | SOF2 | Length | Type | Payload[Length] | CrcLo | CrcHi        *)
(*                                                                         *)
(* One action per branch of feed(byte), and one each for finish(), reset() *)
(* and resetStats().  Variables are the members of the class without their *)
(* trailing underscore.  Two variables are not members: `event` is what    *)
(* the step was (the onPacket callback with its packet, the verdict that a *)
(* frame was rejected, a call of reset), and `wire` is the history of the  *)
(* bytes consumed since the SOF1 of the current attempt.  Only properties  *)
(* read them.                                                              *)
(***************************************************************************)
EXTENDS Integers, Sequences

CONSTANTS
    ByteValues,        \* number of values of a byte (256)
    kSof1, kSof2,      \* start-of-frame bytes (16#AA, 16#55)
    kInit,             \* Crc16Ccitt::kInit
    CrcUpdate(_, _),   \* Crc16Ccitt::update(crc, byte)
    CrcCompute(_),     \* Crc16Ccitt::compute, the CRC of a whole byte sequence
    CounterModulus     \* number of values of a statistics counter (2^64)

Byte == 0 .. ByteValues - 1

Crc == 0 .. ByteValues * ByteValues - 1

kMaxPayloadLen == ByteValues - 1

ASSUME BytesAssumption ==
    /\ ByteValues \in Nat /\ ByteValues >= 2
    /\ kSof1 \in Byte /\ kSof2 \in Byte /\ kSof1 # kSof2

ASSUME CounterAssumption == CounterModulus \in Nat /\ CounterModulus >= 2

(***************************************************************************)
(* The parser feeds the CRC one byte at a time; a frame is specified by    *)
(* the CRC of its body as a whole.  The two agree because compute is the   *)
(* loop of update from kInit (module Crc16).                               *)
(***************************************************************************)
ASSUME CrcAssumption ==
    /\ kInit \in Crc
    /\ \A c \in Crc, b \in Byte : CrcUpdate(c, b) \in Crc
    /\ CrcCompute(<<>>) = kInit
    /\ \A n \in 0 .. kMaxPayloadLen : \A s \in [1 .. n -> Byte], b \in Byte :
            CrcCompute(Append(s, b)) = CrcUpdate(CrcCompute(s), b)

VARIABLES
    state, length, type, payload_index, payload,
    running_crc, crc_lo, in_flight, stats,
    event, wire

members == <<state, length, type, payload_index, payload,
             running_crc, crc_lo, in_flight>>
vars == <<members, stats, event, wire>>

States == {"WaitSof1", "WaitSof2", "Length", "Type", "Payload", "CrcLo", "CrcHi"}

Counter == 0 .. CounterModulus - 1

ParserStats ==
    [valid_packets : Counter, crc_failures : Counter, sync_losses : Counter,
     discarded_bytes : Counter, partial_packets : Counter]

ZeroStats ==
    [valid_packets |-> 0, crc_failures |-> 0, sync_losses |-> 0,
     discarded_bytes |-> 0, partial_packets |-> 0]

NoEvent == [kind |-> "none"]

\* ++c on an unsigned counter.
Incremented(c) == (c + 1) % CounterModulus

-----------------------------------------------------------------------------
(* Frames, as the wire format defines them.                                *)

BodyOf(frame, n) == [i \in 1 .. n |-> frame[3 + i]]

\* The packet a complete frame carries.
PacketOf(frame) ==
    [length |-> frame[3],
     type |-> frame[4],
     payload |-> [i \in 1 .. frame[3] |-> frame[4 + i]]]

\* The last two bytes of a complete frame, little-endian, are its body's CRC.
CrcValid(frame) ==
    LET n == frame[3]
    IN  frame[6 + n] * ByteValues + frame[5 + n] = CrcCompute(BodyOf(frame, n + 1))

IsFrame(frame) ==
    /\ Len(frame) >= 6
    /\ frame[1] = kSof1 /\ frame[2] = kSof2
    /\ Len(frame) = 6 + frame[3]

-----------------------------------------------------------------------------
Init ==
    /\ state = "WaitSof1"
    /\ length = 0
    /\ type = 0
    /\ payload_index = 0
    /\ payload = [i \in 0 .. kMaxPayloadLen - 1 |-> 0]
    /\ running_crc = 0
    /\ crc_lo = 0
    /\ in_flight = FALSE
    /\ stats = ZeroStats
    /\ event = NoEvent
    /\ wire = <<>>

FeedWaitSof1(byte) ==
    /\ state = "WaitSof1"
    /\ \/ /\ byte = kSof1
          /\ state' = "WaitSof2"
          /\ wire' = <<byte>>
          /\ UNCHANGED stats
       \/ /\ byte # kSof1
          /\ stats' = [stats EXCEPT !.discarded_bytes = Incremented(@)]
          /\ UNCHANGED <<state, wire>>
    /\ event' = NoEvent
    /\ UNCHANGED <<length, type, payload_index, payload, running_crc, crc_lo, in_flight>>

\* in_flight_ = true: SOF1 and SOF2 are both consumed.
CommitToPacketForgotten == UNCHANGED in_flight
CommitToPacket == in_flight' = TRUE

FeedWaitSof2(byte) ==
    /\ state = "WaitSof2"
    /\ \/ /\ byte = kSof2
          /\ state' = "Length"
          /\ CommitToPacket
          /\ wire' = Append(wire, byte)
          /\ UNCHANGED stats
       \/ /\ byte = kSof1      \* the previous SOF1 was a false start
          /\ stats' = [stats EXCEPT !.discarded_bytes = Incremented(@)]
          /\ UNCHANGED <<state, in_flight, wire>>
       \/ /\ byte \notin {kSof1, kSof2}
          /\ stats' = [stats EXCEPT !.discarded_bytes = Incremented(@)]
          /\ state' = "WaitSof1"
          /\ wire' = <<>>
          /\ UNCHANGED in_flight
    /\ event' = NoEvent
    /\ UNCHANGED <<length, type, payload_index, payload, running_crc, crc_lo>>

\* running_crc_ = kInit at the start of every frame.
RestartCrcForgotten == UNCHANGED running_crc
RestartCrc == running_crc' = kInit

FeedLength(byte) ==
    /\ state = "Length"
    /\ length' = byte
    /\ payload_index' = 0
    /\ RestartCrc
    /\ state' = "Type"
    /\ wire' = Append(wire, byte)
    /\ event' = NoEvent
    /\ UNCHANGED <<type, payload, crc_lo, in_flight, stats>>

AfterTypeAlwaysPayload == "Payload"
AfterType == IF length = 0 THEN "CrcLo" ELSE "Payload"

FeedType(byte) ==
    /\ state = "Type"
    /\ type' = byte
    /\ running_crc' = CrcUpdate(running_crc, byte)
    /\ state' = AfterType
    /\ wire' = Append(wire, byte)
    /\ event' = NoEvent
    /\ UNCHANGED <<length, payload_index, payload, crc_lo, in_flight, stats>>

PayloadCompleteTooLate(n) == n > length
PayloadComplete(n) == n >= length

FeedPayload(byte) ==
    /\ state = "Payload"
    /\ payload' = [payload EXCEPT ![payload_index] = byte]
    /\ payload_index' = payload_index + 1
    /\ running_crc' = CrcUpdate(running_crc, byte)
    /\ state' = IF PayloadComplete(payload_index + 1) THEN "CrcLo" ELSE "Payload"
    /\ wire' = Append(wire, byte)
    /\ event' = NoEvent
    /\ UNCHANGED <<length, type, crc_lo, in_flight, stats>>

FeedCrcLo(byte) ==
    /\ state = "CrcLo"
    /\ crc_lo' = byte
    /\ state' = "CrcHi"
    /\ wire' = Append(wire, byte)
    /\ event' = NoEvent
    /\ UNCHANGED <<length, type, payload_index, payload, running_crc, in_flight, stats>>

\* The state part of toWaitSof1; its sync-loss count is part of stats' below.
toWaitSof1Incomplete == payload_index' = 0 /\ wire' = <<>> /\ UNCHANGED <<state, in_flight>>
toWaitSof1 ==
    /\ state' = "WaitSof1"
    /\ in_flight' = FALSE
    /\ payload_index' = 0
    /\ wire' = <<>>

\* What the callback reads through Packet's pointer and length.
DeliveredPacket ==
    [length |-> length,
     type |-> type,
     payload |-> [i \in 1 .. length |-> payload[i - 1]]]

\* CRC bytes are little-endian on the wire.
received_crc_big_endian(byte) == crc_lo * ByteValues + byte
received_crc(byte) == byte * ByteValues + crc_lo

FeedCrcHiValid(byte) ==
    /\ state = "CrcHi"
    /\ received_crc(byte) = running_crc
    /\ stats' = [stats EXCEPT !.valid_packets = Incremented(@)]
    /\ event' = [kind |-> "packet", frame |-> Append(wire, byte), packet |-> DeliveredPacket]
    /\ toWaitSof1
    /\ UNCHANGED <<length, type, payload, running_crc, crc_lo>>

\* handleFramingError: the abandoned packet counts as a loss of sync.
FeedCrcHiFailure(byte) ==
    /\ state = "CrcHi"
    /\ received_crc(byte) # running_crc
    /\ stats' = [stats EXCEPT !.crc_failures = Incremented(@),
                              !.sync_losses = IF in_flight THEN Incremented(@) ELSE @]
    /\ event' = [kind |-> "crc_failure", frame |-> Append(wire, byte)]
    /\ toWaitSof1
    /\ UNCHANGED <<length, type, payload, running_crc, crc_lo>>

Feed(byte) ==
    \/ FeedWaitSof1(byte)
    \/ FeedWaitSof2(byte)
    \/ FeedLength(byte)
    \/ FeedType(byte)
    \/ FeedPayload(byte)
    \/ FeedCrcLo(byte)
    \/ FeedCrcHiValid(byte)
    \/ FeedCrcHiFailure(byte)

\* reset() leaves the payload bytes and the statistics as they are.
ResetMembers ==
    /\ state' = "WaitSof1"
    /\ length' = 0
    /\ type' = 0
    /\ payload_index' = 0
    /\ running_crc' = 0
    /\ crc_lo' = 0
    /\ in_flight' = FALSE
    /\ wire' = <<>>
    /\ UNCHANGED payload

\* The callback runs while state_ is still CrcHi.  One that calls reset() has the
\* members cleared before toWaitSof1, which then finds nothing left to change.
FeedCallbackResets(byte) ==
    /\ state = "CrcHi"
    /\ received_crc(byte) = running_crc
    /\ stats' = [stats EXCEPT !.valid_packets = Incremented(@)]
    /\ event' = [kind |-> "packet", frame |-> Append(wire, byte), packet |-> DeliveredPacket]
    /\ ResetMembers

MidPacketPayloadOnly == state = "Payload"
MidPacket == state # "WaitSof1"

Finish ==
    /\ stats' = IF MidPacket
                THEN [stats EXCEPT !.partial_packets = Incremented(@)]
                ELSE stats
    /\ event' = NoEvent
    /\ ResetMembers

Reset ==
    /\ event' = [kind |-> "reset"]
    /\ ResetMembers
    /\ UNCHANGED stats

ResetStats ==
    /\ stats' = ZeroStats
    /\ event' = NoEvent
    /\ UNCHANGED <<members, wire>>

Next ==
    \/ \E byte \in Byte : Feed(byte) \/ FeedCallbackResets(byte)
    \/ Finish
    \/ Reset
    \/ ResetStats

Spec == Init /\ [][Next]_vars

\* The caller keeps feeding bytes: true of a live serial line.
FairSpec == Spec /\ WF_vars(\E byte \in Byte : Feed(byte))

-----------------------------------------------------------------------------
(* Properties.                                                             *)

\* Every member stays within its C++ type, the payload index within 0..255
\* (one past the last byte written).
TypeOK ==
    /\ state \in States
    /\ length \in Byte /\ type \in Byte /\ crc_lo \in Byte
    /\ payload_index \in 0 .. kMaxPayloadLen
    /\ payload \in [0 .. kMaxPayloadLen - 1 -> Byte]
    /\ running_crc \in Crc
    /\ in_flight \in BOOLEAN
    /\ stats \in ParserStats
    /\ wire \in Seq(Byte)
    /\ event.kind \in {"none", "packet", "crc_failure", "reset"}

\* Bytes of Type and Payload consumed so far (read in the states from Type on).
BodyBytes == IF state = "Type" THEN 0 ELSE payload_index + 1

\* From Type on, the members hold what the wire carried since the SOF pair.
FrameSoFar ==
    /\ Len(wire) = 3 + BodyBytes + (IF state = "CrcHi" THEN 1 ELSE 0)
    /\ wire[1] = kSof1 /\ wire[2] = kSof2 /\ wire[3] = length
    /\ state = "Type" => payload_index = 0
    /\ state = "Payload" => payload_index < length
    /\ state \in {"CrcLo", "CrcHi"} => payload_index = length
    /\ state # "Type" => type = wire[4]
    /\ \A i \in 0 .. payload_index - 1 : payload[i] = wire[5 + i]
    /\ running_crc = CrcCompute(BodyOf(wire, BodyBytes))
    /\ state = "CrcHi" => crc_lo = wire[5 + length]

\* The parser's members mirror the wire in every state, after any mix of frames,
\* false starts, finish and reset; in_flight_ is exactly "past SOF2".
FramingInv ==
    /\ in_flight <=> state \notin {"WaitSof1", "WaitSof2"}
    /\ state = "WaitSof1" => wire = <<>>
    /\ state = "WaitSof2" => Len(wire) = 1 /\ wire[1] = kSof1
    /\ state = "Length" => Len(wire) = 2 /\ wire[1] = kSof1 /\ wire[2] = kSof2
    /\ state \in {"Type", "Payload", "CrcLo", "CrcHi"} => FrameSoFar

\* payload_[payload_index_++] is an unchecked write into a fixed array: whenever
\* the Payload branch can run, the index is inside the array and inside the
\* frame's own payload.
PayloadInBounds ==
    state = "Payload" => payload_index < kMaxPayloadLen /\ payload_index < length

\* sync_losses is documented as "a previously-started packet was abandoned";
\* handleFramingError, its only counting caller, counts under the flag
\* in_flight_, so every rejected frame must find the flag still set, whatever
\* mix of finish, reset and resetStats went before.
SyncLossIsCrcFailure == stats.sync_losses = stats.crc_failures

\* What the onPacket callback sees is the frame that was on the wire since the
\* last SOF pair: same length, type and payload bytes (none left over from an
\* earlier frame, although reset() keeps the buffer), with a matching CRC; also after
\* a callback that called reset() from inside feed().
DeliveredIsOnTheWire ==
    event.kind = "packet" =>
        /\ IsFrame(event.frame)
        /\ CrcValid(event.frame)
        /\ event.packet = PacketOf(event.frame)

\* A frame is counted as a CRC failure only if its own bytes do not match their
\* CRC: nothing of an earlier frame or of a reset leaks into running_crc_.
RejectedIsCorrupt ==
    event.kind = "crc_failure" => IsFrame(event.frame) /\ ~CrcValid(event.frame)

\* A packet attempt that was committed to (past SOF2) never ends unrecorded:
\* unless reset() discards it, exactly one of valid_packets, crc_failures and
\* partial_packets moves in the step that ends it.
NoSilentLoss ==
    [][in_flight /\ ~in_flight' /\ event'.kind # "reset" =>
        \E c \in {"valid_packets", "crc_failures", "partial_packets"} :
            \A d \in {"valid_packets", "crc_failures", "partial_packets"} :
                stats'[d] # stats[d] <=> d = c]_vars

\* As long as bytes arrive, no attempt keeps the parser in flight for ever: a
\* frame ends after at most 255 payload bytes, however wrong its length is.
AttemptEnds == in_flight ~> ~in_flight
=============================================================================
