-------------------------- MODULE UartParserProofs --------------------------
(***************************************************************************)
(* Proofs about UartParser, for every byte width, CRC and counter width.   *)
(* The inductive invariant is IInv: types, the mirror of the wire in the   *)
(* parser's members, and what the last step reported.                      *)
(***************************************************************************)
EXTENDS UartParser, TLAPS

IInv ==
    /\ TypeOK
    /\ FramingInv
    /\ SyncLossIsCrcFailure
    /\ DeliveredIsOnTheWire
    /\ RejectedIsCorrupt

USE BytesAssumption

-----------------------------------------------------------------------------
\* Crc contains the zero that reset() writes (uart_parser.cpp:118).
LEMMA ZeroInCrc == 0 \in Crc
<1>1. ByteValues * ByteValues >= 1
  <2>1. ASSUME NEW n \in Nat, n >= 2 PROVE n * n >= 1
    BY <2>1
  <2> QED BY <2>1
<1> DEFINE m == ByteValues * ByteValues
<1>2. m \in Int
  OBVIOUS
<1>3. 0 \in 0 .. m - 1
  BY <1>1, <1>2
<1> QED BY <1>3 DEF Crc

\* Incrementing a counter stays within its width (uart_parser.hpp:29-36).
LEMMA IncrementedType == \A c \in Counter : Incremented(c) \in Counter
BY CounterAssumption DEF Counter, Incremented

\* Every counter update of the parser stays a ParserStats record.
LEMMA StatsType ==
    ASSUME NEW s \in ParserStats, in_flight \in BOOLEAN
    PROVE  /\ ZeroStats \in ParserStats
           /\ [s EXCEPT !.discarded_bytes = Incremented(@)] \in ParserStats
           /\ [s EXCEPT !.valid_packets = Incremented(@)] \in ParserStats
           /\ [s EXCEPT !.partial_packets = Incremented(@)] \in ParserStats
           /\ [s EXCEPT !.crc_failures = Incremented(@),
                        !.sync_losses = IF in_flight THEN Incremented(@) ELSE @]
                 \in ParserStats
<1>1. 0 \in Counter
  BY CounterAssumption DEF Counter
<1> QED BY <1>1, IncrementedType DEF ParserStats, ZeroStats

\* The history of the wire stays a sequence of bytes.
LEMMA WireType ==
    ASSUME NEW w \in Seq(Byte), NEW b \in Byte
    PROVE  /\ <<>> \in Seq(Byte) /\ <<b>> \in Seq(Byte)
           /\ Append(w, b) \in Seq(Byte)
           /\ Len(Append(w, b)) = Len(w) + 1
           /\ Append(w, b)[Len(w) + 1] = b
           /\ \A i \in 1 .. Len(w) : Append(w, b)[i] = w[i]
OBVIOUS

\* The same, of a wire known to be longer by one byte.
LEMMA WireAppend ==
    ASSUME NEW w \in Seq(Byte), NEW b \in Byte, NEW v, v = Append(w, b)
    PROVE  /\ Len(v) = Len(w) + 1
           /\ v[Len(w) + 1] = b
           /\ \A i \in 1 .. Len(w) : v[i] = w[i]
BY WireType

\* Consuming one more body byte advances the CRC of the body by one update.
LEMMA CrcOfLongerBody ==
    ASSUME NEW w \in Seq(Byte), NEW n \in 0 .. kMaxPayloadLen, Len(w) = 3 + n,
           NEW b \in Byte
    PROVE  CrcCompute(BodyOf(Append(w, b), n + 1)) = CrcUpdate(CrcCompute(BodyOf(w, n)), b)
<1>1. n \in Nat
  BY DEF kMaxPayloadLen, Byte
<1>2. BodyOf(w, n) \in [1 .. n -> Byte]
  BY <1>1 DEF BodyOf
<1>3. BodyOf(Append(w, b), n + 1) = Append(BodyOf(w, n), b)
  BY <1>1, <1>2 DEF BodyOf
<1> QED BY <1>2, <1>3, CrcAssumption

\* A byte after the body leaves the body as it is.
LEMMA BodyOfAppend ==
    ASSUME NEW w \in Seq(Byte), NEW n \in Nat, Len(w) >= 3 + n, NEW b \in Byte
    PROVE  BodyOf(Append(w, b), n) = BodyOf(w, n)
BY DEF BodyOf

-----------------------------------------------------------------------------
\* The parser starts with every member in its type.
LEMMA InitIInv == Init => IInv
<1> SUFFICES ASSUME Init PROVE IInv
  OBVIOUS
<1>1. TypeOK
  <2>1. 0 \in Counter /\ 0 \in Byte
    BY CounterAssumption DEF Counter, Byte
  <2>2. stats \in ParserStats
    BY <2>1 DEF Init, ZeroStats, ParserStats
  <2> QED
    BY <2>1, <2>2, ZeroInCrc, SMTT(30) DEF Init, TypeOK, States, kMaxPayloadLen, Byte, NoEvent
<1>2. FramingInv
  BY DEF Init, FramingInv
<1> QED
  BY <1>1, <1>2 DEF Init, IInv, SyncLossIsCrcFailure, DeliveredIsOnTheWire,
     RejectedIsCorrupt, NoEvent, ZeroStats

\* Every operation of the class keeps the types; the payload branch needs
\* FramingInv, which bounds the index by the frame's length.
LEMMA TypeStep == TypeOK /\ FramingInv /\ [Next]_vars => TypeOK'
<1> SUFFICES ASSUME TypeOK, FramingInv, [Next]_vars PROVE TypeOK'
  OBVIOUS
<1> USE DEF TypeOK, States, NoEvent
<1>z. 0 \in Byte /\ 0 \in 0 .. kMaxPayloadLen
  BY DEF Byte, kMaxPayloadLen
<1>1. ASSUME NEW byte \in Byte, FeedWaitSof1(byte) PROVE TypeOK'
  BY <1>1, StatsType, WireType DEF FeedWaitSof1
<1>2. ASSUME NEW byte \in Byte, FeedWaitSof2(byte) PROVE TypeOK'
  <2>1. stats' \in ParserStats
    BY <1>2, StatsType DEF FeedWaitSof2
  <2>2. wire' \in Seq(Byte)
    <3>1. wire' \in {wire, <<>>, Append(wire, byte)} /\ wire \in Seq(Byte)
      BY <1>2 DEF FeedWaitSof2
    <3>2. <<>> \in Seq(Byte) /\ Append(wire, byte) \in Seq(Byte)
      BY <3>1, WireType
    <3> QED BY <3>1, <3>2
  <2>3. state' \in States /\ in_flight' \in BOOLEAN
    BY <1>2 DEF FeedWaitSof2, CommitToPacket
  <2> QED BY <1>2, <2>1, <2>2, <2>3 DEF FeedWaitSof2
<1>3. ASSUME NEW byte \in Byte, FeedLength(byte) PROVE TypeOK'
  BY <1>3, <1>z, CrcAssumption, WireType DEF FeedLength, RestartCrc
<1>4. ASSUME NEW byte \in Byte, FeedType(byte) PROVE TypeOK'
  BY <1>4, CrcAssumption, WireType DEF FeedType, AfterType
<1>5. ASSUME NEW byte \in Byte, FeedPayload(byte) PROVE TypeOK'
  <2>1. payload_index + 1 \in 0 .. kMaxPayloadLen
    BY <1>5 DEF FeedPayload, FramingInv, FrameSoFar, kMaxPayloadLen, Byte
  <2> QED
    BY <1>5, <2>1, CrcAssumption, WireType DEF FeedPayload
<1>6. ASSUME NEW byte \in Byte, FeedCrcLo(byte) PROVE TypeOK'
  BY <1>6, WireType DEF FeedCrcLo
<1>7. ASSUME NEW byte \in Byte, FeedCrcHiValid(byte) PROVE TypeOK'
  BY <1>7, <1>z, StatsType, WireType DEF FeedCrcHiValid, toWaitSof1
<1>8. ASSUME NEW byte \in Byte, FeedCrcHiFailure(byte) PROVE TypeOK'
  BY <1>8, <1>z, StatsType, WireType DEF FeedCrcHiFailure, toWaitSof1
<1>9. CASE Finish
  BY <1>9, <1>z, ZeroInCrc, StatsType, WireType DEF Finish, MidPacket, ResetMembers
<1>10. CASE Reset
  BY <1>10, <1>z, ZeroInCrc, WireType DEF Reset, ResetMembers
<1>11. CASE ResetStats
  BY <1>11, StatsType DEF ResetStats, members
<1>12. CASE UNCHANGED vars
  BY <1>12 DEF vars, members
<1>13. ASSUME NEW byte \in Byte, FeedCallbackResets(byte) PROVE TypeOK'
  BY <1>13, <1>z, ZeroInCrc, StatsType, WireType DEF FeedCallbackResets, ResetMembers
<1> QED
  BY <1>1, <1>2, <1>3, <1>4, <1>5, <1>6, <1>7, <1>8, <1>9, <1>10, <1>11, <1>12, <1>13
     DEF Next, Feed

\* Every operation of the class keeps the members a mirror of the wire.
LEMMA FramingStep == TypeOK /\ FramingInv /\ [Next]_vars => FramingInv'
<1> SUFFICES ASSUME TypeOK, FramingInv, [Next]_vars PROVE FramingInv'
  OBVIOUS
<1>t. /\ wire \in Seq(Byte) /\ length \in Byte /\ payload_index \in Nat
      /\ length \in 0 .. kMaxPayloadLen /\ kMaxPayloadLen \in Nat
  BY DEF TypeOK, Byte, kMaxPayloadLen
<1>1. ASSUME NEW byte \in Byte, FeedWaitSof1(byte) PROVE FramingInv'
  BY <1>1 DEF FeedWaitSof1, FramingInv
<1>2. ASSUME NEW byte \in Byte, FeedWaitSof2(byte) PROVE FramingInv'
  <2>1. CASE byte = kSof2
    <3>1. Len(wire) = 1 /\ wire[1] = kSof1 /\ wire' = Append(wire, byte)
      BY <1>2, <2>1 DEF FeedWaitSof2, FramingInv
    <3>2. Len(wire') = 2 /\ wire'[1] = kSof1 /\ wire'[2] = kSof2
      BY <1>t, <2>1, <3>1, WireAppend
    <3> QED BY <1>2, <2>1, <3>2 DEF FeedWaitSof2, CommitToPacket, FramingInv
  <2>2. CASE byte # kSof2
    BY <1>2, <2>2 DEF FeedWaitSof2, FramingInv
  <2> QED BY <2>1, <2>2
<1>3. ASSUME NEW byte \in Byte, FeedLength(byte) PROVE FramingInv'
  <2>1. BodyOf(wire', 0) = <<>>
    BY DEF BodyOf
  <2>2. Len(wire') = 3 /\ wire'[1] = kSof1 /\ wire'[2] = kSof2 /\ wire'[3] = byte
    <3>1. /\ Len(wire) = 2 /\ wire[1] = kSof1 /\ wire[2] = kSof2
          /\ wire' = Append(wire, byte)
      BY <1>3 DEF FeedLength, FramingInv
    <3> QED BY <1>t, <3>1, WireAppend, SMTT(30)
  <2>3. FrameSoFar'
    BY <1>3, <2>1, <2>2, CrcAssumption DEF FeedLength, RestartCrc, FrameSoFar, BodyBytes
  <2> QED
    BY <1>3, <2>3 DEF FeedLength, FramingInv
<1>4. ASSUME NEW byte \in Byte, FeedType(byte) PROVE FramingInv'
  <2>1. FrameSoFar /\ Len(wire) = 3 /\ payload_index = 0
    BY <1>4, <1>t DEF FeedType, FramingInv, FrameSoFar, BodyBytes
  <2>2. CrcCompute(BodyOf(wire', 1)) = CrcUpdate(CrcCompute(BodyOf(wire, 0)), byte)
    <3>1. 0 \in 0 .. kMaxPayloadLen /\ Len(wire) = 3 + 0
      BY <1>t, <2>1
    <3>2. CrcCompute(BodyOf(Append(wire, byte), 0 + 1))
            = CrcUpdate(CrcCompute(BodyOf(wire, 0)), byte)
      BY <1>t, <3>1, CrcOfLongerBody
    <3> QED BY <1>4, <3>2 DEF FeedType
  <2>3. FrameSoFar'
    <3>1. /\ Len(wire') = 4 /\ wire'[1] = kSof1 /\ wire'[2] = kSof2
          /\ wire'[3] = length /\ wire'[4] = byte
      <4>1. wire' = Append(wire, byte)
        BY <1>4 DEF FeedType
      <4>2. wire[1] = kSof1 /\ wire[2] = kSof2 /\ wire[3] = length
        BY <2>1 DEF FrameSoFar
      <4> QED BY <4>1, <4>2, <1>t, <2>1, WireAppend, SMTT(30)
    <3> QED
      BY <1>4, <1>t, <2>1, <2>2, <3>1 DEF FeedType, AfterType, FrameSoFar, BodyBytes, Byte
  <2> QED
    BY <1>4, <2>3 DEF FeedType, AfterType, FramingInv
<1>5. ASSUME NEW byte \in Byte, FeedPayload(byte) PROVE FramingInv'
  <2>1. /\ FrameSoFar /\ Len(wire) = 4 + payload_index
        /\ payload_index < length
    BY <1>5, <1>t DEF FeedPayload, FramingInv, FrameSoFar, BodyBytes
  <2>2. CrcCompute(BodyOf(wire', payload_index + 2))
            = CrcUpdate(CrcCompute(BodyOf(wire, payload_index + 1)), byte)
    <3>1. payload_index + 1 \in 0 .. kMaxPayloadLen
      BY <1>t, <2>1
    <3> QED BY <1>5, <1>t, <2>1, <3>1, CrcOfLongerBody DEF FeedPayload
  <2>3. \A i \in 0 .. payload_index' - 1 : payload'[i] = wire'[5 + i]
    BY <1>5, <1>t, <2>1, SMTT(30) DEF FeedPayload, FrameSoFar, TypeOK
  <2>4. FrameSoFar'
    <3>1. /\ Len(wire') = 5 + payload_index /\ wire'[1] = kSof1 /\ wire'[2] = kSof2
          /\ wire'[3] = length /\ wire'[4] = type
      <4>1. wire' = Append(wire, byte)
        BY <1>5 DEF FeedPayload
      <4>2. wire[1] = kSof1 /\ wire[2] = kSof2 /\ wire[3] = length /\ type = wire[4]
        BY <1>5, <2>1 DEF FeedPayload, FrameSoFar
      <4> QED BY <4>1, <4>2, <1>t, <2>1, WireAppend
    <3>2. /\ state' \in {"Payload", "CrcLo"}
          /\ payload_index' = payload_index + 1
          /\ BodyBytes' = payload_index + 2
      BY <1>5, <1>t DEF FeedPayload, BodyBytes
    <3>3. running_crc' = CrcCompute(BodyOf(wire', BodyBytes'))
      <4>1. running_crc = CrcCompute(BodyOf(wire, payload_index + 1))
        BY <1>5, <2>1 DEF FeedPayload, FrameSoFar, BodyBytes
      <4> QED BY <1>5, <4>1, <2>2, <3>2 DEF FeedPayload
    <3>4. /\ state' = "Payload" => payload_index' < length
          /\ state' = "CrcLo" => payload_index' = length
      BY <1>5, <1>t, <2>1 DEF FeedPayload, PayloadComplete, Byte
    <3>5. length' = length /\ type' = type
      BY <1>5 DEF FeedPayload
    <3> QED
      BY <1>t, <2>3, <3>1, <3>2, <3>3, <3>4, <3>5 DEF FrameSoFar
  <2> QED
    BY <1>5, <2>4 DEF FeedPayload, FramingInv
<1>6. ASSUME NEW byte \in Byte, FeedCrcLo(byte) PROVE FramingInv'
  <2>1. FrameSoFar /\ Len(wire) = 4 + length /\ payload_index = length
    BY <1>6, <1>t DEF FeedCrcLo, FramingInv, FrameSoFar, BodyBytes
  <2>2. BodyOf(wire', payload_index + 1) = BodyOf(wire, payload_index + 1)
    BY <1>6, <1>t, <2>1, BodyOfAppend DEF FeedCrcLo
  <2>3. FrameSoFar'
    BY <1>6, <1>t, <2>1, <2>2 DEF FeedCrcLo, FrameSoFar, BodyBytes
  <2> QED
    BY <1>6, <2>3 DEF FeedCrcLo, FramingInv
<1>7. ASSUME NEW byte \in Byte, FeedCrcHiValid(byte) PROVE FramingInv'
  BY <1>7 DEF FeedCrcHiValid, toWaitSof1, FramingInv
<1>8. ASSUME NEW byte \in Byte, FeedCrcHiFailure(byte) PROVE FramingInv'
  BY <1>8 DEF FeedCrcHiFailure, toWaitSof1, FramingInv
<1>9. CASE Finish \/ Reset
  BY <1>9 DEF Finish, Reset, ResetMembers, FramingInv
<1>10. CASE ResetStats \/ UNCHANGED vars
  BY <1>10 DEF ResetStats, vars, members, FramingInv, FrameSoFar, BodyBytes
<1>11. ASSUME NEW byte \in Byte, FeedCallbackResets(byte) PROVE FramingInv'
  BY <1>11 DEF FeedCallbackResets, ResetMembers, FramingInv
<1> QED
  BY <1>1, <1>2, <1>3, <1>4, <1>5, <1>6, <1>7, <1>8, <1>9, <1>10, <1>11 DEF Next, Feed

\* A frame that reached CrcHi is on the wire whole once its last byte is there,
\* and the comparison of feed() is the frame's own CRC check.
LEMMA VerdictIsAboutTheFrame ==
    ASSUME TypeOK, FramingInv, state = "CrcHi", NEW byte \in Byte
    PROVE  LET frame == Append(wire, byte)
           IN  /\ IsFrame(frame)
               /\ CrcValid(frame) <=> received_crc(byte) = running_crc
               /\ DeliveredPacket = PacketOf(frame)
<1> DEFINE frame == Append(wire, byte)
<1>t. /\ wire \in Seq(Byte) /\ length \in Nat /\ payload_index = length
      /\ FrameSoFar /\ Len(wire) = 5 + length
  BY DEF TypeOK, FramingInv, FrameSoFar, BodyBytes, Byte
<1>1. /\ Len(frame) = 6 + length /\ frame[6 + length] = byte
      /\ \A i \in 1 .. 5 + length : frame[i] = wire[i]
  BY <1>t, WireAppend
<1>2. /\ frame[1] = kSof1 /\ frame[2] = kSof2 /\ frame[3] = length /\ frame[4] = type
      /\ frame[5 + length] = crc_lo
  BY <1>t, <1>1 DEF FrameSoFar
<1>3. CrcCompute(BodyOf(frame, length + 1)) = running_crc
  <2>1. BodyOf(frame, length + 1) = BodyOf(wire, length + 1)
    BY <1>t, BodyOfAppend
  <2> QED BY <1>t, <2>1 DEF FrameSoFar, BodyBytes
<1>4. ASSUME NEW i \in 1 .. length PROVE payload[i - 1] = frame[4 + i]
  <2>1. i - 1 \in 0 .. payload_index - 1 /\ 5 + (i - 1) = 4 + i
    BY <1>t
  <2>2. payload[i - 1] = wire[5 + (i - 1)]
    BY <1>t, <2>1 DEF FrameSoFar
  <2> QED BY <1>t, <1>1, <2>1, <2>2
<1>5. IsFrame(frame)
  BY <1>t, <1>1, <1>2 DEF IsFrame
<1>6. CrcValid(frame) <=> received_crc(byte) = running_crc
  BY <1>1, <1>2, <1>3 DEF CrcValid, received_crc
<1>7. DeliveredPacket = PacketOf(frame)
  BY <1>2, <1>4 DEF DeliveredPacket, PacketOf
<1> QED BY <1>5, <1>6, <1>7

\* What a step reports is true of the frame it ends.
LEMMA EventStep ==
    IInv /\ [Next]_vars => DeliveredIsOnTheWire' /\ RejectedIsCorrupt'
<1> SUFFICES ASSUME IInv, [Next]_vars PROVE DeliveredIsOnTheWire' /\ RejectedIsCorrupt'
  OBVIOUS
<1> USE DEF DeliveredIsOnTheWire, RejectedIsCorrupt
<1>1. CASE event'.kind \in {"none", "reset"}
  BY <1>1
<1>2. ASSUME NEW byte \in Byte, FeedCrcHiValid(byte) \/ FeedCallbackResets(byte)
      PROVE  DeliveredIsOnTheWire' /\ RejectedIsCorrupt'
  <2>1. /\ event'.kind = "packet" /\ event'.frame = Append(wire, byte)
        /\ event'.packet = DeliveredPacket
        /\ state = "CrcHi" /\ received_crc(byte) = running_crc
    BY <1>2 DEF FeedCrcHiValid, FeedCallbackResets
  <2> QED BY <2>1, VerdictIsAboutTheFrame DEF IInv
<1>3. ASSUME NEW byte \in Byte, FeedCrcHiFailure(byte)
      PROVE  DeliveredIsOnTheWire' /\ RejectedIsCorrupt'
  <2>1. event'.kind = "crc_failure" /\ event'.frame = Append(wire, byte)
    BY <1>3 DEF FeedCrcHiFailure
  <2> QED BY <1>3, <2>1, VerdictIsAboutTheFrame DEF FeedCrcHiFailure, IInv
<1>4. CASE UNCHANGED vars
  BY <1>4 DEF vars, IInv
<1>5. CASE Next
  <2>1. \/ event'.kind \in {"none", "reset"}
        \/ \E byte \in Byte : \/ FeedCrcHiValid(byte) \/ FeedCallbackResets(byte)
                             \/ FeedCrcHiFailure(byte)
    BY <1>5 DEF NoEvent, Next, Feed, FeedWaitSof1, FeedWaitSof2, FeedLength, FeedType, FeedPayload,
       FeedCrcLo, Finish, Reset, ResetMembers, ResetStats
  <2> QED BY <1>1, <1>2, <1>3, <2>1
<1> QED BY <1>4, <1>5

\* The two counters move together: a frame is rejected only while in flight.
LEMMA SyncLossStep == IInv /\ [Next]_vars => SyncLossIsCrcFailure'
<1> SUFFICES ASSUME IInv, [Next]_vars PROVE SyncLossIsCrcFailure'
  OBVIOUS
<1> USE DEF SyncLossIsCrcFailure
<1>t. stats \in ParserStats /\ stats.sync_losses = stats.crc_failures
  BY DEF IInv, TypeOK
<1>1. ASSUME NEW byte \in Byte, FeedCrcHiFailure(byte) PROVE SyncLossIsCrcFailure'
  <2>1. in_flight
    BY <1>1 DEF FeedCrcHiFailure, IInv, FramingInv
  <2> QED BY <1>1, <1>t, <2>1 DEF FeedCrcHiFailure, ParserStats
<1>2. ASSUME NEW byte \in Byte, Feed(byte) \/ FeedCallbackResets(byte),
             ~FeedCrcHiFailure(byte)
      PROVE  SyncLossIsCrcFailure'
  BY <1>2, <1>t DEF Feed, FeedWaitSof1, FeedWaitSof2, FeedLength, FeedType, FeedPayload,
     FeedCrcLo, FeedCrcHiValid, FeedCallbackResets, ParserStats
<1>3. CASE Finish \/ Reset \/ ResetStats
  BY <1>3, <1>t DEF Finish, Reset, ResetStats, ZeroStats, ParserStats
<1>4. CASE UNCHANGED vars
  BY <1>4, <1>t DEF vars
<1> QED BY <1>1, <1>2, <1>3, <1>4 DEF Next

-----------------------------------------------------------------------------
\* Every step of the parser keeps IInv.
LEMMA IInvStep == IInv /\ [Next]_vars => IInv'
BY TypeStep, FramingStep, EventStep, SyncLossStep DEF IInv

\* So it holds of every behaviour.
LEMMA IInvInductive == Spec => []IInv
BY InitIInv, IInvStep, PTL DEF Spec

\* Every member stays in its C++ type; in particular payload_index_ never passes
\* the 255-byte array.
THEOREM TypeCorrect == Spec => []TypeOK
<1>1. IInv => TypeOK
  BY DEF IInv
<1> QED BY IInvInductive, <1>1, PTL

\* The members mirror the wire in every reachable state.
THEOREM FramingCorrect == Spec => []FramingInv
<1>1. IInv => FramingInv
  BY DEF IInv
<1> QED BY IInvInductive, <1>1, PTL

\* The unchecked array write of the Payload branch is always in bounds.
THEOREM MemorySafe == Spec => []PayloadInBounds
<1>1. IInv => PayloadInBounds
  <2> SUFFICES ASSUME IInv, state = "Payload"
               PROVE  payload_index < kMaxPayloadLen /\ payload_index < length
    BY DEF PayloadInBounds
  <2>1. payload_index < length
    BY DEF IInv, FramingInv, FrameSoFar
  <2>2. length \in 0 .. kMaxPayloadLen /\ payload_index \in Nat
    BY DEF IInv, TypeOK, Byte, kMaxPayloadLen
  <2>3. kMaxPayloadLen \in Nat
    BY DEF kMaxPayloadLen
  <2> QED BY <2>1, <2>2, <2>3
<1> QED BY IInvInductive, <1>1, PTL

\* sync_losses counts exactly the frames that failed their CRC.
THEOREM SyncLossCorrect == Spec => []SyncLossIsCrcFailure
<1>1. IInv => SyncLossIsCrcFailure
  BY DEF IInv
<1> QED BY IInvInductive, <1>1, PTL

\* Only what was on the wire, with a valid CRC, reaches the callback.
THEOREM DeliveryCorrect == Spec => []DeliveredIsOnTheWire
<1>1. IInv => DeliveredIsOnTheWire
  BY DEF IInv
<1> QED BY IInvInductive, <1>1, PTL

\* Only a frame whose own bytes fail the CRC is counted as a CRC failure.
THEOREM RejectionCorrect == Spec => []RejectedIsCorrupt
<1>1. IInv => RejectedIsCorrupt
  BY DEF IInv
<1> QED BY IInvInductive, <1>1, PTL

-----------------------------------------------------------------------------
\* Incrementing a counter of at least two values changes it.
LEMMA IncrementChanges == \A c \in Counter : Incremented(c) # c
<1> SUFFICES ASSUME NEW c \in Counter PROVE (c + 1) % CounterModulus # c
  BY DEF Incremented
<1>1. CounterModulus \in Nat /\ CounterModulus >= 2 /\ c \in Nat /\ c < CounterModulus
  BY CounterAssumption DEF Counter
<1>2. CASE c + 1 < CounterModulus
  <2>1. (c + 1) % CounterModulus = c + 1
    BY <1>1, <1>2
  <2> QED BY <1>1, <2>1
<1>3. CASE c + 1 = CounterModulus
  <2>1. (c + 1) % CounterModulus = 0
    BY <1>1, <1>3
  <2> QED BY <1>1, <1>3, <2>1
<1> QED BY <1>1, <1>2, <1>3

\* The outcomes an attempt is recorded under.
Outcomes == {"valid_packets", "crc_failures", "partial_packets"}

\* In the step that ends an attempt exactly one outcome counter moves.
OneOutcome == \E c \in Outcomes : \A d \in Outcomes : stats'[d] # stats[d] <=> d = c

\* A step that ends an attempt is one of the two CRC verdicts, finish or reset, and
\* each but reset moves one outcome counter.
LEMMA AttemptEndsRecorded ==
    ASSUME IInv, Next, in_flight, ~in_flight', event'.kind # "reset"
    PROVE  OneOutcome
<1>t. stats \in ParserStats
  BY DEF IInv, TypeOK
<1>s. state \notin {"WaitSof1", "WaitSof2"}
  BY DEF IInv, FramingInv
<1>1. ASSUME NEW byte \in Byte, FeedCrcHiValid(byte) \/ FeedCallbackResets(byte)
      PROVE  OneOutcome
  <2>1. stats'.valid_packets # stats.valid_packets
    BY <1>1, <1>t, IncrementChanges DEF FeedCrcHiValid, FeedCallbackResets, ParserStats
  <2>2. /\ stats'.crc_failures = stats.crc_failures
        /\ stats'.partial_packets = stats.partial_packets
    BY <1>1, <1>t DEF FeedCrcHiValid, FeedCallbackResets, ParserStats
  <2> QED BY <2>1, <2>2 DEF OneOutcome, Outcomes
<1>2. ASSUME NEW byte \in Byte, FeedCrcHiFailure(byte) PROVE OneOutcome
  <2>1. stats'.crc_failures # stats.crc_failures
    BY <1>2, <1>t, IncrementChanges DEF FeedCrcHiFailure, ParserStats
  <2>2. /\ stats'.valid_packets = stats.valid_packets
        /\ stats'.partial_packets = stats.partial_packets
    BY <1>2, <1>t DEF FeedCrcHiFailure, ParserStats
  <2> QED BY <2>1, <2>2 DEF OneOutcome, Outcomes
<1>3. CASE Finish
  <2>1. stats'.partial_packets # stats.partial_packets
    BY <1>3, <1>s, <1>t, IncrementChanges DEF Finish, MidPacket, ParserStats
  <2>2. /\ stats'.valid_packets = stats.valid_packets
        /\ stats'.crc_failures = stats.crc_failures
    BY <1>3, <1>t DEF Finish, ParserStats
  <2> QED BY <2>1, <2>2 DEF OneOutcome, Outcomes
<1>4. ~Reset
  BY DEF Reset
<1>5. ~ResetStats
  BY DEF ResetStats, members
<1>6. ASSUME NEW byte \in Byte, Feed(byte)
      PROVE  FeedCrcHiValid(byte) \/ FeedCrcHiFailure(byte)
  BY <1>6, <1>s DEF Feed, FeedWaitSof1, FeedWaitSof2, FeedLength, FeedType, FeedPayload,
     FeedCrcLo
<1> QED BY <1>1, <1>2, <1>3, <1>4, <1>5, <1>6 DEF Next

\* An attempt that was committed to never ends unrecorded, unless reset() drops it.
THEOREM AttemptsAccounted == Spec => NoSilentLoss
<1>1. IInv /\ [Next]_vars =>
        [in_flight /\ ~in_flight' /\ event'.kind # "reset" =>
            \E c \in {"valid_packets", "crc_failures", "partial_packets"} :
                \A d \in {"valid_packets", "crc_failures", "partial_packets"} :
                    stats'[d] # stats[d] <=> d = c]_vars
  <2> SUFFICES ASSUME IInv, Next, in_flight, ~in_flight', event'.kind # "reset"
               PROVE  OneOutcome
    BY DEF OneOutcome, Outcomes
  <2> QED BY AttemptEndsRecorded
<1> QED BY IInvInductive, <1>1, PTL DEF Spec, NoSilentLoss
=============================================================================
