----------------------------- MODULE SignalCodec -----------------------------
(***************************************************************************)
(* Extraction of CAN signals from a payload (class SignalCodec of task 3). *)
(* A payload is a sequence of PayloadBytes bytes of ByteBits bits (8 and 8 *)
(* in the code, so that the payload is as wide as the uint64_t a value is  *)
(* accumulated in).  A signal is a record [start_bit, length, scale,       *)
(* offset, is_signed]; start_bit and length are natural numbers.           *)
(***************************************************************************)
EXTENDS Integers, SequencesExt

CONSTANTS ByteBits, PayloadBytes

ASSUME PayloadAssumption == ByteBits \in Nat \ {0} /\ PayloadBytes \in Nat \ {0}

PayloadBits == ByteBits * PayloadBytes

FramePayload == [1 .. PayloadBytes -> 0 .. 2 ^ ByteBits - 1]

\* The test of byte_idx against data.size().
InPayload(bitpos) == bitpos < PayloadBits

\* Bit b (0 for the least significant) of the byte that holds bitpos.
BitOfByte(data, bitpos, b) == (data[bitpos \div ByteBits + 1] \div 2 ^ b) % 2

IntelBitFromMsb(data, bitpos) == BitOfByte(data, bitpos, ByteBits - 1 - (bitpos % ByteBits))
IntelBit(data, bitpos) == BitOfByte(data, bitpos, bitpos % ByteBits)
MotorolaBit(data, bitpos) == BitOfByte(data, bitpos, ByteBits - 1 - (bitpos % ByteBits))

\* Both loops skip the positions past the payload; only the Intel one gives a skipped
\* position a place in the value.
extractRaw(data, sig, order) ==
    LET Accumulate(value, i) ==
            LET bitpos == sig.start_bit + i
            IN  IF ~InPayload(bitpos) THEN value
                ELSE IF order = "Intel" THEN value + IntelBit(data, bitpos) * 2 ^ i
                ELSE 2 * value + MotorolaBit(data, bitpos)
    IN  FoldLeft(Accumulate, 0, [i \in 1 .. sig.length |-> i - 1])

\* static_cast<int64_t> of a value as wide as the payload.
ToSigned(raw) == IF raw >= 2 ^ (PayloadBits - 1) THEN raw - 2 ^ PayloadBits ELSE raw

SignBit(raw, length) == (raw \div 2 ^ (length - 1)) % 2 = 1

extractSigned(data, sig, order) ==
    LET raw == extractRaw(data, sig, order)
    IN  IF ~sig.is_signed \/ sig.length = 0 \/ sig.length >= PayloadBits THEN ToSigned(raw)
        ELSE IF SignBit(raw, sig.length) THEN raw - 2 ^ sig.length
        ELSE raw

decodePhysical(data, sig, order) ==
    LET raw == IF sig.is_signed THEN extractSigned(data, sig, order)
               ELSE extractRaw(data, sig, order)
    IN  raw * sig.scale + sig.offset

-----------------------------------------------------------------------------
(* What a signal is, by arithmetic on the payload as one number: a slice   *)
(* of it, cut at the end of the payload.                                   *)

LittleEndian(data) ==
    FoldRight(LAMBDA byte, n : n * 2 ^ ByteBits + byte, data, 0)

BigEndian(data) == FoldLeft(LAMBDA n, byte : n * 2 ^ ByteBits + byte, 0, data)

BitField(data, sig, order) ==
    LET here == PayloadBits - sig.start_bit
        inside == IF here <= 0 THEN 0 ELSE IF sig.length < here THEN sig.length ELSE here
    IN  IF inside = 0 THEN 0
        ELSE IF order = "Intel" THEN (LittleEndian(data) \div 2 ^ sig.start_bit) % 2 ^ inside
        ELSE (BigEndian(data) \div 2 ^ (here - inside)) % 2 ^ inside

\* The value of that slice: the number congruent to it in the signal's range.
FieldValue(data, sig, order) ==
    LET field == BitField(data, sig, order)
        width == IF sig.length < PayloadBits THEN sig.length ELSE PayloadBits
        range == IF sig.is_signed /\ width > 0 THEN -(2 ^ (width - 1)) .. 2 ^ (width - 1) - 1
                 ELSE 0 .. 2 ^ width - 1
    IN  CHOOSE v \in range : v % 2 ^ width = field
=============================================================================
