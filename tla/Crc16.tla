-------------------------------- MODULE Crc16 --------------------------------
(***************************************************************************)
(* CRC-16/CCITT-FALSE of task 1 (class Crc16Ccitt), with its widths and    *)
(* polynomial as parameters, and the arithmetic it has to agree with:      *)
(* division of polynomials over GF(2), written as sets of exponents.       *)
(***************************************************************************)
EXTENDS Integers, Sequences, SequencesExt, FiniteSetsExt, Bitwise

CONSTANTS
    ByteBits,      \* 8
    CrcBits,       \* 16
    Poly,          \* 16#1021, without the leading x^CrcBits
    kInit,         \* 16#FFFF
    ByteSet,       \* the byte values a run feeds
    MaxBytes       \* bound on the number of bytes fed

ASSUME WidthAssumption == ByteBits \in Nat \ {0} /\ CrcBits >= ByteBits

CrcModulus == 2 ^ CrcBits

\* One round of the bit loop: shift left in CrcBits bits, and subtract the
\* polynomial when a bit falls out at the top.
ShiftBitWrongTop(crc) ==
    LET shifted == (crc * 2) % CrcModulus
    IN  IF shifted >= CrcModulus \div 2 THEN shifted ^^ Poly ELSE shifted
ShiftBit(crc) ==
    LET shifted == (crc * 2) % CrcModulus
    IN  IF crc >= CrcModulus \div 2 THEN shifted ^^ Poly ELSE shifted

XorByteAtBottom(crc, byte) == crc ^^ byte
XorByte(crc, byte) == crc ^^ (byte * 2 ^ (CrcBits - ByteBits))

update(crc, byte) ==
    FoldLeft(LAMBDA c, bit : ShiftBit(c), XorByte(crc, byte), [i \in 1 .. ByteBits |-> i])

compute(data) == FoldLeft(update, kInit, data)

-----------------------------------------------------------------------------
(* Reference.                                                              *)

\* The exponents of the polynomial whose coefficients are the bits of v.
Exponents(v, width) == {k \in 0 .. width - 1 : (v \div 2 ^ k) % 2 = 1}

Value(exponents) == MapThenSumSet(LAMBDA k : 2 ^ k, exponents)

\* A message is read most significant bit first, its last byte lowest.
MessagePolynomial(data) ==
    UNION {{k + ByteBits * (Len(data) - i) : k \in Exponents(data[i], ByteBits)} :
              i \in 1 .. Len(data)}

Generator == Exponents(Poly, CrcBits) \cup {CrcBits}

Shifted(exponents, n) == {k + n : k \in exponents}

\* Remainder by long division, highest term first.
Remainder(exponents, degree) ==
    FoldLeft(LAMBDA r, i : LET d == degree - i
                           IN  IF d \in r THEN SymDiff(r, Shifted(Generator, d - CrcBits))
                               ELSE r,
             exponents, [i \in 1 .. degree - CrcBits |-> i])

\* (message * x^CrcBits + kInit * x^(bits of the message)) mod generator.
ReferenceCrc(data) ==
    LET n == ByteBits * Len(data)
    IN  Value(Remainder(SymDiff(Shifted(MessagePolynomial(data), CrcBits),
                                Shifted(Exponents(kInit, CrcBits), n)),
                        n + CrcBits))

-----------------------------------------------------------------------------
(* The CRC accumulated while bytes arrive, as feed() accumulates it.       *)

VARIABLES data, running_crc

vars == <<data, running_crc>>

Init == data = <<>> /\ running_crc = kInit

Consume(byte) ==
    /\ Len(data) < MaxBytes
    /\ data' = Append(data, byte)
    /\ running_crc' = update(running_crc, byte)

\* The message is complete.
Done == Len(data) = MaxBytes /\ UNCHANGED vars

Next == (\E byte \in ByteSet : Consume(byte)) \/ Done

Spec == Init /\ [][Next]_vars

-----------------------------------------------------------------------------
\* The published check value of CRC-16/CCITT-FALSE: the ASCII digits 1 to 9 give 16#29B1.
MeetsCheckValue ==
    ByteBits = 8 /\ CrcBits = 16 => compute([i \in 1 .. 9 |-> 48 + i]) = 10673

\* The CRC accumulated byte by byte is that of the whole message: the remainder
\* of the polynomial division that CRC-16/CCITT-FALSE is defined by (crc16.hpp:5).
StreamingIsReference ==
    /\ running_crc = compute(data)
    /\ running_crc = ReferenceCrc(data)
    /\ data = <<>> => MeetsCheckValue

\* The message with the bits of `flips` inverted (bit 0 is the first one sent).
Corrupted(flips) ==
    [i \in DOMAIN data |->
        data[i] ^^ Value({k \in 0 .. ByteBits - 1 :
                             ByteBits * (i - 1) + (ByteBits - 1 - k) \in flips})]

\* No error of one or two bits in type and payload leaves the CRC unchanged, so
\* such a frame cannot be delivered as valid.
SmallErrorsDetected ==
    \A i, j \in 0 .. ByteBits * Len(data) - 1 :
        i <= j => compute(Corrupted({i, j})) # running_crc
=============================================================================
