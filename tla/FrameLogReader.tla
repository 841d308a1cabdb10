---------------------------- MODULE FrameLogReader ----------------------------
(***************************************************************************)
(* Reading frames.log (class FrameLogReader of task 3): three-line records *)
(* of a timestamp, an identifier and the payload bytes, with blank lines   *)
(* between them.  A line is Blank, or a record of what the three           *)
(* conversions make of its text, whichever of them it was written for:     *)
(*   long   std::stol of the line                                          *)
(*   hex    std::stoul of the line in base 16, as 32 bits                  *)
(*   bytes  std::stoul in base 16 of each of its words                     *)
(* with Throws where the conversion does.                                  *)
(***************************************************************************)
EXTENDS SignalCodec, Selection

CONSTANTS Blank, Throws

Lines ==
    {Blank} \cup [long : Int \cup {Throws}, hex : Int \cup {Throws},
                  bytes : Seq(Int \cup {Throws})]

Smaller(a, b) == IF a <= b THEN a ELSE b

\* The words that are converted: no more than the payload holds.
WordsOneShort(line) == SubSeq(line.bytes, 1, Smaller(Len(line.bytes), PayloadBytes - 1))
Words(line) == SubSeq(line.bytes, 1, Smaller(Len(line.bytes), PayloadBytes))

RawFrame(timestampLine, idLine, payloadLine) ==
    LET words == Words(payloadLine)
    IN  [timestamp_ms |-> timestampLine.long,
         can_id |-> idLine.hex,
         data |-> [i \in 1 .. PayloadBytes |->
                      IF i <= Len(words) THEN words[i] % 2 ^ ByteBits ELSE 0],
         dlc |-> Len(words)]

\* The conversion that a line is given to, by fieldIdx, does not throw.
Converts(line, fieldIdx) ==
    CASE fieldIdx = 0 -> line.long # Throws
      [] fieldIdx = 1 -> line.hex # Throws
      [] fieldIdx = 2 -> \A i \in DOMAIN Words(line) : Words(line)[i] # Throws

\* A blank line is passed over, in the middle of a record too: fieldIdx counts the
\* other lines by threes.  A record that is incomplete at the end is dropped.
readAll(lines) ==
    LET texts == Selected(lines, {n \in DOMAIN lines : lines[n] # Blank})
    IN  [ok |-> \A n \in DOMAIN texts : Converts(texts[n], (n - 1) % 3),
         frames |-> [k \in 1 .. Len(texts) \div 3 |->
                        RawFrame(texts[3 * k - 2], texts[3 * k - 1], texts[3 * k])]]
=============================================================================
