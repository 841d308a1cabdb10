------------------------------ MODULE UartDriver ------------------------------
(***************************************************************************)
(* The task 1 program: read a file, feed its bytes one at a time to a      *)
(* UartParser, finish(), print the packets and the statistics.  The        *)
(* promise it is checked against is offline: it looks at the whole stream, *)
(* cuts it into frames by the wire format, and says which packets and      *)
(* which counts the program must print.                                    *)
(***************************************************************************)
EXTENDS UartParser, FiniteSets

CONSTANT Streams      \* the contents a run gives the input file

\* A file has fewer bytes than a counter has values.
ASSUME StreamsAssumption ==
    Streams \subseteq Seq(Byte) /\ \A s \in Streams : Len(s) < CounterModulus

VARIABLES
    phase,       \* where main() is
    data,        \* the bytes read from the file
    pos,         \* the next byte to feed
    printed,     \* the packets printPacket has written
    report       \* the statistics main() has printed

driverVars == <<phase, data, pos, printed, report>>
allVars == <<vars, driverVars>>

DriverInit ==
    /\ Init
    /\ phase = "open"
    /\ data = <<>>
    /\ pos = 1
    /\ printed = <<>>
    /\ report = ZeroStats

\* readFile throws; main() prints usage and returns 1.
OpenFails ==
    /\ phase = "open"
    /\ phase' = "failed"
    /\ UNCHANGED <<vars, data, pos, printed, report>>

ReadFile ==
    /\ phase = "open"
    /\ data' \in Streams
    /\ phase' = "feed"
    /\ UNCHANGED <<vars, pos, printed, report>>

\* printPacket runs inside feed(), before feed() returns.
FeedNext ==
    /\ phase = "feed"
    /\ pos <= Len(data)
    /\ Feed(data[pos])
    /\ pos' = pos + 1
    /\ printed' = IF event'.kind = "packet" THEN Append(printed, event'.packet) ELSE printed
    /\ UNCHANGED <<phase, data, report>>

FinishInput ==
    /\ phase = "feed"
    /\ pos > Len(data)
    /\ Finish
    /\ phase' = "report"
    /\ UNCHANGED <<data, pos, printed, report>>

PrintStats ==
    /\ phase = "report"
    /\ report' = stats
    /\ phase' = "done"
    /\ UNCHANGED <<vars, data, pos, printed>>

Exited == phase \in {"done", "failed"} /\ UNCHANGED allVars

DriverNext == OpenFails \/ ReadFile \/ FeedNext \/ FinishInput \/ PrintStats \/ Exited

DriverSpec == DriverInit /\ [][DriverNext]_allVars

-----------------------------------------------------------------------------
(* The stream as a whole.                                                  *)

\* Positions from p on where a SOF1, SOF2 pair starts.
SofPairs(p) == {q \in p .. Len(data) - 1 : data[q] = kSof1 /\ data[q + 1] = kSof2}

FrameLen(q) == 6 + data[q + 2]

Whole(q) == q + 2 <= Len(data) /\ q + FrameLen(q) - 1 <= Len(data)

FrameAt(q) == SubSeq(data, q, q + FrameLen(q) - 1)

FirstPair(p) == CHOOSE q \in SofPairs(p) : \A r \in SofPairs(p) : q <= r

\* Where the attempts of a left-to-right reading start: take the first SOF pair, skip
\* to the end of its frame whether or not its CRC is right, go on from there.
AttemptsFrom[p \in 1 .. Len(data) + 1] ==
    IF SofPairs(p) = {} THEN {}
    ELSE LET q == FirstPair(p)
         IN  {q} \cup IF Whole(q) THEN AttemptsFrom[q + FrameLen(q)] ELSE {}

Attempts == AttemptsFrom[1]

ValidAttempts == {q \in Attempts : Whole(q) /\ CrcValid(FrameAt(q))}
CorruptAttempts == {q \in Attempts : Whole(q) /\ ~CrcValid(FrameAt(q))}

\* Positions that belong to no attempt.
Skipped ==
    (1 .. Len(data)) \
        UNION {IF Whole(q) THEN q .. q + FrameLen(q) - 1 ELSE q .. Len(data) :
                  q \in Attempts}

\* The stream ends inside an attempt, or with a SOF1 that may be starting one.
EndsMidPacket ==
    \/ \E q \in Attempts : ~Whole(q)
    \/ Len(data) \in Skipped /\ data[Len(data)] = kSof1

\* The skipped bytes the parser does not count: a SOF1 whose successor is neither
\* SOF2 nor another SOF1 (only the successor is counted), and a final SOF1.
FalseStarts ==
    {q \in Skipped : data[q] = kSof1 /\ (q = Len(data) \/ data[q + 1] # kSof1)}

-----------------------------------------------------------------------------
\* The program prints exactly the packets whose frames are intact, in the order
\* they arrived: noise, false starts, corrupt frames and SOF bytes inside
\* payloads neither hide one nor make one up.
PrintedIsValidFrames ==
    phase = "done" =>
        /\ Len(printed) = Cardinality(ValidAttempts)
        /\ \A q \in ValidAttempts :
              printed[Cardinality({r \in ValidAttempts : r <= q})] = PacketOf(FrameAt(q))

\* The printed statistics agree with the stream, and every byte is accounted for:
\* whole frames, an unfinished last one, discarded bytes, false starts.
ReportMatchesStream ==
    phase = "done" =>
        /\ report.valid_packets = Cardinality(ValidAttempts)
        /\ report.crc_failures = Cardinality(CorruptAttempts)
        /\ report.sync_losses = Cardinality(CorruptAttempts)
        /\ report.partial_packets = IF EndsMidPacket THEN 1 ELSE 0
        /\ report.discarded_bytes = Cardinality(Skipped \ FalseStarts)

\* uart_parser.hpp:34: discarded_bytes are the "bytes skipped while hunting for
\* SOF1/SOF2" (a final SOF1 is reported as a partial packet instead).
DiscardedIsSkipped ==
    phase = "done" =>
        report.discarded_bytes =
            Cardinality({q \in Skipped : ~(q = Len(data) /\ data[q] = kSof1)})
=============================================================================
