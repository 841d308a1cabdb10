---------------------------- MODULE CanDiagnostics ----------------------------
(***************************************************************************)
(* The diagnostics engine of task 3 (class DiagnosticsEngine): counter     *)
(* gaps, checksum faults, missing frames, unknown identifiers.  Its maps   *)
(* keyed by CAN identifier are functions on the keys they hold.            *)
(***************************************************************************)
EXTENDS DbcDatabase, SignalCodec

CONSTANTS
    CounterValues,        \* values of the rolling counter (16)
    kTimeoutMultiplier,   \* 3
    StatModulus           \* 2^64: the statistics are uint64_t

ASSUME DiagnosticsAssumption ==
    /\ CounterValues \in Nat \ {0} /\ StatModulus \in Nat \ {0}
    /\ kTimeoutMultiplier \in 0 .. CounterValues - 1

VARIABLES
    db,           \* the signal database, by identifier
    last_counter, last_seen_ms, currently_timed_out, stats, unknown_frame_count,
    anomalies     \* what the last call returned: a set of Anomaly records

diagVars == <<db, last_counter, last_seen_ms, currently_timed_out, stats,
              unknown_frame_count, anomalies>>

MessageStats == [frames_received |-> 0, counter_faults |-> 0, checksum_faults |-> 0,
                 timeout_events |-> 0]

Anomaly(kind, id, ms) == [kind |-> kind, can_id |-> id, timestamp_ms |-> ms]

DiagInit ==
    /\ db = <<>>
    /\ last_counter = <<>>
    /\ last_seen_ms = <<>>
    /\ currently_timed_out = <<>>
    /\ stats = <<>>
    /\ unknown_frame_count = 0
    /\ anomalies = {}

\* stats_[id], a new entry if there is none.
StatsOf(id) == IF id \in DOMAIN stats THEN stats[id] ELSE MessageStats

AddIf(condition, n) == IF condition THEN (n + 1) % StatModulus ELSE n

-----------------------------------------------------------------------------
CounterGapNoWrap(id, counter) ==
    id \in DOMAIN last_counter /\ counter # last_counter[id] + 1
CounterGap(id, counter) ==
    id \in DOMAIN last_counter /\ counter # (last_counter[id] + 1) % CounterValues

\* The exclusive or of the bytes of data other than the one at idx.
XorOfOthers(data, idx) ==
    LET Bit(b) == (Cardinality({i \in DOMAIN data \ {idx} : (data[i] \div 2 ^ b) % 2 = 1}) % 2)
                  * 2 ^ b
    IN  MapThenSumSet(Bit, 0 .. ByteBits - 1)

\* The checksum is taken for one byte, the one its start_bit is in.
ChecksumMismatch(sig, data) ==
    LET checksumByteIdx == sig.start_bit \div ByteBits + 1
    IN  XorOfOthers(data, checksumByteIdx) # data[checksumByteIdx]

onKnownFrame(frame) ==
    LET id == frame.can_id
        msg == db[id]
        counted == findSignal(msg, "counter")
        counter == extractRaw(frame.data, msg.signals[Str("counter")], msg.byte_order)
        gap == counted /\ CounterGap(id, counter)
        bad == /\ findSignal(msg, "checksum")
               /\ ChecksumMismatch(msg.signals[Str("checksum")], frame.data)
    IN  /\ stats' = Put(stats, id, [StatsOf(id) EXCEPT !.frames_received = AddIf(TRUE, @),
                                                      !.counter_faults = AddIf(gap, @),
                                                      !.checksum_faults = AddIf(bad, @)])
        /\ anomalies' =
              {Anomaly(kind, id, frame.timestamp_ms) :
                  kind \in {k \in {"CounterGap", "ChecksumMismatch"} :
                               IF k = "CounterGap" THEN gap ELSE bad}}
        /\ last_counter' = IF counted THEN Put(last_counter, id, counter) ELSE last_counter
        /\ last_seen_ms' = Put(last_seen_ms, id, frame.timestamp_ms)
        /\ currently_timed_out' = Put(currently_timed_out, id, FALSE)
        /\ UNCHANGED <<db, unknown_frame_count>>

onUnknownFrame(frame) ==
    /\ unknown_frame_count' = AddIf(TRUE, unknown_frame_count)
    /\ anomalies' = {Anomaly("UnknownId", frame.can_id, frame.timestamp_ms)}
    /\ UNCHANGED <<db, last_counter, last_seen_ms, currently_timed_out, stats>>

ThresholdDoubled(id) == db[id].period_ms * kTimeoutMultiplier * 2
Threshold(id) == db[id].period_ms * kTimeoutMultiplier

\* isCurrentlyTimedOut, and the test of checkTimeouts, given the map of the times the
\* messages were last seen: one never seen is always missing (sinceLast is 1e18).
isCurrentlyTimedOut(id, seen, now) ==
    id \in DOMAIN db /\ (id \in DOMAIN seen => now - seen[id] > Threshold(id))

TimedOut(now) == {id \in DOMAIN db : isCurrentlyTimedOut(id, last_seen_ms, now)}

\* Only a message that was not timed out at the previous check is reported.
NewTimeoutsEveryTime(now) == TimedOut(now)
NewTimeouts(now) ==
    {id \in TimedOut(now) : id \in DOMAIN currently_timed_out => ~currently_timed_out[id]}

checkTimeouts(now) ==
    /\ stats' = PutAll(stats, [id \in NewTimeouts(now) |->
                                  [StatsOf(id) EXCEPT !.timeout_events = AddIf(TRUE, @)]])
    /\ anomalies' = {Anomaly("Timeout", id, now) : id \in NewTimeouts(now)}
    /\ currently_timed_out' = [id \in DOMAIN db |-> id \in TimedOut(now)]
    /\ UNCHANGED <<db, last_counter, last_seen_ms, unknown_frame_count>>
=============================================================================
