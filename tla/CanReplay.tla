------------------------------ MODULE CanReplay ------------------------------
(***************************************************************************)
(* The task 3 program: main() loads the signal database and the frame log, *)
(* sorts the log and replays it against the clock, polling the diagnostics *)
(* while it waits for the next frame and printing a status line.  One      *)
(* thread; what varies is how late it runs, and so which time a poll sees. *)
(*                                                                         *)
(* The clock counts log time (wall time multiplied by --speed) in ticks, a *)
(* fraction of a millisecond: the program reads it in whole milliseconds,  *)
(* and hardly ever runs exactly at the start of one.                       *)
(***************************************************************************)
EXTENDS CanDiagnostics, CanVehicleState, FrameLogReader

CONSTANTS
    DbcText,         \* the text of dbc.json
    Files,           \* the contents of frames.log that a run starts from
    PollInterval,    \* pollInterval, in wall milliseconds
    StatusInterval,  \* 100 ms between status lines of the poll loop
    TicksPerMs,      \* ticks of the clock in a millisecond
    Speeds,          \* the values of --speed
    Latenesses       \* how far the thread may fall behind, in ticks; it always takes some time

ASSUME ReplayAssumption ==
    /\ PollInterval \in Nat \ {0} /\ StatusInterval \in Nat /\ TicksPerMs \in Nat \ {0}
    /\ Speeds \subseteq Nat \ {0} /\ Latenesses \subseteq Nat \ {0}

\* A log holds fewer frames than a statistic has values.
ASSUME LogAssumption ==
    \A lines \in Files :
        /\ lines \in Seq(Lines)
        /\ readAll(lines).ok =>
              /\ readAll(lines).frames \in Seq([timestamp_ms : Int, can_id : Nat,
                                                data : FramePayload, dlc : 0 .. PayloadBytes])
              /\ Len(readAll(lines).frames) < StatModulus

VARIABLES
    clock,           \* Clock::now() - wallStart
    speed,           \* --speed
    lateness,        \* how far the thread falls behind in this run
    file,            \* the lines of frames.log
    log,             \* frames, after the sort
    frameIdx,        \* the next frame, counted from 1
    main,            \* where main() is
    wake,            \* when the thread was due to run, or the current sleep ends
    summary_only,    \* --summary-only: no status lines
    lastPrintedMs,
    line             \* the last status line, {} until one is printed: [ms, missing], the
                     \* latter a set with the message named as the reason, or empty for OK

replayVars == <<clock, speed, lateness, file, log, frameIdx, main, wake, summary_only,
                lastPrintedMs, state, line>>
vars == <<diagVars, replayVars>>

\* std::sort by timestamp, which is not stable: any such ordering.
Sortings(frames) ==
    {[i \in DOMAIN frames |-> frames[order[i]]] : order \in
        {f \in [DOMAIN frames -> DOMAIN frames] :
            /\ \A i, j \in DOMAIN frames : f[i] = f[j] => i = j
            /\ \A i, j \in DOMAIN frames :
                  i < j => frames[f[i]].timestamp_ms <= frames[f[j]].timestamp_ms}}

\* The reason is the first missing message in the order of the identifiers.
StatusLine(ms, missing) ==
    [ms |-> ms, missing |-> {id \in missing : \A other \in missing : id <= other}]

Init ==
    /\ DiagInit
    /\ clock = 0
    /\ file \in Files
    /\ speed \in Speeds
    /\ lateness \in Latenesses
    /\ log = <<>>
    /\ frameIdx = 1
    /\ main = "load"
    /\ wake = 0
    /\ summary_only \in BOOLEAN
    /\ lastPrintedMs = -10 * StatusInterval
    /\ state = <<>>
    /\ line = {}

\* What main() makes of dbc.json; it is db from then on.
Database == loadFromJsonFile(DbcText)

Load ==
    /\ main = "load"
    /\ Database.ok
    /\ db' = Database.messages
    /\ \E read \in {readAll(file)} : read.ok /\ log' \in Sortings(read.frames)
    /\ main' = "test"
    /\ UNCHANGED <<last_counter, last_seen_ms, currently_timed_out, stats, unknown_frame_count,
                   anomalies, clock, speed, lateness, file, frameIdx, wake, summary_only,
                   lastPrintedMs, state, line>>

\* A file cannot be opened, or reading it throws.
LoadFails ==
    /\ main = "load"
    /\ main' = "failed"
    /\ UNCHANGED <<diagVars, clock, speed, lateness, file, log, frameIdx, wake, summary_only,
                   lastPrintedMs, state, line>>

Frame == log[frameIdx]

MoreFrames == frameIdx <= Len(log)

\* When the next frame is due.
targetWall == Frame.timestamp_ms * TicksPerMs

Waiting == MoreFrames /\ clock < targetWall

\* In wall milliseconds, to which the time left is truncated: none in the last one.
SleepTime == Smaller(PollInterval, (targetWall - clock) \div (speed * TicksPerMs))

\* The time in whole log milliseconds.
logMsNow == clock \div TicksPerMs

\* while (Clock::now() < targetWall) sleep_for(min(pollInterval, target - now)).
Sleep ==
    /\ main = "test"
    /\ Waiting
    /\ wake' = clock + SleepTime * (speed * TicksPerMs)
    /\ main' = "asleep"
    /\ UNCHANGED <<diagVars, clock, speed, lateness, file, log, frameIdx, summary_only,
                   lastPrintedMs, state, line>>

Poll ==
    /\ main = "asleep"
    /\ clock >= wake
    /\ checkTimeouts(logMsNow)
    /\ \/ /\ ~summary_only /\ logMsNow - lastPrintedMs >= StatusInterval
          /\ line' = {StatusLine(logMsNow, TimedOut(logMsNow))}
          /\ lastPrintedMs' = logMsNow
       \/ /\ summary_only \/ logMsNow - lastPrintedMs < StatusInterval
          /\ UNCHANGED <<line, lastPrintedMs>>
    /\ main' = "test"
    /\ UNCHANGED <<clock, speed, lateness, file, log, frameIdx, wake, summary_only, state>>

NextFrameIfKnown == frameIdx' = IF Frame.can_id \in DOMAIN db THEN frameIdx + 1 ELSE frameIdx
NextFrame == frameIdx' = frameIdx + 1

\* Then the thread goes on, and was due to when the frame was.
Larger(a, b) == IF a >= b THEN a ELSE b

ArriveUnknown ==
    /\ main = "test"
    /\ MoreFrames /\ ~Waiting
    /\ Frame.can_id \notin DOMAIN db
    /\ onUnknownFrame(Frame)
    /\ NextFrame
    /\ wake' = Larger(wake, targetWall)
    /\ UNCHANGED <<clock, speed, lateness, file, log, main, summary_only, lastPrintedMs,
                   state, line>>

\* The status line of an arriving frame looks only at that frame's own message, which
\* onKnownFrame has just marked as seen.
ArriveKnown ==
    /\ main = "test"
    /\ MoreFrames /\ ~Waiting
    /\ Frame.can_id \in DOMAIN db
    /\ onKnownFrame(Frame)
    /\ apply(db[Frame.can_id], Frame)
    /\ \/ /\ ~summary_only
          /\ line' = {StatusLine(Frame.timestamp_ms,
                         {id \in {Frame.can_id} :
                             isCurrentlyTimedOut(id, last_seen_ms', Frame.timestamp_ms)})}
          /\ lastPrintedMs' = Frame.timestamp_ms
       \/ /\ summary_only
          /\ UNCHANGED <<line, lastPrintedMs>>
    /\ NextFrame
    /\ wake' = Larger(wake, targetWall)
    /\ UNCHANGED <<clock, speed, lateness, file, log, main, summary_only>>

PrintSummary ==
    /\ main = "test"
    /\ ~MoreFrames
    /\ main' = "done"
    /\ UNCHANGED <<diagVars, clock, speed, lateness, file, log, frameIdx, wake, summary_only,
                   lastPrintedMs, state, line>>

\* Time passes while the thread sleeps and, as far as its lateness goes, once it is due to
\* run; in the last millisecond of a wait, where it polls without sleeping, it is due at
\* every turn.
Tick ==
    /\ main \in {"asleep", "test"} /\ MoreFrames
    /\ clock < wake + lateness
    /\ clock' = clock + 1
    /\ UNCHANGED <<diagVars, speed, lateness, file, log, frameIdx, main, wake, summary_only,
                   lastPrintedMs, state, line>>

Exited == main \in {"done", "failed"} /\ UNCHANGED vars

MainStep ==
    \/ Load \/ LoadFails
    \/ Sleep \/ Poll
    \/ ArriveUnknown \/ ArriveKnown
    \/ PrintSummary

Next == MainStep \/ Tick \/ Exited

\* The thread runs when it can, and the clock advances.
Spec == Init /\ [][Next]_vars /\ WF_vars(MainStep) /\ WF_vars(Tick)

-----------------------------------------------------------------------------
(* The log as a whole.                                                     *)

Arrived == 1 .. frameIdx - 1

FramesOf(id) == {i \in Arrived : log[i].can_id = id}

\* The position of the previous frame with the same identifier, 0 if there is none.
Previous(i) == Max({0} \cup {j \in FramesOf(log[i].can_id) : j < i})

\* The raw value of a signal of the frame at i, by arithmetic on its payload.
FieldOf(i, signal) ==
    LET msg == db[log[i].can_id]
    IN  BitField(log[i].data, msg.signals[Str(signal)], msg.byte_order)

Skips(i) ==
    /\ findSignal(db[log[i].can_id], "counter") /\ Previous(i) # 0
    /\ FieldOf(i, "counter") # (FieldOf(Previous(i), "counter") + 1) % CounterValues

\* Some bit is set in an odd number of the bytes.
OddParity(data) ==
    \E b \in 0 .. ByteBits - 1 :
        Cardinality({i \in DOMAIN data : (data[i] \div 2 ^ b) % 2 = 1}) % 2 = 1

\* The signals of a message are decoded by arithmetic on the payload, and its checksum is
\* wrong when the bytes do not cancel out.
DecodesByArithmetic(msg) ==
    \A data \in FramePayload :
        /\ \A s \in DOMAIN msg.signals :
              LET field == BitField(data, msg.signals[s], msg.byte_order)
                  value == FieldValue(data, msg.signals[s], msg.byte_order)
              IN  /\ field \in Nat
                  /\ extractRaw(data, msg.signals[s], msg.byte_order) = field
                  /\ decodePhysical(data, msg.signals[s], msg.byte_order)
                        = value * msg.signals[s].scale + msg.signals[s].offset
        /\ findSignal(msg, "checksum") =>
              (ChecksumMismatch(msg.signals[Str("checksum")], data) <=> OddParity(data))

\* What the proofs take from single payloads (CanDecode looks at them in detail), that
\* every message of dbc.json has a period, and that no two of them feed the same field of
\* the vehicle state.
ASSUME DatabaseAssumption ==
    LET messages == Database.messages
    IN  /\ \A id \in DOMAIN messages :
              DecodesByArithmetic(messages[id]) /\ messages[id].period_ms \in Nat \ {0}
        /\ \A id, other \in DOMAIN messages :
              id # other => Fields(messages[id].name) \cap Fields(messages[other].name) = {}

\* The end of the gap that follows the frame at i: the next frame of the message, or
\* the last frame of the log.
GapEnd(i) == Min({Len(log)} \cup {j \in FramesOf(log[i].can_id) : j > i})

Time(i) == IF i = 0 THEN 0 ELSE log[i].timestamp_ms

\* Between the frames at k and k + 1 the thread polls, however late it runs.  It starts at
\* time 0, and takes the frames of negative times at once.
PolledAfter(k) ==
    /\ (Time(k + 1) - Time(k)) * TicksPerMs > lateness
    /\ Time(k + 1) * TicksPerMs > lateness

\* The last poll before a frame reads at least its timestamp less Behind, at most its
\* timestamp and Ahead.  On time, less than a millisecond late, these are 1 and 0.
Behind == (lateness + TicksPerMs - 1) \div TicksPerMs
Ahead == lateness \div TicksPerMs

\* The gaps of a message in which a poll may, and those in which one must, see it missing.
PossibleTimeouts(id) ==
    {i \in FramesOf(id) : Time(GapEnd(i)) - Time(i) > Threshold(id) - Ahead}
CertainTimeouts(id) ==
    {i \in FramesOf(id) : \E k \in i .. GapEnd(i) - 1 :
        PolledAfter(k) /\ Time(k + 1) - Time(i) > Threshold(id) + Behind}

\* A message that has not been seen is reported by the first poll before its first frame,
\* however short its absence: its silence is taken to be 1e18 ms (diagnostics.cpp:81), not
\* measured against period_ms x 3.
FirstFrame(id) == Min({Len(log)} \cup FramesOf(id))
PossibleUnseen(id) == IF Time(FirstFrame(id)) > 0 THEN 1 ELSE 0
CertainUnseen(id) == IF \E k \in 0 .. FirstFrame(id) - 1 : PolledAfter(k) THEN 1 ELSE 0

\* The frames of a message that was sent every period_ms from time 0 on, counter in step,
\* and those of them that come after a loss.
SentInStep(id) ==
    \A i \in FramesOf(id) :
        /\ Time(i) >= 0 /\ Time(i) % db[id].period_ms = 0
        /\ FieldOf(i, "counter") = (Time(i) \div db[id].period_ms) % CounterValues
LossyGaps(id) ==
    {i \in FramesOf(id) : Previous(i) # 0 /\ Time(i) - Time(Previous(i)) > db[id].period_ms}

\* Where the three-line blocks of the file start: three lines between blank ones.
BlockStarts ==
    {i \in 1 .. Len(file) - 2 :
        /\ \A j \in i .. i + 2 : file[j] # Blank
        /\ i = 1 \/ file[i - 1] = Blank
        /\ i + 3 > Len(file) \/ file[i + 3] = Blank}

\* The block at i holds this frame.
IsBlock(i, frame) ==
    /\ frame.timestamp_ms = file[i].long
    /\ frame.can_id = file[i + 1].hex
    /\ frame.dlc = IF Len(file[i + 2].bytes) <= PayloadBytes
                   THEN Len(file[i + 2].bytes) ELSE PayloadBytes
    /\ \A b \in 1 .. PayloadBytes :
          frame.data[b] = IF b <= Len(file[i + 2].bytes)
                          THEN file[i + 2].bytes[b] % 2 ^ ByteBits ELSE 0

-----------------------------------------------------------------------------
(* Properties.                                                             *)

\* The log that is replayed is the sequence of the complete three-line blocks of the
\* file, each once, by timestamp; an "incomplete record" is skipped "rather than
\* crash" and costs no other record (frame_log_reader.cpp:42).
LogIsCompleteBlocks ==
    main \notin {"load", "failed"} =>
        /\ Len(log) = Cardinality(BlockStarts)
        /\ \A n \in DOMAIN log :
              Cardinality({i \in BlockStarts : IsBlock(i, log[n])})
                = Cardinality({m \in DOMAIN log : log[m] = log[n]})
        /\ \A n \in 1 .. Len(log) - 1 : Time(n) <= Time(n + 1)

\* At every point of the replay the statistics are those of the frames that have
\* arrived: every frame counted once, under its identifier; a counter fault for
\* every jump other than +1 modulo 16 between neighbours of the same identifier,
\* interleaved with other traffic; a checksum fault for every frame whose bytes do
\* not cancel out under exclusive or.
StatisticsMatchLog ==
    /\ \A id \in DOMAIN db :
          /\ StatsOf(id).frames_received = Cardinality(FramesOf(id))
          /\ StatsOf(id).counter_faults = Cardinality({i \in FramesOf(id) : Skips(i)})
          /\ StatsOf(id).checksum_faults =
                Cardinality({i \in FramesOf(id) :
                                findSignal(db[id], "checksum") /\ OddParity(log[i].data)})
    /\ unknown_frame_count = Cardinality({i \in Arrived : log[i].can_id \notin DOMAIN db})

\* Each field of the vehicle state is the value of its signal in the latest frame of
\* its message, faulty or not, and is unknown until there is one: "independently
\* updated as its owning message is decoded" (vehicle_state.hpp:12).
VehicleStateIsLatest ==
    \A id \in DOMAIN db : \A f \in Fields(db[id].name) :
        IF ~findSignal(db[id], f) \/ FramesOf(id) = {}
        THEN f \notin DOMAIN state
        ELSE LET sig == db[id].signals[Str(f)]
                 latest == Max(FramesOf(id))
             IN  /\ f \in DOMAIN state
                 /\ state[f] = CASE f = "gear" -> Gear(sig, FieldOf(latest, f))
                                 [] f = "brake_pressed" -> FieldOf(latest, f) > 0
                                 [] OTHER -> FieldValue(log[latest].data, sig, db[id].byte_order)
                                             * sig.scale + sig.offset

\* "detection is driven by the frames' own timestamps, not real-time polling
\* artifacts" (task3 README:128), as far as it is so: the timeouts reported over a
\* replay are the gaps of the log that exceed period_ms x 3, each once, give or take
\* those within the reach of the thread's lateness of that limit.  A poll reads whole
\* milliseconds, and the last one before a frame usually the millisecond before (439
\* for the frame at 440, DESIGN.md:258): on time, a gap of more than period_ms x 3 + 1
\* is always reported, one of period_ms x 3 + 1 may be, and a shorter one never is.  For
\* a message that has not been seen the rule does not hold: one report, at the first
\* poll, comes on top.
TimeoutsMatchLog ==
    main = "done" => \A id \in DOMAIN db :
        /\ StatsOf(id).timeout_events >= Cardinality(CertainTimeouts(id)) + CertainUnseen(id)
        /\ StatsOf(id).timeout_events <= Cardinality(PossibleTimeouts(id)) + PossibleUnseen(id)

\* No loss of frames goes unnoticed by a thread on time (less than a millisecond late): if
\* a message was sent every period_ms with a counter that counts its frames, every gap in
\* what arrived is a counter fault, or, when the sixteen-valued counter happens to match,
\* a timeout, apart from the one that a message not yet seen causes.
LossesNoticed ==
    main = "done" /\ lateness < TicksPerMs => \A id \in DOMAIN db :
        findSignal(db[id], "counter") /\ SentInStep(id) =>
            StatsOf(id).counter_faults + StatsOf(id).timeout_events
                >= Cardinality(LossyGaps(id)) + CertainUnseen(id)

\* "the continuous status line reports `WARNING: SteeringData missing` for the
\* duration" (DESIGN.md:259) of a gap: no line that says OK is printed while a
\* message that has been seen is overdue.
StatusLineHonest ==
    \A printed \in line : printed.missing = {} =>
        \A id \in DOMAIN last_seen_ms : printed.ms - last_seen_ms[id] <= Threshold(id)

\* The replay ends, although the last part of every wait is spent polling without
\* sleeping: every frame is eventually due, and none is waited for twice.
ReplayEnds == <>(main \in {"done", "failed"})
=============================================================================
