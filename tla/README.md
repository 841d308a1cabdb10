# TLA+ models of the embedded-software assignment

The repository holds three independent C++17 programs. This directory models them
in TLA+, checks the models with TLC on small instances, and proves the central
properties of all three with TLAPS for every instance.

## 1. The system

### Components, state, operations

| component | source | state | operations |
|---|---|---|---|
| CRC-16 | `task1_uart_parser/src/crc16.cpp` | none | `update`, `compute` |
| UART parser | `task1_uart_parser/src/uart_parser.cpp` | parser state, length, type, payload buffer and index, running CRC, in-flight flag, five counters | `feed` (seven states), `finish`, `reset`, `resetStats`; `onPacket` callback |
| UART program | `task1_uart_parser/src/main.cpp` | the file, the position in it | read, feed loop, finish, report |
| Vehicle state manager | `task2_sensor_aggregator/src/vehicle_state.cpp` | one mutex; value, receive time and source timestamp of three sensors | `updateGps/Imu/Encoder`, `snapshot` |
| Sensor replay producer | `task2_sensor_aggregator/src/sensor_producer.cpp` | sorted events, replay anchor, stop and finished flags, a condition variable | constructor, `injectStall`, `start`, `run` (a thread), `requestStop`, `join` |
| Sensor program | `task2_sensor_aggregator/src/main.cpp` | three producers, the manager | load, start, print loop, stop, join, final print |
| CSV reader | `task2_sensor_aggregator/src/csv_reader.cpp` | none | `readAll` |
| CAN diagnostics | `task3_can_decoder/src/diagnostics.cpp` | last counter, last seen, timed-out flag and statistics per identifier | `onKnownFrame`, `onUnknownFrame`, `checkTimeouts`, `isCurrentlyTimedOut` |
| CAN program | `task3_can_decoder/src/main.cpp` | sorted log, position, wall clock, last printed line | load, wait and poll, frame arrival, status line, summary |
| CAN vehicle state | `task3_can_decoder/src/vehicle_state.cpp` | five optional fields | `apply` |
| Signal codec | `task3_can_decoder/src/signal_codec.cpp` | none | `extractRaw`, `extractSigned`, `decodePhysical` |
| Frame log reader | `task3_can_decoder/src/frame_log_reader.cpp` | field index and record being built | `readAll` |
| DBC database | `task3_can_decoder/src/dbc_database.cpp` | messages by identifier, filled at load time | `loadFromJsonFile`, `find`, `findSignal` |
| JSON parser | `task3_can_decoder/src/json_value.cpp` | a text and a position in it | `parse`, `has`, `at`, the accessors |

### Interaction

* Task 1 is one thread. The program pushes bytes into the parser; the parser calls
  back synchronously with a pointer into its own buffer.
* Task 2 has four threads. Three producers sleep on a condition variable each until
  the next row is due and then call the manager; `main` sleeps 200 ms, takes a
  snapshot, prints it, and tests the producers' `finished` flags. Shared state: the
  manager (under its mutex) and two atomics per producer.
* Task 3 is one thread. It parses `dbc.json` into the database, reads `frames.log` line by
  line and replays it against the wall clock; each frame goes through the codec into the
  diagnostics and the vehicle state. Its non-determinism is when the thread wakes up,
  which decides at what times timeouts are polled, and what the two files hold.

### What is hard, and what makes each part correct

* Parser: an unchecked array write, leftovers of an earlier frame, resynchronisation
  after corruption, and counters that have to account for every attempt. Correct if
  it delivers exactly the intact frames of the stream and never writes outside its
  buffer.
* Manager: torn and stale reads. Correct if updates and snapshots behave as if they
  were atomic.
* Producer: stop requests at any moment, lost wake-ups, spurious wake-ups, a stall
  that moves the timeline. Correct if every row is applied once, in order, not early,
  and the thread ends.
* Programs: task 2 must not lose the last samples at shutdown and must terminate;
  task 3 must report what an offline reading of the log would report.
* Input files: truncated, with carriage returns, blank or missing lines, duplicate keys,
  values of the wrong type. Correct if what is well-formed is read completely and exactly,
  and what is not is refused or costs only itself.
* Codec: two bit orders, sign extension, signals that reach past the payload. Correct if a
  value is the slice of the payload that the database names.

`PROJECT.json` lists the hazards line by line, with the properties that cover them.

## 2. Modules

| module | models | composed with |
|---|---|---|
| `Crc16` | `Crc16Ccitt`, against polynomial division | |
| `UartParser` | `UartParser`, one action per branch of `feed` | takes the CRC as operator constants `CrcUpdate`, `CrcCompute` |
| `UartParserProofs` | theorems about `UartParser` | extends `UartParser` |
| `UartDriver` | task 1 `main` | extends `UartParser`; its MC module plugs in `Crc16` |
| `UartDriverProofs` | theorems about `UartDriver` | extends `UartDriver`, `UartParserProofs` |
| `VehicleStateSpec` | what the manager promises: one-step updates and snapshots | |
| `VehicleStateManager` | the manager access by access, under the mutex | refines `VehicleStateSpec` |
| `VehicleStateManagerProofs` | theorems about it, the refinement included | extends `VehicleStateManager` |
| `SensorProducer` | `SensorReplayProducer::run` and its controller | |
| `SensorProducerProofs` | theorems about `SensorProducer` | extends `SensorProducer` |
| `Selection` | what a loop keeps of a sequence when it skips some positions | |
| `SensorCsv` | `CsvReader` and the `build...Events` functions | extends `Selection` |
| `SensorAggregator` | task 2 `main` | extends `SensorProducer` and `SensorCsv`, instantiates `VehicleStateSpec` |
| `SensorAggregatorProofs` | theorems about `SensorAggregator` | extends `SensorAggregator`, `SensorProducerProofs` |
| `SignalCodec` | `SignalCodec`, with a reference: slices of the payload as one number | |
| `JsonValue` | the JSON parser | |
| `DbcDatabase` | `DbcDatabase::loadFromJsonFile` | extends `JsonValue` |
| `CanDecode` | load a database from a file, decode a payload with it | extends `DbcDatabase`, `SignalCodec` |
| `FrameLogReader` | `FrameLogReader::readAll` | extends `SignalCodec`, `Selection` |
| `CanVehicleState` | `VehicleStateUpdater::apply` | extends `DbcDatabase`, `SignalCodec` |
| `CanDiagnostics` | `DiagnosticsEngine` | extends `DbcDatabase`, `SignalCodec` |
| `CanReplay` | task 3 `main` | extends `CanDiagnostics`, `CanVehicleState`, `FrameLogReader` |
| `CanReplayProofs` | theorems about its log, statistics and vehicle state | extends `CanReplay` |
| `CanTimeoutProofs` | theorems about its timeouts | extends `CanReplayProofs` |
| `ProofFacts` | facts about numbers, counting and `Selection` that several proofs use | |

Each `MC...` module gives the constants of a specification their small values. In every
specification an operator named after a definition with a suffix (for example
`AfterTypeAlwaysPayload` before `AfterType`) is a mutated form of that definition, the
bug that a property has to notice; no specification uses it.

### How state and actions correspond to the code

**UartParser.** Variables are the class members without the underscore. `feed(byte)` is
`Feed(byte)`, a disjunction of the branches of the `switch`; the `CrcHi` branch is split
into its two outcomes. `toWaitSof1` is an operator of that name; the sync-loss count it
makes under `in_flight_` is written where the statistics are assigned. `event` records
what the last step was (packet delivered, frame rejected, reset) and `wire` the bytes
since SOF1; no action's guard reads either. `FeedCallbackResets` is a `feed` whose callback
calls `reset()` on the parser that is calling it. `ByteValues` stands for 256 and
`CounterModulus` for 2^64; counters wrap.

**Crc16.** `update` is the shift-and-xor loop. The reference writes message, generator
and initial value as sets of exponents and divides.

**VehicleStateManager.** The three `update` functions have the same body, so one set of
actions is indexed by the sensor: lock, write sample, write receive time, write source
timestamp, unlock. `snapshot` locks, reads the clock, copies samples, copies timestamps,
computes flags, unlocks. The clock may tick and any thread may run between two accesses.
`clock`, `call`, `latest`, `horizon` and `snap` are the variables of `VehicleStateSpec`,
so the refinement mapping is the identity on them: an update takes effect at its receive
time, a snapshot at its `now`, and both at a time later than everything before.

**SensorProducer.** `run` is a loop with labels. A condition-variable wait with predicate
is `Check` (predicate), `Block`, then `TimeOut`, `SpuriousWakeup` or the controller's
`Notify`. Predicate and block are separate steps because `requestStop` does not hold
`cv_mutex_`; the mutex itself has one user and needs no variable. `requestStop` is two
steps, store and notify. Times are milliseconds; a due time is truncated like the
`static_cast<long long>`. The constructor's `std::sort` is any ordering by timestamp.

**SensorAggregator.** `main` is the controller of the producers. `ev.apply()` is a call
and a return of the abstract manager, which is why the refinement above matters: the
composition uses the specification in place of the implementation.

**SensorCsv.** A line is the sequence of the texts between its commas; a text is the number it
converts to, or one of `Word`, `Empty`, `CarriageReturn`. `readAll` strips the carriage return,
drops blank lines and, like `std::getline`, finds no field after the last comma. A loop that skips
lines or rows and pushes back the others is `Selected(s, S)`: the elements of `s` at the positions `S`.

**JsonValue, DbcDatabase.** A text is a sequence of symbols: a character, a numeral, or a run of
ordinary characters. A parsing function takes a position and returns a value and the next
position, or `Thrown`; `parse` is one recursive function for `parseValue` and the loop of
`parseObject`. A value has all members of the class, since the accessors do not look at its
type. What `std::stod`, `stoul` and `stoi` make of a numeral or a key are constants.

**SignalCodec.** `ByteBits` and `PayloadBytes` stand for 8 and 8. Both loops of `extractRaw` are
one fold over the bit positions. Fractions are integers in multiples of `1 / Unit`.

**CanDiagnostics, CanVehicleState, CanReplay.** The C++ maps are functions on the keys they hold. The
database `db` is empty until `Load` sets it to what `loadFromJsonFile` makes of `DbcText`; counter, checksum and fields
are extracted from payload bytes. A line of `frames.log` is `Blank`, or a record of what the three
conversions make of it, so that a line read at the wrong field index still has a meaning. `fieldIdx`
only counts the lines that are not blank by threes, so `readAll` selects those lines and takes them three by three. `main`
alternates `Sleep` and `Poll` until the next frame is due, then takes `ArriveKnown` or
`ArriveUnknown` (each the whole handler: diagnostics, vehicle state, status line, index). The clock
counts log time in ticks, `TicksPerMs` to a millisecond, because the code truncates twice: a sleep to whole
wall milliseconds (`main.cpp:134`), so that the last millisecond of every wait is spent polling without
sleeping, and the time that a poll reads to whole log milliseconds (`logMsNow`, `main.cpp:111`), so that
the last poll before a frame due at T usually reads T - 1. `Tick` advances the clock up to `wake`, the time
at which the thread is due to run, and up to `lateness` ticks beyond it; a thread always takes some
time, so `lateness` is at least one tick. `lateness` and `speed` are chosen at the start. `line` is the last
status line, and empty until one is printed.

## 3. Runs

Passing runs:

| run | states | shows |
|---|---|---|
| `uart_parser` | 41 thousand | every byte stream, `finish`, `reset` and `resetStats` anywhere, `reset` from the callback |
| `crc16` | 156 | the real 16-bit CRC, messages of up to three bytes out of five values |
| `uart_driver` | 28 thousand | whole streams through the program, with a real (4-bit) CRC |
| `vehicle_state` | 1.5 million | two writers, one reader, clock to 2; refinement of the atomic state |
| `sensor_producer` | 18 thousand | one producer, four logs, stall, stop at any time, speed 3/2 |
| `sensor_aggregator` | 111 thousand | five data directories, three producers, the printer, shutdown |
| `can_decode` | 85 thousand | some 300 database documents, cut at every symbol, every payload of two 3-bit bytes |
| `can_replay` | 492 thousand | every log file of up to three records out of seven or two out of ten, files cut short, negative timestamps, two speeds, on time and late |

`can_replay` asks six things of the task 3 program. `LogIsCompleteBlocks`: the log that is replayed is
the complete blocks of the file, sorted. `StatisticsMatchLog` and `VehicleStateIsLatest`: at every moment
the statistics and the fields are those that arithmetic on the payloads of the frames so far gives.
`TimeoutsMatchLog`: the timeouts over a replay lie between the gaps that a poll must see and those that a
poll may see. The last poll before a frame at T reads at least T - `Behind` and at most T + `Ahead`,
`lateness` in milliseconds rounded up and down. For a thread on time (less than a
millisecond late) these are 1 and 0: a gap of more than period × 3 + 1 ms is always
reported, one of period × 3 + 1 depends on when in the last millisecond the loop polls, and a shorter one
never is. The property also allows, and requires, a report that the documented rule (`period_ms × 3`,
`task3_can_decoder/README.md:89`, `DESIGN.md:228`) does not give: a message not seen yet counts as silent for
10^18 ms (`diagnostics.cpp:81`), so the first poll reports it, even a millisecond after the start. Its two terms,
`PossibleUnseen` and `CertainUnseen`, are kept apart from the gaps for that reason.
`LossesNoticed`, for a thread on time: a lost frame is a counter fault or, when as many frames were lost
as the counter has values, a timeout, because that many periods exceed the threshold. `ReplayEnds`: no wait
lasts for ever, although it ends in a busy loop.

`can_decode` follows a database from its file to a decoded value. The documents leave out keys, double
them, write one identifier in two ways, give values of the wrong type, misspell `null`, and place a signal
at every start and length in both byte orders; the expected database is written down with the document,
not computed by the parser.

Runs that show a disagreement between the code and what it says of itself:

| run | what TLC finds |
|---|---|
| `uart_driver_discarded` | stream SOF1, x: two bytes are skipped, `discarded_bytes` is 1 |
| `sensor_producer_wake` | the notification falls between predicate and block; the producer sleeps on after `requestStop` returned |
| `can_replay_status` | message 1 was seen at 0 and is overdue from 4 on; a frame of another message at 4 prints an `OK` line |
| `can_replay_resync` | a record lacks a line; the blank line after it does not end it, and the records that follow are misread |

### Bounds, and why they are enough

* `uart_parser`: `ByteValues = 3` keeps both SOF bytes and one other value; lengths 0, 1
  and 2 cover the skipped, the single-byte and the looping Payload state and a full
  buffer. `CounterModulus = 2` keeps the counters finite and makes them wrap. The
  parser has no other memory, so the run is exhaustive for this instance: streams are
  unbounded.
* `uart_driver`: two-bit bytes, so that a frame can hold SOF1, SOF2 and a third byte as
  payload; streams are up to three segments (good, corrupt CRC, corrupt payload, corrupt
  length, truncated, noise) and all streams of up to five bytes.
* `vehicle_state`: two sensors with different thresholds; a third adds only more of the
  same interleavings, and `sensor_aggregator` has three. `MaxTime = 2` gives ages below,
  at and above both thresholds.
* `sensor_producer`: logs of up to four rows, out of order, two with equal timestamps; the stall
  point lies between them. The clock runs on as long as a thread waits.
* `sensor_aggregator`: a good directory (gps with carriage returns, blank lines, a trailing comma
  and a short row; imu out of order with a stall; encoder with a header only), one with a file
  missing, one with a word in a numeric field, one with an empty field in the middle of a row, one with
  empty files.
* `can_decode`: two bytes of three bits and signals of up to seven bits from any start reach every
  position, both bytes at once, and past the payload; documents have up to three messages.
* `can_replay`: thresholds 3 and 6, gaps below, at and above them, a four-valued counter that wraps,
  jumps and comes round again after four lost frames, good and bad checksums, a signed field, an
  unnamed gear, short payloads, an unknown identifier whose payload has too many words and one too
  large for a byte, timestamps below 0; three frames are two neighbours with traffic
  between them. Two ticks to a millisecond are enough for a poll inside one. A lateness of one tick is a
  thread on time; one of three ticks is more than a millisecond and less than a gap, so that polls are skipped
  between near frames, and a poll reads a time past the frame that is still to be taken.

### Fairness

* `UartParser`: weak fairness of `Feed`, a line that keeps delivering bytes. `AttemptEnds`
  is about the parser, not about the line.
* `SensorProducer`, `SensorAggregator`: the clock advances, a runnable thread runs, and a
  `requestStop` that was begun completes. This is what an operating system gives every
  thread. Spurious wake-ups have no fairness. No assumption is made that anyone stops a
  producer.
* `CanReplay`: the only thread runs when it can, and the clock advances, also while the thread
  polls without sleeping, in the last millisecond of every wait.
* The other specifications have safety properties only.

Deadlock is checked in every run; a program that has exited stutters explicitly.

## 4. Proofs

A theorem holds for every value of the constants that the named assumptions allow. TLC
evaluates those assumptions on every run of the component. Each inductive invariant below was
first checked as an invariant of the run.

| module | theorem | property |
|---|---|---|
| `UartParserProofs` | `TypeCorrect` | `TypeOK` |
| | `FramingCorrect` | `FramingInv` |
| | `MemorySafe` | `PayloadInBounds` |
| | `SyncLossCorrect` | `SyncLossIsCrcFailure` |
| | `DeliveryCorrect` | `DeliveredIsOnTheWire` |
| | `RejectionCorrect` | `RejectedIsCorrupt` |
| | `AttemptsAccounted` | `NoSilentLoss` (an action property) |
| `UartDriverProofs` | `PrintedCorrect` | `PrintedIsValidFrames` |
| | `ReportCorrect` | `ReportMatchesStream` |
| `VehicleStateManagerProofs` | `TypeCorrect` | `TypeOK` |
| | `MutualExclusion` | `OneInside` |
| | `NoTornRead` | `FieldsTogether` |
| | `ConsistentSnapshots` | `SnapshotConsistent` |
| | `AgesNotNegative` | `AgeNotNegative` |
| | `Refinement` | `ImplementsAtomicState` (the refinement of `VehicleStateSpec`) |
| `SensorProducerProofs` | `TypeCorrect` | `TypeOK` |
| | `OrderCorrect` | `AppliedInOrder` |
| | `StopCorrect` | `AtMostOneAfterStop` |
| | `StallCorrect` | `StallShiftsTimeline` |
| | `OnTimeCorrect` | `OnTime` |
| `SensorAggregatorProofs` | `ShutdownCorrect` | `ShutdownIsNatural` |
| | `DisplayCorrect` | `DisplayNeverGoesBack` (an action property) |
| | `FinalStateCorrect` | `FinalStateIsComplete` |
| `CanReplayProofs` | `StatisticsCorrect` | `StatisticsMatchLog` |
| | `VehicleStateCorrect` | `VehicleStateIsLatest` |
| | `BlocksCorrect` | `LogIsCompleteBlocks`, for every file in which only the last record may be incomplete |
| `CanTimeoutProofs` | `TimeoutsCorrect` | `TimeoutsMatchLog` |
| | `LossesAreNoticed` | `LossesNoticed` |

### UartParser

For every `ByteValues >= 2`, every pair of distinct SOF bytes, every counter width and every CRC
function. Assumptions: `BytesAssumption`, `CounterAssumption`, and `CrcAssumption`: `CrcUpdate` stays
in range and `CrcCompute` is the loop of `CrcUpdate` from `kInit`.

The properties about delivery are not inductive on their own; they say nothing
of the parser in the middle of a frame. `FramingInv` is the strengthening: it relates every
member to the bytes consumed since the SOF pair (the index to the length of `wire`, the
payload prefix to its bytes, `running_crc` to the CRC of the body so far). The inductive
invariant `IInv` is the conjunction of `TypeOK`, `FramingInv` and the three properties about
the last event and the counters. `TypeStep`, `FramingStep`, `EventStep` and `SyncLossStep`
each show that one part is preserved, action by action; `CrcOfLongerBody` is where the
bytewise CRC meets the CRC of the whole body; `VerdictIsAboutTheFrame` says that in `CrcHi`
the comparison made by the code is the comparison the frame format defines. `PayloadInBounds`
follows from `FramingInv` and the range of `length`. `AttemptsAccounted` uses `IInv` to know
that an attempt in flight is past SOF2, so that `finish` counts it.

### UartDriver

For every file, on top of the above. `StreamsAssumption`: a file is a sequence of bytes with
fewer of them than a counter has values (2^64 in the code), so that no statistic wraps.

The offline reading `Attempts` looks at the whole file, the parser at one byte, so the properties
only hold at the end. `FeedInv` relates the two at every byte. `Base` is where the parser's current
attempt starts, or the next byte. The attempts before `Base` are whole and settled: `AttemptsFrom[Base]`
is what is left of `Attempts`, and the packets and counts so far are those of the attempts and
skipped bytes before `Base`. `AttemptsFrom` is a recursive function of the position; that it is defined
by its equation is shown from the end of the file backwards (`BackwardInduction` of `ProofFacts`).
Each branch of `feed` either leaves `Base` alone, moves it over skipped bytes (with or without counting
one) or over a whole frame. `LastByteInv` is what tells a final SOF1 that `finish` counts as partial from
one that belongs to a frame.

### VehicleStateManager

For every set of sensors, readers, inputs and thresholds. Assumptions: `ThreadsAssumption`,
`NoThreadAssumption`, `ThresholdAssumption`, `InputsAssumption`.

`OneInside` alone does not say what the thread inside has done so far. `IInv` adds `CallInv` (a thread
is in a call as long as it is in its code), `WriterInv` (which fields of its sensor the holder of the lock
has already written, and that all others agree with the last update) and `ReaderInv` (which fields the
reader has copied, and that its `now` is not before anything that took effect). With them every access is
a stutter of `VehicleStateSpec`, except the unlock of an update and of a snapshot, which are the atomic
`Update` and `Snapshot`.

### SensorProducer

For every number of producers, every log, speed and stall. Assumptions: `LogAssumption` (timestamps are
natural numbers), `SpeedAssumption`, `StallAssumption`.

`CoreInv` relates the position in `events` to what has been applied, and the wait to the event it is for:
a deadline never changes while the thread waits, and a wait ends before it only after a stop. `TimelineInv`
adds where the replay is anchored before, during and after the stall, and that the deadline is the due time
under that anchor. It rests on `CoreInv`, and is proved after it. The due time is monotone in the
timestamp despite the truncation; `ProofFacts` and the lemmas at the start supply the arithmetic.

### SensorAggregator

For every set of sensors and data directories, using `VehicleStateSpec` for the manager, which is
justified by `Refinement`. Assumptions: those of the producer and `OrderAssumption` (`Order` lists every
sensor once), `TextsAssumption` (a text that is not a number is not a number) and `DirectoriesAssumption`
(a file is a sequence of lines; a file that `buildEvents` can read has natural timestamps).

`AggregatorInv` is `CoreInv` of the producers together with `MainInv` (main stops no producer before all
are done, and shuts down only then), `CallOf` (a thread is in the manager only from `ev.apply()`, with the
event it has come to), `LatestOf` (the manager holds the last event applied) and `DisplayOf` (what is
displayed is not newer than what the manager holds). The display cannot go back because events are
sorted, a producer applies them in order, and the manager returns the latest.

`FinalStateIsComplete` speaks of the lines of the files and of the last thing printed. `FilesInv` says what
lies between: the producers replay what `buildEvents` made of the files, and at `done` the display is what
the manager holds. `ReadCorrect` is about the reader alone: the rows it returns, through two selections (blank
lines, short rows), are exactly the data lines that the property describes on the raw lines, so that their timestamps are
the same set. With `ShutdownIsNatural` every row has been applied, and the last one applied is the greatest
because `events_` is sorted.

### CanReplay

For every log, speed, lateness, poll interval and number of ticks in a millisecond. Assumptions: `LogAssumption` (a file is a sequence of lines, and
what `readAll` returns is a sequence of frames, fewer than a statistic has values), `DiagnosticsAssumption`
(the timeout multiplier, 3, is less than the number of counter values, 16), `ReplayAssumption` (these parameters
are positive) and `DatabaseAssumption`: for every payload, the
signals of the database decode to the slice of the payload that they name and the checksum test is the parity of the
bytes, a period is positive, and no two messages feed the same field. The first part is what `can_decode` checks for
all small signals; it is a fact about folds and powers of two that the provers cannot reach, so the
theorems about the replay take it from the assumption. What they add is the bookkeeping over a log
in which identifiers are interleaved.

`ReplayInv` is `LoadedInv` (database and log are those of the files), `StatsInv` and
`VehicleStateIsLatest`. The statistics are not inductive without `CounterOf`: `last_counter_[id]` is
the counter of the latest frame of that identifier, and absent before the first, so the comparison that the
engine makes with one remembered value is the comparison of neighbours in the log.

`BlocksCorrect` compares two readings of the file: the code counts the non-blank lines by threes, the property
looks for three lines between blank ones. `WellFormed` says when they agree: only the last record may be incomplete.
Its use is `StartsByThrees`: the rank of every block's first line among the non-blank lines is 1 modulo 3, so
record `k` of the code is a block and every block is some record (`RecordIsBlock`, `BlockIsRecord`).
Sorting permutes the records, so each block occurs in the log as often as in the file. Without `WellFormed`
the property is false: that is the run `can_replay_resync`.

`CanTimeoutProofs` needs to know when polls happen, which no variable records. `ClockInv` bounds the clock by when
the thread was due: it passes `wake` by `lateness` at most, and `wake` is not after the next frame, because a sleep is
truncated and never extended. So when a frame is taken the last poll was due at most `lateness` before it, and
reads at least its time less `Behind` (`ReadBehind`), and no poll before it reads more than its time and `Ahead`
(`ReadAhead`). The speed does not matter, because the loop polls until the frame is due. Each message
then has closed gaps, between its frames and before the first, and one open gap. `OpenInv`: the open gap is
flagged in `currently_timed_out_` only if a poll may report it, and is flagged once a poll
must have; a flag stays until the message's next frame, which is why a gap is counted once.
`EventsInv`: `timeout_events` lies between the closed gaps that must be reported and those that may be,
plus the open one if it is flagged. At the end all frames have arrived, and the open gaps are the last ones.

`LossesAreNoticed` follows: in a message sent in step, a gap after which the counter is in order has lost a
multiple of `CounterValues` frames, so it lasts more than `CounterValues` periods and hence exceeds
the threshold by more than the millisecond that a poll on time can be behind, and a thread on time must have polled
in it (`LongGap`, `TimeJumps`).

### Only model-checked

* Liveness (`AttemptEnds`, `ReplayEnds` of the producer and of the CAN replay, `Terminates`): outside what the prover
  handles.
* `StreamingIsReference`, `SmallErrorsDetected`, `DecodedIsBitField`, `DatabaseMatchesDocument`,
  `TruncatedIsRefused`: what a fold of the library computes for every message, payload or text needs an induction
  over data through an operator parameter, which no installed prover can instantiate. (`AttemptsFrom`, a function
  of a position, is within reach because the induction can be over a set of positions.)
* `LogIsCompleteBlocks` for files that are not `WellFormed`: not proved because it is false there.

## 5. Plan

Done: the modules above, and the theorems of section 4. Every safety property of the passing runs that
is not listed as only model-checked is a theorem.

Left:

1. The first part of `DatabaseAssumption`: that `extractRaw` and the checksum test compute what the reference
   says. It is an induction over the bits of a payload; a prover that can instantiate the library's induction
   theorems could discharge it, and `CanReplay` would then need only that a period is positive and
   that messages do not share fields.
2. The same for `StreamingIsReference` of the CRC and for the parser of the database.
3. The liveness properties.

## 6. Not modelled

* Command-line parsing, output wording, the CSV export of task 2: no state and no ordering that a
  property would be about. A non-positive `--speed` is excluded by assumption, and in task 3 so is
  one below 1.
* The conversion of a text to a number: its result is given with the text.
* A callback that calls `feed`, `finish` or `resetStats` of the parser that is calling it. `finish`
  would count the delivered packet as partial too; no caller in the repository does any of these.
* A message with a `period_ms` of 0 or less, which would be overdue at every poll.
* A negative `start_bit`, and a checksum outside the payload (`diagnostics.cpp:51`): undefined
  behaviour without a meaningful outcome; the databases of the runs have neither.
* The width of the C++ integers that hold a decoded value, beyond the payload's own width, and the
  rounding of `double`.
* The `unit` of a signal and `dlc` after loading: stored and never read.
* Memory ordering of the two atomics of a producer: both are sequentially consistent in the code.
