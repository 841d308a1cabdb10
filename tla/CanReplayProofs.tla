---------------------------- MODULE CanReplayProofs ----------------------------
(***************************************************************************)
(* Proofs about CanReplay, for every database, every log, every speed and  *)
(* every lateness of the thread: the statistics and the vehicle state are  *)
(* those of the frames that have arrived.  What single payloads decode to  *)
(* is taken from DatabaseAssumption; what is shown is that the engine,     *)
(* which remembers one counter per identifier, keeps up with a log in      *)
(* which the identifiers are interleaved.                                  *)
(***************************************************************************)
EXTENDS CanReplay, ProofFacts, SequenceTheorems

FrameRecord ==
    [timestamp_ms : Int, can_id : Nat, data : FramePayload, dlc : 0 .. PayloadBytes]

StatRecord ==
    [frames_received : Nat, counter_faults : Nat, checksum_faults : Nat, timeout_events : Nat]

\* The frames whose counter is not the successor of the one before, and those whose
\* checksum is wrong.
SkipsOf(id) == {i \in FramesOf(id) : Skips(i)}
BadOf(id) == {i \in FramesOf(id) : findSignal(db[id], "checksum") /\ OddParity(log[i].data)}
UnknownFrames == {i \in Arrived : log[i].can_id \notin DOMAIN db}

\* The database is empty until it is loaded; the log is that of the file.
LoadedInv ==
    /\ \/ db = <<>> /\ log = <<>> /\ main \in {"load", "failed"}
       \/ db = Database.messages /\ main \notin {"load", "failed"}
    /\ log \in Seq(FrameRecord) /\ Len(log) < StatModulus
    /\ frameIdx \in 1 .. Len(log) + 1
    /\ main = "load" => stats = <<>> /\ last_counter = <<>> /\ state = <<>> /\ file \in Files

\* last_counter_[id] is the counter of the latest frame of the message.
CounterOf(id) ==
    IF findSignal(db[id], "counter") /\ FramesOf(id) # {}
    THEN /\ id \in DOMAIN last_counter
         /\ last_counter[id] = FieldOf(Max(FramesOf(id)), "counter")
    ELSE id \notin DOMAIN last_counter

\* The conjuncts of StatisticsMatchLog, for one message.
CountsOf(id) ==
    /\ StatsOf(id) \in StatRecord
    /\ StatsOf(id).frames_received = Cardinality(FramesOf(id))
    /\ StatsOf(id).counter_faults = Cardinality(SkipsOf(id))
    /\ StatsOf(id).checksum_faults = Cardinality(BadOf(id))

StatsInv ==
    /\ \A id \in DOMAIN db : CounterOf(id) /\ CountsOf(id)
    /\ unknown_frame_count = Cardinality(UnknownFrames)

ReplayInv == LoadedInv /\ StatsInv /\ VehicleStateIsLatest

-----------------------------------------------------------------------------
\* The largest of some numbers up to n.
LEMMA MaxIs ==
    ASSUME NEW n \in Nat, NEW S \in SUBSET (0 .. n), S # {}
    PROVE  Max(S) \in S /\ \A x \in S : x <= Max(S)
<1> DEFINE T == {n - x : x \in S}
<1>1. T \in SUBSET Nat /\ T # {}
  OBVIOUS
<1> HIDE DEF T
<1>2. PICK t \in T : \A y \in T : t <= y
  BY <1>1, SmallestNat
<1>3. PICK m \in S : t = n - m
  BY DEF T
<1>4. \A x \in S : m >= x
  <2>1. \A x \in S : n - x \in T
    BY DEF T
  <2>2. \A x \in S : n - m <= n - x
    BY <1>2, <1>3, <2>1
  <2> QED BY <2>2
<1>5. Max(S) \in S /\ \A x \in S : Max(S) >= x
  BY <1>3, <1>4 DEF Max
<1> QED BY <1>5

\* A number that is at least every member of a set, and one of them.
LEMMA MaxUnique ==
    ASSUME NEW n \in Nat, NEW S \in SUBSET (0 .. n), NEW m \in S, \A x \in S : x <= m
    PROVE  Max(S) = m
<1>1. Max(S) \in S /\ \A x \in S : x <= Max(S)
  BY MaxIs
<1>2. \A x \in S : x \in Int
  OBVIOUS
<1>3. PICK k : k = Max(S)
  OBVIOUS
<1>4. k \in Int /\ m \in Int
  BY <1>1, <1>2, <1>3
<1>5. m <= k /\ k <= m
  BY <1>1, <1>3
<1>6. k = m
  BY <1>4, <1>5
<1> QED BY <1>3, <1>6

-----------------------------------------------------------------------------
(* One more frame has arrived.                                             *)

\* The frames of the log that have arrived are its first frameIdx - 1.
LEMMA ArrivedInLog ==
    ASSUME LoadedInv
    PROVE  /\ Len(log) \in Nat /\ frameIdx \in Nat /\ Arrived \in SUBSET (1 .. Len(log))
           /\ \A id : FramesOf(id) \in SUBSET (1 .. Len(log)) /\ FramesOf(id) \subseteq Arrived
<1>1. Len(log) \in Nat /\ frameIdx \in 1 .. Len(log) + 1
  BY DEF LoadedInv
<1>2. Arrived \in SUBSET (1 .. Len(log))
  BY <1>1 DEF Arrived
<1>3. \A id : FramesOf(id) \subseteq Arrived
  BY DEF FramesOf
<1>4. frameIdx \in Nat
  BY <1>1
<1> QED BY <1>1, <1>2, <1>3, <1>4

\* The frame at frameIdx joins the frames of its identifier.
LEMMA OneMoreArrived ==
    ASSUME LoadedInv, MoreFrames, frameIdx' = frameIdx + 1, log' = log, NEW n, n = frameIdx
    PROVE  /\ n \in 1 .. Len(log) /\ n \notin Arrived /\ Arrived' = Arrived \cup {n}
           /\ log[n] \in FrameRecord
           /\ \A id : FramesOf(id)' =
                 FramesOf(id) \cup (IF log[n].can_id = id THEN {n} ELSE {})
           /\ \A i \in Arrived : i < n
<1>1. Len(log) \in Nat /\ frameIdx \in Nat /\ n \in 1 .. Len(log) /\ log \in Seq(FrameRecord)
  BY DEF LoadedInv, MoreFrames
<1>2. n \notin Arrived /\ Arrived' = Arrived \cup {n} /\ \A i \in Arrived : i < n
  BY <1>1 DEF Arrived
<1>3. log[n] \in FrameRecord
  BY <1>1
<1> QED BY <1>1, <1>2, <1>3 DEF FramesOf

\* What was said of the frames before it stays.
LEMMA EarlierFramesKept ==
    ASSUME LoadedInv, MoreFrames, frameIdx' = frameIdx + 1, log' = log, db' = db,
           NEW i \in Arrived
    PROVE  Skips(i)' = Skips(i)
<1> PICK n : n = frameIdx
  OBVIOUS
<1>1. i < n /\ \A id : FramesOf(id)' = FramesOf(id) \cup (IF log[n].can_id = id THEN {n} ELSE {})
  BY OneMoreArrived
<1>2. n \in Int /\ i \in Int
  BY ArrivedInLog
<1>3. \A id : {j \in FramesOf(id)' : j < i} = {j \in FramesOf(id) : j < i}
  <2>1. ~(n < i)
    BY <1>1, <1>2
  <2> QED BY <1>1, <2>1
<1>4. Previous(i)' = Previous(i)
  BY <1>3 DEF Previous
<1>5. \A j : FieldOf(j, "counter")' = FieldOf(j, "counter")
  BY DEF FieldOf
<1> QED BY <1>4, <1>5 DEF Skips

\* The frame before it with the same identifier is the latest one.
LEMMA PreviousIsLatest ==
    ASSUME LoadedInv, MoreFrames, frameIdx' = frameIdx + 1, log' = log,
           NEW n, n = frameIdx, NEW id, id = log[n].can_id
    PROVE  /\ FramesOf(id) = {} => Previous(n)' = 0
           /\ FramesOf(id) # {} => Previous(n)' = Max(FramesOf(id)) /\ Max(FramesOf(id)) # 0
<1>1. /\ Len(log) \in Nat /\ FramesOf(id) \in SUBSET (1 .. Len(log))
      /\ FramesOf(id) \subseteq Arrived
  BY ArrivedInLog
<1>2. /\ FramesOf(id)' = FramesOf(id) \cup {n} /\ n \in 1 .. Len(log) /\ \A i \in Arrived : i < n
  BY OneMoreArrived
<1> PICK F : F = FramesOf(id)
  OBVIOUS
<1>3. {j \in FramesOf(id)' : j < n} = F
  <2>1. ~(n < n)
    BY <1>2
  <2> QED BY <1>1, <1>2, <2>1
<1>4. Previous(n)' = Max({0} \cup F)
  <2>1. Previous(n)' = Max({0} \cup {j \in FramesOf(id)' : j < n})
    BY DEF Previous
  <2> QED BY <1>3, <2>1
<1>5. {0} \cup F \in SUBSET (0 .. Len(log)) /\ F \in SUBSET (0 .. Len(log))
  BY <1>1
<1>6. CASE F = {}
  <2>1. Max({0} \cup F) = 0
    <3>1. 0 \in {0} \cup F /\ \A x \in {0} \cup F : x <= 0
      BY <1>6
    <3> QED BY <1>1, <1>5, <3>1, MaxUnique
  <2> QED BY <1>4, <1>6, <2>1
<1>7. CASE F # {}
  <2>1. Max(F) \in F /\ \A x \in F : x <= Max(F)
    BY <1>1, <1>5, <1>7, MaxIs
  <2>2. Max(F) \in {0} \cup F /\ Max(F) # 0 /\ \A x \in {0} \cup F : x <= Max(F)
    <3>1. Max(F) \in 1 .. Len(log)
      BY <1>1, <2>1
    <3>2. 0 <= Max(F) /\ Max(F) # 0
      BY <1>1, <3>1
    <3> QED BY <2>1, <3>2
  <2>3. Max({0} \cup F) = Max(F)
    BY <1>1, <1>5, <2>2, MaxUnique
  <2> QED BY <1>4, <1>7, <2>2, <2>3
<1> QED BY <1>6, <1>7

\* A statistic that counts the members of a set counts one more or stays.
LEMMA AddIfCounts ==
    ASSUME NEW n \in Nat, n < StatModulus, NEW S \in SUBSET (1 .. n), NEW x \in 1 .. n,
           x \notin S, NEW c \in BOOLEAN
    PROVE  AddIf(c, Cardinality(S)) = Cardinality(S \cup (IF c THEN {x} ELSE {}))
<1>1. /\ Cardinality(S) \in Nat /\ Cardinality(S) + 1 <= n
      /\ Cardinality(S \cup {x}) = Cardinality(S) + 1
  BY CountUpTo, CountOneMore
<1>2. ASSUME NEW k \in Nat, k + 1 <= n PROVE (k + 1) % StatModulus = k + 1
  BY <1>2, DiagnosticsAssumption
<1>3. CASE c
  <2>1. AddIf(c, Cardinality(S)) = Cardinality(S) + 1
    BY <1>1, <1>2, <1>3 DEF AddIf
  <2> QED BY <1>1, <1>3, <2>1
<1>4. CASE ~c
  <2>1. S \cup (IF c THEN {x} ELSE {}) = S
    BY <1>4
  <2> QED BY <1>4, <2>1 DEF AddIf
<1> QED BY <1>3, <1>4

-----------------------------------------------------------------------------
(* The statistics.                                                         *)

\* What the database says of a payload of one of its messages.
LEMMA DecodingOf ==
    ASSUME LoadedInv, NEW id \in DOMAIN db, NEW data \in FramePayload
    PROVE  /\ \A s \in DOMAIN db[id].signals :
                 LET field == BitField(data, db[id].signals[s], db[id].byte_order)
                 IN  /\ field \in Nat
                     /\ extractRaw(data, db[id].signals[s], db[id].byte_order) = field
                     /\ decodePhysical(data, db[id].signals[s], db[id].byte_order)
                           = FieldValue(data, db[id].signals[s], db[id].byte_order)
                             * db[id].signals[s].scale + db[id].signals[s].offset
           /\ findSignal(db[id], "checksum") =>
                 (ChecksumMismatch(db[id].signals[Str("checksum")], data) <=> OddParity(data))
<1>1. db = Database.messages
  BY DEF LoadedInv
<1>2. DecodesByArithmetic(db[id])
  BY <1>1, DatabaseAssumption
<1> QED BY <1>2 DEF DecodesByArithmetic

\* A frame of the database: the gap and the mismatch that onKnownFrame sees are those of
\* the log.
LEMMA KnownFrameFaults ==
    ASSUME ReplayInv, MoreFrames, frameIdx' = frameIdx + 1, log' = log, db' = db,
           NEW n, n = frameIdx, NEW id, id = log[n].can_id, id \in DOMAIN db
    PROVE  LET msg == db[id]
               counter == extractRaw(log[n].data, msg.signals[Str("counter")], msg.byte_order)
           IN  /\ (findSignal(msg, "counter") /\ CounterGap(id, counter)) <=> Skips(n)'
               /\ findSignal(msg, "counter") => counter = FieldOf(n, "counter")
               /\ (/\ findSignal(msg, "checksum")
                   /\ ChecksumMismatch(msg.signals[Str("checksum")], log[n].data))
                    <=> (findSignal(msg, "checksum") /\ OddParity(log[n].data))
<1> DEFINE msg == db[id]
           counter == extractRaw(log[n].data, msg.signals[Str("counter")], msg.byte_order)
<1>0. LoadedInv /\ CounterOf(id)
  BY DEF ReplayInv, StatsInv
<1>1. log[n].data \in FramePayload
  BY <1>0, OneMoreArrived DEF FrameRecord
<1>2. findSignal(msg, "checksum") =>
          (ChecksumMismatch(msg.signals[Str("checksum")], log[n].data) <=> OddParity(log[n].data))
  BY <1>0, <1>1, DecodingOf
<1>3. findSignal(msg, "counter") => counter = FieldOf(n, "counter")
  BY <1>0, <1>1, DecodingOf DEF findSignal, FieldOf
<1>4. \A i : FieldOf(i, "counter")' = FieldOf(i, "counter")
  BY DEF FieldOf
<1> HIDE DEF counter
<1>5. ASSUME findSignal(msg, "counter") PROVE CounterGap(id, counter) <=> Skips(n)'
  <2>1. Skips(n)' <=>
            /\ Previous(n)' # 0
            /\ FieldOf(n, "counter") # (FieldOf(Previous(n)', "counter") + 1) % CounterValues
    <3>1. Skips(n)' <=>
            /\ findSignal(db[log[n].can_id], "counter") /\ Previous(n)' # 0
            /\ FieldOf(n, "counter")' # (FieldOf(Previous(n), "counter")' + 1) % CounterValues
      BY DEF Skips
    <3>2. FieldOf(Previous(n), "counter")' = FieldOf(Previous(n)', "counter")
      BY DEF FieldOf
    <3> QED BY <1>4, <1>5, <3>1, <3>2
  <2>2. CASE FramesOf(id) = {}
    <3>1. Previous(n)' = 0
      BY <1>0, <2>2, PreviousIsLatest
    <3>2. id \notin DOMAIN last_counter
      BY <1>0, <2>2 DEF CounterOf
    <3> QED BY <2>1, <3>1, <3>2 DEF CounterGap
  <2>3. CASE FramesOf(id) # {}
    <3>1. Previous(n)' = Max(FramesOf(id)) /\ Previous(n)' # 0
      BY <1>0, <2>3, PreviousIsLatest
    <3>2. id \in DOMAIN last_counter /\ last_counter[id] = FieldOf(Max(FramesOf(id)), "counter")
      BY <1>0, <1>5, <2>3 DEF CounterOf
    <3> QED BY <1>3, <1>5, <2>1, <3>1, <3>2 DEF CounterGap
  <2> QED BY <2>2, <2>3
<1>6. ~findSignal(msg, "counter") => ~Skips(n)'
  BY DEF Skips
<1> QED BY <1>2, <1>3, <1>5, <1>6 DEF counter

\* The frame changes nothing for the other identifiers.
LEMMA OtherFramesKept ==
    ASSUME LoadedInv, MoreFrames, frameIdx' = frameIdx + 1, log' = log, db' = db,
           NEW n, n = frameIdx, NEW j, j # log[n].can_id
    PROVE  FramesOf(j)' = FramesOf(j) /\ SkipsOf(j)' = SkipsOf(j) /\ BadOf(j)' = BadOf(j)
<1>1. FramesOf(j)' = FramesOf(j) /\ FramesOf(j) \subseteq Arrived
  <2>1. FramesOf(j)' = FramesOf(j) \cup (IF log[n].can_id = j THEN {n} ELSE {})
    BY OneMoreArrived
  <2> QED BY <2>1, ArrivedInLog
<1>2. SkipsOf(j)' = SkipsOf(j)
  <2>1. SkipsOf(j)' = {i \in FramesOf(j)' : Skips(i)'}
    BY DEF SkipsOf
  <2>2. \A i \in FramesOf(j) : Skips(i)' = Skips(i)
    BY <1>1, EarlierFramesKept
  <2> QED BY <1>1, <2>1, <2>2 DEF SkipsOf
<1>3. BadOf(j)' = BadOf(j)
  BY <1>1 DEF BadOf
<1> QED BY <1>1, <1>2, <1>3

\* So their statistics stay right.
LEMMA OtherCountsKept ==
    ASSUME LoadedInv, MoreFrames, frameIdx' = frameIdx + 1, log' = log, db' = db,
           NEW n, n = frameIdx, NEW j, j # log[n].can_id,
           CountsOf(j), StatsOf(j)' = StatsOf(j)
    PROVE  CountsOf(j)'
BY OtherFramesKept DEF CountsOf

\* Counting the frame that has arrived.
LEMMA KnownFrameCounts ==
    ASSUME ReplayInv, MoreFrames, frameIdx' = frameIdx + 1, log' = log, db' = db,
           NEW n, n = frameIdx, NEW id, id = log[n].can_id, id \in DOMAIN db,
           NEW gap \in BOOLEAN, gap <=> Skips(n)',
           NEW bad \in BOOLEAN,
           bad <=> (findSignal(db[id], "checksum") /\ OddParity(log[n].data)),
           stats' = Put(stats, id, [StatsOf(id) EXCEPT !.frames_received = AddIf(TRUE, @),
                                                       !.counter_faults = AddIf(gap, @),
                                                       !.checksum_faults = AddIf(bad, @)])
    PROVE  \A j \in DOMAIN db : CountsOf(j)'
<1>v. PICK v : v = [StatsOf(id) EXCEPT !.frames_received = AddIf(TRUE, @),
                                       !.counter_faults = AddIf(gap, @),
                                       !.checksum_faults = AddIf(bad, @)]
  OBVIOUS
<1>p. /\ DOMAIN stats' = DOMAIN stats \cup {id} /\ stats'[id] = v
      /\ \A j \in DOMAIN stats : j # id => stats'[j] = stats[j]
  <2>1. stats' = Put(stats, id, v)
    BY <1>v
  <2>2. /\ DOMAIN Put(stats, id, v) = DOMAIN stats \cup {id} /\ Put(stats, id, v)[id] = v
        /\ \A j \in DOMAIN stats : j # id => Put(stats, id, v)[j] = stats[j]
    BY DEF Put, PutAll
  <2> QED BY <2>1, <2>2
<1>0. /\ LoadedInv /\ CountsOf(id) /\ Len(log) \in Nat /\ Len(log) < StatModulus
      /\ n \in 1 .. Len(log) /\ n \notin Arrived
      /\ FramesOf(id)' = FramesOf(id) \cup {n}
      /\ FramesOf(id) \in SUBSET (1 .. Len(log)) /\ FramesOf(id) \subseteq Arrived
  BY ArrivedInLog, OneMoreArrived DEF ReplayInv, StatsInv, LoadedInv
<1>1. \A i \in FramesOf(id) : Skips(i)' = Skips(i)
  BY <1>0, EarlierFramesKept
<1>2. SkipsOf(id)' = SkipsOf(id) \cup (IF gap THEN {n} ELSE {})
  <2>1. SkipsOf(id)' = {i \in FramesOf(id)' : Skips(i)'}
    BY DEF SkipsOf
  <2> QED BY <1>0, <1>1, <2>1 DEF SkipsOf
<1>3. BadOf(id)' = BadOf(id) \cup (IF bad THEN {n} ELSE {})
  BY <1>0 DEF BadOf
<1>4. /\ SkipsOf(id) \in SUBSET (1 .. Len(log)) /\ n \notin SkipsOf(id)
      /\ BadOf(id) \in SUBSET (1 .. Len(log)) /\ n \notin BadOf(id) /\ n \notin FramesOf(id)
  BY <1>0 DEF SkipsOf, BadOf
<1>5. /\ AddIf(TRUE, Cardinality(FramesOf(id))) = Cardinality(FramesOf(id)')
      /\ AddIf(gap, Cardinality(SkipsOf(id))) = Cardinality(SkipsOf(id)')
      /\ AddIf(bad, Cardinality(BadOf(id))) = Cardinality(BadOf(id)')
  <2>1. AddIf(TRUE, Cardinality(FramesOf(id))) = Cardinality(FramesOf(id) \cup {n})
    <3>1. PICK c \in BOOLEAN : c = TRUE
      OBVIOUS
    <3>2. AddIf(c, Cardinality(FramesOf(id))) =
              Cardinality(FramesOf(id) \cup (IF c THEN {n} ELSE {}))
      BY <1>0, <1>4, AddIfCounts
    <3> QED BY <3>1, <3>2
  <2>2. AddIf(gap, Cardinality(SkipsOf(id))) =
            Cardinality(SkipsOf(id) \cup (IF gap THEN {n} ELSE {}))
    BY <1>0, <1>4, AddIfCounts
  <2>3. AddIf(bad, Cardinality(BadOf(id))) =
            Cardinality(BadOf(id) \cup (IF bad THEN {n} ELSE {}))
    BY <1>0, <1>4, AddIfCounts
  <2> QED BY <1>0, <1>2, <1>3, <2>1, <2>2, <2>3
<1>6. /\ Cardinality(FramesOf(id)') \in Nat /\ Cardinality(SkipsOf(id)') \in Nat
      /\ Cardinality(BadOf(id)') \in Nat
  <2>1. /\ FramesOf(id)' \in SUBSET (1 .. Len(log)) /\ SkipsOf(id)' \in SUBSET (1 .. Len(log))
        /\ BadOf(id)' \in SUBSET (1 .. Len(log))
    BY <1>0, <1>2, <1>3, <1>4
  <2> QED BY <1>0, <2>1, CountUpTo
<1>7. CountsOf(id)'
  <2> PICK s : s = StatsOf(id)
    OBVIOUS
  <2>1. StatsOf(id)' = [s EXCEPT !.frames_received = AddIf(TRUE, @),
                                 !.counter_faults = AddIf(gap, @),
                                 !.checksum_faults = AddIf(bad, @)]
    <3>1. StatsOf(id)' = v
      BY <1>p DEF StatsOf
    <3> QED BY <1>v, <3>1
  <2>2. /\ s \in StatRecord /\ s.frames_received = Cardinality(FramesOf(id))
        /\ s.counter_faults = Cardinality(SkipsOf(id))
        /\ s.checksum_faults = Cardinality(BadOf(id))
    BY <1>0 DEF CountsOf
  <2>3. StatsOf(id)' = [s EXCEPT !.frames_received = Cardinality(FramesOf(id)'),
                                 !.counter_faults = Cardinality(SkipsOf(id)'),
                                 !.checksum_faults = Cardinality(BadOf(id)')]
    BY <1>5, <2>1, <2>2 DEF StatRecord
  <2>4. /\ StatsOf(id)' \in StatRecord
        /\ StatsOf(id)'.frames_received = Cardinality(FramesOf(id)')
        /\ StatsOf(id)'.counter_faults = Cardinality(SkipsOf(id)')
        /\ StatsOf(id)'.checksum_faults = Cardinality(BadOf(id)')
    BY <1>6, <2>2, <2>3 DEF StatRecord
  <2> QED BY <2>4 DEF CountsOf
<1>8. ASSUME NEW j \in DOMAIN db, j # id PROVE CountsOf(j)'
  <2>1. StatsOf(j)' = StatsOf(j)
    BY <1>8, <1>p DEF StatsOf
  <2>2. CountsOf(j)
    BY DEF ReplayInv, StatsInv
  <2> QED BY <1>0, <1>8, <2>1, <2>2, OtherCountsKept
<1> QED BY <1>7, <1>8

\* The engine remembers the counter of the frame that has arrived.
LEMMA KnownFrameCounter ==
    ASSUME ReplayInv, MoreFrames, frameIdx' = frameIdx + 1, log' = log, db' = db,
           NEW n, n = frameIdx, NEW id, id = log[n].can_id, id \in DOMAIN db,
           NEW counter, findSignal(db[id], "counter") => counter = FieldOf(n, "counter"),
           last_counter' = IF findSignal(db[id], "counter") THEN Put(last_counter, id, counter)
                           ELSE last_counter
    PROVE  \A j \in DOMAIN db : CounterOf(j)'
<1>0. /\ LoadedInv /\ Len(log) \in Nat /\ n \in 1 .. Len(log) /\ \A i \in Arrived : i < n
      /\ FramesOf(id)' = FramesOf(id) \cup {n}
      /\ FramesOf(id) \in SUBSET (1 .. Len(log)) /\ FramesOf(id) \subseteq Arrived
  BY ArrivedInLog, OneMoreArrived DEF ReplayInv
<1>1. \A i : FieldOf(i, "counter")' = FieldOf(i, "counter")
  BY DEF FieldOf
<1>2. CounterOf(id)'
  <2>1. CASE findSignal(db[id], "counter")
    <3>1. Max(FramesOf(id)') = n
      <4> PICK F : F = FramesOf(id)'
        OBVIOUS
      <4>1. F \in SUBSET (0 .. Len(log)) /\ n \in F
        BY <1>0
      <4>2. \A x \in F : x <= n
        <5>1. \A x \in F : x = n \/ x < n
          BY <1>0
        <5>2. n <= n /\ n \in Int
          BY <1>0
        <5>3. \A x \in F : x \in Int
          BY <1>0
        <5> QED BY <5>1, <5>2, <5>3
      <4>3. Max(F) = n
        BY <1>0, <4>1, <4>2, MaxUnique
      <4> QED BY <4>3
    <3>2. last_counter' = Put(last_counter, id, counter) /\ counter = FieldOf(n, "counter")
      BY <2>1
    <3>3. id \in DOMAIN last_counter' /\ last_counter'[id] = counter
      BY <3>2 DEF Put, PutAll
    <3>4. last_counter'[id] = FieldOf(Max(FramesOf(id)), "counter")'
      <4>1. FieldOf(Max(FramesOf(id)), "counter")' = FieldOf(Max(FramesOf(id)'), "counter")
        BY DEF FieldOf
      <4> QED BY <3>1, <3>2, <3>3, <4>1
    <3> QED BY <1>0, <2>1, <3>3, <3>4 DEF CounterOf
  <2>2. CASE ~findSignal(db[id], "counter")
    BY <2>2 DEF CounterOf, ReplayInv, StatsInv
  <2> QED BY <2>1, <2>2
<1>3. ASSUME NEW j \in DOMAIN db, j # id PROVE CounterOf(j)'
  <2>1. CounterOf(j) /\ FramesOf(j)' = FramesOf(j)
    BY <1>0, <1>3, OtherFramesKept DEF ReplayInv, StatsInv
  <2>2. /\ j \in DOMAIN last_counter' <=> j \in DOMAIN last_counter
        /\ j \in DOMAIN last_counter => last_counter'[j] = last_counter[j]
    BY <1>3 DEF Put, PutAll
  <2>3. FieldOf(Max(FramesOf(j)), "counter")' = FieldOf(Max(FramesOf(j)), "counter")
    BY <2>1 DEF FieldOf
  <2> QED BY <2>1, <2>2, <2>3 DEF CounterOf
<1> QED BY <1>2, <1>3

\* onKnownFrame keeps the statistics right.
LEMMA KnownStats ==
    ASSUME ReplayInv, ArriveKnown PROVE StatsInv'
<1>e. PICK n, id : n = frameIdx /\ id = log[n].can_id
  OBVIOUS
<1> DEFINE msg == db[id]
           counter == extractRaw(log[n].data, msg.signals[Str("counter")], msg.byte_order)
<1>1. /\ MoreFrames /\ frameIdx' = frameIdx + 1 /\ log' = log /\ db' = db /\ id \in DOMAIN db
      /\ onKnownFrame(log[n]) /\ unknown_frame_count' = unknown_frame_count
  BY <1>e DEF ArriveKnown, NextFrame, Frame, onKnownFrame
<1>g. PICK gap \in BOOLEAN : gap = (findSignal(msg, "counter") /\ CounterGap(id, counter))
  BY DEF findSignal, CounterGap
<1>b. PICK bad \in BOOLEAN :
          bad = (/\ findSignal(msg, "checksum")
                 /\ ChecksumMismatch(msg.signals[Str("checksum")], log[n].data))
  BY DEF findSignal, ChecksumMismatch
<1>2. /\ gap <=> Skips(n)'
      /\ findSignal(msg, "counter") => counter = FieldOf(n, "counter")
      /\ bad <=> (findSignal(msg, "checksum") /\ OddParity(log[n].data))
  BY <1>1, <1>e, <1>g, <1>b, KnownFrameFaults
<1>3. /\ stats' = Put(stats, id, [StatsOf(id) EXCEPT !.frames_received = AddIf(TRUE, @),
                                                     !.counter_faults = AddIf(gap, @),
                                                     !.checksum_faults = AddIf(bad, @)])
      /\ last_counter' = IF findSignal(msg, "counter") THEN Put(last_counter, id, counter)
                         ELSE last_counter
  BY <1>1, <1>e, <1>g, <1>b DEF onKnownFrame
<1>4. \A j \in DOMAIN db : CountsOf(j)'
  BY <1>1, <1>2, <1>3, <1>e, KnownFrameCounts
<1>5. \A j \in DOMAIN db : CounterOf(j)'
  BY <1>1, <1>2, <1>3, <1>e, KnownFrameCounter
<1>6. UnknownFrames' = UnknownFrames
  <2>1. Arrived' = Arrived \cup {n}
    BY <1>1, <1>e, OneMoreArrived DEF ReplayInv
  <2> QED BY <1>1, <1>e, <2>1 DEF UnknownFrames
<1> QED BY <1>1, <1>4, <1>5, <1>6 DEF StatsInv, ReplayInv

\* onUnknownFrame counts the frame and nothing else.
LEMMA UnknownStats ==
    ASSUME ReplayInv, ArriveUnknown PROVE StatsInv'
<1>e. PICK n : n = frameIdx
  OBVIOUS
<1>1. /\ MoreFrames /\ frameIdx' = frameIdx + 1 /\ log' = log /\ db' = db
      /\ log[n].can_id \notin DOMAIN db
      /\ unknown_frame_count' = AddIf(TRUE, unknown_frame_count)
      /\ stats' = stats /\ last_counter' = last_counter
  BY <1>e DEF ArriveUnknown, NextFrame, Frame, onUnknownFrame
<1>2. /\ LoadedInv /\ Len(log) \in Nat /\ Len(log) < StatModulus /\ n \in 1 .. Len(log)
      /\ n \notin Arrived /\ Arrived' = Arrived \cup {n} /\ Arrived \in SUBSET (1 .. Len(log))
  BY <1>1, <1>e, OneMoreArrived, ArrivedInLog DEF ReplayInv, LoadedInv
<1>3. unknown_frame_count' = Cardinality(UnknownFrames')
  <2>1. UnknownFrames' = UnknownFrames \cup {n}
    BY <1>1, <1>2 DEF UnknownFrames
  <2>2. UnknownFrames \in SUBSET (1 .. Len(log)) /\ n \notin UnknownFrames
    BY <1>2 DEF UnknownFrames
  <2>3. PICK c \in BOOLEAN : c = TRUE
    OBVIOUS
  <2>4. AddIf(c, Cardinality(UnknownFrames))
            = Cardinality(UnknownFrames \cup (IF c THEN {n} ELSE {}))
    BY <1>2, <2>2, AddIfCounts
  <2> QED BY <1>1, <2>1, <2>3, <2>4 DEF ReplayInv, StatsInv
<1>4. ASSUME NEW j \in DOMAIN db PROVE CountsOf(j)' /\ CounterOf(j)'
  <2>1. j # log[n].can_id /\ StatsOf(j)' = StatsOf(j) /\ CountsOf(j) /\ CounterOf(j)
    BY <1>1 DEF StatsOf, ReplayInv, StatsInv
  <2>2. FramesOf(j)' = FramesOf(j)
    BY <1>1, <1>2, <1>e, <2>1, OtherFramesKept
  <2>3. FieldOf(Max(FramesOf(j)), "counter")' = FieldOf(Max(FramesOf(j)), "counter")
    BY <1>1, <2>2 DEF FieldOf
  <2>4. CounterOf(j)'
    BY <1>1, <2>1, <2>2, <2>3 DEF CounterOf
  <2> QED BY <1>1, <1>2, <1>e, <2>1, <2>4, OtherCountsKept
<1> QED BY <1>1, <1>3, <1>4 DEF StatsInv

\* A step that feeds no frame leaves what is said of the log.
LEMMA SameLog ==
    ASSUME log' = log, db' = db, frameIdx' = frameIdx
    PROVE  /\ UnknownFrames' = UnknownFrames
           /\ \A id : /\ FramesOf(id)' = FramesOf(id) /\ SkipsOf(id)' = SkipsOf(id)
                      /\ BadOf(id)' = BadOf(id)
           /\ \A i, s : FieldOf(i, s)' = FieldOf(i, s)
<1>1. Arrived' = Arrived
  BY DEF Arrived
<1>2. \A id : FramesOf(id)' = FramesOf(id)
  BY <1>1 DEF FramesOf
<1>3. \A i, s : FieldOf(i, s)' = FieldOf(i, s)
  BY DEF FieldOf
<1>4. \A i : Previous(i)' = Previous(i)
  BY <1>2 DEF Previous
<1>5. \A i : Skips(i)' = Skips(i)
  <2> TAKE i
  <2>1. FieldOf(Previous(i), "counter")' = FieldOf(Previous(i), "counter")
    BY <1>4 DEF FieldOf
  <2> QED BY <1>3, <1>4, <2>1 DEF Skips
<1> QED BY <1>1, <1>2, <1>3, <1>5 DEF UnknownFrames, SkipsOf, BadOf

\* A step that leaves the counters of the frames alone keeps the statistics right.
LEMMA StatsKept ==
    ASSUME StatsInv, log' = log, db' = db, frameIdx' = frameIdx, last_counter' = last_counter,
           unknown_frame_count' = unknown_frame_count,
           \A id \in DOMAIN db :
               /\ StatsOf(id)' \in StatRecord
               /\ StatsOf(id)'.frames_received = StatsOf(id).frames_received
               /\ StatsOf(id)'.counter_faults = StatsOf(id).counter_faults
               /\ StatsOf(id)'.checksum_faults = StatsOf(id).checksum_faults
    PROVE  StatsInv'
<1>1. \A id \in DOMAIN db : CountsOf(id)'
  BY SameLog DEF StatsInv, CountsOf
<1>2. ASSUME NEW id \in DOMAIN db PROVE CounterOf(id)'
  <2>1. FieldOf(Max(FramesOf(id)), "counter")' = FieldOf(Max(FramesOf(id)), "counter")
    BY SameLog DEF FieldOf
  <2> QED BY <2>1, SameLog DEF CounterOf, StatsInv
<1> QED BY <1>1, <1>2, SameLog DEF StatsInv

\* A poll counts timeouts only.
LEMMA PollStats ==
    ASSUME ReplayInv, Poll PROVE StatsInv'
<1> PICK now, T : now = logMsNow /\ T = NewTimeouts(now)
  OBVIOUS
<1>1. /\ log' = log /\ db' = db /\ frameIdx' = frameIdx /\ last_counter' = last_counter
      /\ unknown_frame_count' = unknown_frame_count
      /\ stats' = PutAll(stats, [id \in T |->
                                    [StatsOf(id) EXCEPT !.timeout_events = AddIf(TRUE, @)]])
  BY DEF Poll, checkTimeouts
<1>2. ASSUME NEW id \in DOMAIN db
      PROVE  /\ StatsOf(id)' \in StatRecord
             /\ StatsOf(id)'.frames_received = StatsOf(id).frames_received
             /\ StatsOf(id)'.counter_faults = StatsOf(id).counter_faults
             /\ StatsOf(id)'.checksum_faults = StatsOf(id).checksum_faults
  <2>1. StatsOf(id) \in StatRecord
    BY DEF ReplayInv, StatsInv, CountsOf
  <2>2. CASE id \in T
    <3>1. StatsOf(id)' = [StatsOf(id) EXCEPT !.timeout_events = AddIf(TRUE, @)]
      BY <1>1, <2>2 DEF PutAll, StatsOf
    <3>2. \A k \in Nat : AddIf(TRUE, k) \in Nat
      BY DiagnosticsAssumption DEF AddIf
    <3> QED BY <2>1, <3>1, <3>2 DEF StatRecord
  <2>3. CASE id \notin T
    <3>1. StatsOf(id)' = StatsOf(id)
      BY <1>1, <2>3 DEF PutAll, StatsOf
    <3> QED BY <2>1, <3>1
  <2> QED BY <2>2, <2>3
<1> QED BY <1>1, <1>2, StatsKept DEF ReplayInv

\* The program starts with nothing loaded and nothing counted.
LEMMA InitReplay == Init => ReplayInv
<1> SUFFICES ASSUME Init PROVE ReplayInv
  OBVIOUS
<1>1. DOMAIN db = {} /\ log = <<>> /\ frameIdx = 1 /\ unknown_frame_count = 0
  BY DEF Init, DiagInit
<1>2. UnknownFrames = {} /\ Cardinality({}) = 0
  <2>1. Arrived = {}
    BY <1>1 DEF Arrived
  <2> QED BY <2>1, FS_EmptySet DEF UnknownFrames
<1>3. LoadedInv
  <2>1. log \in Seq(FrameRecord) /\ Len(log) = 0
    BY <1>1
  <2>2. 0 < StatModulus /\ frameIdx \in 1 .. Len(log) + 1
    BY <1>1, <2>1, DiagnosticsAssumption
  <2> QED BY <2>1, <2>2 DEF LoadedInv, Init, DiagInit
<1>4. StatsInv /\ VehicleStateIsLatest
  BY <1>1, <1>2 DEF StatsInv, VehicleStateIsLatest
<1> QED BY <1>3, <1>4 DEF ReplayInv

\* The log is a permutation of the frames of the file.
LEMMA SortingIsLog ==
    ASSUME NEW frames \in Seq(FrameRecord), NEW sorted \in Sortings(frames)
    PROVE  sorted \in Seq(FrameRecord) /\ Len(sorted) = Len(frames)
<1>1. PICK order \in [DOMAIN frames -> DOMAIN frames] :
          sorted = [i \in DOMAIN frames |-> frames[order[i]]]
  BY DEF Sortings
<1>2. Len(frames) \in Nat /\ DOMAIN frames = 1 .. Len(frames)
  OBVIOUS
<1>3. sorted \in [1 .. Len(frames) -> FrameRecord]
  BY <1>1, <1>2
<1> QED BY <1>2, <1>3

\* The sorted log is in the order of the timestamps.
LEMMA SortingIsSorted ==
    ASSUME NEW frames \in Seq(FrameRecord), NEW sorted \in Sortings(frames)
    PROVE  \A i, j \in 1 .. Len(sorted) :
              i <= j => sorted[i].timestamp_ms <= sorted[j].timestamp_ms
<1>1. PICK order \in [DOMAIN frames -> DOMAIN frames] :
          /\ sorted = [i \in DOMAIN frames |-> frames[order[i]]]
          /\ \A i, j \in DOMAIN frames :
                i < j => frames[order[i]].timestamp_ms <= frames[order[j]].timestamp_ms
  BY DEF Sortings
<1>2. /\ Len(frames) \in Nat /\ DOMAIN frames = 1 .. Len(frames) /\ Len(sorted) = Len(frames)
  BY SortingIsLog
<1>3. ASSUME NEW i \in DOMAIN frames PROVE frames[order[i]].timestamp_ms \in Int
  <2>1. frames[order[i]] \in FrameRecord
    BY <1>1, <1>2
  <2> QED BY <2>1 DEF FrameRecord
<1>4. ASSUME NEW i \in 1 .. Len(sorted), NEW j \in 1 .. Len(sorted), i <= j
      PROVE  sorted[i].timestamp_ms <= sorted[j].timestamp_ms
  <2>1. /\ sorted[i].timestamp_ms = frames[order[i]].timestamp_ms
        /\ sorted[j].timestamp_ms = frames[order[j]].timestamp_ms
        /\ sorted[i].timestamp_ms \in Int
    BY <1>1, <1>2, <1>3
  <2>2. CASE i = j
    BY <2>1, <2>2
  <2>3. CASE i < j
    BY <1>1, <1>2, <2>1, <2>3
  <2> QED BY <1>2, <1>4, <2>2, <2>3
<1> QED BY <1>4

\* After loading, no frame has arrived.
LEMMA LoadStep ==
    ASSUME ReplayInv, Load PROVE ReplayInv'
<1>1. /\ main = "load" /\ main' = "test" /\ db' = Database.messages
      /\ stats = <<>> /\ last_counter = <<>> /\ state = <<>> /\ log = <<>> /\ file \in Files
      /\ stats' = stats /\ last_counter' = last_counter /\ state' = state
      /\ frameIdx' = frameIdx /\ unknown_frame_count' = unknown_frame_count
      /\ LoadedInv /\ StatsInv
  BY DEF Load, ReplayInv, LoadedInv
<1>2. frameIdx = 1 /\ Arrived = {} /\ Arrived' = {}
  <2>1. frameIdx = 1
    <3>1. Len(log) = 0 /\ frameIdx \in 1 .. Len(log) + 1
      BY <1>1 DEF LoadedInv
    <3> QED BY <3>1
  <2> QED BY <1>1, <2>1 DEF Arrived
<1>3. \A id : FramesOf(id)' = {} /\ SkipsOf(id)' = {} /\ BadOf(id)' = {}
  BY <1>2 DEF FramesOf, SkipsOf, BadOf
<1>4. UnknownFrames = {} /\ UnknownFrames' = {} /\ Cardinality({}) = 0
  BY <1>2, FS_EmptySet DEF UnknownFrames
<1>5. DOMAIN stats' = {} /\ DOMAIN last_counter' = {} /\ DOMAIN state' = {}
  BY <1>1
<1>6. LoadedInv'
  <2>1. /\ readAll(file).ok /\ log' \in Sortings(readAll(file).frames)
    BY DEF Load
  <2>2. /\ readAll(file).frames \in Seq(FrameRecord)
        /\ Len(readAll(file).frames) < StatModulus
    BY <1>1, <2>1, LogAssumption DEF FrameRecord
  <2>3. log' \in Seq(FrameRecord) /\ Len(log') = Len(readAll(file).frames)
    BY <2>1, <2>2, SortingIsLog
  <2>4. frameIdx' \in 1 .. Len(log') + 1
    <3>1. Len(log') \in Nat
      BY <2>3
    <3> QED BY <1>1, <1>2, <3>1
  <2> QED BY <1>1, <2>2, <2>3, <2>4 DEF LoadedInv
<1>7. \A id : StatsOf(id)' = MessageStats
  BY <1>5 DEF StatsOf
<1>8. StatsInv'
  <2>1. \A id : CounterOf(id)'
    BY <1>3, <1>5 DEF CounterOf
  <2>2. \A id : CountsOf(id)'
    BY <1>3, <1>4, <1>7 DEF CountsOf, MessageStats, StatRecord
  <2> QED BY <1>1, <1>4, <2>1, <2>2 DEF StatsInv
<1>9. VehicleStateIsLatest'
  BY <1>3, <1>5 DEF VehicleStateIsLatest
<1> QED BY <1>6, <1>8, <1>9 DEF ReplayInv

-----------------------------------------------------------------------------
(* The vehicle state.                                                      *)

\* What VehicleStateIsLatest says of one field of one message, whose latest frame is
\* at i.
FieldIs(id, f, i) ==
    LET sig == db[id].signals[Str(f)]
    IN  /\ f \in DOMAIN state
        /\ state[f] = CASE f = "gear" -> Gear(sig, FieldOf(i, f))
                        [] f = "brake_pressed" -> FieldOf(i, f) > 0
                        [] OTHER -> FieldValue(log[i].data, sig, db[id].byte_order)
                                    * sig.scale + sig.offset

FieldInv(id, f) ==
    IF ~findSignal(db[id], f) \/ FramesOf(id) = {} THEN f \notin DOMAIN state
    ELSE FieldIs(id, f, Max(FramesOf(id)))

\* VehicleStateIsLatest is that of every field.
LEMMA FieldByField ==
    VehicleStateIsLatest <=> \A id \in DOMAIN db : \A f \in Fields(db[id].name) : FieldInv(id, f)
BY DEF VehicleStateIsLatest, FieldInv, FieldIs

\* Decoding a field of a frame of the message gives the value of the field.
LEMMA DecodedFieldIs ==
    ASSUME LoadedInv, NEW id \in DOMAIN db, NEW i, log[i].can_id = id,
           log[i].data \in FramePayload, NEW f, findSignal(db[id], f)
    PROVE  LET sig == db[id].signals[Str(f)]
           IN  DecodedField(db[id], log[i].data, f) =
                  CASE f = "gear" -> Gear(sig, FieldOf(i, f))
                    [] f = "brake_pressed" -> FieldOf(i, f) > 0
                    [] OTHER -> FieldValue(log[i].data, sig, db[id].byte_order)
                                * sig.scale + sig.offset
<1> DEFINE sig == db[id].signals[Str(f)]
           raw == extractRaw(log[i].data, sig, db[id].byte_order)
<1>1. /\ raw = FieldOf(i, f) /\ raw \in Nat
      /\ decodePhysical(log[i].data, sig, db[id].byte_order)
            = FieldValue(log[i].data, sig, db[id].byte_order) * sig.scale + sig.offset
  BY DecodingOf DEF findSignal, FieldOf
<1>2. (raw # 0) = (FieldOf(i, f) > 0)
  BY <1>1
<1>3. CASE f = "gear"
  BY <1>1, <1>3 DEF DecodedField
<1>4. CASE f = "brake_pressed"
  <2>1. DecodedField(db[id], log[i].data, f) = (raw # 0)
    BY <1>4 DEF DecodedField
  <2> QED BY <1>2, <1>4, <2>1
<1>5. CASE f # "gear" /\ f # "brake_pressed"
  BY <1>1, <1>5 DEF DecodedField
<1> QED BY <1>3, <1>4, <1>5

\* apply() of a known frame.
LEMMA KnownVehicleState ==
    ASSUME ReplayInv, ArriveKnown PROVE VehicleStateIsLatest'
<1>e. PICK n, id : n = frameIdx /\ id = log[n].can_id
  OBVIOUS
<1>1. /\ MoreFrames /\ frameIdx' = frameIdx + 1 /\ log' = log /\ db' = db /\ id \in DOMAIN db
      /\ apply(db[id], log[n]) /\ LoadedInv
  BY <1>e DEF ArriveKnown, NextFrame, Frame, onKnownFrame, ReplayInv
<1>2. /\ log[n].data \in FramePayload /\ Len(log) \in Nat /\ n \in 1 .. Len(log)
      /\ FramesOf(id)' = FramesOf(id) \cup {n} /\ \A i \in Arrived : i < n
      /\ FramesOf(id) \in SUBSET (1 .. Len(log)) /\ FramesOf(id) \subseteq Arrived
  BY <1>1, <1>e, OneMoreArrived, ArrivedInLog DEF FrameRecord
<1>3. Max(FramesOf(id)') = n
  <2> PICK F : F = FramesOf(id)'
    OBVIOUS
  <2>1. F \in SUBSET (0 .. Len(log)) /\ n \in F
    BY <1>2
  <2>2. n \in Int /\ n <= n /\ \A x \in F : x \in Int /\ (x = n \/ x < n)
    BY <1>2
  <2>3. \A x \in F : x <= n
    BY <2>2
  <2>4. Max(F) = n
    BY <1>2, <2>1, <2>3, MaxUnique
  <2> QED BY <2>4
<1>4. /\ \A f \in Fields(db[id].name) : findSignal(db[id], f) =>
            f \in DOMAIN state' /\ state'[f] = DecodedField(db[id], log[n].data, f)
      /\ \A f : f \notin Fields(db[id].name) \/ ~findSignal(db[id], f) =>
            /\ f \in DOMAIN state' <=> f \in DOMAIN state
            /\ f \in DOMAIN state => state'[f] = state[f]
  BY <1>1 DEF apply, PutAll
<1>5. ASSUME NEW f \in Fields(db[id].name) PROVE FieldInv(id, f)'
  <2>1. CASE findSignal(db[id], f)
    <3> PICK i : i = n
      OBVIOUS
    <3>1. FieldIs(id, f, i)'
      <4>1. FieldOf(i, f)' = FieldOf(i, f)
        BY <1>1 DEF FieldOf
      <4> QED BY <1>1, <1>2, <1>4, <1>e, <2>1, <4>1, DecodedFieldIs DEF FieldIs
    <3>2. FieldIs(id, f, Max(FramesOf(id)))'
      BY <1>3, <3>1 DEF FieldIs, FieldOf
    <3> QED BY <1>1, <1>2, <2>1, <3>2 DEF FieldInv
  <2>2. CASE ~findSignal(db[id], f)
    <3>1. f \notin DOMAIN state
      BY <1>1, <2>2, FieldByField DEF FieldInv, ReplayInv
    <3> QED BY <1>1, <1>4, <2>2, <3>1 DEF FieldInv
  <2> QED BY <2>1, <2>2
<1>6. ASSUME NEW j \in DOMAIN db, j # id, NEW f \in Fields(db[j].name) PROVE FieldInv(j, f)'
  <2>1. FieldInv(j, f)
    BY FieldByField DEF ReplayInv
  <2>2. f \notin Fields(db[id].name)
    <3>1. db = Database.messages
      BY <1>1 DEF LoadedInv
    <3> QED BY <1>1, <1>6, <3>1, DatabaseAssumption
  <2>3. /\ f \in DOMAIN state' <=> f \in DOMAIN state
        /\ f \in DOMAIN state => state'[f] = state[f]
    BY <1>4, <2>2
  <2>4. FramesOf(j)' = FramesOf(j)
    BY <1>1, <1>6, <1>e, OtherFramesKept
  <2> QED BY <1>1, <2>1, <2>3, <2>4 DEF FieldInv, FieldIs, FieldOf
<1>7. (VehicleStateIsLatest <=>
          \A j \in DOMAIN db : \A f \in Fields(db[j].name) : FieldInv(j, f))'
  BY DEF VehicleStateIsLatest, FieldInv, FieldIs
<1> QED BY <1>1, <1>5, <1>6, <1>7

\* A step that feeds no frame and leaves the vehicle state.
LEMMA VehicleStateKept ==
    ASSUME VehicleStateIsLatest, log' = log, db' = db, frameIdx' = frameIdx, state' = state
    PROVE  VehicleStateIsLatest'
<1>1. /\ \A id : FramesOf(id)' = FramesOf(id)
      /\ \A i, s : FieldOf(i, s)' = FieldOf(i, s)
  BY SameLog
<1>2. ASSUME NEW id \in DOMAIN db, NEW f \in Fields(db[id].name) PROVE FieldInv(id, f)'
  <2>1. FieldInv(id, f)
    BY FieldByField
  <2>2. FieldOf(Max(FramesOf(id)), f)' = FieldOf(Max(FramesOf(id)), f)
    BY <1>1 DEF FieldOf
  <2> QED BY <1>1, <2>1, <2>2 DEF FieldInv, FieldIs
<1>3. (VehicleStateIsLatest <=>
          \A j \in DOMAIN db : \A f \in Fields(db[j].name) : FieldInv(j, f))'
  BY DEF VehicleStateIsLatest, FieldInv, FieldIs
<1> QED BY <1>2, <1>3

-----------------------------------------------------------------------------
(* The program.                                                            *)

\* A step that changes none of what ReplayInv is about but where main() is.
LEMMA ReplayKept ==
    ASSUME ReplayInv, log' = log, db' = db, frameIdx' = frameIdx, state' = state,
           stats' = stats, last_counter' = last_counter,
           unknown_frame_count' = unknown_frame_count, file' = file,
           main' \in {"load", "failed"} <=> main \in {"load", "failed"},
           main' = "load" => main = "load"
    PROVE  ReplayInv'
<1>1. LoadedInv'
  BY DEF ReplayInv, LoadedInv
<1>2. VehicleStateIsLatest'
  BY VehicleStateKept DEF ReplayInv
<1>3. \A id \in DOMAIN db : StatsOf(id)' = StatsOf(id) /\ StatsOf(id) \in StatRecord
  BY DEF StatsOf, ReplayInv, StatsInv, CountsOf
<1>4. StatsInv'
  BY <1>3, StatsKept DEF ReplayInv
<1> QED BY <1>1, <1>2, <1>4 DEF ReplayInv

\* ReplayInv is inductive.
LEMMA ReplayStep == ReplayInv /\ [Next]_vars => ReplayInv'
<1> SUFFICES ASSUME ReplayInv, [Next]_vars PROVE ReplayInv'
  OBVIOUS
<1>1. CASE Load
  BY <1>1, LoadStep
<1>2. CASE LoadFails
  BY <1>2, ReplayKept DEF LoadFails, diagVars
<1>3. CASE Sleep
  BY <1>3, ReplayKept DEF Sleep, diagVars
<1>4. CASE Poll
  <2>1. /\ log' = log /\ db' = db /\ frameIdx' = frameIdx /\ state' = state
        /\ main = "asleep" /\ main' = "test"
    BY <1>4 DEF Poll, checkTimeouts
  <2>2. LoadedInv'
    BY <2>1 DEF ReplayInv, LoadedInv
  <2> QED BY <1>4, <2>1, <2>2, PollStats, VehicleStateKept DEF ReplayInv
<1>5. CASE ArriveUnknown
  <2>1. /\ MoreFrames /\ frameIdx' = frameIdx + 1 /\ log' = log /\ db' = db /\ state' = state
        /\ main' = main /\ main = "test" /\ log[frameIdx].can_id \notin DOMAIN db /\ LoadedInv
    BY <1>5 DEF ArriveUnknown, NextFrame, Frame, onUnknownFrame, ReplayInv
  <2>2. LoadedInv'
    BY <2>1 DEF LoadedInv, MoreFrames
  <2>3. VehicleStateIsLatest'
    <3> PICK n : n = frameIdx
      OBVIOUS
    <3>1. ASSUME NEW j \in DOMAIN db, NEW f \in Fields(db[j].name) PROVE FieldInv(j, f)'
      <4>1. FieldInv(j, f)
        BY FieldByField DEF ReplayInv
      <4>2. FramesOf(j)' = FramesOf(j)
        BY <2>1, OtherFramesKept
      <4> QED BY <2>1, <4>1, <4>2 DEF FieldInv, FieldIs, FieldOf
    <3>2. (VehicleStateIsLatest <=>
              \A j \in DOMAIN db : \A f \in Fields(db[j].name) : FieldInv(j, f))'
      BY DEF VehicleStateIsLatest, FieldInv, FieldIs
    <3> QED BY <2>1, <3>1, <3>2
  <2> QED BY <1>5, <2>2, <2>3, UnknownStats DEF ReplayInv
<1>6. CASE ArriveKnown
  <2>1. /\ MoreFrames /\ frameIdx' = frameIdx + 1 /\ log' = log /\ db' = db
        /\ main' = main /\ main = "test" /\ LoadedInv
    BY <1>6 DEF ArriveKnown, NextFrame, onKnownFrame, ReplayInv
  <2>2. LoadedInv'
    BY <2>1 DEF LoadedInv, MoreFrames
  <2> QED BY <1>6, <2>2, KnownStats, KnownVehicleState DEF ReplayInv
<1>7. CASE PrintSummary
  BY <1>7, ReplayKept DEF PrintSummary, diagVars
<1>8. CASE Tick
  BY <1>8, ReplayKept DEF Tick, diagVars
<1>9. CASE UNCHANGED vars
  BY <1>9, ReplayKept DEF vars, diagVars, replayVars
<1>10. CASE Exited
  BY <1>9, <1>10 DEF Exited
<1> QED
  BY <1>1, <1>2, <1>3, <1>4, <1>5, <1>6, <1>7, <1>8, <1>9, <1>10 DEF Next, MainStep

\* So it holds throughout the replay.
LEMMA ReplayInductive == Spec => []ReplayInv
BY InitReplay, ReplayStep, PTL DEF Spec

\* For every database, log, speed and lateness: the statistics are at all times those of
\* the frames that have arrived, each counted once under its identifier, with a fault for
\* every jump of a counter and every wrong checksum (diagnostics.cpp:13-73).
THEOREM StatisticsCorrect == Spec => []StatisticsMatchLog
<1>1. ReplayInv => StatisticsMatchLog
  BY DEF ReplayInv, StatsInv, CountsOf, SkipsOf, BadOf, UnknownFrames, StatisticsMatchLog
<1> QED BY <1>1, ReplayInductive, PTL

\* For every database, log, speed and lateness: each field of the vehicle state is that of
\* the latest frame of its message (vehicle_state.cpp:6-31).
THEOREM VehicleStateCorrect == Spec => []VehicleStateIsLatest
<1>1. ReplayInv => VehicleStateIsLatest
  BY DEF ReplayInv
<1> QED BY <1>1, ReplayInductive, PTL

-----------------------------------------------------------------------------
(* The log file.                                                           *)

\* The lines with something on them.
TextLines == {n \in DOMAIN file : file[n] # Blank}

\* A file in which only the last record may be incomplete: up to some line every text is
\* in a three-line block, and fewer than three texts follow.
WellFormed ==
    \E m \in 0 .. Len(file) :
        /\ \A i \in 1 .. m : file[i] # Blank => \E s \in BlockStarts : i \in s .. s + 2
        /\ Cardinality({i \in m + 1 .. Len(file) : file[i] # Blank}) <= 2

\* The three lines of a block are neighbours among the texts, and no two blocks overlap.
LEMMA BlockIs ==
    ASSUME file \in Seq(Lines), NEW s \in BlockStarts
    PROVE  /\ Len(file) \in Nat /\ TextLines \in SUBSET (1 .. Len(file)) /\ s \in Nat
           /\ s \in TextLines /\ s + 1 \in TextLines /\ s + 2 \in TextLines
           /\ RankIn(TextLines, s + 1) = RankIn(TextLines, s) + 1
           /\ RankIn(TextLines, s + 2) = RankIn(TextLines, s) + 2
           /\ \A t \in BlockStarts : t < s => t + 2 < s
<1>1. /\ Len(file) \in Nat /\ DOMAIN file = 1 .. Len(file)
      /\ TextLines \in SUBSET (1 .. Len(file))
  BY DEF TextLines
<1>2. /\ s \in 1 .. Len(file) - 2 /\ \A j \in s .. s + 2 : file[j] # Blank
      /\ s = 1 \/ file[s - 1] = Blank
  BY DEF BlockStarts
<1>3. s \in 1 .. Len(file) /\ s + 1 \in 1 .. Len(file) /\ s + 2 \in 1 .. Len(file) /\ s \in Nat
  BY <1>1, <1>2
<1>4. s \in TextLines /\ s + 1 \in TextLines /\ s + 2 \in TextLines
  <2>1. s \in s .. s + 2 /\ s + 1 \in s .. s + 2 /\ s + 2 \in s .. s + 2
    BY <1>3
  <2> QED BY <1>1, <1>2, <1>3, <2>1 DEF TextLines
<1>5. \A j \in TextLines : j \in Int
  BY <1>1
<1>6. /\ \A j \in TextLines : j < s + 1 => j <= s
      /\ \A j \in TextLines : j < s + 2 => j <= s + 1
  BY <1>3, <1>5
<1> PICK n, T : n = Len(file) /\ T = TextLines
  OBVIOUS
<1>a. n \in Nat /\ T \in SUBSET (1 .. n)
  BY <1>1
<1>7. RankIn(T, s + 1) = RankIn(T, s) + 1
  <2>1. s + 1 \in T /\ s \in T /\ s < s + 1 /\ \A j \in T : j < s + 1 => j <= s
    BY <1>3, <1>4, <1>6
  <2> QED BY <1>a, <2>1, RankOfNext
<1>8. RankIn(T, s + 2) = RankIn(T, s + 1) + 1
  <2>1. s + 2 \in T /\ s + 1 \in T /\ s + 1 < s + 2 /\ \A j \in T : j < s + 2 => j <= s + 1
    BY <1>3, <1>4, <1>6
  <2> QED BY <1>a, <2>1, RankOfNext
<1>9. RankIn(T, s) \in Int
  <2>1. RankIn(T, s) \in 1 .. Cardinality(T)
    BY <1>a, <1>4, RankIs
  <2> QED BY <1>a, <2>1, CountUpTo
<1>10. ASSUME NEW t \in BlockStarts, t < s PROVE t + 2 < s
  <2>1. t \in 1 .. Len(file) - 2 /\ \A j \in t .. t + 2 : file[j] # Blank
    BY DEF BlockStarts
  <2>2. s - 1 \notin t .. t + 2
    BY <1>1, <1>2, <1>3, <1>10, <2>1
  <2> QED BY <1>1, <1>3, <1>10, <2>1, <2>2
<1> QED BY <1>1, <1>3, <1>4, <1>7, <1>8, <1>9, <1>10

\* Three texts are not all after the last block.
LEMMA TailIsShort ==
    ASSUME file \in Seq(Lines), NEW m \in 0 .. Len(file),
           Cardinality({i \in m + 1 .. Len(file) : file[i] # Blank}) <= 2,
           NEW a \in TextLines, NEW b \in TextLines, NEW c \in TextLines, a < b, b < c
    PROVE  a <= m
<1> DEFINE tail == {i \in m + 1 .. Len(file) : file[i] # Blank}
<1>1. Len(file) \in Nat /\ DOMAIN file = 1 .. Len(file)
  OBVIOUS
<1>2. a \in 1 .. Len(file) /\ b \in 1 .. Len(file) /\ c \in 1 .. Len(file)
      /\ file[a] # Blank /\ file[b] # Blank /\ file[c] # Blank
  BY <1>1 DEF TextLines
<1> SUFFICES ASSUME ~(a <= m) PROVE FALSE
  OBVIOUS
<1> PICK one, two, three : one = {a} /\ two = one \cup {b} /\ three = two \cup {c}
  OBVIOUS
<1>3. three \in SUBSET tail /\ b \notin one /\ c \notin two
  BY <1>1, <1>2
<1>4. tail \in SUBSET (1 .. Len(file))
  BY <1>1
<1> HIDE DEF tail
<1>5. IsFiniteSet(tail) /\ Cardinality(tail) \in Nat /\ Cardinality(tail) <= 2
  BY <1>1, <1>4, CountUpTo DEF tail
<1>6. IsFiniteSet(one) /\ Cardinality(one) = 1
  BY FS_Singleton
<1>7. IsFiniteSet(two) /\ Cardinality(two) = 2
  <2>1. IsFiniteSet(two) /\ Cardinality(two) = Cardinality(one) + 1
    BY <1>3, <1>6, FS_AddElement
  <2> QED BY <1>6, <2>1
<1>8. Cardinality(three) = 3 /\ Cardinality(three) <= Cardinality(tail)
  <2>1. Cardinality(three) = Cardinality(two) + 1
    BY <1>3, <1>7, FS_AddElement
  <2>2. Cardinality(three) <= Cardinality(tail)
    BY <1>3, <1>5, FS_Subset
  <2> QED BY <1>7, <2>1, <2>2
<1>9. 3 <= Cardinality(tail)
  BY <1>8
<1> QED BY <1>5, <1>9

\* In a well-formed file every block starts at a text that the reader takes for a timestamp.
LEMMA StartsByThrees ==
    ASSUME file \in Seq(Lines), WellFormed, NEW first \in BlockStarts
    PROVE  \E k \in Nat : RankIn(TextLines, first) = 3 * k + 1
<1> DEFINE T == TextLines
           byThree(s) == \E k \in Nat : RankIn(T, s) = 3 * k + 1
           bad == {s \in BlockStarts : ~byThree(s)}
<1>1. Len(file) \in Nat /\ T \in SUBSET (1 .. Len(file)) /\ DOMAIN file = 1 .. Len(file)
  BY BlockIs
<1> SUFFICES ASSUME bad # {} PROVE FALSE
  OBVIOUS
<1>2. PICK s \in bad : \A t \in bad : s <= t
  <2>1. bad \in SUBSET Nat
    BY BlockIs
  <2> HIDE DEF bad
  <2> QED BY <2>1, SmallestNat
<1>3. s \in BlockStarts /\ ~byThree(s) /\ \A t \in BlockStarts : t < s => byThree(t)
  <2>1. \A t \in BlockStarts : t \in Nat
    BY BlockIs
  <2> HIDE DEF byThree
  <2> QED BY <1>2, <2>1
<1>4. s \in T /\ s + 1 \in T /\ s + 2 \in T /\ s \in Nat /\ RankIn(T, s) \in 1 .. Cardinality(T)
  BY <1>1, <1>3, BlockIs, RankIs
<1> HIDE DEF bad
<1>5. PICK before : before = {j \in T : j < s}
  OBVIOUS
<1>6. before # {}
  <2> SUFFICES ASSUME before = {} PROVE FALSE
    OBVIOUS
  <2>1. ~(RankIn(T, s) >= 2)
    BY <1>1, <1>4, <1>5, RankIs
  <2>2. RankIn(T, s) = 3 * 0 + 1
    BY <1>1, <1>4, <2>1, CountUpTo
  <2> QED BY <1>3, <2>2
<1>7. PICK q \in before : \A j \in before : j <= q
  <2>1. before \in SUBSET (0 .. Len(file))
    <3>1. before \in SUBSET (1 .. Len(file))
      BY <1>1, <1>5
    <3> QED BY <1>1, <3>1
  <2> QED BY <1>1, <1>6, <2>1, MaxIs
<1>8. q \in T /\ q < s /\ q \in 1 .. Len(file) /\ \A j \in T : j < s => j <= q
  BY <1>1, <1>5, <1>7
<1>9. RankIn(T, s) = RankIn(T, q) + 1
  BY <1>1, <1>4, <1>8, RankOfNext
<1>10. PICK m \in 0 .. Len(file) :
           /\ \A i \in 1 .. m : file[i] # Blank => \E t \in BlockStarts : i \in t .. t + 2
           /\ Cardinality({i \in m + 1 .. Len(file) : file[i] # Blank}) <= 2
  BY DEF WellFormed
<1>11. s <= m
  <2>1. s < s + 1 /\ s + 1 < s + 2
    BY <1>4
  <2> QED BY <1>4, <1>10, <2>1, TailIsShort
<1>12. PICK t \in BlockStarts : q \in t .. t + 2
  <2>1. q \in 1 .. m /\ file[q] # Blank
    BY <1>4, <1>8, <1>10, <1>11 DEF TextLines
  <2> QED BY <1>10, <2>1
<1>13. t \in Nat /\ t + 2 \in T /\ RankIn(T, t + 2) = RankIn(T, t) + 2
  BY BlockIs
<1>14. t < s
  BY <1>4, <1>8, <1>12, <1>13
<1>15. t + 2 < s
  BY <1>3, <1>14, BlockIs
<1>16. q = t + 2
  BY <1>8, <1>12, <1>13, <1>15
<1>17. PICK k \in Nat : RankIn(T, t) = 3 * k + 1
  BY <1>3, <1>14
<1>18. RankIn(T, s) = 3 * (k + 1) + 1
  BY <1>9, <1>13, <1>16, <1>17
<1> QED BY <1>3, <1>18

\* The reader's records, by threes of texts, are the blocks: each is one.
LEMMA RecordIsBlock ==
    ASSUME file \in Seq(Lines), WellFormed, NEW k \in 1 .. Cardinality(TextLines) \div 3
    PROVE  /\ Nth(TextLines, 3 * k - 2) \in BlockStarts
           /\ Nth(TextLines, 3 * k - 1) = Nth(TextLines, 3 * k - 2) + 1
           /\ Nth(TextLines, 3 * k) = Nth(TextLines, 3 * k - 2) + 2
<1>0. Len(file) \in Nat /\ DOMAIN file = 1 .. Len(file) /\ TextLines \in SUBSET (1 .. Len(file))
  BY DEF TextLines
<1> PICK n, T : n = Len(file) /\ T = TextLines
  OBVIOUS
<1>1. n \in Nat /\ T \in SUBSET (1 .. n)
  BY <1>0
<1>2. PICK card \in Nat : card = Cardinality(T)
  BY <1>1, CountUpTo
<1>3. k \in Nat /\ 3 * k - 2 \in 1 .. card /\ 3 * k - 1 \in 1 .. card /\ 3 * k \in 1 .. card
  BY <1>2
<1>a. PICK a, b, c : a = Nth(T, 3 * k - 2) /\ b = Nth(T, 3 * k - 1) /\ c = Nth(T, 3 * k)
  OBVIOUS
<1>4. /\ a \in T /\ b \in T /\ c \in T /\ a \in Nat /\ b \in Nat /\ c \in Nat
      /\ RankIn(T, a) = 3 * k - 2 /\ RankIn(T, b) = 3 * k - 1 /\ RankIn(T, c) = 3 * k
  <2>1. /\ a \in T /\ b \in T /\ c \in T
        /\ RankIn(T, a) = 3 * k - 2 /\ RankIn(T, b) = 3 * k - 1 /\ RankIn(T, c) = 3 * k
    <3>1. \A i \in 1 .. card : Nth(T, i) \in T /\ RankIn(T, Nth(T, i)) = i
      BY <1>1, <1>2, NthIs
    <3> QED BY <1>3, <1>a, <3>1
  <2> QED BY <1>1, <2>1
<1>5. a < b /\ b < c
  <2>1. /\ b < a => RankIn(T, b) < RankIn(T, a)
        /\ c < b => RankIn(T, c) < RankIn(T, b)
    BY <1>1, <1>4, RankIs
  <2> QED BY <1>3, <1>4, <2>1
<1>6. PICK m \in 0 .. Len(file) :
           /\ \A i \in 1 .. m : file[i] # Blank => \E t \in BlockStarts : i \in t .. t + 2
           /\ Cardinality({i \in m + 1 .. Len(file) : file[i] # Blank}) <= 2
  BY DEF WellFormed
<1>7. PICK t \in BlockStarts : a \in t .. t + 2
  <2>1. a <= m
    BY <1>4, <1>5, <1>6, TailIsShort
  <2>2. a \in 1 .. m /\ file[a] # Blank
    BY <1>0, <1>4, <1>6, <2>1 DEF TextLines
  <2> QED BY <1>6, <2>2
<1>8. /\ t \in Nat /\ t + 1 \in T /\ t + 2 \in T
      /\ RankIn(T, t + 1) = RankIn(T, t) + 1 /\ RankIn(T, t + 2) = RankIn(T, t) + 2
  BY BlockIs
<1>9. PICK j \in Nat : RankIn(T, t) = 3 * j + 1
  BY StartsByThrees
<1>10. a = t
  <2>1. 3 * j + 1 + 1 # 3 * k - 2 /\ 3 * j + 1 + 2 # 3 * k - 2
    BY <1>3
  <2>2. a # t + 1 /\ a # t + 2
    BY <1>4, <1>8, <1>9, <2>1
  <2>3. a \in {t, t + 1, t + 2}
    BY <1>4, <1>7, <1>8
  <2> QED BY <2>2, <2>3
<1>11. RankIn(T, t + 1) = RankIn(T, b) /\ RankIn(T, t + 2) = RankIn(T, c)
  BY <1>3, <1>4, <1>8, <1>10
<1>12. b = t + 1 /\ c = t + 2
  <2>1. \A i, other \in T : RankIn(T, i) = RankIn(T, other) => i = other
    BY <1>1, NthOfRank
  <2> QED BY <1>4, <1>8, <1>11, <2>1
<1> QED BY <1>a, <1>10, <1>12

\* And every block is a record.
LEMMA BlockIsRecord ==
    ASSUME file \in Seq(Lines), WellFormed, NEW s \in BlockStarts
    PROVE  \E k \in 1 .. Cardinality(TextLines) \div 3 : Nth(TextLines, 3 * k - 2) = s
<1> PICK n, T : n = Len(file) /\ T = TextLines
  OBVIOUS
<1>1. /\ n \in Nat /\ T \in SUBSET (1 .. n) /\ s \in T /\ s + 2 \in T
      /\ RankIn(T, s + 2) = RankIn(T, s) + 2
  BY BlockIs
<1>2. PICK card \in Nat : card = Cardinality(T)
  BY <1>1, CountUpTo
<1>3. PICK j \in Nat : RankIn(T, s) = 3 * j + 1
  BY StartsByThrees
<1>4. RankIn(T, s + 2) \in 1 .. card /\ Nth(T, RankIn(T, s)) = s
  BY <1>1, <1>2, NthOfRank
<1>5. 3 * (j + 1) <= card /\ RankIn(T, s) = 3 * (j + 1) - 2
  BY <1>1, <1>3, <1>4
<1>6. j + 1 \in 1 .. card \div 3
  BY <1>5
<1> QED BY <1>2, <1>4, <1>5, <1>6

\* What readAll makes of the texts.
LEMMA FramesAre ==
    ASSUME file \in Seq(Lines)
    PROVE  LET count == Cardinality(TextLines) \div 3
           IN  /\ count \in Nat /\ Len(readAll(file).frames) = count
               /\ \A k \in 1 .. count :
                     readAll(file).frames[k] = RawFrame(file[Nth(TextLines, 3 * k - 2)],
                                                        file[Nth(TextLines, 3 * k - 1)],
                                                        file[Nth(TextLines, 3 * k)])
<1>0. Len(file) \in Nat /\ DOMAIN file = 1 .. Len(file) /\ TextLines \in SUBSET (1 .. Len(file))
  BY DEF TextLines
<1>1. PICK card \in Nat : card = Cardinality(TextLines)
  BY <1>0, CountUpTo
<1> PICK texts : texts = Selected(file, TextLines)
  OBVIOUS
<1>2. Len(texts) = card /\ \A k \in 1 .. card : texts[k] = file[Nth(TextLines, k)]
  BY <1>0, <1>1, SelectedIs
<1>3. readAll(file).frames =
         [k \in 1 .. card \div 3 |-> RawFrame(texts[3 * k - 2], texts[3 * k - 1], texts[3 * k])]
  BY <1>2 DEF readAll, TextLines
<1>4. PICK count \in Nat : count = card \div 3 /\ 3 * count <= card
  OBVIOUS
<1>5. Len([k \in 1 .. count |-> RawFrame(texts[3 * k - 2], texts[3 * k - 1], texts[3 * k])])
         = count
  OBVIOUS
<1>6. ASSUME NEW k \in 1 .. count
      PROVE  /\ texts[3 * k - 2] = file[Nth(TextLines, 3 * k - 2)]
             /\ texts[3 * k - 1] = file[Nth(TextLines, 3 * k - 1)]
             /\ texts[3 * k] = file[Nth(TextLines, 3 * k)]
  <2>1. 3 * k - 2 \in 1 .. card /\ 3 * k - 1 \in 1 .. card /\ 3 * k \in 1 .. card
    BY <1>4
  <2> QED BY <1>2, <2>1
<1>7. ASSUME NEW k \in 1 .. count
      PROVE  readAll(file).frames[k] = RawFrame(texts[3 * k - 2], texts[3 * k - 1], texts[3 * k])
  BY <1>3, <1>4
<1>8. Len(readAll(file).frames) = count
  BY <1>3, <1>4, <1>5
<1> QED BY <1>1, <1>4, <1>6, <1>7, <1>8

\* IsBlock says of a frame that it is what the reader makes of the block.
LEMMA IsBlockIs ==
    ASSUME file \in Seq(Lines), NEW s \in BlockStarts, NEW frame \in FrameRecord,
           RawFrame(file[s], file[s + 1], file[s + 2]) \in FrameRecord
    PROVE  IsBlock(s, frame) <=> frame = RawFrame(file[s], file[s + 1], file[s + 2])
<1> PICK raw \in FrameRecord : raw = RawFrame(file[s], file[s + 1], file[s + 2])
  OBVIOUS
<1>1. s + 2 \in TextLines
  BY BlockIs
<1>2. s + 2 \in DOMAIN file /\ file[s + 2] # Blank
  BY <1>1 DEF TextLines
<1>3. file[s + 2] \in Lines
  BY <1>2
<1>4. PICK bytes \in Seq(Int \cup {Throws}) : bytes = file[s + 2].bytes
  BY <1>2, <1>3 DEF Lines
<1>5. PICK l \in Nat, top \in Nat : l = Len(bytes) /\ top = PayloadBytes
  BY PayloadAssumption
<1>6. PICK short \in Nat : short = (IF l <= top THEN l ELSE top) /\ short = Smaller(l, top)
  BY DEF Smaller
<1>7. /\ Len(Words(file[s + 2])) = short
      /\ \A b \in 1 .. short : Words(file[s + 2])[b] = bytes[b]
  <2>1. Words(file[s + 2]) = SubSeq(bytes, 1, short)
    BY <1>4, <1>5, <1>6 DEF Words
  <2>2. short <= Len(bytes)
    BY <1>5, <1>6
  <2>3. /\ Len(SubSeq(bytes, 1, short)) = short
        /\ \A b \in 1 .. short : SubSeq(bytes, 1, short)[b] = bytes[b]
    BY <2>2
  <2> QED BY <2>1, <2>3
<1>8. /\ raw.timestamp_ms = file[s].long /\ raw.can_id = file[s + 1].hex /\ raw.dlc = short
      /\ \A b \in 1 .. top : raw.data[b] = IF b <= l THEN bytes[b] % 2 ^ ByteBits ELSE 0
  <2> PICK words : words = Words(file[s + 2])
    OBVIOUS
  <2>1. /\ raw.timestamp_ms = file[s].long /\ raw.can_id = file[s + 1].hex
        /\ raw.dlc = Len(words)
        /\ raw.data = [b \in 1 .. top |->
              IF b <= Len(words) THEN words[b] % 2 ^ ByteBits ELSE 0]
    BY <1>5 DEF RawFrame
  <2>2. ASSUME NEW b \in 1 .. top
        PROVE  raw.data[b] = IF b <= l THEN bytes[b] % 2 ^ ByteBits ELSE 0
    <3>1. raw.data[b] = IF b <= short THEN words[b] % 2 ^ ByteBits ELSE 0
      BY <1>7, <2>1
    <3>2. b <= short <=> b <= l
      BY <1>6
    <3>3. b <= short => words[b] = bytes[b]
      BY <1>7
    <3> QED BY <3>1, <3>2, <3>3
  <2> QED BY <1>7, <2>1, <2>2
<1>9. IsBlock(s, frame) <=>
         /\ frame.timestamp_ms = raw.timestamp_ms /\ frame.can_id = raw.can_id
         /\ frame.dlc = raw.dlc /\ \A b \in 1 .. top : frame.data[b] = raw.data[b]
  BY <1>4, <1>5, <1>6, <1>8 DEF IsBlock
<1>10. /\ frame.data \in [1 .. top -> 0 .. 2 ^ ByteBits - 1]
       /\ raw.data \in [1 .. top -> 0 .. 2 ^ ByteBits - 1]
  BY <1>5 DEF FrameRecord, FramePayload
<1>11. frame.data = raw.data <=> \A b \in 1 .. top : frame.data[b] = raw.data[b]
  BY <1>10
<1>12. frame = raw <=> /\ frame.timestamp_ms = raw.timestamp_ms /\ frame.can_id = raw.can_id
                       /\ frame.dlc = raw.dlc /\ frame.data = raw.data
  BY DEF FrameRecord
<1> QED BY <1>9, <1>11, <1>12

\* The log is a sorting of what readAll made of the file.
BlocksInv ==
    /\ main = "load" => file \in Files
    /\ main \notin {"load", "failed"} =>
          /\ file \in Files /\ readAll(file).ok
          /\ log \in Sortings(readAll(file).frames)

\* Of a sorting of the frames of a well-formed file LogIsCompleteBlocks holds.
LEMMA SortingOfBlocks ==
    ASSUME file \in Files, readAll(file).ok, log \in Sortings(readAll(file).frames), WellFormed
    PROVE  LogIsCompleteBlocks
<1>1. file \in Seq(Lines) /\ readAll(file).frames \in Seq(FrameRecord)
  BY LogAssumption DEF FrameRecord
<1>a. PICK frames \in Seq(FrameRecord) : frames = readAll(file).frames
  BY <1>1
<1>b. PICK T, count : T = TextLines /\ count = Cardinality(TextLines) \div 3
  OBVIOUS
<1>2. /\ count \in Nat /\ Len(frames) = count /\ DOMAIN frames = 1 .. count
      /\ \A k \in 1 .. count :
            frames[k] = RawFrame(file[Nth(T, 3 * k - 2)], file[Nth(T, 3 * k - 1)],
                                 file[Nth(T, 3 * k)])
  BY <1>1, <1>a, <1>b, FramesAre
<1>3. PICK start : start = [k \in 1 .. count |-> Nth(T, 3 * k - 2)]
  OBVIOUS
<1>4. ASSUME NEW k \in 1 .. count
      PROVE  /\ start[k] \in BlockStarts /\ frames[k] \in FrameRecord
             /\ frames[k] = RawFrame(file[start[k]], file[start[k] + 1], file[start[k] + 2])
  <2>1. /\ Nth(T, 3 * k - 2) \in BlockStarts
        /\ Nth(T, 3 * k - 1) = Nth(T, 3 * k - 2) + 1
        /\ Nth(T, 3 * k) = Nth(T, 3 * k - 2) + 2
    BY <1>1, <1>b, RecordIsBlock
  <2>2. start[k] = Nth(T, 3 * k - 2) /\ frames[k] \in FrameRecord
    BY <1>2, <1>3
  <2> QED BY <1>2, <2>1, <2>2
<1>5. \A s \in BlockStarts : \E k \in 1 .. count : start[k] = s
  BY <1>1, <1>3, <1>b, BlockIsRecord
<1>6. ASSUME NEW i \in 1 .. count, NEW j \in 1 .. count, start[i] = start[j] PROVE i = j
  <2>0. Len(file) \in Nat /\ T \in SUBSET (1 .. Len(file))
    BY <1>1, <1>b DEF TextLines
  <2>1. PICK card \in Nat : card = Cardinality(T)
    BY <2>0, CountUpTo
  <2>2. 3 * i - 2 \in 1 .. card /\ 3 * j - 2 \in 1 .. card
    BY <1>b, <2>1
  <2>3. RankIn(T, start[i]) = 3 * i - 2 /\ RankIn(T, start[j]) = 3 * j - 2
    <3>1. \A k \in 1 .. card : RankIn(T, Nth(T, k)) = k
      BY <2>0, <2>1, NthIs
    <3> QED BY <1>3, <2>2, <3>1
  <2>4. 3 * i - 2 = 3 * j - 2
    BY <1>6, <2>3
  <2> QED BY <1>2, <2>4
<1>7. PICK order \in [1 .. count -> 1 .. count] :
         /\ log = [i \in 1 .. count |-> frames[order[i]]]
         /\ \A i, j \in 1 .. count : order[i] = order[j] => i = j
  <2>1. PICK order \in [DOMAIN frames -> DOMAIN frames] :
           /\ log = [i \in DOMAIN frames |-> frames[order[i]]]
           /\ \A i, j \in DOMAIN frames : order[i] = order[j] => i = j
    BY <1>a DEF Sortings
  <2> QED BY <1>2, <2>1
<1>8. \A k \in 1 .. count : \E i \in 1 .. count : order[i] = k
  <2>1. count \in Nat
    BY <1>2
  <2>2. order \in [1 .. count -> 1 .. count]
        /\ (\A i, j \in 1 .. count : order[i] = order[j] => i = j)
    BY <1>7
  <2> QED BY <2>1, <2>2, InjectiveIsOnto, ZenonT(30)
<1>9. /\ Len(log) = count /\ DOMAIN log = 1 .. count /\ log \in Seq(FrameRecord)
      /\ \A i \in 1 .. count : log[i] = frames[order[i]]
  BY <1>2, <1>7, <1>a, SortingIsLog
<1>10. IsFiniteSet(1 .. count) /\ Cardinality(1 .. count) = count
  <2>1. 1 \in Int /\ count \in Int
    BY <1>2
  <2>2. /\ IsFiniteSet(1 .. count)
        /\ Cardinality(1 .. count) = IF 1 > count THEN 0 ELSE count - 1 + 1
    BY <2>1, FS_Interval
  <2> QED BY <1>2, <2>2
<1>11. Cardinality(BlockStarts) = count
  <2>1. start \in [1 .. count -> BlockStarts]
    BY <1>3, <1>4
  <2>2. \A i, j \in 1 .. count : start[i] = start[j] => i = j
    BY <1>6
  <2>3. Cardinality(BlockStarts) = Cardinality(1 .. count)
    BY <1>5, <1>10, <2>1, <2>2, OneToOne, ZenonT(30)
  <2> QED BY <1>10, <2>3
<1>12. ASSUME NEW n \in DOMAIN log
       PROVE  Cardinality({i \in BlockStarts : IsBlock(i, log[n])})
                = Cardinality({m \in DOMAIN log : log[m] = log[n]})
  <2> PICK frame \in FrameRecord : frame = log[n]
    BY <1>9
  <2>a. PICK A, B : A = {i \in BlockStarts : IsBlock(i, frame)}
                    /\ B = {m \in 1 .. count : log[m] = frame}
    OBVIOUS
  <2>1. ASSUME NEW k \in 1 .. count PROVE start[k] \in A <=> frames[k] = frame
    <3> PICK s \in BlockStarts : s = start[k]
      BY <1>4
    <3>1. /\ RawFrame(file[s], file[s + 1], file[s + 2]) \in FrameRecord
          /\ frames[k] = RawFrame(file[s], file[s + 1], file[s + 2])
      BY <1>4
    <3>2. IsBlock(s, frame) <=> frame = RawFrame(file[s], file[s + 1], file[s + 2])
      BY <1>1, <3>1, IsBlockIs
    <3> QED BY <2>a, <3>1, <3>2
  <2>2. PICK h : h = [m \in B |-> start[order[m]]]
    OBVIOUS
  <2>3. h \in [B -> A]
    <3>1. ASSUME NEW m \in B PROVE start[order[m]] \in A
      <4>1. m \in 1 .. count /\ order[m] \in 1 .. count /\ frames[order[m]] = frame
        BY <1>7, <1>9, <2>a
      <4> QED BY <2>1, <4>1
    <3> QED BY <2>2, <3>1
  <2>4. \A x, y \in B : h[x] = h[y] => x = y
    <3> SUFFICES ASSUME NEW x \in B, NEW y \in B, h[x] = h[y] PROVE x = y
      OBVIOUS
    <3>1. x \in 1 .. count /\ y \in 1 .. count /\ start[order[x]] = start[order[y]]
      BY <2>2, <2>a
    <3>2. order[x] = order[y]
      BY <1>6, <1>7, <3>1
    <3> QED BY <1>7, <3>1, <3>2
  <2>5. \A z \in A : \E x \in B : h[x] = z
    <3> SUFFICES ASSUME NEW z \in A PROVE \E x \in B : h[x] = z
      OBVIOUS
    <3>1. PICK k \in 1 .. count : start[k] = z
      BY <1>5, <2>a
    <3>2. PICK x \in 1 .. count : order[x] = k
      BY <1>8
    <3>3. x \in B
      BY <1>9, <2>1, <2>a, <3>1, <3>2
    <3> QED BY <2>2, <3>1, <3>2, <3>3
  <2>6. IsFiniteSet(B)
    BY <1>2, <2>a, CountUpTo
  <2>7. Cardinality(A) = Cardinality(B)
    BY <2>3, <2>4, <2>5, <2>6, OneToOne, ZenonT(30)
  <2> QED BY <1>9, <2>7, <2>a
<1>13. ASSUME NEW n \in 1 .. Len(log) - 1 PROVE Time(n) <= Time(n + 1)
  <2>1. n \in 1 .. Len(log) /\ n + 1 \in 1 .. Len(log) /\ n <= n + 1 /\ n # 0 /\ n + 1 # 0
    <3>1. count \in Nat /\ Len(log) = count
      BY <1>2, <1>9
    <3>2. n \in 1 .. count - 1
      BY <1>13, <3>1
    <3>3. n \in 1 .. count /\ n + 1 \in 1 .. count /\ n <= n + 1 /\ n # 0 /\ n + 1 # 0
      BY <3>1, <3>2
    <3> QED BY <3>1, <3>3
  <2>2. log[n].timestamp_ms <= log[n + 1].timestamp_ms
    BY <1>a, <2>1, SortingIsSorted
  <2> QED BY <2>1, <2>2 DEF Time
<1> QED BY <1>9, <1>11, <1>12, <1>13 DEF LogIsCompleteBlocks

\* For every file in which only the last record may be incomplete: the log that is
\* replayed holds its three-line blocks, each as often as it is there, by timestamp
\* (frame_log_reader.cpp:20-68).
THEOREM BlocksCorrect == Spec => [](WellFormed => LogIsCompleteBlocks)
<1>1. Init => BlocksInv
  BY DEF Init, BlocksInv
<1>2. BlocksInv /\ [Next]_vars => BlocksInv'
  <2> SUFFICES ASSUME BlocksInv, [Next]_vars PROVE BlocksInv'
    OBVIOUS
  <2>1. file' = file
    BY DEF Next, MainStep, Load, LoadFails, Sleep, Poll, ArriveUnknown, ArriveKnown,
           PrintSummary, Exited, Tick, vars, replayVars
  <2>2. CASE Load
    <3>1. /\ main = "load" /\ main' = "test"
          /\ readAll(file).ok /\ log' \in Sortings(readAll(file).frames)
      BY <2>2 DEF Load
    <3> QED BY <2>1, <3>1 DEF BlocksInv
  <2>3. CASE LoadFails
    BY <2>3 DEF LoadFails, BlocksInv
  <2>4. CASE ~Load /\ ~LoadFails
    <3>1. log' = log /\ (main' = main \/ {main, main'} \cap {"load", "failed"} = {})
      BY <2>4 DEF Next, MainStep, Sleep, Poll, ArriveUnknown, ArriveKnown,
             PrintSummary, Exited, Tick, vars, replayVars
    <3> QED BY <2>1, <3>1 DEF BlocksInv
  <2> QED BY <2>2, <2>3, <2>4
<1>3. BlocksInv => (WellFormed => LogIsCompleteBlocks)
  <2>1. main \in {"load", "failed"} => LogIsCompleteBlocks
    BY DEF LogIsCompleteBlocks
  <2> QED BY <2>1, SortingOfBlocks DEF BlocksInv
<1> QED BY <1>1, <1>2, <1>3, PTL DEF Spec
=============================================================================
