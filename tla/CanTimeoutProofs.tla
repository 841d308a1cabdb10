---------------------------- MODULE CanTimeoutProofs ----------------------------
(***************************************************************************)
(* Proofs about the timeouts of CanReplay, for every database, every log,  *)
(* every speed and every lateness of the thread: which gaps of the log     *)
(* are reported, and that no loss of frames goes unnoticed.  The times of  *)
(* the polls are not part of the state; what is known of them follows from *)
(* how far the clock can be past wake, when the thread was due to run.     *)
(***************************************************************************)
EXTENDS CanReplayProofs

\* The latest frame of a message, 0 if there is none yet: the gap that follows it is
\* open, those that follow the earlier ones, and the start, are closed.
Latest(id) == Max({0} \cup FramesOf(id))
Closed(id) == ({0} \cup FramesOf(id)) \ {Latest(id)}

\* The end of the gap that follows i, which is the start of the replay if i is 0.
End(id, i) == Min({Len(log)} \cup {j \in FramesOf(id) : j > i})

\* If the gap that follows i lasts until the frame at n, a poll may, or must, report it.
MayReport(id, i, n) == IF i = 0 THEN Time(n) > 0 ELSE Time(n) - Time(i) > Threshold(id) - Ahead
MustReport(id, i, n) ==
    \E k \in i .. n - 1 :
        PolledAfter(k) /\ (i # 0 => Time(k + 1) - Time(i) > Threshold(id) + Behind)

MayOf(id) == {i \in Closed(id) : MayReport(id, i, End(id, i))}
MustOf(id) == {i \in Closed(id) : MustReport(id, i, End(id, i))}

\* The message is missing at time t, and it has been reported so.
Missing(id, t) == FramesOf(id) # {} => t - Time(Latest(id)) > Threshold(id)
Reported(id) == id \in DOMAIN currently_timed_out /\ currently_timed_out[id] = TRUE
Open(id) == IF Reported(id) THEN 1 ELSE 0

\* The frame that is waited for, or the last one.
Coming == Smaller(frameIdx, Len(log))

\* Where the clock can be: the thread is due no later than the next frame.
ClockInv ==
    /\ clock \in Nat /\ wake \in Nat /\ speed \in Nat \ {0} /\ lateness \in Nat
    /\ \A i, j \in 1 .. Len(log) : i <= j => Time(i) <= Time(j)
    /\ main = "load" =>
          clock = 0 /\ wake = 0 /\ last_seen_ms = <<>> /\ currently_timed_out = <<>>
    /\ clock <= wake + lateness
    /\ MoreFrames => wake <= Time(frameIdx) * TicksPerMs \/ wake = 0
    /\ main = "asleep" => MoreFrames /\ Time(frameIdx) > 0

\* What the engine remembers of a message is that of its latest frame and of the polls.
SeenInv(id) ==
    /\ id \in DOMAIN last_seen_ms <=> FramesOf(id) # {}
    /\ FramesOf(id) # {} => last_seen_ms[id] = Time(Latest(id))
    /\ id \in DOMAIN currently_timed_out => currently_timed_out[id] \in BOOLEAN

\* The open gap is reported if it must be, and only if it may be; once it is, it stays so.
\* If the thread was due after the last frame, it has polled then.
OpenInv(id) ==
    /\ Reported(id) => Missing(id, logMsNow) /\ MayReport(id, Latest(id), Coming)
    /\ MustReport(id, Latest(id), frameIdx - 1) => Reported(id)
    /\ main = "test" =>
          \/ wake <= Time(frameIdx - 1) * TicksPerMs \/ wake = 0
          \/ Missing(id, wake \div TicksPerMs) => Reported(id)

\* The events are those of the closed gaps and of the open one.
EventsInv(id) ==
    /\ Cardinality(MustOf(id)) + Open(id) <= StatsOf(id).timeout_events
    /\ StatsOf(id).timeout_events <= Cardinality(MayOf(id)) + Open(id)

MessageInv(id) == SeenInv(id) /\ OpenInv(id) /\ EventsInv(id)

TimeoutInv == ClockInv /\ \A id \in DOMAIN db : MessageInv(id)
-----------------------------------------------------------------------------
(* Numbers.                                                                *)

\* The smallest of some numbers up to n.
LEMMA MinIs ==
    ASSUME NEW n \in Nat, NEW S \in SUBSET (0 .. n), S # {}
    PROVE  Min(S) \in S /\ \A x \in S : Min(S) <= x
<1>1. \E m \in S : \A x \in S : m <= x
  <2>1. S \in SUBSET Nat
    OBVIOUS
  <2> QED BY <2>1, SmallestNat
<1> QED BY <1>1 DEF Min

\* A number that is at most every member of a set, and one of them.
LEMMA MinUnique ==
    ASSUME NEW n \in Nat, NEW S \in SUBSET (0 .. n), NEW m \in S, \A x \in S : m <= x
    PROVE  Min(S) = m
<1>1. Min(S) \in S /\ \A x \in S : Min(S) <= x
  BY MinIs
<1>2. \A x \in S : x \in Int
  OBVIOUS
<1>3. PICK k : k = Min(S)
  OBVIOUS
<1>4. k \in Int /\ m \in Int
  BY <1>1, <1>2, <1>3
<1>5. m <= k /\ k <= m
  BY <1>1, <1>3
<1>6. k = m
  BY <1>4, <1>5
<1> QED BY <1>3, <1>6

\* A number in steps of s, and a comparison of multiples of s.
LEMMA Divided ==
    ASSUME NEW x \in Nat, NEW s \in Nat \ {0}
    PROVE  x \div s \in Nat /\ (x \div s) * s <= x /\ x < (x \div s) * s + s
<1>1. PICK q \in Nat, r \in 0 .. s - 1 : x = q * s + r /\ q = x \div s
  OBVIOUS
<1>2. PICK m \in Nat : m = q * s
  BY <1>1
<1>3. m <= x /\ x < m + s
  BY <1>1, <1>2
<1> QED BY <1>1, <1>2, <1>3

\* A larger multiple is one of a larger number.
LEMMA Multiples ==
    ASSUME NEW a \in Int, NEW b \in Int, NEW s \in Nat \ {0}
    PROVE  /\ a * s \in Int /\ (a + b) * s = a * s + b * s /\ (a - b) * s = a * s - b * s
           /\ a <= b <=> a * s <= b * s
<1>1. /\ a * s \in Int /\ (a + b) * s = a * s + b * s /\ (a - b) * s = a * s - b * s
  OBVIOUS
<1>2. a <= b <=> a * s <= b * s
  OBVIOUS
<1> QED BY <1>1, <1>2

\* The time in milliseconds does not go back.
LEMMA DividedInOrder ==
    ASSUME NEW x \in Nat, NEW y \in Nat, NEW s \in Nat \ {0}, x <= y
    PROVE  x \div s <= y \div s
<1>1. PICK a, b : a = x \div s /\ b = y \div s
  OBVIOUS
<1>2. a \in Nat /\ a * s <= x /\ b \in Nat /\ y < b * s + s
  BY <1>1, Divided
<1>3. PICK u, v : u = a * s /\ v = b * s /\ u \in Int /\ v \in Int
  BY <1>2, Multiples
<1>4. (b + 1) * s = v + s
  BY <1>2, <1>3, Multiples
<1>5. ~((b + 1) * s <= a * s)
  BY <1>2, <1>3, <1>4
<1>6. ~(b + 1 <= a)
  BY <1>2, <1>5, Multiples
<1> QED BY <1>1, <1>2, <1>6

\* Milliseconds read at w, when t ticks over at most late after it.
LEMMA ReadBehind ==
    ASSUME NEW w \in Nat, NEW t \in Int, NEW late \in Nat, NEW s \in Nat \ {0},
           t * s <= w + late
    PROVE  t <= w \div s + (late + s - 1) \div s
<1>1. late + s - 1 \in Nat
  OBVIOUS
<1>2. PICK x : x = late + s - 1
  OBVIOUS
<1>3. PICK a, b : a = w \div s /\ b = x \div s
  OBVIOUS
<1>4. a \in Nat /\ w < a * s + s /\ b \in Nat /\ x < b * s + s
  BY <1>1, <1>2, <1>3, Divided
<1>5. PICK u, v, m : u = a * s /\ v = b * s /\ m = t * s /\ u \in Int /\ v \in Int /\ m \in Int
  BY <1>4, Multiples
<1>6. late <= v
  BY <1>2, <1>4, <1>5
<1>7. m < u + v + s
  BY <1>4, <1>5, <1>6
<1>8. (a + b + 1) * s = u + v + s
  BY <1>4, <1>5
<1>9. ~((a + b + 1) * s <= t * s)
  BY <1>5, <1>7, <1>8
<1>10. ~(a + b + 1 <= t)
  BY <1>4, <1>9, Multiples
<1>11. t <= a + b
  BY <1>4, <1>10
<1> QED BY <1>2, <1>3, <1>11

\* Milliseconds read at most late after t.
LEMMA ReadAhead ==
    ASSUME NEW w \in Nat, NEW t \in Int, NEW late \in Nat, NEW s \in Nat \ {0},
           w <= t * s + late
    PROVE  w \div s <= t + late \div s
<1>1. PICK a, b : a = w \div s /\ b = late \div s
  OBVIOUS
<1>2. a \in Nat /\ a * s <= w /\ b \in Nat /\ late < b * s + s
  BY <1>1, Divided
<1>3. PICK u, v, m : u = a * s /\ v = b * s /\ m = t * s /\ u \in Int /\ v \in Int /\ m \in Int
  BY <1>2, Multiples
<1>4. u < m + v + s
  BY <1>2, <1>3
<1>5. (t + b + 1) * s = m + v + s
  BY <1>2, <1>3
<1>6. ~((t + b + 1) * s <= a * s)
  BY <1>3, <1>4, <1>5
<1>7. ~(t + b + 1 <= a)
  BY <1>2, <1>6, Multiples
<1>8. a <= t + b
  BY <1>2, <1>7
<1> QED BY <1>1, <1>8

-----------------------------------------------------------------------------
(* The frames of a message and the gaps between them.                      *)

\* Times and thresholds are numbers.
LEMMA TimesAreNumbers ==
    ASSUME LoadedInv
    PROVE  /\ \A i \in 0 .. Len(log) : Time(i) \in Int
           /\ MoreFrames => frameIdx \in 1 .. Len(log) /\ Frame.timestamp_ms = Time(frameIdx)
           /\ \A id \in DOMAIN db : Threshold(id) \in Int
<1>1. log \in Seq(FrameRecord) /\ Len(log) \in Nat /\ frameIdx \in 1 .. Len(log) + 1
  BY DEF LoadedInv
<1>2. ASSUME NEW i \in 1 .. Len(log) PROVE log[i].timestamp_ms \in Int
  <2>1. log[i] \in FrameRecord
    BY <1>1
  <2> QED BY <2>1 DEF FrameRecord
<1>3. \A i \in 0 .. Len(log) : Time(i) \in Int
  BY <1>1, <1>2 DEF Time
<1>4. MoreFrames => frameIdx \in 1 .. Len(log) /\ Frame.timestamp_ms = Time(frameIdx)
  BY <1>1 DEF MoreFrames, Frame, Time
<1>5. ASSUME NEW id \in DOMAIN db PROVE Threshold(id) \in Int
  <2>1. db = Database.messages
    BY DEF LoadedInv
  <2>2. db[id].period_ms \in Nat
    BY <2>1, DatabaseAssumption
  <2>3. kTimeoutMultiplier \in Nat
    BY DiagnosticsAssumption
  <2> QED BY <2>2, <2>3 DEF Threshold
<1> QED BY <1>3, <1>4, <1>5

\* The latest frame of a message.
LEMMA LatestIs ==
    ASSUME LoadedInv, NEW id
    PROVE  /\ Latest(id) \in 0 .. frameIdx - 1 /\ Latest(id) \in {0} \cup FramesOf(id)
           /\ \A i \in FramesOf(id) : i <= Latest(id)
           /\ FramesOf(id) = {} <=> Latest(id) = 0
           /\ FramesOf(id) \in SUBSET (1 .. frameIdx - 1)
           /\ frameIdx \in Nat /\ Len(log) \in Nat /\ frameIdx - 1 \in 0 .. Len(log)
<1>1. Len(log) \in Nat /\ frameIdx \in 1 .. Len(log) + 1
  BY DEF LoadedInv
<1>2. FramesOf(id) \in SUBSET (1 .. frameIdx - 1)
  BY DEF FramesOf, Arrived
<1> PICK S, n : S = {0} \cup FramesOf(id) /\ n = frameIdx - 1
  OBVIOUS
<1>3. n \in Nat /\ S \in SUBSET (0 .. n) /\ S # {}
  BY <1>1, <1>2
<1>4. Max(S) \in S /\ \A x \in S : x <= Max(S)
  BY <1>3, MaxIs
<1>5. Latest(id) \in S /\ \A x \in S : x <= Latest(id)
  BY <1>4 DEF Latest
<1>6. FramesOf(id) = {} <=> Latest(id) = 0
  <2>1. ASSUME NEW i \in FramesOf(id) PROVE Latest(id) # 0
    <3>1. i \in Nat /\ i >= 1 /\ i <= Latest(id)
      BY <1>1, <1>2, <1>5
    <3> QED BY <3>1
  <2> QED BY <1>5, <2>1
<1> QED BY <1>1, <1>2, <1>3, <1>5, <1>6

\* The end of a closed gap is the next frame of the message.
LEMMA EndIs ==
    ASSUME LoadedInv, NEW id, NEW i \in Closed(id)
    PROVE  /\ End(id, i) \in FramesOf(id) /\ End(id, i) > i /\ i \in Nat
           /\ \A j \in FramesOf(id) : j > i => End(id, i) <= j
<1> PICK S, l : S = {Len(log)} \cup {j \in FramesOf(id) : j > i} /\ l = Latest(id)
  OBVIOUS
<1>1. /\ FramesOf(id) \in SUBSET (1 .. frameIdx - 1) /\ Len(log) \in Nat /\ frameIdx \in Nat
      /\ frameIdx - 1 \in 0 .. Len(log)
      /\ l \in {0} \cup FramesOf(id) /\ \A j \in FramesOf(id) : j <= l
      /\ i \in {0} \cup FramesOf(id) /\ i # l
  BY LatestIs DEF Closed
<1>2. i \in Nat /\ l \in Nat /\ l > i /\ l \in FramesOf(id)
  BY <1>1
<1>3. S \in SUBSET (0 .. Len(log)) /\ l \in S
  BY <1>1, <1>2
<1>4. PICK m : m = Min(S)
  OBVIOUS
<1>5. m \in S /\ \A x \in S : m <= x
  BY <1>1, <1>3, <1>4, MinIs
<1>6. m \in FramesOf(id) /\ m > i
  <2>1. m <= l /\ m \in 0 .. Len(log) /\ l <= Len(log)
    BY <1>1, <1>2, <1>3, <1>5
  <2>2. CASE m = Len(log)
    <3>1. m = l
      BY <1>1, <1>2, <2>1, <2>2
    <3> QED BY <1>2, <3>1
  <2>3. CASE m # Len(log)
    BY <1>5, <2>3
  <2> QED BY <2>2, <2>3
<1>7. End(id, i) = m
  BY <1>4 DEF End
<1>8. \A j \in FramesOf(id) : j > i => m <= j
  BY <1>5
<1> QED BY <1>2, <1>6, <1>7, <1>8

\* The gaps of a message that no frame is added to.
LEMMA GapsKept ==
    ASSUME NEW id, FramesOf(id)' = FramesOf(id), log' = log, db' = db,
           speed' = speed, lateness' = lateness
    PROVE  /\ Latest(id)' = Latest(id) /\ Closed(id)' = Closed(id)
           /\ \A i : Time(i)' = Time(i) /\ PolledAfter(i)' = PolledAfter(i)
           /\ \A i, n : MayReport(id, i, n)' = MayReport(id, i, n)
           /\ \A i, n : MustReport(id, i, n)' = MustReport(id, i, n)
           /\ MayOf(id)' = MayOf(id) /\ MustOf(id)' = MustOf(id)
           /\ Threshold(id)' = Threshold(id)
<1>1. Latest(id)' = Latest(id) /\ Threshold(id)' = Threshold(id)
  BY DEF Latest, Threshold
<1>2. Closed(id)' = Closed(id)
  BY <1>1 DEF Closed
<1>3. \A i : Time(i)' = Time(i)
  BY DEF Time
<1>4. \A i : PolledAfter(i)' = PolledAfter(i)
  BY <1>3 DEF PolledAfter
<1>0. Ahead' = Ahead /\ Behind' = Behind
  BY DEF Ahead, Behind
<1>5. \A i, n : MayReport(id, i, n)' = MayReport(id, i, n)
  BY <1>0, <1>1, <1>3 DEF MayReport
<1>6. \A i, n : MustReport(id, i, n)' = MustReport(id, i, n)
  BY <1>0, <1>1, <1>3, <1>4 DEF MustReport
<1>7. \A i : End(id, i)' = End(id, i)
  BY DEF End
<1>8. \A i : MayReport(id, i, End(id, i))' = MayReport(id, i, End(id, i))
  BY <1>0, <1>1, <1>3, <1>7 DEF MayReport
<1>9. \A i : MustReport(id, i, End(id, i))' = MustReport(id, i, End(id, i))
  BY <1>0, <1>1, <1>3, <1>4, <1>7 DEF MustReport
<1>10. MayOf(id)' = MayOf(id)
  BY <1>2, <1>8 DEF MayOf
<1>11. MustOf(id)' = MustOf(id)
  BY <1>2, <1>9 DEF MustOf
<1> QED BY <1>1, <1>2, <1>3, <1>4, <1>5, <1>6, <1>10, <1>11

\* A frame of the message closes the gap that was open, and no other.
LEMMA GapClosed ==
    ASSUME LoadedInv, MoreFrames, frameIdx' = frameIdx + 1, log' = log, db' = db,
           speed' = speed, lateness' = lateness,
           NEW n, n = frameIdx, NEW id, id = log[n].can_id, NEW l, l = Latest(id)
    PROVE  /\ Latest(id)' = n /\ FramesOf(id)' = FramesOf(id) \cup {n}
           /\ MayOf(id)' = MayOf(id) \cup (IF MayReport(id, l, n) THEN {l} ELSE {})
           /\ MustOf(id)' = MustOf(id) \cup (IF MustReport(id, l, n) THEN {l} ELSE {})
           /\ l \notin MayOf(id) /\ l \notin MustOf(id)
<1>1. /\ FramesOf(id)' = FramesOf(id) \cup {n} /\ n \in 1 .. Len(log) /\ Len(log) \in Nat
      /\ FramesOf(id) \in SUBSET (1 .. n - 1)
      /\ l \in {0} \cup FramesOf(id) /\ \A i \in FramesOf(id) : i <= l
  BY OneMoreArrived, LatestIs
<1> PICK G : G = {0} \cup FramesOf(id)
  OBVIOUS
<1>2. Latest(id)' = n
  <2> PICK S : S = {0} \cup FramesOf(id)'
    OBVIOUS
  <2>1. S \in SUBSET (0 .. Len(log)) /\ n \in S /\ \A x \in S : x <= n
    BY <1>1
  <2>2. Max(S) = n
    BY <1>1, <2>1, MaxUnique
  <2> QED BY <2>2 DEF Latest
<1>3. Closed(id)' = G /\ Closed(id) = G \ {l} /\ l \in G
  BY <1>1, <1>2 DEF Closed
<1>4. ASSUME NEW i \in G PROVE End(id, i)' = IF i = l THEN n ELSE End(id, i)
  <2> PICK S : S = {Len(log)} \cup {j \in FramesOf(id)' : j > i}
    OBVIOUS
  <2>0. i \in 0 .. n - 1 /\ S \in SUBSET (0 .. Len(log)) /\ n \in S
    BY <1>1
  <2>1. CASE i = l
    <3>1. \A x \in S : n <= x
      BY <1>1, <2>1
    <3>2. Min(S) = n
      BY <1>1, <2>0, <3>1, MinUnique
    <3> QED BY <2>1, <3>2 DEF End
  <2>2. CASE i # l
    <3> PICK m : m = End(id, i)
      OBVIOUS
    <3>1. m \in FramesOf(id) /\ m > i /\ \A j \in FramesOf(id) : j > i => m <= j
      BY <1>3, <2>2, EndIs
    <3>2. m \in S /\ \A x \in S : m <= x
      <4>1. m \in 1 .. n - 1 /\ m \in FramesOf(id)'
        BY <1>1, <3>1
      <4>2. m <= n /\ m <= Len(log)
        BY <1>1, <4>1
      <4>3. ASSUME NEW x \in S PROVE m <= x
        <5>1. x = Len(log) \/ x = n \/ (x \in FramesOf(id) /\ x > i)
          BY <1>1
        <5> QED BY <3>1, <4>2, <5>1
      <4> QED BY <3>1, <4>1, <4>3
    <3>3. Min(S) = m
      BY <1>1, <2>0, <3>2, MinUnique
    <3> QED BY <2>2, <3>3 DEF End
  <2> QED BY <2>1, <2>2
<1>5. /\ \A i : Time(i)' = Time(i) /\ PolledAfter(i)' = PolledAfter(i)
      /\ Threshold(id)' = Threshold(id) /\ Ahead' = Ahead /\ Behind' = Behind
  <2>1. \A i : Time(i)' = Time(i)
    BY DEF Time
  <2> QED BY <2>1 DEF PolledAfter, Threshold, Ahead, Behind
<1>6. ASSUME NEW i \in G
      PROVE  /\ MayReport(id, i, End(id, i))' = MayReport(id, i, End(id, i)')
             /\ MustReport(id, i, End(id, i))' = MustReport(id, i, End(id, i)')
  <2> PICK e : e = End(id, i)'
    OBVIOUS
  <2>1. MayReport(id, i, End(id, i))' = MayReport(id, i, e)
    BY <1>5 DEF MayReport
  <2>2. MustReport(id, i, End(id, i))' = MustReport(id, i, e)
    BY <1>5 DEF MustReport
  <2> QED BY <2>1, <2>2
<1>7. MayOf(id)' = MayOf(id) \cup (IF MayReport(id, l, n) THEN {l} ELSE {})
  <2>1. MayOf(id)' = {i \in G : MayReport(id, i, IF i = l THEN n ELSE End(id, i))}
    BY <1>3, <1>4, <1>6 DEF MayOf
  <2>2. MayOf(id) = {i \in G \ {l} : MayReport(id, i, End(id, i))}
    BY <1>3 DEF MayOf
  <2> QED BY <1>3, <2>1, <2>2
<1>8. MustOf(id)' = MustOf(id) \cup (IF MustReport(id, l, n) THEN {l} ELSE {})
  <2>1. MustOf(id)' = {i \in G : MustReport(id, i, IF i = l THEN n ELSE End(id, i))}
    BY <1>3, <1>4, <1>6 DEF MustOf
  <2>2. MustOf(id) = {i \in G \ {l} : MustReport(id, i, End(id, i))}
    BY <1>3 DEF MustOf
  <2> QED BY <1>3, <2>1, <2>2
<1>9. l \notin MayOf(id) /\ l \notin MustOf(id)
  BY <1>3 DEF MayOf, MustOf
<1> QED BY <1>1, <1>2, <1>7, <1>8, <1>9

\* The gaps of a message are finitely many, and the closed ones no more than its frames.
LEMMA GapsCounted ==
    ASSUME LoadedInv, NEW id
    PROVE  /\ IsFiniteSet(MayOf(id)) /\ Cardinality(MayOf(id)) \in Nat
           /\ IsFiniteSet(MustOf(id)) /\ Cardinality(MustOf(id)) \in Nat
           /\ Cardinality(MayOf(id)) <= frameIdx - 1
           /\ \A i : i \notin MayOf(id) =>
                 Cardinality(MayOf(id) \cup {i}) = Cardinality(MayOf(id)) + 1
           /\ \A i : i \notin MustOf(id) =>
                 Cardinality(MustOf(id) \cup {i}) = Cardinality(MustOf(id)) + 1
<1> PICK n, l : n = frameIdx - 1 /\ l = Latest(id)
  OBVIOUS
<1>1. /\ FramesOf(id) \in SUBSET (1 .. n) /\ n \in Nat
      /\ l \in {0} \cup FramesOf(id) /\ l \in 0 .. n /\ \A i \in FramesOf(id) : i <= l
      /\ FramesOf(id) = {} <=> l = 0
  BY LatestIs
<1>2. IsFiniteSet(0 .. n - 1) /\ Cardinality(0 .. n - 1) = n
  <2>1. PICK b \in Int : b = n - 1
    BY <1>1
  <2>2. IsFiniteSet(0 .. b) /\ Cardinality(0 .. b) = IF 0 > b THEN 0 ELSE b - 0 + 1
    BY FS_Interval
  <2> QED BY <1>1, <2>1, <2>2
<1>3. Closed(id) \in SUBSET (0 .. n - 1)
  BY <1>1 DEF Closed
<1>4. MayOf(id) \in SUBSET (0 .. n - 1) /\ MustOf(id) \in SUBSET (0 .. n - 1)
  BY <1>3 DEF MayOf, MustOf
<1>5. /\ IsFiniteSet(MayOf(id)) /\ Cardinality(MayOf(id)) <= n
      /\ IsFiniteSet(MustOf(id))
  BY <1>2, <1>4, FS_Subset
<1>6. Cardinality(MayOf(id)) \in Nat /\ Cardinality(MustOf(id)) \in Nat
  BY <1>5, FS_CardinalityType
<1> QED BY <1>5, <1>6, FS_AddElement

-----------------------------------------------------------------------------
(* The clock.                                                              *)

\* A step that changes none of what ClockInv is about, but where main() is.
LEMMA ClockKept ==
    ASSUME ClockInv, clock' = clock, wake' = wake, speed' = speed, lateness' = lateness,
           log' = log, frameIdx' = frameIdx,
           \/ main' \notin {"load", "asleep"}
           \/ /\ main' = main /\ last_seen_ms' = last_seen_ms
              /\ currently_timed_out' = currently_timed_out
    PROVE  ClockInv'
<1>1. /\ \A i : Time(i)' = Time(i) /\ Time(frameIdx)' = Time(frameIdx)
      /\ MoreFrames' = MoreFrames
  BY DEF Time, MoreFrames
<1> QED BY <1>1 DEF ClockInv

\* Loading starts the clock.
LEMMA ClockAtLoad ==
    ASSUME LoadedInv, ClockInv, Load PROVE ClockInv'
<1>1. /\ main = "load" /\ main' = "test" /\ file \in Files
      /\ clock' = 0 /\ wake' = 0 /\ speed' = speed /\ lateness' = lateness
      /\ readAll(file).ok /\ log' \in Sortings(readAll(file).frames)
  BY DEF Load, LoadedInv, ClockInv
<1>2. readAll(file).frames \in Seq(FrameRecord)
  BY <1>1, LogAssumption DEF FrameRecord
<1>3. log' \in Seq(FrameRecord)
  BY <1>1, <1>2, SortingIsLog
<1>4. \A i, j \in 1 .. Len(log') : i <= j => log'[i].timestamp_ms <= log'[j].timestamp_ms
  BY <1>1, <1>2, SortingIsSorted
<1>5. \A i \in 1 .. Len(log') : Time(i)' = log'[i].timestamp_ms
  BY <1>3 DEF Time
<1>6. (\A i, j \in 1 .. Len(log) : i <= j => Time(i) <= Time(j))'
  BY <1>4, <1>5
<1>7. /\ clock' \in Nat /\ wake' \in Nat /\ speed' \in Nat \ {0} /\ lateness' \in Nat
      /\ clock' <= wake' + lateness'
  BY <1>1 DEF ClockInv
<1> QED BY <1>1, <1>6, <1>7 DEF ClockInv

\* The thread falls asleep only before a frame that is not yet due, and not beyond it.
LEMMA ClockAtSleep ==
    ASSUME LoadedInv, ClockInv, Sleep
    PROVE  ClockInv'
<1>0. \A c, w, late \in Nat : w >= c => c <= w + late
  OBVIOUS
<1> PICK t, s, G, m : t = Time(frameIdx) /\ s = SleepTime /\ G = speed * TicksPerMs
                      /\ m = t * TicksPerMs
  OBVIOUS
<1>1. /\ MoreFrames /\ targetWall = m /\ t \in Int /\ clock < m /\ main' = "asleep"
      /\ clock' = clock /\ wake' = clock + s * G /\ speed' = speed /\ lateness' = lateness
      /\ log' = log /\ frameIdx' = frameIdx
  BY TimesAreNumbers DEF Sleep, Waiting, targetWall
<1>2. /\ clock \in Nat /\ speed \in Nat \ {0} /\ lateness \in Nat /\ TicksPerMs \in Nat \ {0}
      /\ PollInterval \in Nat
  BY ReplayAssumption DEF ClockInv
<1>3. G \in Nat \ {0} /\ m \in Int
  BY <1>1, <1>2
<1>4. s * G \in Nat /\ s * G <= m - clock
  <2>1. PICK x, q : x = m - clock /\ q = x \div G
    OBVIOUS
  <2>2. x \in Nat /\ q \in Nat /\ q * G <= x
    <3>1. x \in Nat
      BY <1>1, <1>2, <1>3, <2>1
    <3> QED BY <1>3, <2>1, <3>1, Divided
  <2>3. s = Smaller(PollInterval, q)
    BY <1>1, <2>1 DEF SleepTime
  <2>4. s \in Nat /\ s <= q
    BY <1>2, <2>2, <2>3 DEF Smaller
  <2>5. s * G <= q * G /\ s * G \in Int /\ q * G \in Int /\ s * G >= 0
    BY <1>3, <2>2, <2>4, Multiples
  <2> QED BY <2>1, <2>2, <2>5
<1>5. wake' \in Nat /\ wake' >= clock /\ wake' <= m
  BY <1>1, <1>2, <1>3, <1>4
<1>6. t > 0
  <2>1. 0 * TicksPerMs = 0 /\ ~(m <= 0)
    BY <1>1, <1>2, <1>3
  <2>2. ~(t <= 0)
    BY <1>1, <1>2, <2>1, Multiples
  <2> QED BY <1>1, <2>2
<1>7. /\ \A i : Time(i)' = Time(i) /\ Time(frameIdx)' = t /\ MoreFrames' = MoreFrames
  BY <1>1 DEF Time, MoreFrames
<1>8. clock <= wake' + lateness
  BY <1>0, <1>2, <1>5
<1> QED BY <1>1, <1>2, <1>5, <1>6, <1>7, <1>8 DEF ClockInv

\* The clock goes as far as the thread can be late.
LEMMA ClockAtTick ==
    ASSUME LoadedInv, ClockInv, Tick
    PROVE  ClockInv'
<1>1. /\ main' = main /\ main # "load" /\ clock < wake + lateness
      /\ clock' = clock + 1 /\ wake' = wake /\ speed' = speed /\ lateness' = lateness
      /\ log' = log /\ frameIdx' = frameIdx
  BY DEF Tick
<1>2. clock' \in Nat /\ clock' <= wake' + lateness'
  <2>1. clock \in Nat /\ wake \in Nat /\ lateness \in Nat
    BY DEF ClockInv
  <2> QED BY <1>1, <2>1
<1>3. /\ \A i : Time(i)' = Time(i) /\ Time(frameIdx)' = Time(frameIdx)
      /\ MoreFrames' = MoreFrames
  BY <1>1 DEF Time, MoreFrames
<1> QED BY <1>1, <1>2, <1>3 DEF ClockInv

\* The thread was due when the frame that is taken was, or from the start.
LEMMA DueAtArrival ==
    ASSUME LoadedInv, ClockInv, MoreFrames, wake' = Larger(wake, targetWall)
    PROVE  /\ wake' \in Nat /\ wake <= wake'
           /\ wake' <= Time(frameIdx) * TicksPerMs \/ wake' = 0
<1> PICK t, m : t = Time(frameIdx) /\ m = t * TicksPerMs
  OBVIOUS
<1>1. targetWall = m /\ t \in Int /\ TicksPerMs \in Nat \ {0}
  <2>1. frameIdx \in 0 .. Len(log)
    BY TimesAreNumbers DEF LoadedInv
  <2> QED BY <2>1, TimesAreNumbers, ReplayAssumption DEF targetWall
<1>2. m \in Int
  BY <1>1
<1>3. wake \in Nat /\ (wake <= m \/ wake = 0)
  BY DEF ClockInv
<1> QED BY <1>1, <1>2, <1>3 DEF Larger

\* The frames are taken in the order of their times.
LEMMA ClockAtArrival ==
    ASSUME LoadedInv, ClockInv, main = "test", main' = main, MoreFrames, NextFrame,
           clock' = clock, speed' = speed, lateness' = lateness, log' = log,
           wake' = Larger(wake, targetWall)
    PROVE  ClockInv'
<1> PICK n, t, G : n = frameIdx /\ t = Time(n) /\ G = TicksPerMs
  OBVIOUS
<1>1. /\ n \in 1 .. Len(log) /\ t \in Int /\ Len(log) \in Nat /\ frameIdx' = n + 1
      /\ G \in Nat \ {0}
  BY TimesAreNumbers, ReplayAssumption DEF LoadedInv, NextFrame
<1>2. /\ clock \in Nat /\ wake \in Nat /\ speed \in Nat \ {0} /\ lateness \in Nat
      /\ clock <= wake + lateness
      /\ \A i, j \in 1 .. Len(log) : i <= j => Time(i) <= Time(j)
  BY DEF ClockInv
<1>3. wake' \in Nat /\ wake <= wake' /\ (wake' <= t * G \/ wake' = 0)
  BY DueAtArrival
<1>4. ASSUME MoreFrames' PROVE wake' <= Time(n + 1) * G \/ wake' = 0
  <2>1. n + 1 \in 1 .. Len(log) /\ n + 1 \in 0 .. Len(log)
    BY <1>1, <1>4 DEF MoreFrames
  <2>2. t <= Time(n + 1) /\ Time(n + 1) \in Int
    BY <1>1, <1>2, <2>1, TimesAreNumbers
  <2>3. t * G <= Time(n + 1) * G /\ t * G \in Int /\ Time(n + 1) * G \in Int
    BY <1>1, <2>2, Multiples
  <2> QED BY <1>3, <2>3
<1>5. Time(frameIdx)' = Time(n + 1) /\ \A i : Time(i)' = Time(i)
  BY <1>1 DEF Time
<1>6. clock <= wake' + lateness
  BY <1>2, <1>3
<1> QED BY <1>1, <1>2, <1>3, <1>4, <1>5, <1>6 DEF ClockInv

\* ClockInv is inductive.
LEMMA ClockStep ==
    ASSUME LoadedInv, ClockInv, [Next]_vars PROVE ClockInv'
<1>1. CASE Load
  BY <1>1, ClockAtLoad
<1>2. CASE LoadFails
  BY <1>2, ClockKept DEF LoadFails
<1>3. CASE Sleep
  BY <1>3, ClockAtSleep
<1>4. CASE Poll
  BY <1>4, ClockKept DEF Poll
<1>5. CASE ArriveUnknown
  BY <1>5, ClockAtArrival DEF ArriveUnknown
<1>6. CASE ArriveKnown
  BY <1>6, ClockAtArrival DEF ArriveKnown
<1>7. CASE PrintSummary
  BY <1>7, ClockKept DEF PrintSummary
<1>8. CASE Tick
  BY <1>8, ClockAtTick
<1>9. CASE UNCHANGED vars
  BY <1>9, ClockKept DEF vars, diagVars, replayVars
<1>10. CASE Exited
  BY <1>9, <1>10 DEF Exited
<1> QED
  BY <1>1, <1>2, <1>3, <1>4, <1>5, <1>6, <1>7, <1>8, <1>9, <1>10 DEF Next, MainStep

-----------------------------------------------------------------------------
(* One message.                                                            *)

\* The number of timeouts is a number.
LEMMA EventsType ==
    ASSUME ReplayInv, NEW id \in DOMAIN db
    PROVE  LoadedInv /\ StatsOf(id) \in StatRecord /\ StatsOf(id).timeout_events \in Nat
BY DEF ReplayInv, StatsInv, CountsOf, StatRecord

\* The engine's test is that of the log.
LEMMA MissingIsTimedOut ==
    ASSUME NEW id \in DOMAIN db, SeenInv(id), NEW t
    PROVE  isCurrentlyTimedOut(id, last_seen_ms, t) <=> Missing(id, t)
BY DEF SeenInv, isCurrentlyTimedOut, Missing

\* A message that is missing stays so until it arrives.
LEMMA MissingStays ==
    ASSUME LoadedInv, NEW id \in DOMAIN db, NEW t \in Int, NEW u \in Int, t <= u, Missing(id, t)
    PROVE  Missing(id, u)
<1>1. Time(Latest(id)) \in Int /\ Threshold(id) \in Int
  <2>1. Latest(id) \in 0 .. Len(log)
    BY LatestIs
  <2> QED BY <2>1, TimesAreNumbers
<1> QED BY <1>1 DEF Missing

\* What a poll reads is a number, and so is how far that is from the time of a frame.
LEMMA ReachIsNumber ==
    ASSUME ClockInv
    PROVE  Ahead \in Nat /\ Behind \in Nat /\ logMsNow \in Nat /\ wake \div TicksPerMs \in Nat
<1>1. lateness \in Nat /\ clock \in Nat /\ wake \in Nat /\ TicksPerMs \in Nat \ {0}
  BY ReplayAssumption DEF ClockInv
<1>2. lateness + TicksPerMs - 1 \in Nat
  BY <1>1
<1> QED BY <1>1, <1>2, Divided DEF Ahead, Behind, logMsNow

\* A frame only comes later than the one before it.
LEMMA MayReportStays ==
    ASSUME LoadedInv, ClockInv, NEW id \in DOMAIN db, NEW i \in 0 .. Len(log),
           NEW n \in 1 .. Len(log), NEW m \in 1 .. Len(log), n <= m, MayReport(id, i, n)
    PROVE  MayReport(id, i, m)
<1>1. /\ Time(i) \in Int /\ Time(n) \in Int /\ Time(m) \in Int /\ Threshold(id) \in Int
      /\ Ahead \in Nat
  <2>1. n \in 0 .. Len(log) /\ m \in 0 .. Len(log)
    OBVIOUS
  <2> QED BY <2>1, TimesAreNumbers, ReachIsNumber
<1>2. Time(n) <= Time(m)
  BY DEF ClockInv
<1> QED BY <1>1, <1>2 DEF MayReport

\* A step that feeds no frame, polls nothing, and does not set the clock back.
LEMMA MessageKept ==
    ASSUME ReplayInv, ClockInv, NEW id \in DOMAIN db, MessageInv(id),
           log' = log, db' = db, frameIdx' = frameIdx, speed' = speed, lateness' = lateness,
           last_seen_ms' = last_seen_ms, currently_timed_out' = currently_timed_out,
           stats' = stats, clock' \in Nat, clock <= clock',
           main' = "test" => main = "test" /\ wake' = wake
    PROVE  MessageInv(id)'
<1>1. LoadedInv /\ logMsNow \in Int /\ logMsNow' \in Int /\ logMsNow <= logMsNow'
  <2>1. LoadedInv /\ clock \in Nat /\ TicksPerMs \in Nat \ {0}
    BY ReplayAssumption DEF ReplayInv, ClockInv
  <2>2. logMsNow' = clock' \div TicksPerMs
    BY DEF logMsNow
  <2>3. logMsNow \in Nat /\ logMsNow' \in Nat
    BY <2>1, <2>2, Divided DEF logMsNow
  <2>4. logMsNow <= logMsNow'
    BY <2>1, <2>2, DividedInOrder DEF logMsNow
  <2> QED BY <2>1, <2>3, <2>4
<1>2. FramesOf(id)' = FramesOf(id)
  BY SameLog
<1>3. /\ Latest(id)' = Latest(id) /\ \A i : Time(i)' = Time(i)
      /\ \A i, n : MayReport(id, i, n)' = MayReport(id, i, n)
      /\ \A i, n : MustReport(id, i, n)' = MustReport(id, i, n)
      /\ MayOf(id)' = MayOf(id) /\ MustOf(id)' = MustOf(id) /\ Threshold(id)' = Threshold(id)
  BY <1>2, GapsKept
<1>4. Reported(id)' = Reported(id) /\ Open(id)' = Open(id) /\ StatsOf(id)' = StatsOf(id)
  BY DEF Reported, Open, StatsOf
<1>5. \A t : Missing(id, t)' = Missing(id, t)
  <2>1. Time(Latest(id))' = Time(Latest(id))
    BY <1>3 DEF Time
  <2> QED BY <1>2, <1>3, <2>1 DEF Missing
<1>6. SeenInv(id)'
  <2>1. Time(Latest(id))' = Time(Latest(id))
    BY <1>3 DEF Time
  <2> QED BY <1>2, <2>1 DEF SeenInv, MessageInv
<1>7. OpenInv(id)'
  <2> PICK l, n, c : l = Latest(id) /\ n = frameIdx - 1 /\ c = Coming
    OBVIOUS
  <2>1. OpenInv(id)
    BY DEF MessageInv
  <2>2. Reported(id) => Missing(id, logMsNow) /\ MayReport(id, l, c)
    BY <2>1 DEF OpenInv
  <2>3. MustReport(id, l, n) => Reported(id)
    BY <2>1 DEF OpenInv
  <2>4. Reported(id)' => Missing(id, logMsNow)' /\ MayReport(id, Latest(id), Coming)'
    <3>1. Reported(id) => Missing(id, logMsNow')
      BY <1>1, <2>2, MissingStays
    <3>2. Missing(id, logMsNow)' = Missing(id, logMsNow')
      <4> PICK u : u = logMsNow'
        OBVIOUS
      <4>1. Missing(id, u)' = Missing(id, u)
        BY <1>5
      <4> QED BY <4>1 DEF Missing
    <3>3. MayReport(id, Latest(id), Coming)' = MayReport(id, l, c)
      <4>1. Coming' = c /\ Latest(id)' = l
        BY <1>3 DEF Coming
      <4>2. MayReport(id, l, c)' = MayReport(id, l, c)
        BY <1>3
      <4> QED BY <4>1, <4>2 DEF MayReport
    <3> QED BY <1>4, <2>2, <3>1, <3>2, <3>3
  <2>5. MustReport(id, Latest(id), frameIdx - 1)' => Reported(id)'
    <3>1. MustReport(id, l, n)' = MustReport(id, l, n)
      BY <1>3
    <3>2. MustReport(id, Latest(id), frameIdx - 1)' = MustReport(id, l, n)
      BY <1>3, <3>1 DEF MustReport
    <3> QED BY <1>4, <2>3, <3>2
  <2>6. (main = "test" =>
            \/ wake <= Time(frameIdx - 1) * TicksPerMs \/ wake = 0
            \/ Missing(id, wake \div TicksPerMs) => Reported(id))'
    <3> PICK w : w = wake \div TicksPerMs
      OBVIOUS
    <3>1. ASSUME main' = "test"
          PROVE  \/ wake <= Time(n) * TicksPerMs \/ wake = 0
                 \/ Missing(id, w) => Reported(id)
      BY <2>1, <3>1 DEF OpenInv
    <3>2. Time(frameIdx - 1)' = Time(n)
      BY <1>3 DEF Time
    <3>3. main' = "test" => wake' = wake /\ (Missing(id, wake \div TicksPerMs)' <=> Missing(id, w))
      <4>1. Missing(id, w)' = Missing(id, w)
        BY <1>5
      <4> QED BY <4>1 DEF Missing
    <3> QED BY <1>4, <3>1, <3>2, <3>3
  <2> QED BY <2>4, <2>5, <2>6 DEF OpenInv
<1>8. EventsInv(id)'
  BY <1>3, <1>4 DEF EventsInv, MessageInv
<1> QED BY <1>6, <1>7, <1>8 DEF MessageInv

\* A poll reports what is missing and was not yet reported.
LEMMA MessageAtPoll ==
    ASSUME ReplayInv, ClockInv, NEW id \in DOMAIN db, MessageInv(id), Poll
    PROVE  MessageInv(id)'
<1> PICK now, n, l, t : now = logMsNow /\ n = frameIdx /\ l = Latest(id) /\ t = Time(n)
  OBVIOUS
<1>1. /\ log' = log /\ db' = db /\ frameIdx' = frameIdx /\ speed' = speed /\ lateness' = lateness
      /\ last_seen_ms' = last_seen_ms /\ clock' = clock /\ wake' = wake
      /\ main = "asleep" /\ main' = "test" /\ clock >= wake
      /\ currently_timed_out' = [j \in DOMAIN db |-> j \in TimedOut(now)]
      /\ stats' = PutAll(stats, [j \in NewTimeouts(now) |->
                                    [StatsOf(j) EXCEPT !.timeout_events = AddIf(TRUE, @)]])
  BY DEF Poll, checkTimeouts
<1>2. /\ LoadedInv /\ StatsOf(id) \in StatRecord /\ StatsOf(id).timeout_events \in Nat
      /\ SeenInv(id) /\ OpenInv(id) /\ EventsInv(id)
  BY EventsType DEF MessageInv
<1>3. /\ now \in Nat /\ logMsNow' = now /\ Ahead \in Nat /\ MoreFrames /\ t > 0
      /\ clock \in Nat /\ wake \in Nat /\ lateness \in Nat /\ TicksPerMs \in Nat \ {0}
      /\ clock <= wake + lateness /\ (wake <= t * TicksPerMs \/ wake = 0)
  BY <1>1, ReachIsNumber, ReplayAssumption DEF ClockInv, logMsNow
<1>4. /\ n \in 1 .. Len(log) /\ Len(log) \in Nat /\ Len(log) < StatModulus
      /\ l \in 0 .. Len(log) /\ Coming = n
      /\ t \in Int /\ Time(l) \in Int /\ Threshold(id) \in Int
  <2>1. n \in 1 .. Len(log) /\ Len(log) \in Nat /\ Len(log) < StatModulus /\ l \in 0 .. Len(log)
    BY <1>2, <1>3, TimesAreNumbers, LatestIs DEF LoadedInv
  <2>2. Coming = n
    BY <2>1 DEF Coming, Smaller
  <2> QED BY <1>2, <2>1, <2>2, TimesAreNumbers
<1>p. now <= t + Ahead /\ wake \div TicksPerMs \in Nat /\ wake \div TicksPerMs <= now
  <2>1. clock <= t * TicksPerMs + lateness
    <3>1. PICK m : m = t * TicksPerMs /\ m \in Int /\ m >= 0
      BY <1>3, <1>4
    <3> QED BY <1>3, <3>1
  <2>2. now <= t + Ahead
    BY <1>3, <1>4, <2>1, ReadAhead DEF logMsNow, Ahead
  <2>3. wake \div TicksPerMs \in Nat /\ wake \div TicksPerMs <= now
    BY <1>1, <1>3, Divided, DividedInOrder DEF logMsNow
  <2> QED BY <2>2, <2>3
<1>5. FramesOf(id)' = FramesOf(id)
  BY <1>1, SameLog
<1>6. /\ Latest(id)' = l /\ \A i : Time(i)' = Time(i)
      /\ \A i, m : MayReport(id, i, m)' = MayReport(id, i, m)
      /\ \A i, m : MustReport(id, i, m)' = MustReport(id, i, m)
      /\ MayOf(id)' = MayOf(id) /\ MustOf(id)' = MustOf(id) /\ Threshold(id)' = Threshold(id)
  BY <1>1, <1>5, GapsKept
<1>7. \A u : Missing(id, u)' = Missing(id, u)
  <2>1. Time(Latest(id))' = Time(Latest(id))
    BY <1>6 DEF Time
  <2> QED BY <1>5, <1>6, <2>1 DEF Missing
<1>8. id \in TimedOut(now) <=> Missing(id, now)
  BY <1>2, MissingIsTimedOut DEF TimedOut
<1>9. Reported(id)' <=> Missing(id, now)
  BY <1>1, <1>8 DEF Reported
<1>10. id \in NewTimeouts(now) <=> Missing(id, now) /\ ~Reported(id)
  BY <1>2, <1>8 DEF NewTimeouts, Reported, SeenInv
<1>11. Reported(id) => Missing(id, now)
  BY <1>2 DEF OpenInv
<1>12. SeenInv(id)'
  <2>1. Time(Latest(id))' = Time(Latest(id))
    BY <1>6 DEF Time
  <2>2. (id \in DOMAIN currently_timed_out => currently_timed_out[id] \in BOOLEAN)'
    BY <1>1
  <2> QED BY <1>1, <1>2, <1>5, <2>1, <2>2 DEF SeenInv
<1>13. OpenInv(id)'
  <2>1. Reported(id)' => Missing(id, logMsNow)' /\ MayReport(id, Latest(id), Coming)'
    <3>1. Missing(id, logMsNow)' = Missing(id, now)
      BY <1>3, <1>7 DEF Missing
    <3>2. Missing(id, now) => MayReport(id, l, n)
      <4>1. CASE l = 0
        BY <1>3, <4>1 DEF MayReport
      <4>2. CASE l # 0
        <5>1. ASSUME Missing(id, now) PROVE now - Time(l) > Threshold(id)
          BY <1>2, <4>2, <5>1, LatestIs DEF Missing
        <5>2. PICK tl, th, a : tl = Time(l) /\ th = Threshold(id) /\ a = Ahead
          OBVIOUS
        <5>3. ASSUME now - tl > th PROVE t - tl > th - a
          <6>1. /\ tl \in Int /\ th \in Int /\ a \in Int /\ now \in Int /\ t \in Int
                /\ now <= t + a
            BY <1>3, <1>4, <1>p, <5>2
          <6> QED BY <5>3, <6>1
        <5> QED BY <4>2, <5>1, <5>2, <5>3 DEF MayReport
      <4> QED BY <4>1, <4>2
    <3>3. MayReport(id, Latest(id), Coming)' = MayReport(id, l, n)
      <4>1. Coming' = n /\ Latest(id)' = l
        BY <1>1, <1>4, <1>6 DEF Coming
      <4>2. MayReport(id, l, n)' = MayReport(id, l, n)
        BY <1>6
      <4> QED BY <4>1, <4>2 DEF MayReport
    <3> QED BY <1>9, <3>1, <3>2, <3>3
  <2>2. MustReport(id, Latest(id), frameIdx - 1)' => Reported(id)'
    <3> PICK m : m = n - 1
      OBVIOUS
    <3>1. MustReport(id, l, m) => Reported(id)
      BY <1>2 DEF OpenInv
    <3>2. MustReport(id, l, m)' = MustReport(id, l, m)
      BY <1>6
    <3>3. MustReport(id, Latest(id), frameIdx - 1)' = MustReport(id, l, m)
      BY <1>1, <1>6, <3>2 DEF MustReport
    <3> QED BY <1>9, <1>11, <3>1, <3>3
  <2>3. Missing(id, wake \div TicksPerMs)' => Reported(id)'
    <3> PICK w : w = wake \div TicksPerMs
      OBVIOUS
    <3>1. Missing(id, w) => Missing(id, now)
      <4>1. w \in Int /\ now \in Int /\ w <= now
        BY <1>3, <1>p
      <4> QED BY <1>2, <4>1, MissingStays
    <3>2. Missing(id, wake \div TicksPerMs)' = Missing(id, w)
      <4>1. Missing(id, w)' = Missing(id, w)
        BY <1>7
      <4> QED BY <1>1, <4>1 DEF Missing
    <3> QED BY <1>9, <3>1, <3>2
  <2> QED BY <2>1, <2>2, <2>3 DEF OpenInv
<1>14. EventsInv(id)'
  <2> PICK e, u, v : e = StatsOf(id).timeout_events /\ u = Cardinality(MustOf(id))
                     /\ v = Cardinality(MayOf(id))
    OBVIOUS
  <2>1. u \in Nat /\ v \in Nat /\ v <= n - 1 /\ e \in Nat
    BY <1>2, GapsCounted
  <2>2. u + Open(id) <= e /\ e <= v + Open(id)
    BY <1>2 DEF EventsInv
  <2>3. CASE id \in NewTimeouts(now)
    <3>1. Open(id) = 0 /\ Open(id)' = 1
      BY <1>9, <1>10, <2>3 DEF Open
    <3>2. StatsOf(id)' = [StatsOf(id) EXCEPT !.timeout_events = AddIf(TRUE, @)]
      BY <1>1, <2>3 DEF PutAll, StatsOf
    <3>3. StatsOf(id)'.timeout_events = AddIf(TRUE, e)
      BY <1>2, <3>2 DEF StatRecord
    <3>4. (e + 1) % StatModulus = e + 1
      <4>1. e + 1 < StatModulus /\ StatModulus \in Nat
        BY <1>4, <2>1, <2>2, <3>1, DiagnosticsAssumption
      <4> QED BY <2>1, <4>1
    <3>5. u + 1 <= e + 1 /\ e + 1 <= v + 1
      BY <2>1, <2>2, <3>1
    <3> QED BY <1>6, <3>1, <3>3, <3>4, <3>5 DEF EventsInv, AddIf
  <2>4. CASE id \notin NewTimeouts(now)
    <3>1. Open(id)' = Open(id)
      BY <1>9, <1>10, <1>11, <2>4 DEF Open
    <3>2. StatsOf(id)' = StatsOf(id)
      BY <1>1, <2>4 DEF PutAll, StatsOf
    <3> QED BY <1>2, <1>6, <3>1, <3>2 DEF EventsInv
  <2> QED BY <2>3, <2>4
<1> QED BY <1>12, <1>13, <1>14 DEF MessageInv

\* When the frame at n is taken, the polls before it have reported the open gap, if it is
\* one that they must report.
LEMMA MustBeReported ==
    ASSUME LoadedInv, ClockInv, NEW id \in DOMAIN db, OpenInv(id), main = "test",
           MoreFrames, ~Waiting, NEW n, n = frameIdx, MustReport(id, Latest(id), n)
    PROVE  Reported(id)
<1>0. ASSUME NEW t \in Int, NEW tl \in Int, NEW th \in Int, NEW b \in Int, NEW w \in Int,
             t <= w + b, t - tl > th + b
      PROVE  w - tl > th
  BY <1>0
<1> PICK l, t, p, G : l = Latest(id) /\ t = Time(n) /\ p = Time(n - 1) /\ G = TicksPerMs
  OBVIOUS
<1>1. /\ n \in 1 .. Len(log) /\ Len(log) \in Nat /\ l \in 0 .. n - 1
      /\ FramesOf(id) = {} <=> l = 0
      /\ t \in Int /\ p \in Int /\ Time(l) \in Int /\ Threshold(id) \in Int /\ G \in Nat \ {0}
  <2>1. n \in 1 .. Len(log) /\ Len(log) \in Nat /\ l \in 0 .. n - 1 /\ (FramesOf(id) = {} <=> l = 0)
    BY TimesAreNumbers, LatestIs DEF LoadedInv
  <2>2. t \in Int /\ p \in Int /\ Time(l) \in Int /\ Threshold(id) \in Int
    <3>1. n \in 0 .. Len(log) /\ n - 1 \in 0 .. Len(log) /\ l \in 0 .. Len(log)
      BY <2>1
    <3> QED BY <3>1, TimesAreNumbers
  <2> QED BY <2>1, <2>2, ReplayAssumption
<1>2. /\ wake \in Nat /\ lateness \in Nat /\ Behind \in Nat /\ wake \div G \in Nat
      /\ t * G <= wake + lateness
  <2>1. clock \in Nat /\ wake \in Nat /\ lateness \in Nat /\ clock <= wake + lateness
    BY DEF ClockInv
  <2>2. ~(clock < t * G)
    BY TimesAreNumbers DEF Waiting, targetWall
  <2>3. PICK m : m = t * G /\ m \in Int
    BY <1>1
  <2>4. m <= wake + lateness
    BY <2>1, <2>2, <2>3
  <2> QED BY <2>1, <2>3, <2>4, ReachIsNumber
<1>3. PICK k \in l .. n - 1 :
          /\ PolledAfter(k)
          /\ l # 0 => Time(k + 1) - Time(l) > Threshold(id) + Behind
  BY DEF MustReport
<1>4. CASE k # n - 1
  <2>1. k \in l .. (n - 1) - 1
    BY <1>1, <1>3, <1>4
  <2>2. MustReport(id, l, n - 1)
    BY <1>3, <2>1 DEF MustReport
  <2> QED BY <2>2 DEF OpenInv
<1>5. CASE k = n - 1
  <2>1. Time(k + 1) = t /\ Time(k) = p
    <3>1. k + 1 = n
      BY <1>1, <1>5
    <3> QED BY <1>5, <3>1
  <2>2. (t - p) * G > lateness /\ t * G > lateness
    BY <1>3, <2>1 DEF PolledAfter
  <2>3. ~(wake <= p * G) /\ wake # 0
    <3>1. PICK u, v : u = t * G /\ v = p * G /\ u \in Int /\ v \in Int /\ (t - p) * G = u - v
      BY <1>1, Multiples
    <3>2. u - v > lateness /\ u > lateness /\ u <= wake + lateness
      BY <1>2, <2>2, <3>1
    <3>3. ~(wake <= v) /\ wake # 0
      BY <1>2, <3>1, <3>2
    <3> QED BY <3>1, <3>3
  <2>4. PICK w : w = wake \div G
    OBVIOUS
  <2>5. Missing(id, w) => Reported(id)
    <3>1. ~(wake <= Time(frameIdx - 1) * TicksPerMs)
      BY <2>3
    <3> QED BY <2>3, <2>4, <3>1 DEF OpenInv
  <2>6. t <= w + Behind
    BY <1>1, <1>2, <2>4, ReadBehind DEF Behind
  <2>7. l # 0 => w - Time(l) > Threshold(id)
    <3>1. l # 0 => t - Time(l) > Threshold(id) + Behind
      BY <1>3, <2>1
    <3> PICK tl, th, b : tl = Time(l) /\ th = Threshold(id) /\ b = Behind
      OBVIOUS
    <3>2. tl \in Int /\ th \in Int /\ b \in Int /\ w \in Int /\ t <= w + b
      BY <1>1, <1>2, <2>4, <2>6
    <3>3. t - tl > th + b => w - tl > th
      BY <1>0, <1>1, <3>2
    <3> QED BY <3>1, <3>3
  <2>8. Missing(id, w)
    BY <1>1, <2>7 DEF Missing
  <2> QED BY <2>5, <2>8
<1> QED BY <1>4, <1>5

\* A frame of another message, or of none.
LEMMA MessageAtOther ==
    ASSUME ReplayInv, ClockInv, NEW id \in DOMAIN db, MessageInv(id), main = "test",
           MoreFrames, ~Waiting, NextFrame, wake' = Larger(wake, targetWall), clock' = clock,
           speed' = speed, lateness' = lateness, log' = log, db' = db, main' = main,
           id # Frame.can_id, StatsOf(id)' = StatsOf(id),
           id \in DOMAIN last_seen_ms' <=> id \in DOMAIN last_seen_ms,
           id \in DOMAIN last_seen_ms => last_seen_ms'[id] = last_seen_ms[id],
           id \in DOMAIN currently_timed_out' <=> id \in DOMAIN currently_timed_out,
           id \in DOMAIN currently_timed_out =>
               currently_timed_out'[id] = currently_timed_out[id]
    PROVE  MessageInv(id)'
<1> PICK n, l : n = frameIdx /\ l = Latest(id)
  OBVIOUS
<1>1. LoadedInv /\ SeenInv(id) /\ OpenInv(id) /\ EventsInv(id) /\ frameIdx' = n + 1
  BY DEF ReplayInv, MessageInv, NextFrame
<1>2. /\ n \in 1 .. Len(log) /\ Len(log) \in Nat /\ l \in 0 .. Len(log) /\ Coming = n
      /\ wake' <= Time(n) * TicksPerMs \/ wake' = 0
  <2>1. n \in 1 .. Len(log) /\ Len(log) \in Nat /\ l \in 0 .. Len(log)
    BY <1>1, TimesAreNumbers, LatestIs
  <2> QED BY <1>1, <2>1, DueAtArrival DEF Coming, Smaller
<1>3. FramesOf(id)' = FramesOf(id)
  BY <1>1, OtherFramesKept DEF Frame
<1>4. /\ Latest(id)' = l /\ \A i : Time(i)' = Time(i)
      /\ \A i, m : MayReport(id, i, m)' = MayReport(id, i, m)
      /\ \A i, m : MustReport(id, i, m)' = MustReport(id, i, m)
      /\ MayOf(id)' = MayOf(id) /\ MustOf(id)' = MustOf(id) /\ Threshold(id)' = Threshold(id)
  BY <1>3, GapsKept
<1>5. Reported(id)' = Reported(id) /\ Open(id)' = Open(id)
  BY DEF Reported, Open
<1>6. Time(Latest(id))' = Time(Latest(id))
  BY <1>4 DEF Time
<1>7. SeenInv(id)'
  BY <1>1, <1>3, <1>6 DEF SeenInv
<1>8. OpenInv(id)'
  <2>1. Missing(id, logMsNow)' = Missing(id, logMsNow)
    BY <1>3, <1>4, <1>6 DEF Missing, logMsNow
  <2>2. Reported(id) => Missing(id, logMsNow) /\ MayReport(id, l, n)
    BY <1>1, <1>2 DEF OpenInv
  <2>3. MayReport(id, l, n) => MayReport(id, Latest(id), Coming)'
    <3> PICK m : m = Smaller(n + 1, Len(log))
      OBVIOUS
    <3>1. m \in 1 .. Len(log) /\ n <= m
      BY <1>2 DEF Smaller
    <3>2. MayReport(id, l, n) => MayReport(id, l, m)
      BY <1>1, <1>2, <3>1, MayReportStays
    <3>3. Coming' = m
      BY <1>1 DEF Coming
    <3>4. MayReport(id, l, m)' = MayReport(id, l, m)
      BY <1>4
    <3>5. MayReport(id, Latest(id), Coming)' = MayReport(id, l, m)
      BY <1>4, <3>3, <3>4 DEF MayReport
    <3> QED BY <3>2, <3>5
  <2>4. MustReport(id, Latest(id), frameIdx - 1)' => Reported(id)
    <3>1. MustReport(id, l, n) => Reported(id)
      BY <1>1, MustBeReported
    <3>2. frameIdx' - 1 = n
      BY <1>1, <1>2
    <3>3. MustReport(id, l, n)' = MustReport(id, l, n)
      BY <1>4
    <3>4. MustReport(id, Latest(id), frameIdx - 1)' = MustReport(id, l, n)
      BY <1>4, <3>2, <3>3 DEF MustReport
    <3> QED BY <3>1, <3>4
  <2>5. (wake <= Time(frameIdx - 1) * TicksPerMs \/ wake = 0)'
    <3>1. frameIdx' - 1 = n
      BY <1>1, <1>2
    <3>2. Time(frameIdx - 1)' = Time(n)
      BY <3>1 DEF Time
    <3> QED BY <1>2, <3>2
  <2> QED BY <1>5, <2>1, <2>2, <2>3, <2>4, <2>5 DEF OpenInv
<1>9. EventsInv(id)'
  BY <1>1, <1>4, <1>5 DEF EventsInv
<1> QED BY <1>7, <1>8, <1>9 DEF MessageInv

\* A frame of the message itself.
LEMMA MessageAtOwn ==
    ASSUME ReplayInv, ClockInv, NEW id \in DOMAIN db, MessageInv(id), main = "test",
           MoreFrames, ~Waiting, NextFrame, wake' = Larger(wake, targetWall), clock' = clock,
           speed' = speed, lateness' = lateness, log' = log, db' = db, main' = main,
           id = Frame.can_id, StatsOf(id)'.timeout_events = StatsOf(id).timeout_events,
           id \in DOMAIN last_seen_ms', last_seen_ms'[id] = Frame.timestamp_ms,
           id \in DOMAIN currently_timed_out', currently_timed_out'[id] = FALSE
    PROVE  MessageInv(id)'
<1> PICK n, l : n = frameIdx /\ l = Latest(id)
  OBVIOUS
<1>1. LoadedInv /\ SeenInv(id) /\ OpenInv(id) /\ EventsInv(id) /\ frameIdx' = n + 1
  BY DEF ReplayInv, MessageInv, NextFrame
<1>2. /\ n \in 1 .. Len(log) /\ Len(log) \in Nat /\ Coming = n
      /\ Frame.timestamp_ms = Time(n) /\ id = log[n].can_id
      /\ wake' <= Time(n) * TicksPerMs \/ wake' = 0
  <2>1. n \in 1 .. Len(log) /\ Len(log) \in Nat /\ Frame.timestamp_ms = Time(n)
    BY <1>1, TimesAreNumbers, LatestIs
  <2> QED BY <1>1, <2>1, DueAtArrival DEF Coming, Smaller, Frame
<1>3. /\ Latest(id)' = n /\ FramesOf(id)' = FramesOf(id) \cup {n}
      /\ MayOf(id)' = MayOf(id) \cup (IF MayReport(id, l, n) THEN {l} ELSE {})
      /\ MustOf(id)' = MustOf(id) \cup (IF MustReport(id, l, n) THEN {l} ELSE {})
      /\ l \notin MayOf(id) /\ l \notin MustOf(id)
  BY <1>1, <1>2, GapClosed
<1>4. Time(Latest(id))' = Time(n)
  BY <1>3 DEF Time
<1>5. ~Reported(id)' /\ Open(id)' = 0
  BY DEF Reported, Open
<1>6. SeenInv(id)'
  BY <1>2, <1>3, <1>4 DEF SeenInv
<1>7. OpenInv(id)'
  <2>1. frameIdx' - 1 = n
    BY <1>1, <1>2
  <2>2. ~MustReport(id, Latest(id), frameIdx - 1)'
    <3>1. n .. n - 1 = {}
      BY <1>2
    <3> QED BY <1>3, <2>1, <3>1 DEF MustReport
  <2>3. (wake <= Time(frameIdx - 1) * TicksPerMs \/ wake = 0)'
    <3>1. Time(frameIdx - 1)' = Time(n)
      BY <2>1 DEF Time
    <3> QED BY <1>2, <3>1
  <2> QED BY <1>5, <2>2, <2>3 DEF OpenInv
<1>8. EventsInv(id)'
  <2> PICK e, u, v : e = StatsOf(id).timeout_events /\ u = Cardinality(MustOf(id))
                     /\ v = Cardinality(MayOf(id))
    OBVIOUS
  <2>1. u \in Nat /\ v \in Nat /\ e \in Nat
    BY <1>1, GapsCounted, EventsType
  <2>2. u + Open(id) <= e /\ e <= v + Open(id)
    BY <1>1 DEF EventsInv
  <2>3. MustReport(id, l, n) => Reported(id)
    BY <1>1, MustBeReported
  <2>4. Reported(id) => MayReport(id, l, n)
    BY <1>1, <1>2 DEF OpenInv
  <2>5. Cardinality(MustOf(id)') \in Nat /\ Cardinality(MustOf(id)') <= e
    <3>1. CASE MustReport(id, l, n)
      <4>1. Cardinality(MustOf(id)') = u + 1
        BY <1>1, <1>3, <3>1, GapsCounted
      <4>2. Open(id) = 1
        BY <2>3, <3>1 DEF Open
      <4> QED BY <2>1, <2>2, <4>1, <4>2
    <3>2. CASE ~MustReport(id, l, n)
      <4>1. MustOf(id)' = MustOf(id)
        BY <1>3, <3>2
      <4>2. Open(id) \in {0, 1}
        BY DEF Open
      <4> QED BY <2>1, <2>2, <4>1, <4>2
    <3> QED BY <3>1, <3>2
  <2>6. Cardinality(MayOf(id)') \in Nat /\ e <= Cardinality(MayOf(id)')
    <3>1. CASE MayReport(id, l, n)
      <4>1. Cardinality(MayOf(id)') = v + 1
        BY <1>1, <1>3, <3>1, GapsCounted
      <4>2. Open(id) \in {0, 1}
        BY DEF Open
      <4> QED BY <2>1, <2>2, <4>1, <4>2
    <3>2. CASE ~MayReport(id, l, n)
      <4>1. MayOf(id)' = MayOf(id)
        BY <1>3, <3>2
      <4>2. Open(id) = 0
        BY <2>4, <3>2 DEF Open
      <4> QED BY <2>1, <2>2, <4>1, <4>2
    <3> QED BY <3>1, <3>2
  <2>7. /\ Cardinality(MustOf(id)') + 0 <= e /\ e <= Cardinality(MayOf(id)') + 0
    BY <2>1, <2>5, <2>6
  <2> QED BY <1>5, <2>7 DEF EventsInv
<1> QED BY <1>6, <1>7, <1>8 DEF MessageInv

\* When the database has been loaded, no message has been seen and none reported.
LEMMA MessageAtLoad ==
    ASSUME ReplayInv, ReplayInv', ClockInv, Load, NEW id \in DOMAIN db'
    PROVE  MessageInv(id)'
<1>1. /\ main = "load" /\ log = <<>> /\ stats' = <<>> /\ last_seen_ms' = <<>>
      /\ currently_timed_out' = <<>> /\ frameIdx' = frameIdx /\ wake' = 0
  BY DEF Load, ClockInv, ReplayInv, LoadedInv
<1>2. frameIdx = 1
  <2>1. Len(log) = 0 /\ frameIdx \in 1 .. Len(log) + 1
    BY <1>1 DEF ReplayInv, LoadedInv
  <2> QED BY <2>1
<1>3. FramesOf(id)' = {}
  <2>1. Arrived' = {}
    BY <1>1, <1>2 DEF Arrived
  <2> QED BY <2>1 DEF FramesOf
<1>4. Latest(id)' = 0
  <2>1. Max({0}) = 0
    <3>1. {0} \in SUBSET (0 .. 0) /\ 0 \in {0} /\ \A x \in {0} : x <= 0
      OBVIOUS
    <3> QED BY <3>1, MaxUnique
  <2>2. {0} \cup FramesOf(id)' = {0}
    BY <1>3
  <2> QED BY <2>1, <2>2 DEF Latest
<1>5. MayOf(id)' = {} /\ MustOf(id)' = {} /\ Cardinality({}) = 0
  <2>1. Closed(id)' = {}
    BY <1>3, <1>4 DEF Closed
  <2> QED BY <2>1, FS_EmptySet DEF MayOf, MustOf
<1>6. ~Reported(id)' /\ Open(id)' = 0 /\ StatsOf(id)'.timeout_events = 0
  BY <1>1 DEF Reported, Open, StatsOf, MessageStats
<1>7. SeenInv(id)'
  BY <1>1, <1>3 DEF SeenInv
<1>8. OpenInv(id)'
  <2>1. frameIdx' - 1 = 0
    BY <1>1, <1>2
  <2>2. ~MustReport(id, Latest(id), frameIdx - 1)'
    <3>1. 0 .. 0 - 1 = {}
      OBVIOUS
    <3> QED BY <1>4, <2>1, <3>1 DEF MustReport
  <2>3. wake' = 0
    BY <1>1
  <2> QED BY <1>6, <2>2, <2>3 DEF OpenInv
<1>9. EventsInv(id)'
  BY <1>5, <1>6 DEF EventsInv
<1> QED BY <1>7, <1>8, <1>9 DEF MessageInv

-----------------------------------------------------------------------------
(* The program.                                                            *)

\* TimeoutInv is inductive, given ReplayInv.
LEMMA TimeoutStep == ReplayInv /\ TimeoutInv /\ [Next]_vars /\ ReplayInv' => TimeoutInv'
<1> SUFFICES ASSUME ReplayInv, TimeoutInv, [Next]_vars, ReplayInv' PROVE TimeoutInv'
  OBVIOUS
<1>0. /\ LoadedInv /\ ClockInv /\ ClockInv' /\ clock \in Nat /\ clock' \in Nat
      /\ \A id \in DOMAIN db : MessageInv(id)
  <2>1. LoadedInv /\ ClockInv /\ \A id \in DOMAIN db : MessageInv(id)
    BY DEF ReplayInv, TimeoutInv
  <2>2. ClockInv'
    BY <2>1, ClockStep
  <2> QED BY <2>1, <2>2 DEF ClockInv
<1> SUFFICES ASSUME NEW id \in DOMAIN db' PROVE MessageInv(id)'
  BY <1>0 DEF TimeoutInv
<1>k. ASSUME UNCHANGED diagVars, log' = log, frameIdx' = frameIdx, speed' = speed,
             lateness' = lateness, clock <= clock',
             main' = "test" => main = "test" /\ wake' = wake
      PROVE  MessageInv(id)'
  BY <1>0, <1>k, MessageKept DEF diagVars
<1>c. clock' = clock => clock <= clock'
  BY <1>0
<1>1. CASE Load
  BY <1>0, <1>1, MessageAtLoad
<1>2. CASE LoadFails
  BY <1>2, <1>c, <1>k DEF LoadFails
<1>3. CASE Sleep
  BY <1>3, <1>c, <1>k DEF Sleep
<1>4. CASE Poll
  <2>1. db' = db
    BY <1>4 DEF Poll, checkTimeouts
  <2> QED BY <1>0, <1>4, <2>1, MessageAtPoll
<1>5. CASE ArriveUnknown
  <2>1. /\ main = "test" /\ MoreFrames /\ ~Waiting /\ NextFrame
        /\ wake' = Larger(wake, targetWall)
        /\ clock' = clock /\ speed' = speed /\ lateness' = lateness /\ log' = log
        /\ main' = main /\ Frame.can_id \notin DOMAIN db /\ db' = db /\ stats' = stats
        /\ last_seen_ms' = last_seen_ms /\ currently_timed_out' = currently_timed_out
    BY <1>5 DEF ArriveUnknown, onUnknownFrame
  <2>2. StatsOf(id)' = StatsOf(id)
    BY <2>1 DEF StatsOf
  <2> QED BY <1>0, <2>1, <2>2, MessageAtOther
<1>6. CASE ArriveKnown
  <2> PICK j, ts : j = Frame.can_id /\ ts = Frame.timestamp_ms
    OBVIOUS
  <2>1. /\ main = "test" /\ MoreFrames /\ ~Waiting /\ NextFrame
        /\ wake' = Larger(wake, targetWall)
        /\ clock' = clock /\ speed' = speed /\ lateness' = lateness /\ log' = log
        /\ main' = main /\ onKnownFrame(Frame)
    BY <1>6 DEF ArriveKnown
  <2>2. /\ db' = db /\ last_seen_ms' = Put(last_seen_ms, j, ts)
        /\ currently_timed_out' = Put(currently_timed_out, j, FALSE)
    BY <2>1 DEF onKnownFrame
  <2>3. PICK gap, bad :
            stats' = Put(stats, j, [StatsOf(j) EXCEPT !.frames_received = AddIf(TRUE, @),
                                                      !.counter_faults = AddIf(gap, @),
                                                      !.checksum_faults = AddIf(bad, @)])
    BY <2>1 DEF onKnownFrame
  <2>4. CASE id = j
    <3>1. /\ id \in DOMAIN last_seen_ms' /\ last_seen_ms'[id] = ts
          /\ id \in DOMAIN currently_timed_out' /\ currently_timed_out'[id] = FALSE
      BY <2>2, <2>4 DEF Put, PutAll
    <3>2. StatsOf(id)'.timeout_events = StatsOf(id).timeout_events
      <4>1. StatsOf(id)' = [StatsOf(id) EXCEPT !.frames_received = AddIf(TRUE, @),
                                               !.counter_faults = AddIf(gap, @),
                                               !.checksum_faults = AddIf(bad, @)]
        BY <2>3, <2>4 DEF Put, PutAll, StatsOf
      <4>2. StatsOf(id) \in StatRecord
        BY <2>2, EventsType
      <4> QED BY <4>1, <4>2 DEF StatRecord
    <3> QED BY <1>0, <2>1, <2>2, <2>4, <3>1, <3>2, MessageAtOwn
  <2>5. CASE id # j
    <3>1. /\ id \in DOMAIN last_seen_ms' <=> id \in DOMAIN last_seen_ms
          /\ id \in DOMAIN last_seen_ms => last_seen_ms'[id] = last_seen_ms[id]
          /\ id \in DOMAIN currently_timed_out' <=> id \in DOMAIN currently_timed_out
          /\ id \in DOMAIN currently_timed_out =>
                currently_timed_out'[id] = currently_timed_out[id]
      BY <2>2, <2>5 DEF Put, PutAll
    <3>2. StatsOf(id)' = StatsOf(id)
      BY <2>3, <2>5 DEF Put, PutAll, StatsOf
    <3> QED BY <1>0, <2>1, <2>2, <2>5, <3>1, <3>2, MessageAtOther
  <2> QED BY <2>4, <2>5
<1>7. CASE PrintSummary
  BY <1>7, <1>c, <1>k DEF PrintSummary
<1>8. CASE Tick
  <2>1. clock <= clock' /\ wake' = wake /\ main' = main
    BY <1>0, <1>8 DEF Tick
  <2> QED BY <1>8, <2>1, <1>k DEF Tick
<1>9. CASE UNCHANGED vars
  BY <1>9, <1>c, <1>k DEF vars, replayVars
<1>10. CASE Exited
  BY <1>9, <1>10 DEF Exited
<1> QED
  BY <1>1, <1>2, <1>3, <1>4, <1>5, <1>6, <1>7, <1>8, <1>9, <1>10 DEF Next, MainStep

\* Nothing is loaded at first.
LEMMA InitTimeout == Init => TimeoutInv
<1> SUFFICES ASSUME Init PROVE TimeoutInv
  OBVIOUS
<1>1. /\ db = <<>> /\ log = <<>> /\ frameIdx = 1 /\ main = "load" /\ clock = 0 /\ wake = 0
      /\ last_seen_ms = <<>> /\ currently_timed_out = <<>>
      /\ speed \in Speeds /\ lateness \in Latenesses
  BY DEF Init, DiagInit
<1>2. Len(log) = 0 /\ ~MoreFrames /\ 1 .. Len(log) = {}
  <2>1. Len(log) = 0
    BY <1>1
  <2> QED BY <1>1, <2>1 DEF MoreFrames
<1>3. speed \in Nat \ {0} /\ lateness \in Nat
  BY <1>1, ReplayAssumption
<1>4. DOMAIN db = {}
  BY <1>1
<1> QED BY <1>1, <1>2, <1>3, <1>4 DEF TimeoutInv, ClockInv

\* So it holds throughout the replay.
LEMMA TimeoutInductive == Spec => [](ReplayInv /\ TimeoutInv)
<1>1. ReplayInv /\ TimeoutInv /\ [Next]_vars => (ReplayInv /\ TimeoutInv)'
  BY ReplayStep, TimeoutStep
<1>2. Init => ReplayInv /\ TimeoutInv
  BY InitReplay, InitTimeout
<1> QED BY <1>1, <1>2, PTL DEF Spec

\* At the end every gap is closed or is the open one: the events are those of the log.
LEMMA EventsAtEnd ==
    ASSUME ReplayInv, TimeoutInv, main = "done", frameIdx = Len(log) + 1, NEW id \in DOMAIN db
    PROVE  /\ Cardinality(CertainTimeouts(id)) + CertainUnseen(id) <= StatsOf(id).timeout_events
           /\ StatsOf(id).timeout_events <= Cardinality(PossibleTimeouts(id)) + PossibleUnseen(id)
<1> PICK n, l, e : n = Len(log) /\ l = Latest(id) /\ e = StatsOf(id).timeout_events
  OBVIOUS
<1>1. /\ LoadedInv /\ ClockInv /\ OpenInv(id) /\ EventsInv(id) /\ e \in Nat
  BY EventsType DEF TimeoutInv, MessageInv
<1>2. /\ n \in Nat /\ l \in 0 .. n /\ l \in {0} \cup FramesOf(id)
      /\ FramesOf(id) \in SUBSET (1 .. n)
      /\ FramesOf(id) = {} <=> l = 0 /\ frameIdx - 1 = n
      /\ \A i \in FramesOf(id) : i <= l
  <2>1. n \in Nat /\ frameIdx - 1 = n
    BY <1>1 DEF LoadedInv
  <2> QED BY <1>1, <2>1, LatestIs
<1> DEFINE may == {i \in {0} \cup FramesOf(id) : MayReport(id, i, End(id, i))}
           must == {i \in {0} \cup FramesOf(id) : MustReport(id, i, End(id, i))}
<1>3. End(id, l) = n
  <2> PICK S : S = {n} \cup {j \in FramesOf(id) : j > l}
    OBVIOUS
  <2>1. S = {n}
    BY <1>2
  <2>2. n \in S /\ S \in SUBSET (0 .. n) /\ \A x \in S : n <= x
    BY <1>2, <2>1
  <2>3. Min(S) = n
    BY <1>2, <2>2, MinUnique
  <2> QED BY <2>3 DEF End
<1>4. /\ may = MayOf(id) \cup (IF MayReport(id, l, n) THEN {l} ELSE {})
      /\ must = MustOf(id) \cup (IF MustReport(id, l, n) THEN {l} ELSE {})
      /\ l \notin MayOf(id) /\ l \notin MustOf(id)
  BY <1>2, <1>3 DEF MayOf, MustOf, Closed
<1>5. Cardinality(must) \in Nat /\ Cardinality(must) <= e
  <2> PICK u : u = Cardinality(MustOf(id))
    OBVIOUS
  <2>1. u \in Nat /\ u + Open(id) <= e
    BY <1>1, GapsCounted DEF EventsInv
  <2>2. MustReport(id, l, n) => Reported(id)
    BY <1>1, <1>2 DEF OpenInv
  <2>3. CASE MustReport(id, l, n)
    <3>1. Cardinality(must) = u + 1
      BY <1>1, <1>4, <2>3, GapsCounted
    <3>2. Open(id) = 1
      BY <2>2, <2>3 DEF Open
    <3> QED BY <1>1, <2>1, <3>1, <3>2
  <2>4. CASE ~MustReport(id, l, n)
    <3>1. Cardinality(must) = u
      <4>1. must = MustOf(id)
        BY <1>4, <2>4
      <4> QED BY <4>1
    <3>2. Open(id) \in {0, 1}
      BY DEF Open
    <3> QED BY <1>1, <2>1, <3>1, <3>2
  <2> QED BY <2>3, <2>4
<1>6. Cardinality(may) \in Nat /\ e <= Cardinality(may)
  <2> PICK v : v = Cardinality(MayOf(id))
    OBVIOUS
  <2>1. v \in Nat /\ e <= v + Open(id)
    BY <1>1, GapsCounted DEF EventsInv
  <2>2. Reported(id) => MayReport(id, l, n)
    <3>1. Coming = n
      BY <1>2 DEF Coming, Smaller
    <3> QED BY <1>1, <3>1 DEF OpenInv
  <2>3. CASE MayReport(id, l, n)
    <3>1. Cardinality(may) = v + 1
      BY <1>1, <1>4, <2>3, GapsCounted
    <3>2. Open(id) \in {0, 1}
      BY DEF Open
    <3> QED BY <1>1, <2>1, <3>1, <3>2
  <2>4. CASE ~MayReport(id, l, n)
    <3>1. Cardinality(may) = v
      <4>1. may = MayOf(id)
        BY <1>4, <2>4
      <4> QED BY <4>1
    <3>2. Open(id) = 0
      BY <2>2, <2>4 DEF Open
    <3> QED BY <1>1, <2>1, <3>1, <3>2
  <2> QED BY <2>3, <2>4
<1>7. \A i \in FramesOf(id) : GapEnd(i) = End(id, i)
  BY DEF GapEnd, End, FramesOf
<1>8. \A i \in FramesOf(id) : i # 0
  BY <1>2
<1>9. /\ PossibleTimeouts(id) = may \ {0} /\ (PossibleUnseen(id) = IF 0 \in may THEN 1 ELSE 0)
  <2>1. PossibleTimeouts(id) = may \ {0}
    BY <1>7, <1>8 DEF PossibleTimeouts, MayReport
  <2>2. FirstFrame(id) = End(id, 0)
    <3>1. {j \in FramesOf(id) : j > 0} = FramesOf(id)
      BY <1>2
    <3> QED BY <3>1 DEF FirstFrame, End
  <2> QED BY <2>1, <2>2 DEF PossibleUnseen, MayReport
<1>10. /\ CertainTimeouts(id) = must \ {0} /\ (CertainUnseen(id) = IF 0 \in must THEN 1 ELSE 0)
  <2>1. CertainTimeouts(id) = must \ {0}
    BY <1>7, <1>8 DEF CertainTimeouts, MustReport
  <2>2. FirstFrame(id) = End(id, 0)
    <3>1. {j \in FramesOf(id) : j > 0} = FramesOf(id)
      BY <1>2
    <3> QED BY <3>1 DEF FirstFrame, End
  <2> QED BY <2>1, <2>2 DEF CertainUnseen, MustReport
<1>11. ASSUME NEW S, S \in SUBSET ({0} \cup FramesOf(id))
       PROVE  /\ Cardinality(S \ {0}) \in Nat
              /\ Cardinality(S) = Cardinality(S \ {0}) + (IF 0 \in S THEN 1 ELSE 0)
  <2>1. S \ {0} \in SUBSET (1 .. n)
    BY <1>2, <1>11
  <2>2. IsFiniteSet(S \ {0}) /\ Cardinality(S \ {0}) \in Nat
    BY <1>2, <2>1, CountUpTo
  <2>3. CASE 0 \in S
    <3>1. S = (S \ {0}) \cup {0} /\ 0 \notin S \ {0}
      BY <2>3
    <3>2. Cardinality((S \ {0}) \cup {0}) = Cardinality(S \ {0}) + 1
      BY <2>2, <3>1, FS_AddElement
    <3> QED BY <2>2, <2>3, <3>1, <3>2
  <2>4. CASE 0 \notin S
    <3>1. Cardinality(S) = Cardinality(S \ {0})
      <4>1. S \ {0} = S
        BY <2>4
      <4> QED BY <4>1
    <3>2. Cardinality(S \ {0}) = Cardinality(S \ {0}) + 0
      BY <2>2
    <3> QED BY <2>2, <2>4, <3>1, <3>2
  <2> QED BY <2>3, <2>4
<1>12. may \in SUBSET ({0} \cup FramesOf(id)) /\ must \in SUBSET ({0} \cup FramesOf(id))
  OBVIOUS
<1> HIDE DEF may, must
<1>13. /\ Cardinality(PossibleTimeouts(id)) + PossibleUnseen(id) = Cardinality(may)
       /\ Cardinality(CertainTimeouts(id)) + CertainUnseen(id) = Cardinality(must)
  BY <1>9, <1>10, <1>11, <1>12
<1> QED BY <1>5, <1>6, <1>13

\* The replay ends after the last frame.
LEMMA AllArrived == Spec => [](main = "done" => frameIdx = Len(log) + 1)
<1> DEFINE P == main = "done" => frameIdx = Len(log) + 1
<1>1. Init => P
  BY DEF Init
<1>2. ReplayInv /\ P /\ [Next]_vars => P'
  <2> SUFFICES ASSUME ReplayInv, P, [Next]_vars PROVE P'
    OBVIOUS
  <2>1. CASE PrintSummary
    <3>1. Len(log) \in Nat /\ frameIdx \in 1 .. Len(log) + 1
      BY DEF ReplayInv, LoadedInv
    <3> QED BY <2>1, <3>1 DEF PrintSummary, MoreFrames
  <2>2. ASSUME main' = "done", ~PrintSummary PROVE main = "done" /\ UNCHANGED <<frameIdx, log>>
    <3>1. CASE Load \/ LoadFails \/ Sleep \/ Poll
      BY <2>2, <3>1 DEF Load, LoadFails, Sleep, Poll
    <3>2. CASE ArriveUnknown \/ ArriveKnown \/ Tick
      BY <2>2, <3>2 DEF ArriveUnknown, ArriveKnown, Tick
    <3>3. CASE UNCHANGED vars
      BY <2>2, <3>3 DEF vars, replayVars
    <3>4. CASE Exited
      BY <3>3, <3>4 DEF Exited
    <3> QED BY <2>2, <3>1, <3>2, <3>3, <3>4 DEF Next, MainStep
  <2> QED BY <2>1, <2>2
<1> QED BY <1>1, <1>2, ReplayInductive, PTL DEF Spec

\* For every database, log, speed, lateness and fineness of the clock: every gap of the log
\* that outlasts period_ms x 3 by more than the last poll can be behind is one timeout, none
\* that falls short of it by as much as that poll can be ahead is, a message not yet seen is
\* one more at the first poll, and nothing else is (diagnostics.cpp:75-98, polled by
\* main.cpp:133-155).
THEOREM TimeoutsCorrect == Spec => []TimeoutsMatchLog
<1>1. /\ ReplayInv /\ TimeoutInv
      /\ main = "done" => frameIdx = Len(log) + 1
      => TimeoutsMatchLog
  <2> SUFFICES ASSUME ReplayInv, TimeoutInv, main = "done", frameIdx = Len(log) + 1,
                      NEW id \in DOMAIN db
               PROVE  /\ StatsOf(id).timeout_events
                            >= Cardinality(CertainTimeouts(id)) + CertainUnseen(id)
                      /\ StatsOf(id).timeout_events
                            <= Cardinality(PossibleTimeouts(id)) + PossibleUnseen(id)
    BY DEF TimeoutsMatchLog
  <2> QED BY EventsAtEnd
<1> QED BY <1>1, TimeoutInductive, AllArrived, PTL

-----------------------------------------------------------------------------
(* Losses.                                                                 *)

\* A number is a multiple of s and a rest.
LEMMA MultipleAndRest ==
    ASSUME NEW x \in Nat, NEW s \in Nat \ {0}
    PROVE  \E q \in Nat : \E r \in 0 .. s - 1 : x = q * s + r /\ r = x % s /\ q = x \div s
OBVIOUS

\* A counter that is in step after more than one frame has gone round at least once.
LEMMA CounterLoss ==
    ASSUME NEW a \in Nat, NEW b \in Nat, NEW N \in Nat \ {0}, b > a + 1,
           b % N = ((a % N) + 1) % N
    PROVE  b >= a + 1 + N
<1>1. PICK q \in Nat, r \in 0 .. N - 1 : a = q * N + r /\ r = a % N
  BY MultipleAndRest
<1>2. PICK u \in Nat, v \in 0 .. N - 1 : b = u * N + v /\ v = b % N
  BY MultipleAndRest
<1>3. ASSUME NEW m \in Int, m * N > 0 PROVE m * N >= N
  BY <1>3
<1>4. CASE r + 1 < N
  <2>1. v = r + 1
    <3>1. (r + 1) % N = r + 1
      BY <1>4
    <3> QED BY <1>1, <1>2, <3>1
  <2>2. b - (a + 1) = (u - q) * N
    <3>1. PICK c \in Int, d \in Int : c = u * N /\ d = q * N
      OBVIOUS
    <3>2. b = c + v /\ a = d + r
      BY <1>1, <1>2, <3>1, Zenon
    <3>3. (u - q) * N = c - d
      BY <3>1
    <3> QED BY <2>1, <3>1, <3>2, <3>3
  <2>3. (u - q) * N >= N
    <3>1. u - q \in Int /\ (u - q) * N > 0
      BY <2>2
    <3> QED BY <1>3, <3>1
  <2> QED BY <2>2, <2>3
<1>5. CASE r + 1 = N
  <2>1. v = 0
    BY <1>1, <1>2, <1>5
  <2>2. b - (a + 1) = (u - q - 1) * N
    <3>1. b = u * N /\ a + 1 = q * N + N
      BY <1>1, <1>2, <1>5, <2>1
    <3>2. (u - q - 1) * N = u * N - (q * N + N)
      OBVIOUS
    <3> QED BY <3>1, <3>2
  <2>3. (u - q - 1) * N >= N
    <3>1. u - q - 1 \in Int /\ (u - q - 1) * N > 0
      BY <2>2
    <3> QED BY <1>3, <3>1
  <2> QED BY <2>2, <2>3
<1> QED BY <1>1, <1>4, <1>5

\* So much time has passed that a timeout is due.
LEMMA LongGap ==
    ASSUME NEW x \in Nat, NEW y \in Nat, NEW P \in Nat \ {0}, NEW N \in Nat \ {0},
           NEW k \in 0 .. N - 1, x % P = 0, y % P = 0, y - x > P,
           (y \div P) % N = (((x \div P) % N) + 1) % N
    PROVE  y - x > P * k + 1
<1>1. PICK a \in Nat : x = a * P /\ a = x \div P
  OBVIOUS
<1>2. PICK b \in Nat : y = b * P /\ b = y \div P
  OBVIOUS
<1>3. b > a + 1
  <2>1. (b - a) * P > P
    BY <1>1, <1>2
  <2> QED BY <2>1
<1>4. b - a >= 1 + N
  <2>1. b >= a + 1 + N
    BY <1>1, <1>2, <1>3, CounterLoss
  <2> QED BY <2>1
<1>5. y - x >= (2 + k) * P
  <2>1. b - a >= 2 + k
    BY <1>4
  <2>2. (b - a) * P >= (2 + k) * P
    BY <2>1
  <2> QED BY <1>1, <1>2, <2>2
<1>6. (2 + k) * P = P * k + P + P /\ P * k \in Int
  OBVIOUS
<1> QED BY <1>5, <1>6

\* The frame before the one at i.
LEMMA PreviousIs ==
    ASSUME LoadedInv, NEW id, NEW i \in FramesOf(id), NEW p, p = Previous(i), p # 0
    PROVE  /\ p \in FramesOf(id) /\ p < i /\ GapEnd(p) = i
           /\ i \in 1 .. Len(log) /\ p \in 1 .. Len(log)
<1>1. /\ FramesOf(id) \in SUBSET (1 .. Len(log)) /\ Len(log) \in Nat
  BY ArrivedInLog
<1>2. log[i].can_id = id
  BY DEF FramesOf
<1> PICK S : S = {0} \cup {j \in FramesOf(id) : j < i}
  OBVIOUS
<1>3. S \in SUBSET (0 .. Len(log)) /\ S # {}
  BY <1>1
<1>4. p \in S /\ \A x \in S : x <= p
  <2>1. p = Max(S)
    BY <1>2 DEF Previous
  <2> QED BY <1>1, <1>3, <2>1, MaxIs
<1>5. p \in FramesOf(id) /\ p < i
  BY <1>4
<1>6. log[p].can_id = id
  BY <1>5 DEF FramesOf
<1>7. GapEnd(p) = i
  <2> PICK T : T = {Len(log)} \cup {j \in FramesOf(id) : j > p}
    OBVIOUS
  <2>1. T \in SUBSET (0 .. Len(log)) /\ i \in T
    BY <1>1, <1>5
  <2>2. \A x \in T : i <= x
    <3>1. \A j \in FramesOf(id) : j > p => ~(j < i)
      BY <1>1, <1>4, <1>5
    <3> QED BY <1>1, <3>1
  <2>3. Min(T) = i
    BY <1>1, <2>1, <2>2, MinUnique
  <2> QED BY <1>6, <2>3 DEF GapEnd
<1> QED BY <1>1, <1>5, <1>7

\* Somewhere between two frames of different times the time jumps to that of the second.
LEMMA TimeJumps ==
    ASSUME LoadedInv, ClockInv, NEW p \in 1 .. Len(log), NEW i \in 1 .. Len(log),
           Time(p) < Time(i)
    PROVE  \E k \in p .. i - 1 : Time(k) < Time(i) /\ Time(k + 1) = Time(i)
<1>1. Len(log) \in Nat /\ \A j \in 1 .. Len(log) : Time(j) \in Int
  <2>1. Len(log) \in Nat
    BY DEF LoadedInv
  <2> QED BY <2>1, TimesAreNumbers
<1>2. \A j, k \in 1 .. Len(log) : j <= k => Time(j) <= Time(k)
  BY DEF ClockInv
<1>3. p < i
  BY <1>1, <1>2
<1> DEFINE S == {k \in 0 .. Len(log) : k \in p .. i - 1 /\ Time(k) < Time(i)}
<1>4. p \in S /\ S \in SUBSET (0 .. Len(log)) /\ S # {}
  BY <1>1, <1>3
<1>5. PICK k : k = Max(S)
  OBVIOUS
<1>6. k \in S /\ \A x \in S : x <= k
  <2> HIDE DEF S
  <2> QED BY <1>1, <1>4, <1>5, MaxIs
<1>7. k \in p .. i - 1 /\ Time(k) < Time(i)
  BY <1>6
<1>8. Time(k + 1) = Time(i)
  <2>1. k + 1 \in 1 .. Len(log) /\ k + 1 <= i /\ k \in Int
    BY <1>1, <1>7
  <2>2. Time(k + 1) <= Time(i)
    BY <1>2, <2>1
  <2>3. ~(Time(k + 1) < Time(i))
    <3>1. CASE k + 1 = i
      BY <1>1, <3>1
    <3>2. CASE k + 1 # i
      <4>1. k + 1 \in p .. i - 1 /\ k + 1 \in 0 .. Len(log)
        BY <1>1, <1>7, <2>1, <3>2
      <4>2. k + 1 \notin S
        BY <1>6, <2>1
      <4> QED BY <4>1, <4>2
    <3> QED BY <3>1, <3>2
  <2>4. Time(k + 1) \in Int /\ Time(i) \in Int
    BY <1>1, <2>1
  <2> QED BY <2>2, <2>3, <2>4
<1> QED BY <1>7, <1>8

\* A loss that the counter does not show is a gap that must be reported.
LEMMA UnseenLossTimesOut ==
    ASSUME LoadedInv, ClockInv, lateness < TicksPerMs, NEW id \in DOMAIN db,
           findSignal(db[id], "counter"), SentInStep(id),
           NEW i \in LossyGaps(id), ~Skips(i), NEW p, p = Previous(i)
    PROVE  p \in CertainTimeouts(id)
<1>1. /\ i \in FramesOf(id) /\ p # 0 /\ Time(i) - Time(p) > db[id].period_ms
  BY DEF LossyGaps
<1>2. /\ p \in FramesOf(id) /\ p < i /\ GapEnd(p) = i /\ i \in 1 .. Len(log)
      /\ p \in 1 .. Len(log)
  BY <1>1, PreviousIs
<1> PICK P, N, x, y : P = db[id].period_ms /\ N = CounterValues /\ x = Time(p) /\ y = Time(i)
  OBVIOUS
<1>3. P \in Nat \ {0} /\ N \in Nat \ {0} /\ kTimeoutMultiplier \in 0 .. N - 1
  <2>1. db = Database.messages
    BY DEF LoadedInv
  <2> QED BY <2>1, DatabaseAssumption, DiagnosticsAssumption
<1>4. x \in Int /\ y \in Int
  <2>1. p \in 0 .. Len(log) /\ i \in 0 .. Len(log)
    BY <1>2
  <2> QED BY <2>1, TimesAreNumbers
<1>5. /\ x >= 0 /\ x % P = 0 /\ FieldOf(p, "counter") = (x \div P) % N
      /\ y >= 0 /\ y % P = 0 /\ FieldOf(i, "counter") = (y \div P) % N
  BY <1>1, <1>2 DEF SentInStep
<1>6. (y \div P) % N = (((x \div P) % N) + 1) % N
  <2>1. log[i].can_id = id
    BY <1>1 DEF FramesOf
  <2>2. FieldOf(i, "counter") = (FieldOf(p, "counter") + 1) % N
    BY <1>1, <2>1 DEF Skips
  <2> QED BY <1>5, <2>2
<1>7. y - x > Threshold(id) + 1
  <2>1. x \in Nat /\ y \in Nat
    BY <1>4, <1>5
  <2>2. y - x > P * kTimeoutMultiplier + 1
    BY <1>1, <1>3, <1>5, <1>6, <2>1, LongGap
  <2> QED BY <2>2 DEF Threshold
<1>8. PICK k \in p .. i - 1 : Time(k) < y /\ Time(k + 1) = y
  <2>1. x < y
    BY <1>1, <1>3, <1>4
  <2> QED BY <1>2, <2>1, TimeJumps
<1>9. Time(k) \in Int /\ Threshold(id) \in Int /\ Len(log) \in Nat
  <2>1. Len(log) \in Nat
    BY DEF LoadedInv
  <2>2. k \in 0 .. Len(log)
    BY <1>2, <1>8, <2>1
  <2> QED BY <2>1, <2>2, TimesAreNumbers
<1>10. PolledAfter(k)
  <2>1. PICK d, G : d = y - Time(k) /\ G = TicksPerMs
    OBVIOUS
  <2>2. d \in Int /\ 1 <= d /\ 1 <= y /\ lateness \in Nat /\ G \in Nat \ {0} /\ lateness < G
    <3>1. PICK z \in Int : z = Time(k) /\ z < y
      BY <1>8, <1>9
    <3>2. d \in Int /\ 1 <= d
      BY <1>4, <2>1, <3>1
    <3>3. y - x > P
      BY <1>1
    <3>4. 1 <= y
      BY <1>3, <1>4, <1>5, <3>3
    <3>5. lateness \in Nat /\ G \in Nat \ {0} /\ lateness < G
      BY <2>1, ReplayAssumption DEF ClockInv
    <3> QED BY <3>2, <3>4, <3>5
  <2>3. 1 * G <= d * G /\ 1 * G <= y * G /\ 1 * G = G
    BY <1>4, <2>2, Multiples
  <2>4. d * G \in Int /\ y * G \in Int
    BY <1>4, <2>2
  <2>5. d * G > lateness /\ y * G > lateness
    BY <2>2, <2>3, <2>4
  <2> QED BY <1>8, <2>1, <2>5 DEF PolledAfter
<1>11. Time(k + 1) - Time(p) > Threshold(id) + Behind
  <2>1. Behind \in Nat /\ Behind <= 1
    <3>1. PICK z, G : z = lateness + TicksPerMs - 1 /\ G = TicksPerMs
      OBVIOUS
    <3>2. z \in Nat /\ G \in Nat \ {0} /\ z <= G + (G - 1)
      BY <3>1, ReplayAssumption DEF ClockInv
    <3>3. PICK q : q = z \div G
      OBVIOUS
    <3>4. q \in Nat /\ q * G <= z
      BY <3>2, <3>3, Divided
    <3>5. 2 * G = G + G /\ q * G \in Int
      BY <3>2, <3>4
    <3>6. ~(2 * G <= q * G)
      BY <3>2, <3>4, <3>5
    <3>7. ~(2 <= q)
      BY <3>2, <3>4, <3>6, Multiples
    <3> QED BY <3>1, <3>3, <3>4, <3>7 DEF Behind
  <2>2. PICK b, th : b = Behind /\ th = Threshold(id)
    OBVIOUS
  <2>3. y - x > th + b
    BY <1>4, <1>7, <1>9, <2>1, <2>2
  <2> QED BY <1>8, <2>2, <2>3
<1> QED BY <1>2, <1>8, <1>10, <1>11 DEF CertainTimeouts

\* The losses are no more than the counter faults and the timeouts.
LEMMA LossesCounted ==
    ASSUME LoadedInv, ClockInv, lateness < TicksPerMs, NEW id \in DOMAIN db,
           findSignal(db[id], "counter"), SentInStep(id)
    PROVE  /\ Cardinality(LossyGaps(id)) <=
                  Cardinality(SkipsOf(id)) + Cardinality(CertainTimeouts(id))
           /\ Cardinality(LossyGaps(id)) \in Nat /\ Cardinality(SkipsOf(id)) \in Nat
           /\ Cardinality(CertainTimeouts(id)) \in Nat
<1> PICK L, K, C, D : L = LossyGaps(id) /\ K = SkipsOf(id) /\ C = CertainTimeouts(id)
                      /\ D = L \ K
  OBVIOUS
<1>1. FramesOf(id) \in SUBSET (1 .. Len(log)) /\ Len(log) \in Nat
  BY ArrivedInLog
<1>2. L \in SUBSET (1 .. Len(log)) /\ K \in SUBSET (1 .. Len(log)) /\ C \in SUBSET (1 .. Len(log))
  BY <1>1 DEF LossyGaps, SkipsOf, CertainTimeouts
<1>3. /\ IsFiniteSet(L) /\ Cardinality(L) \in Nat /\ IsFiniteSet(K) /\ Cardinality(K) \in Nat
      /\ IsFiniteSet(C) /\ Cardinality(C) \in Nat
  BY <1>1, <1>2, CountUpTo
<1>4. /\ IsFiniteSet(D) /\ Cardinality(D) = Cardinality(L) - Cardinality(L \cap K)
      /\ Cardinality(D) \in Nat
      /\ Cardinality(L \cap K) <= Cardinality(K) /\ Cardinality(L \cap K) \in Nat
  <2>1. IsFiniteSet(D) /\ Cardinality(D) = Cardinality(L) - Cardinality(L \cap K)
    BY <1>3, FS_Difference
  <2>2. IsFiniteSet(L \cap K) /\ Cardinality(L \cap K) <= Cardinality(K)
    BY <1>3, FS_Intersection
  <2> QED BY <2>1, <2>2, FS_CardinalityType
<1>5. ASSUME NEW i \in D
      PROVE  /\ Previous(i) \in C /\ Previous(i) # 0 /\ i \in FramesOf(id)
             /\ GapEnd(Previous(i)) = i
  <2>1. i \in LossyGaps(id) /\ i \in FramesOf(id) /\ Previous(i) # 0
    BY <1>5 DEF LossyGaps
  <2>2. ~Skips(i)
    BY <1>5, <2>1 DEF SkipsOf
  <2>3. Previous(i) \in C
    BY <2>1, <2>2, UnseenLossTimesOut
  <2> QED BY <2>1, <2>3, PreviousIs
<1>6. Cardinality(D) <= Cardinality(C)
  <2> SUFFICES ASSUME Cardinality(C) < Cardinality(D) PROVE FALSE
    BY <1>3, <1>4
  <2> DEFINE f == [i \in D |-> Previous(i)]
  <2>1. f \in [D -> C]
    BY <1>5
  <2> HIDE DEF f
  <2>2. PICK i, j \in D : i # j /\ f[i] = f[j]
    BY <1>3, <1>4, <2>1, FS_PigeonHole
  <2>3. Previous(i) = Previous(j)
    BY <2>2 DEF f
  <2>4. GapEnd(Previous(i)) = i /\ GapEnd(Previous(j)) = j
    BY <1>5
  <2> QED BY <2>2, <2>3, <2>4
<1>7. Cardinality(L) <= Cardinality(K) + Cardinality(C)
  BY <1>3, <1>4, <1>6
<1> QED BY <1>3, <1>7

\* For every database, log and speed, and a thread less than a millisecond late: if a message
\* was sent every period_ms with its counter in step, every loss is a counter fault or, when
\* as many frames were lost as the counter has values, a timeout (diagnostics.cpp:18-62,
\* 75-98).
THEOREM LossesAreNoticed == Spec => []LossesNoticed
<1>1. /\ ReplayInv /\ TimeoutInv
      /\ main = "done" => frameIdx = Len(log) + 1
      => LossesNoticed
  <2> SUFFICES ASSUME ReplayInv, TimeoutInv, main = "done", frameIdx = Len(log) + 1,
                      lateness < TicksPerMs, NEW id \in DOMAIN db,
                      findSignal(db[id], "counter"), SentInStep(id)
               PROVE  StatsOf(id).counter_faults + StatsOf(id).timeout_events
                        >= Cardinality(LossyGaps(id)) + CertainUnseen(id)
    BY DEF LossesNoticed
  <2> PICK l, k, c, s, e : /\ l = Cardinality(LossyGaps(id)) /\ k = Cardinality(SkipsOf(id))
                           /\ c = Cardinality(CertainTimeouts(id)) /\ s = CertainUnseen(id)
                           /\ e = StatsOf(id).timeout_events
    OBVIOUS
  <2>1. LoadedInv /\ ClockInv /\ e \in Nat /\ StatsOf(id).counter_faults = k
    BY EventsType DEF ReplayInv, StatsInv, CountsOf, TimeoutInv
  <2>2. l <= k + c /\ l \in Nat /\ k \in Nat /\ c \in Nat
    BY <2>1, LossesCounted
  <2>3. c + s <= e
    BY EventsAtEnd
  <2>4. s \in Nat
    BY DEF CertainUnseen
  <2>5. k + e >= l + s
    <3>1. e \in Nat /\ s \in Nat
      BY <2>1, <2>4
    <3> QED BY <2>2, <2>3, <3>1, SMTT(30)
  <2> QED BY <2>1, <2>5
<1> QED BY <1>1, TimeoutInductive, AllArrived, PTL
=============================================================================
