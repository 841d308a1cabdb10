--------------------------- MODULE UartDriverProofs ---------------------------
(***************************************************************************)
(* Proofs about UartDriver, for every file: the packets and the counts it  *)
(* prints are those of the offline reading of the whole file.  What the    *)
(* parser does with a frame is known from UartParserProofs; here the point *)
(* the parser has reached is related to the attempts of the offline        *)
(* reading: those before Base are settled, the others start at Base or     *)
(* later.                                                                  *)
(***************************************************************************)
EXTENDS UartDriver, UartParserProofs, ProofFacts, SequenceTheorems

\* Where the current attempt starts, or the next byte if there is none.
Base == pos - Len(wire)

ValidBefore(p) == {q \in ValidAttempts : q < p}
CorruptBefore(p) == {q \in CorruptAttempts : q < p}

\* The bytes the parser counts as discarded.
Discarded == Skipped \ FalseStarts
DiscardedBefore(p) == {q \in Discarded : q < p}

\* The place in `printed` of the packet of a valid attempt.
Rank(q) == Cardinality({r \in ValidAttempts : r <= q})

\* The wire of the parser is the end of what has been read.
WireInv ==
    /\ pos \in 1 .. Len(data) + 1 /\ Len(wire) < pos
    /\ \A i \in 1 .. Len(wire) : wire[i] = data[Base - 1 + i]

\* The offline reading agrees with the parser's up to Base.
SettledBefore(p) ==
    /\ AttemptsFrom[p] = {q \in Attempts : q >= p}
    /\ \A q \in Attempts : q < p => Whole(q) /\ q + FrameLen(q) <= p

PrintedBefore(p) ==
    /\ Len(printed) = Cardinality(ValidBefore(p))
    /\ \A q \in ValidBefore(p) : printed[Rank(q)] = PacketOf(FrameAt(q))

\* A final SOF1 that no attempt takes leaves the parser waiting for SOF2.
LastByteInv ==
    state = "WaitSof1" /\ pos > 1 => pos - 1 \notin Skipped \/ data[pos - 1] # kSof1

CountsBefore(p) ==
    /\ stats.valid_packets = Cardinality(ValidBefore(p))
    /\ stats.crc_failures = Cardinality(CorruptBefore(p))
    /\ stats.discarded_bytes = Cardinality(DiscardedBefore(p))

\* What holds while bytes are fed.
FeedInv ==
    /\ WireInv /\ LastByteInv
    /\ SettledBefore(Base) /\ PrintedBefore(Base) /\ CountsBefore(Base)
    /\ stats.partial_packets = 0

Phases == {"open", "failed", "feed", "report", "done"}

\* What holds once finish() has been called.
ReportInv(counts) ==
    /\ Len(printed) = Cardinality(ValidAttempts)
    /\ \A q \in ValidAttempts : printed[Rank(q)] = PacketOf(FrameAt(q))
    /\ counts.valid_packets = Cardinality(ValidAttempts)
    /\ counts.crc_failures = Cardinality(CorruptAttempts)
    /\ counts.sync_losses = Cardinality(CorruptAttempts)
    /\ counts.partial_packets = IF EndsMidPacket THEN 1 ELSE 0
    /\ counts.discarded_bytes = Cardinality(Discarded)

\* The packets of the intact frames.
GoodPackets == {PacketOf(FrameAt(q)) : q \in ValidAttempts}

DriverInv ==
    /\ IInv
    /\ phase \in Phases
    /\ data \in Seq(Byte) /\ Len(data) < CounterModulus
    /\ printed \in Seq(GoodPackets)
    /\ phase = "open" =>
          state = "WaitSof1" /\ pos = 1 /\ printed = <<>> /\ stats = ZeroStats
    /\ phase = "feed" => FeedInv
    /\ phase = "report" => ReportInv(stats)
    /\ phase = "done" => ReportInv(report)

USE BytesAssumption

-----------------------------------------------------------------------------
(* The offline reading.                                                    *)

\* The body of AttemptsFrom, for any function in its place.
AttemptsBy(f, p) ==
    IF SofPairs(p) = {} THEN {}
    ELSE {FirstPair(p)} \cup
            IF Whole(FirstPair(p)) THEN f[FirstPair(p) + FrameLen(FirstPair(p))] ELSE {}

\* The first SOF pair from p on.
LEMMA FirstPairIs ==
    ASSUME data \in Seq(Byte), NEW p \in 1 .. Len(data) + 1, SofPairs(p) # {}
    PROVE  /\ FirstPair(p) \in SofPairs(p)
           /\ \A r \in SofPairs(p) : FirstPair(p) <= r
<1>1. SofPairs(p) \in SUBSET Nat
  BY DEF SofPairs
<1>2. \E q \in SofPairs(p) : \A r \in SofPairs(p) : q <= r
  BY <1>1, SmallestNat
<1> QED BY <1>2 DEF FirstPair

\* A whole frame has at least six bytes and ends inside the file.
LEMMA WholeFits ==
    ASSUME data \in Seq(Byte), NEW q \in 1 .. Len(data), Whole(q)
    PROVE  /\ FrameLen(q) \in Nat /\ FrameLen(q) >= 6
           /\ q + FrameLen(q) \in q + 6 .. Len(data) + 1
<1>1. q + 2 \in 1 .. Len(data)
  BY DEF Whole
<1>2. data[q + 2] \in Nat
  BY <1>1 DEF Byte
<1> QED BY <1>2 DEF Whole, FrameLen

\* Positions of SOF pairs.
LEMMA SofPairsAre ==
    ASSUME data \in Seq(Byte), NEW p \in 1 .. Len(data) + 1
    PROVE  /\ SofPairs(p) \subseteq p .. Len(data) - 1
           /\ \A r \in p .. Len(data) + 1 : SofPairs(r) = {q \in SofPairs(p) : q >= r}
BY DEF SofPairs

\* The reading from p on looks only at readings from later positions.
LEMMA AttemptsByLocal ==
    ASSUME data \in Seq(Byte), NEW p \in 1 .. Len(data) + 1, NEW f, NEW g,
           \A r \in p + 1 .. Len(data) + 1 : f[r] = g[r]
    PROVE  AttemptsBy(f, p) = AttemptsBy(g, p)
<1>1. CASE SofPairs(p) = {}
  BY <1>1 DEF AttemptsBy
<1>2. CASE SofPairs(p) # {}
  <2>1. FirstPair(p) \in p .. Len(data) - 1
    BY <1>2, FirstPairIs, SofPairsAre
  <2>2. ASSUME Whole(FirstPair(p))
        PROVE  FirstPair(p) + FrameLen(FirstPair(p)) \in p + 1 .. Len(data) + 1
    <3>1. FirstPair(p) \in 1 .. Len(data) /\ Len(data) \in Nat
      BY <2>1
    <3>2. FirstPair(p) + FrameLen(FirstPair(p)) \in FirstPair(p) + 6 .. Len(data) + 1
      BY <2>2, <3>1, WholeFits
    <3> QED BY <2>1, <3>1, <3>2
  <2> QED BY <1>2, <2>2 DEF AttemptsBy
<1> QED BY <1>1, <1>2

\* The recursive definition defines: from the end of the file backwards there is a
\* function that satisfies it.
LEMMA AttemptsFromIs ==
    ASSUME data \in Seq(Byte)
    PROVE  \A p \in 1 .. Len(data) + 1 : AttemptsFrom[p] = AttemptsBy(AttemptsFrom, p)
<1> DEFINE n == Len(data) + 1
           Solves(f, k) == /\ DOMAIN f = 1 .. n
                           /\ \A p \in k .. n : f[p] = AttemptsBy(f, p)
           T == {k \in 1 .. n : \E f : Solves(f, k)}
<1>a. n \in Nat /\ n >= 1
  OBVIOUS
<1>1. ASSUME NEW k \in 1 .. n, \A r \in k + 1 .. n : r \in T PROVE k \in T
  <2>1. PICK f : DOMAIN f = 1 .. n /\ \A p \in k + 1 .. n : f[p] = AttemptsBy(f, p)
    <3>1. CASE k = n
      <4>1. DOMAIN [p \in 1 .. n |-> {}] = 1 .. n
        OBVIOUS
      <4>2. k + 1 .. n = {}
        BY <1>a, <3>1
      <4> HIDE DEF n
      <4> QED BY <4>1, <4>2
    <3>2. CASE k < n
      <4>1. k + 1 \in k + 1 .. n
        BY <1>a, <3>2
      <4>2. k + 1 \in T
        BY <1>1, <4>1
      <4> QED BY <4>2
    <3> HIDE DEF n
    <3> QED BY <1>a, <3>1, <3>2
  <2> DEFINE g == [p \in 1 .. n |-> IF p = k THEN AttemptsBy(f, k) ELSE f[p]]
  <2>2. \A r \in 1 .. n : r # k => g[r] = f[r]
    OBVIOUS
  <2>3. DOMAIN g = 1 .. n /\ g[k] = AttemptsBy(f, k)
    OBVIOUS
  <2> HIDE DEF g
  <2>4. ASSUME NEW p \in k .. n PROVE g[p] = AttemptsBy(g, p)
    <3>0. p \in 1 .. n /\ p \in 1 .. Len(data) + 1 /\ \A r \in p + 1 .. n : r \in 1 .. n /\ r # k
      BY <1>a
    <3>1. \A r \in p + 1 .. Len(data) + 1 : f[r] = g[r]
      BY <2>2, <3>0
    <3>2. AttemptsBy(f, p) = AttemptsBy(g, p)
      BY <3>0, <3>1, AttemptsByLocal
    <3>3. CASE p = k
      BY <2>3, <3>2, <3>3
    <3>4. CASE p # k
      <4>1. p \in k + 1 .. n
        BY <1>a, <3>4
      <4> QED BY <2>1, <2>2, <3>0, <3>2, <3>4, <4>1
    <3> QED BY <3>3, <3>4
  <2> QED BY <2>3, <2>4
<1>2. 1 \in T
  <2>1. \A p \in 1 .. n : p \in T
    <3> HIDE DEF n, T
    <3> QED BY <1>1, <1>a, BackwardInduction
  <2> QED BY <1>a, <2>1
<1>3. PICK f : Solves(f, 1)
  BY <1>2
<1> DEFINE h == [p \in 1 .. n |-> f[p]]
<1>4. \A p \in 1 .. n : h[p] = AttemptsBy(h, p)
  <2>1. \A p \in 1 .. n : h[p] = f[p]
    OBVIOUS
  <2> HIDE DEF h
  <2>2. ASSUME NEW p \in 1 .. n PROVE AttemptsBy(f, p) = AttemptsBy(h, p)
    <3>1. \A r \in p + 1 .. Len(data) + 1 : f[r] = h[r]
      BY <2>1
    <3> QED BY <3>1, AttemptsByLocal
  <2> QED BY <1>3, <2>1, <2>2
<1>5. h = [p \in 1 .. n |-> AttemptsBy(h, p)]
  <2>1. h = [p \in 1 .. n |-> h[p]]
    OBVIOUS
  <2> HIDE DEF h
  <2> QED BY <1>4, <2>1
<1>6. \E e : e = [p \in 1 .. n |-> AttemptsBy(e, p)]
  <2> HIDE DEF h
  <2> QED BY <1>5
<1>7. AttemptsFrom = CHOOSE e : e = [p \in 1 .. n |-> AttemptsBy(e, p)]
  BY DEF AttemptsFrom, AttemptsBy
<1>8. AttemptsFrom = [p \in 1 .. n |-> AttemptsBy(AttemptsFrom, p)]
  BY <1>6, <1>7
<1> QED BY <1>8

\* Attempts start at SOF pairs.
LEMMA AttemptsArePairs ==
    ASSUME data \in Seq(Byte)
    PROVE  \A p \in 1 .. Len(data) + 1 : AttemptsFrom[p] \subseteq SofPairs(p)
<1> DEFINE n == Len(data) + 1
           T == {p \in 1 .. n : AttemptsFrom[p] \subseteq SofPairs(p)}
<1>a. n \in Nat
  OBVIOUS
<1>1. ASSUME NEW p \in 1 .. n, \A r \in p + 1 .. n : r \in T PROVE p \in T
  <2>0. p \in 1 .. Len(data) + 1
    OBVIOUS
  <2>1. AttemptsFrom[p] = AttemptsBy(AttemptsFrom, p)
    BY <2>0, AttemptsFromIs
  <2>2. CASE SofPairs(p) = {}
    BY <2>1, <2>2 DEF AttemptsBy
  <2>3. CASE SofPairs(p) # {}
    <3> DEFINE q == FirstPair(p)
    <3>1. q \in SofPairs(p) /\ q \in p .. Len(data) - 1
      BY <2>0, <2>3, FirstPairIs, SofPairsAre
    <3>2. ASSUME Whole(q) PROVE AttemptsFrom[q + FrameLen(q)] \subseteq SofPairs(p)
      <4>1. q \in 1 .. Len(data) /\ Len(data) \in Nat
        BY <3>1
      <4>2. q + FrameLen(q) \in q + 6 .. Len(data) + 1
        BY <3>2, <4>1, WholeFits
      <4>3. q + FrameLen(q) \in p + 1 .. n /\ q + FrameLen(q) \in p .. Len(data) + 1
        BY <3>1, <4>2
      <4>4. AttemptsFrom[q + FrameLen(q)] \subseteq SofPairs(q + FrameLen(q))
        BY <1>1, <4>3
      <4>5. SofPairs(q + FrameLen(q)) \subseteq SofPairs(p)
        BY <2>0, <4>3, SofPairsAre
      <4> QED BY <4>4, <4>5
    <3> QED BY <2>1, <2>3, <3>1, <3>2 DEF AttemptsBy
  <2> QED BY <2>2, <2>3
<1>2. \A p \in 1 .. n : p \in T
  <2> HIDE DEF n, T
  <2> QED BY <1>1, <1>a, BackwardInduction
<1> QED BY <1>2

\* All attempts are positions of the file.
LEMMA AttemptsInFile ==
    ASSUME data \in Seq(Byte)
    PROVE  /\ Len(data) \in Nat
           /\ Attempts \subseteq 1 .. Len(data) - 1
           /\ ValidAttempts \in SUBSET (1 .. Len(data))
           /\ CorruptAttempts \in SUBSET (1 .. Len(data))
           /\ Discarded \in SUBSET (1 .. Len(data))
<1>1. Len(data) \in Nat /\ 1 \in 1 .. Len(data) + 1
  OBVIOUS
<1>2. Attempts \subseteq 1 .. Len(data) - 1
  BY <1>1, AttemptsArePairs, SofPairsAre DEF Attempts
<1>3. \A q \in Attempts : q \in 1 .. Len(data)
  BY <1>1, <1>2
<1> QED BY <1>1, <1>2, <1>3 DEF ValidAttempts, CorruptAttempts, Discarded, Skipped

\* Reading on from a position with no SOF pair before the next one changes nothing.
LEMMA SkipSettles ==
    ASSUME data \in Seq(Byte), NEW p \in 1 .. Len(data) + 1, NEW r \in p .. Len(data) + 1,
           SofPairs(p) = SofPairs(r), SettledBefore(p)
    PROVE  /\ SettledBefore(r)
           /\ \A q \in Attempts : q < r => q < p
           /\ \A x \in p .. r - 1 : x \in Skipped
<1>0. r \in 1 .. Len(data) + 1 /\ Len(data) \in Nat
  OBVIOUS
<1>1. AttemptsFrom[p] = AttemptsFrom[r]
  <2>1. /\ AttemptsFrom[p] = AttemptsBy(AttemptsFrom, p)
        /\ AttemptsFrom[r] = AttemptsBy(AttemptsFrom, r)
    BY <1>0, AttemptsFromIs
  <2>2. FirstPair(p) = FirstPair(r)
    BY DEF FirstPair
  <2> QED BY <2>1, <2>2 DEF AttemptsBy
<1>2. AttemptsFrom[r] \subseteq SofPairs(r) /\ SofPairs(r) \subseteq r .. Len(data) - 1
  BY <1>0, AttemptsArePairs, SofPairsAre
<1>3. \A q \in Attempts : q \in Int
  BY AttemptsInFile
<1>4. ASSUME NEW q \in Attempts, q >= p PROVE q >= r
  <2>1. q \in AttemptsFrom[p]
    BY <1>4 DEF SettledBefore
  <2> QED BY <1>1, <1>2, <2>1
<1>5. \A q \in Attempts : q < r => q < p
  BY <1>0, <1>3, <1>4
<1>6. SettledBefore(r)
  <2>1. AttemptsFrom[r] = {q \in Attempts : q >= r}
    BY <1>0, <1>1, <1>2, <1>3, <1>4 DEF SettledBefore
  <2>2. ASSUME NEW q \in Attempts, q < r PROVE Whole(q) /\ q + FrameLen(q) <= r
    <3>1. Whole(q) /\ q + FrameLen(q) <= p
      BY <1>5, <2>2 DEF SettledBefore
    <3>2. q \in 1 .. Len(data)
      BY AttemptsInFile
    <3>3. FrameLen(q) \in Nat
      BY <3>1, <3>2, WholeFits
    <3> QED BY <1>0, <3>1, <3>2, <3>3
  <2> QED BY <2>1, <2>2 DEF SettledBefore
<1>7. ASSUME NEW x \in p .. r - 1 PROVE x \in Skipped
  <2>1. x \in 1 .. Len(data)
    BY <1>0
  <2>2. ASSUME NEW q \in Attempts,
               x \in (IF Whole(q) THEN q .. q + FrameLen(q) - 1 ELSE q .. Len(data))
        PROVE  FALSE
    <3>1. q \in 1 .. Len(data) /\ q <= x
      BY <2>2, AttemptsInFile
    <3>2. q < r
      BY <1>0, <3>1
    <3>3. Whole(q) /\ q + FrameLen(q) <= p
      BY <1>5, <3>2 DEF SettledBefore
    <3>4. FrameLen(q) \in Nat
      BY <3>1, <3>3, WholeFits
    <3> QED BY <1>0, <2>2, <3>1, <3>3, <3>4
  <2> QED BY <2>1, <2>2 DEF Skipped
<1> QED BY <1>5, <1>6, <1>7

\* A SOF pair at p is the next attempt.
LEMMA PairIsAttempt ==
    ASSUME data \in Seq(Byte), NEW p \in 1 .. Len(data) - 1, p \in SofPairs(p), SettledBefore(p)
    PROVE  /\ p \in Attempts
           /\ AttemptsFrom[p] = {p} \cup (IF Whole(p) THEN AttemptsFrom[p + FrameLen(p)] ELSE {})
<1>0. p \in 1 .. Len(data) + 1
  OBVIOUS
<1>1. FirstPair(p) = p
  <2>1. /\ FirstPair(p) \in SofPairs(p) /\ FirstPair(p) <= p
        /\ SofPairs(p) \subseteq p .. Len(data) - 1
    BY <1>0, FirstPairIs, SofPairsAre
  <2> QED BY <2>1
<1>2. AttemptsFrom[p] = AttemptsBy(AttemptsFrom, p)
  BY <1>0, AttemptsFromIs
<1>3. AttemptsFrom[p] = {p} \cup (IF Whole(p) THEN AttemptsFrom[p + FrameLen(p)] ELSE {})
  BY <1>1, <1>2 DEF AttemptsBy
<1> QED BY <1>3 DEF SettledBefore

\* A whole frame at p settles the positions up to its end.
LEMMA FrameSettles ==
    ASSUME data \in Seq(Byte), NEW p \in 1 .. Len(data) - 1, p \in SofPairs(p), SettledBefore(p),
           Whole(p)
    PROVE  /\ SettledBefore(p + FrameLen(p))
           /\ p \in Attempts
           /\ \A q \in Attempts : q < p + FrameLen(p) => q <= p
           /\ \A x \in p .. p + FrameLen(p) - 1 : x \notin Skipped
<1> DEFINE e == p + FrameLen(p)
<1>0. p \in 1 .. Len(data) /\ Len(data) \in Nat
  OBVIOUS
<1>1. e \in p + 6 .. Len(data) + 1 /\ FrameLen(p) \in Nat
  BY <1>0, WholeFits
<1>2. p \in Attempts /\ AttemptsFrom[p] = {p} \cup AttemptsFrom[e]
  BY PairIsAttempt
<1>3. e \in 1 .. Len(data) + 1
  BY <1>0, <1>1
<1>4. AttemptsFrom[e] \subseteq e .. Len(data) - 1
  BY <1>3, AttemptsArePairs, SofPairsAre
<1> HIDE DEF e
<1>5. \A q \in Attempts : q \in Int
  BY AttemptsInFile
<1>6. ASSUME NEW q \in Attempts, q > p PROVE q \in AttemptsFrom[e] /\ q >= e
  <2>1. q \in AttemptsFrom[p] /\ q # p
    BY <1>0, <1>5, <1>6 DEF SettledBefore
  <2> QED BY <1>2, <1>4, <2>1
<1>7. \A q \in Attempts : q < e => q <= p
  BY <1>0, <1>1, <1>5, <1>6
<1>8. AttemptsFrom[e] = {q \in Attempts : q >= e}
  <2>1. ASSUME NEW q \in AttemptsFrom[e] PROVE q \in Attempts /\ q >= e
    BY <1>2, <1>4, <2>1 DEF SettledBefore
  <2>2. ASSUME NEW q \in Attempts, q >= e PROVE q \in AttemptsFrom[e]
    BY <1>0, <1>1, <1>5, <1>6, <2>2
  <2> QED BY <2>1, <2>2
<1>9. ASSUME NEW q \in Attempts, q < e PROVE Whole(q) /\ q + FrameLen(q) <= e
  <2>1. CASE q = p
    BY <1>1, <2>1 DEF e
  <2>2. CASE q < p
    <3>1. Whole(q) /\ q + FrameLen(q) <= p
      BY <2>2 DEF SettledBefore
    <3>2. q \in 1 .. Len(data)
      BY AttemptsInFile
    <3>3. FrameLen(q) \in Nat
      BY <3>1, <3>2, WholeFits
    <3> QED BY <1>0, <1>1, <3>1, <3>2, <3>3
  <2> QED BY <1>0, <1>5, <1>7, <1>9, <2>1, <2>2
<1>10. ASSUME NEW x \in p .. e - 1 PROVE x \notin Skipped
  <2> DEFINE part(q) == IF Whole(q) THEN q .. q + FrameLen(q) - 1 ELSE q .. Len(data)
  <2>1. x \in part(p)
    BY <1>0, <1>1, <1>10 DEF e
  <2> HIDE DEF part
  <2>2. x \in UNION {part(q) : q \in Attempts}
    BY <1>2, <2>1
  <2> QED BY <2>2 DEF Skipped, part
<1>11. SettledBefore(e)
  BY <1>8, <1>9 DEF SettledBefore
<1> QED BY <1>0, <1>1, <1>2, <1>7, <1>10, <1>11 DEF e

-----------------------------------------------------------------------------
(* Feeding the parser.                                                     *)

\* The offline reading does not change while the file is fed.
LEMMA SameData ==
    ASSUME data' = data
    PROVE  /\ Attempts' = Attempts /\ ValidAttempts' = ValidAttempts
           /\ CorruptAttempts' = CorruptAttempts /\ Skipped' = Skipped
           /\ Discarded' = Discarded /\ EndsMidPacket' = EndsMidPacket
           /\ \A p : /\ AttemptsFrom'[p] = AttemptsFrom[p] /\ Whole(p)' = Whole(p)
                     /\ FrameLen(p)' = FrameLen(p) /\ FrameAt(p)' = FrameAt(p)
<1>1. AttemptsFrom' = AttemptsFrom
  BY DEF AttemptsFrom, SofPairs, FirstPair, Whole, FrameLen
<1>2. \A p : Whole(p)' = Whole(p) /\ FrameLen(p)' = FrameLen(p) /\ FrameAt(p)' = FrameAt(p)
  BY DEF Whole, FrameLen, FrameAt
<1>3. Attempts' = Attempts
  BY <1>1 DEF Attempts
<1>4. ValidAttempts' = ValidAttempts /\ CorruptAttempts' = CorruptAttempts
  BY <1>2, <1>3 DEF ValidAttempts, CorruptAttempts
<1>5. Skipped' = Skipped
  BY <1>2, <1>3 DEF Skipped
<1>6. Discarded' = Discarded
  BY <1>5 DEF Discarded, FalseStarts
<1>7. EndsMidPacket' = EndsMidPacket
  BY <1>2, <1>3, <1>5 DEF EndsMidPacket
<1> QED BY <1>1, <1>2, <1>3, <1>4, <1>5, <1>6, <1>7

\* What is said of a position survives a step that changes neither the file nor what
\* is said of.
LEMMA SameSettled ==
    ASSUME data' = data, NEW p
    PROVE  /\ SettledBefore(p)' = SettledBefore(p)
           /\ ValidBefore(p)' = ValidBefore(p) /\ CorruptBefore(p)' = CorruptBefore(p)
           /\ DiscardedBefore(p)' = DiscardedBefore(p) /\ Rank(p)' = Rank(p)
BY SameData DEF SettledBefore, ValidBefore, CorruptBefore, DiscardedBefore, Rank

\* A byte that the parser adds to the wire of the current attempt.
LEMMA WireGrows ==
    ASSUME data \in Seq(Byte), wire \in Seq(Byte), WireInv, pos <= Len(data),
           pos' = pos + 1, wire' = Append(wire, data[pos]), data' = data
    PROVE  WireInv' /\ Base' = Base
<1>1. pos \in 1 .. Len(data) /\ Len(wire) \in Nat /\ Len(wire) < pos /\ data[pos] \in Byte
  BY DEF WireInv
<1>2. /\ Len(wire') = Len(wire) + 1 /\ wire'[Len(wire) + 1] = data[pos]
      /\ \A i \in 1 .. Len(wire) : wire'[i] = wire[i]
  BY <1>1, WireAppend
<1>3. Base' = Base /\ Base \in Int
  BY <1>1, <1>2 DEF Base
<1>4. ASSUME NEW i \in 1 .. Len(wire') PROVE wire'[i] = data[Base - 1 + i]
  <2>1. CASE i \in 1 .. Len(wire)
    BY <1>2, <2>1 DEF WireInv
  <2>2. CASE i = Len(wire) + 1
    <3>1. Base - 1 + i = pos
      BY <1>1, <2>2 DEF Base
    <3> QED BY <1>2, <2>2, <3>1
  <2> QED BY <1>1, <1>2, <2>1, <2>2
<1> QED BY <1>1, <1>2, <1>3, <1>4 DEF WireInv

\* Counting one more stays below the width of the counters.
LEMMA CountFits ==
    ASSUME NEW n \in Nat, n < CounterModulus, NEW S \in SUBSET (1 .. n),
           NEW x \in 1 .. n, x \notin S
    PROVE  Incremented(Cardinality(S)) = Cardinality(S \cup {x})
<1>1. /\ Cardinality(S) \in Nat
      /\ Cardinality(S) + 1 <= n
      /\ Cardinality(S \cup {x}) = Cardinality(S) + 1
  BY CountUpTo, CountOneMore
<1>2. ASSUME NEW c \in Nat, c + 1 <= n PROVE (c + 1) % CounterModulus = c + 1
  BY <1>2, CounterAssumption
<1> QED BY <1>1, <1>2 DEF Incremented

\* Bytes are skipped: one of them counts as discarded.
LEMMA SkipCounts ==
    ASSUME data \in Seq(Byte), Len(data) < CounterModulus, stats \in ParserStats,
           NEW p \in 1 .. Len(data) + 1, NEW r \in p .. Len(data) + 1, NEW x \in p .. r - 1,
           SofPairs(p) = SofPairs(r), {y \in Discarded : y >= p /\ y < r} = {x},
           SettledBefore(p), PrintedBefore(p), CountsBefore(p),
           data' = data, printed' = printed,
           stats' = [stats EXCEPT !.discarded_bytes = Incremented(@)]
    PROVE  /\ SettledBefore(r)' /\ PrintedBefore(r)' /\ CountsBefore(r)'
           /\ stats'.partial_packets = stats.partial_packets
<1>0. Len(data) \in Nat /\ p \in Int /\ r \in Int /\ p <= r /\ x \in 1 .. Len(data)
  OBVIOUS
<1>1. SettledBefore(r) /\ \A q \in Attempts : q < r => q < p
  BY SkipSettles
<1>2. ValidBefore(r) = ValidBefore(p) /\ CorruptBefore(r) = CorruptBefore(p)
  <2>1. \A q \in Attempts : q \in Int
    BY AttemptsInFile
  <2>2. \A q \in Attempts : q < p => q < r
    BY <1>0, <2>1
  <2> QED BY <1>1, <2>2 DEF ValidBefore, CorruptBefore, ValidAttempts, CorruptAttempts
<1>3. DiscardedBefore(r) = DiscardedBefore(p) \cup {x} /\ x \notin DiscardedBefore(p)
  <2>1. \A y \in Discarded : y \in Int
    BY AttemptsInFile
  <2> QED BY <1>0, <2>1 DEF DiscardedBefore
<1>4. DiscardedBefore(p) \in SUBSET (1 .. Len(data))
  BY AttemptsInFile DEF DiscardedBefore
<1>5. Incremented(Cardinality(DiscardedBefore(p))) = Cardinality(DiscardedBefore(r))
  BY <1>0, <1>3, <1>4, CountFits
<1>6. /\ stats'.valid_packets = stats.valid_packets /\ stats'.crc_failures = stats.crc_failures
      /\ stats'.discarded_bytes = Incremented(stats.discarded_bytes)
      /\ stats'.partial_packets = stats.partial_packets
  BY DEF ParserStats
<1>7. CountsBefore(r)'
  BY <1>2, <1>5, <1>6, SameSettled DEF CountsBefore
<1>8. PrintedBefore(r)'
  <2>1. \A q : Rank(q)' = Rank(q) /\ FrameAt(q)' = FrameAt(q)
    BY SameSettled, SameData
  <2>2. ValidBefore(r)' = ValidBefore(p)
    BY <1>2, SameSettled
  <2> QED BY <2>1, <2>2 DEF PrintedBefore
<1> QED BY <1>1, <1>6, <1>7, <1>8, SameSettled

\* When the parser waits for the last byte of a frame, the offline reading has found
\* the same frame at Base.
LEMMA FrameOnFile ==
    ASSUME IInv, data \in Seq(Byte), WireInv, state = "CrcHi", pos <= Len(data)
    PROVE  /\ Base \in 1 .. Len(data) - 1 /\ Base \in SofPairs(Base) /\ Whole(Base)
           /\ Base + FrameLen(Base) = pos + 1
           /\ FrameAt(Base) = Append(wire, data[pos])
<1>1. /\ wire \in Seq(Byte) /\ length \in Nat /\ Len(wire) = 5 + length
      /\ wire[1] = kSof1 /\ wire[2] = kSof2 /\ wire[3] = length
  BY DEF IInv, TypeOK, FramingInv, FrameSoFar, BodyBytes, Byte
<1>2. /\ Len(data) \in Nat /\ pos \in 1 .. Len(data) /\ Len(wire) < pos /\ data[pos] \in Byte
      /\ \A i \in 1 .. Len(wire) : wire[i] = data[Base - 1 + i]
  BY DEF WireInv
<1>3. Base \in Int /\ Base >= 1 /\ pos = Base + 5 + length /\ Base + 5 <= Len(data)
  BY <1>1, <1>2 DEF Base
<1>4. data[Base] = kSof1 /\ data[Base + 1] = kSof2 /\ data[Base + 2] = length
  <2>1. Base - 1 + 1 = Base /\ Base - 1 + 2 = Base + 1 /\ Base - 1 + 3 = Base + 2
    BY <1>3
  <2>2. 1 \in 1 .. Len(wire) /\ 2 \in 1 .. Len(wire) /\ 3 \in 1 .. Len(wire)
    BY <1>1
  <2> QED BY <1>1, <1>2, <2>1, <2>2
<1>5. FrameLen(Base) = 6 + length
  BY <1>4 DEF FrameLen
<1>6. Base \in 1 .. Len(data) - 1 /\ Base \in SofPairs(Base) /\ Whole(Base)
  BY <1>1, <1>2, <1>3, <1>4, <1>5 DEF SofPairs, Whole
<1>7. FrameAt(Base) = Append(wire, data[pos])
  <2> DEFINE b == Base
             f == SubSeq(data, b, pos)
             g == Append(wire, data[pos])
  <2>1. FrameAt(Base) = f
    <3>1. Base + FrameLen(Base) - 1 = pos
      BY <1>1, <1>3, <1>5
    <3> QED BY <3>1 DEF FrameAt
  <2>2. /\ g \in Seq(Byte) /\ Len(g) = 6 + length /\ g[6 + length] = data[pos]
        /\ \A i \in 1 .. 5 + length : g[i] = wire[i]
    BY <1>1, <1>2, WireType
  <2>3. b \in Int /\ pos \in Int /\ pos - b + 1 = 6 + length /\ b <= pos
    BY <1>1, <1>2, <1>3
  <2>4. \A i \in b .. pos : data[i] \in Byte
    BY <1>2, <1>3
  <2> HIDE DEF b
  <2>5. f \in Seq(Byte) /\ Len(f) = 6 + length /\ \A i \in 1 .. 6 + length : f[i] = data[b + i - 1]
    BY <2>3, <2>4, SubSeqProperties
  <2> HIDE DEF f, g
  <2>6. ASSUME NEW i \in 1 .. 6 + length PROVE f[i] = g[i]
    <3>1. CASE i = 6 + length
      <4>1. b + i - 1 = pos
        BY <1>1, <2>3, <3>1
      <4> QED BY <2>2, <2>5, <3>1, <4>1
    <3>2. CASE i \in 1 .. 5 + length
      <4>1. wire[i] = data[b - 1 + i] /\ b - 1 + i = b + i - 1
        BY <1>1, <1>2, <2>3, <3>2 DEF b
      <4> QED BY <2>2, <2>5, <3>2, <4>1
    <3> QED BY <1>1, <3>1, <3>2
  <2>7. f = g
    BY <2>2, <2>5, <2>6, SeqEqual
  <2> QED BY <2>1, <2>7 DEF g
<1> QED BY <1>1, <1>3, <1>5, <1>6, <1>7

\* The next frame adds one attempt, valid or corrupt, and no discarded byte.
LEMMA FrameAddsAttempt ==
    ASSUME data \in Seq(Byte), NEW p \in 1 .. Len(data) - 1, p \in SofPairs(p), SettledBefore(p),
           Whole(p)
    PROVE  LET e == p + FrameLen(p)
           IN  /\ p \notin ValidBefore(p) /\ p \notin CorruptBefore(p)
               /\ ValidBefore(e) = ValidBefore(p) \cup (IF CrcValid(FrameAt(p)) THEN {p} ELSE {})
               /\ CorruptBefore(e) =
                     CorruptBefore(p) \cup (IF CrcValid(FrameAt(p)) THEN {} ELSE {p})
               /\ DiscardedBefore(e) = DiscardedBefore(p)
               /\ SettledBefore(e) /\ e - 1 \notin Skipped /\ e > p
               /\ p \in Attempts
<1> DEFINE e == p + FrameLen(p)
<1>0. p \in 1 .. Len(data) /\ Len(data) \in Nat
  OBVIOUS
<1>1. e \in p + 6 .. Len(data) + 1 /\ FrameLen(p) \in Nat
  BY <1>0, WholeFits
<1>2. /\ SettledBefore(e) /\ p \in Attempts
      /\ \A q \in Attempts : q < e => q <= p
      /\ \A x \in p .. e - 1 : x \notin Skipped
  <2>1. /\ SettledBefore(p + FrameLen(p)) /\ p \in Attempts
        /\ \A q \in Attempts : q < p + FrameLen(p) => q <= p
        /\ \A x \in p .. p + FrameLen(p) - 1 : x \notin Skipped
    BY FrameSettles
  <2>2. e - 1 = p + FrameLen(p) - 1
    BY <1>1
  <2> QED BY <2>1, <2>2
<1> HIDE DEF e
<1>3. /\ \A q \in Attempts : q \in Int
      /\ \A x \in Discarded : x \in Int
  BY AttemptsInFile
<1>4. \A q \in Attempts : q < e <=> q < p \/ q = p
  BY <1>0, <1>1, <1>2, <1>3
<1>5. DiscardedBefore(e) = DiscardedBefore(p)
  <2>1. \A x \in Discarded : x \in Skipped
    BY DEF Discarded
  <2>2. \A x \in Discarded : x < e <=> x < p
    BY <1>0, <1>1, <1>2, <1>3, <2>1
  <2> QED BY <2>2 DEF DiscardedBefore
<1>6. /\ ValidBefore(e) = ValidBefore(p) \cup (IF CrcValid(FrameAt(p)) THEN {p} ELSE {})
      /\ CorruptBefore(e) = CorruptBefore(p) \cup (IF CrcValid(FrameAt(p)) THEN {} ELSE {p})
  BY <1>2, <1>4 DEF ValidBefore, CorruptBefore, ValidAttempts, CorruptAttempts
<1>7. p \notin ValidBefore(p) /\ p \notin CorruptBefore(p)
  BY <1>0 DEF ValidBefore, CorruptBefore
<1>8. e - 1 \in p .. e - 1 /\ e > p
  BY <1>0, <1>1
<1> QED BY <1>2, <1>5, <1>6, <1>7, <1>8 DEF e

\* What is to be shown after a byte, when the next attempt can start at r.
LEMMA FeedInvAt ==
    ASSUME NEW r, Base' = r, WireInv', LastByteInv',
           SettledBefore(r)', PrintedBefore(r)', CountsBefore(r)', stats'.partial_packets = 0
    PROVE  FeedInv'
BY DEF FeedInv, SettledBefore, PrintedBefore, CountsBefore,
       ValidBefore, CorruptBefore, DiscardedBefore

\* What is known before a byte.
LEMMA FeedInvIs ==
    ASSUME FeedInv, NEW p, p = Base
    PROVE  /\ WireInv /\ LastByteInv
           /\ SettledBefore(p) /\ PrintedBefore(p) /\ CountsBefore(p)
           /\ stats.partial_packets = 0
BY DEF FeedInv

\* After the last byte of a frame the parser has no wire and starts at the next byte.
LEMMA WireEmptied ==
    ASSUME data \in Seq(Byte), pos \in 1 .. Len(data), data' = data, pos' = pos + 1, wire' = <<>>
    PROVE  WireInv' /\ Base' = pos + 1
<1>1. Len(wire') = 0 /\ Len(data') = Len(data) /\ Len(data) \in Nat
  OBVIOUS
<1>2. pos' \in 1 .. Len(data') + 1 /\ Len(wire') < pos' /\ Base' = pos + 1
  BY <1>1 DEF Base
<1> QED BY <1>1, <1>2 DEF WireInv

\* The rank of the frame at p, given that the frames before it are counted.
LEMMA RankIsNext ==
    ASSUME data \in Seq(Byte), NEW p \in ValidAttempts
    PROVE  Rank(p) = Cardinality(ValidBefore(p)) + 1
<1> DEFINE upto == {r \in ValidAttempts : r <= p}
<1>1. /\ Len(data) \in Nat /\ p \in 1 .. Len(data)
      /\ \A r \in ValidAttempts : r \in Int
  BY AttemptsInFile
<1>2. upto = ValidBefore(p) \cup {p} /\ p \notin ValidBefore(p)
  <2>1. p \in Int /\ ~(p < p) /\ \A r \in ValidAttempts : r <= p <=> r < p \/ r = p
    BY <1>1
  <2> QED BY <2>1 DEF ValidBefore
<1>3. ValidBefore(p) \in SUBSET (1 .. Len(data))
  BY AttemptsInFile DEF ValidBefore
<1>4. Cardinality(ValidBefore(p) \cup {p}) = Cardinality(ValidBefore(p)) + 1
  BY <1>1, <1>2, <1>3, CountOneMore
<1> QED BY <1>2, <1>4 DEF Rank

\* The packets of frames before p come earlier than the place of the next one.
LEMMA RankIsEarlier ==
    ASSUME data \in Seq(Byte), NEW p \in 1 .. Len(data) + 1, NEW q \in ValidBefore(p)
    PROVE  Rank(q) \in 1 .. Cardinality(ValidBefore(p))
<1> DEFINE upto == {r \in ValidAttempts : r <= q}
<1>1. /\ Len(data) \in Nat /\ q \in ValidAttempts /\ q < p
      /\ \A r \in ValidAttempts : r \in 1 .. Len(data)
  BY AttemptsInFile DEF ValidBefore
<1>2. upto \subseteq ValidBefore(p) /\ q \in upto
  BY <1>1 DEF ValidBefore
<1>3. ValidBefore(p) \in SUBSET (1 .. Len(data)) /\ upto \in SUBSET (1 .. Len(data))
  BY <1>1 DEF ValidBefore
<1> HIDE DEF upto
<1>4. IsFiniteSet(ValidBefore(p)) /\ IsFiniteSet(upto)
  BY <1>1, <1>3, CountUpTo
<1>5. Cardinality(upto) <= Cardinality(ValidBefore(p))
  BY <1>2, <1>4, FS_Subset
<1>6. Cardinality(upto) # 0
  BY <1>2, <1>4, FS_EmptySet
<1>7. Cardinality(upto) \in Nat /\ Cardinality(ValidBefore(p)) \in Nat
  BY <1>4, FS_CardinalityType
<1>8. Cardinality(upto) \in 1 .. Cardinality(ValidBefore(p))
  BY <1>5, <1>6, <1>7
<1> QED BY <1>8 DEF Rank, upto

\* A frame whose CRC matches is printed, as the next valid attempt of the file.
LEMMA FeedValidFrame ==
    ASSUME DriverInv, FeedInv, pos <= Len(data), FeedCrcHiValid(data[pos]), pos' = pos + 1,
           printed' = Append(printed, event'.packet), data' = data
    PROVE  FeedInv' /\ printed' \in Seq(GoodPackets)
<1> PICK p : p = Base
  OBVIOUS
<1>e. PICK e : e = pos + 1
  OBVIOUS
<1>1. /\ data \in Seq(Byte) /\ Len(data) \in Nat /\ Len(data) < CounterModulus /\ IInv
      /\ stats \in ParserStats /\ state = "CrcHi" /\ printed \in Seq(GoodPackets)
  BY DEF DriverInv, IInv, TypeOK, FeedCrcHiValid, GoodPackets
<1>2. /\ WireInv /\ SettledBefore(p) /\ PrintedBefore(p) /\ CountsBefore(p)
      /\ stats.partial_packets = 0
  BY FeedInvIs
<1>3. pos \in 1 .. Len(data) /\ data[pos] \in Byte
  BY <1>1, <1>2 DEF WireInv
<1>4. /\ p \in 1 .. Len(data) - 1 /\ p \in SofPairs(p) /\ Whole(p)
      /\ p + FrameLen(p) = e /\ FrameAt(p) = Append(wire, data[pos])
  BY <1>1, <1>2, <1>e, FrameOnFile
<1>5. CrcValid(FrameAt(p)) /\ event'.packet = PacketOf(FrameAt(p))
  <2>1. /\ CrcValid(Append(wire, data[pos]))
        /\ DeliveredPacket = PacketOf(Append(wire, data[pos]))
    BY <1>1, <1>3, VerdictIsAboutTheFrame DEF FeedCrcHiValid, IInv
  <2>2. event'.packet = DeliveredPacket
    BY DEF FeedCrcHiValid
  <2> QED BY <1>4, <2>1, <2>2
<1>6. /\ p \notin ValidBefore(p) /\ p \in Attempts
      /\ ValidBefore(e) = ValidBefore(p) \cup {p} /\ CorruptBefore(e) = CorruptBefore(p)
      /\ DiscardedBefore(e) = DiscardedBefore(p)
      /\ SettledBefore(e) /\ e - 1 \notin Skipped
  BY <1>1, <1>2, <1>4, <1>5, FrameAddsAttempt, ZenonT(60)
<1>7. p \in ValidAttempts /\ ValidBefore(p) \in SUBSET (1 .. Len(data)) /\ p \in 1 .. Len(data)
  BY <1>1, <1>4, <1>5, <1>6, AttemptsInFile DEF ValidAttempts, ValidBefore
<1>8. CountsBefore(e)' /\ stats'.partial_packets = 0
  <2>1. Incremented(Cardinality(ValidBefore(p))) = Cardinality(ValidBefore(e))
    BY <1>1, <1>6, <1>7, CountFits
  <2>2. /\ stats'.valid_packets = Incremented(stats.valid_packets)
        /\ stats'.crc_failures = stats.crc_failures
        /\ stats'.discarded_bytes = stats.discarded_bytes
        /\ stats'.partial_packets = stats.partial_packets
    BY <1>1 DEF FeedCrcHiValid, ParserStats
  <2> QED BY <1>2, <1>6, <2>1, <2>2, SameSettled DEF CountsBefore
<1>9. printed' \in Seq(GoodPackets) /\ PrintedBefore(e)'
  <2> DEFINE k == PacketOf(FrameAt(p))
  <2>1. k \in GoodPackets /\ printed' = Append(printed, k)
    BY <1>5, <1>7 DEF GoodPackets
  <2> HIDE DEF k
  <2>2. /\ printed' \in Seq(GoodPackets) /\ Len(printed') = Len(printed) + 1
        /\ printed'[Len(printed) + 1] = k
        /\ \A i \in 1 .. Len(printed) : printed'[i] = printed[i]
    BY <1>1, <2>1, AppendProperties
  <2>3. Len(printed) = Cardinality(ValidBefore(p)) /\ Rank(p) = Len(printed) + 1
    BY <1>1, <1>2, <1>7, RankIsNext DEF PrintedBefore
  <2>4. Len(printed') = Cardinality(ValidBefore(e))
    <3>1. Cardinality(ValidBefore(p) \cup {p}) = Cardinality(ValidBefore(p)) + 1
      BY <1>1, <1>6, <1>7, CountOneMore
    <3> QED BY <1>6, <2>2, <2>3, <3>1
  <2>5. ASSUME NEW q \in ValidBefore(e) PROVE printed'[Rank(q)] = PacketOf(FrameAt(q))
    <3>1. CASE q = p
      BY <2>2, <2>3, <3>1 DEF k
    <3>2. CASE q \in ValidBefore(p)
      <4>1. p \in 1 .. Len(data) + 1
        BY <1>1, <1>7
      <4>2. Rank(q) \in 1 .. Len(printed)
        BY <1>1, <2>3, <3>2, <4>1, RankIsEarlier
      <4> QED BY <1>2, <2>2, <3>2, <4>2 DEF PrintedBefore
    <3> QED BY <1>6, <3>1, <3>2
  <2>6. /\ ValidBefore(e)' = ValidBefore(e)
        /\ \A q : Rank(q)' = Rank(q) /\ FrameAt(q)' = FrameAt(q)
    BY SameSettled, SameData
  <2>7. PrintedBefore(e)'
    BY <2>4, <2>5, <2>6 DEF PrintedBefore
  <2> QED BY <2>2, <2>7
<1>10. wire' = <<>> /\ state' = "WaitSof1"
  BY DEF FeedCrcHiValid, toWaitSof1
<1>11. WireInv' /\ Base' = e
  BY <1>1, <1>3, <1>10, <1>e, WireEmptied
<1>12. LastByteInv'
  <2>1. pos' - 1 = e - 1
    BY <1>e
  <2> QED BY <1>6, <2>1, SameData DEF LastByteInv
<1>13. SettledBefore(e)'
  BY <1>6, SameSettled
<1> QED BY <1>8, <1>9, <1>11, <1>12, <1>13, FeedInvAt

\* A frame whose CRC does not match is counted, as the next corrupt attempt.
LEMMA FeedCorruptFrame ==
    ASSUME DriverInv, FeedInv, pos <= Len(data), FeedCrcHiFailure(data[pos]), pos' = pos + 1,
           printed' = printed, data' = data
    PROVE  FeedInv'
<1> PICK p : p = Base
  OBVIOUS
<1>e. PICK e : e = pos + 1
  OBVIOUS
<1>1. /\ data \in Seq(Byte) /\ Len(data) \in Nat /\ Len(data) < CounterModulus /\ IInv
      /\ stats \in ParserStats /\ state = "CrcHi"
  BY DEF DriverInv, IInv, TypeOK, FeedCrcHiFailure
<1>2. /\ WireInv /\ SettledBefore(p) /\ PrintedBefore(p) /\ CountsBefore(p)
      /\ stats.partial_packets = 0
  BY FeedInvIs
<1>3. pos \in 1 .. Len(data) /\ data[pos] \in Byte
  BY <1>1, <1>2 DEF WireInv
<1>4. /\ p \in 1 .. Len(data) - 1 /\ p \in SofPairs(p) /\ Whole(p)
      /\ p + FrameLen(p) = e /\ FrameAt(p) = Append(wire, data[pos])
  BY <1>1, <1>2, <1>e, FrameOnFile
<1>5. ~CrcValid(FrameAt(p))
  <2>1. ~CrcValid(Append(wire, data[pos]))
    BY <1>1, <1>3, VerdictIsAboutTheFrame DEF FeedCrcHiFailure, IInv
  <2> QED BY <1>4, <2>1
<1>6. /\ p \notin CorruptBefore(p)
      /\ CorruptBefore(e) = CorruptBefore(p) \cup {p} /\ ValidBefore(e) = ValidBefore(p)
      /\ DiscardedBefore(e) = DiscardedBefore(p)
      /\ SettledBefore(e) /\ e - 1 \notin Skipped
  BY <1>1, <1>2, <1>4, <1>5, FrameAddsAttempt, ZenonT(60)
<1>7. CorruptBefore(p) \in SUBSET (1 .. Len(data)) /\ p \in 1 .. Len(data)
  BY <1>1, <1>4, AttemptsInFile DEF CorruptBefore
<1>8. CountsBefore(e)' /\ stats'.partial_packets = 0
  <2>1. Incremented(Cardinality(CorruptBefore(p))) = Cardinality(CorruptBefore(e))
    BY <1>1, <1>6, <1>7, CountFits
  <2>2. /\ stats'.crc_failures = Incremented(stats.crc_failures)
        /\ stats'.valid_packets = stats.valid_packets
        /\ stats'.discarded_bytes = stats.discarded_bytes
        /\ stats'.partial_packets = stats.partial_packets
    BY <1>1 DEF FeedCrcHiFailure, ParserStats
  <2> QED BY <1>2, <1>6, <2>1, <2>2, SameSettled DEF CountsBefore
<1>9. PrintedBefore(e)'
  <2>1. /\ ValidBefore(e)' = ValidBefore(p)
        /\ \A q : Rank(q)' = Rank(q) /\ FrameAt(q)' = FrameAt(q)
    BY <1>6, SameSettled, SameData
  <2> QED BY <1>2, <2>1 DEF PrintedBefore
<1>10. wire' = <<>> /\ state' = "WaitSof1"
  BY DEF FeedCrcHiFailure, toWaitSof1
<1>11. WireInv' /\ Base' = e
  BY <1>1, <1>3, <1>10, <1>e, WireEmptied
<1>12. LastByteInv'
  <2>1. pos' - 1 = e - 1
    BY <1>e
  <2> QED BY <1>6, <2>1, SameData DEF LastByteInv
<1>13. SettledBefore(e)'
  BY <1>6, SameSettled
<1> QED BY <1>8, <1>9, <1>11, <1>12, <1>13, FeedInvAt

\* A byte that belongs to the current attempt settles nothing.
LEMMA FeedAttemptByte ==
    ASSUME DriverInv, FeedInv, pos <= Len(data), pos' = pos + 1, wire' = Append(wire, data[pos]),
           state' # "WaitSof1", stats' = stats, printed' = printed, data' = data
    PROVE  FeedInv'
<1> PICK p : p = Base
  OBVIOUS
<1>1. data \in Seq(Byte) /\ wire \in Seq(Byte)
  BY DEF DriverInv, IInv, TypeOK
<1>2. /\ WireInv /\ SettledBefore(p) /\ PrintedBefore(p) /\ CountsBefore(p)
      /\ stats.partial_packets = 0
  BY FeedInvIs
<1>3. WireInv' /\ Base' = p
  BY <1>1, <1>2, WireGrows
<1>4. LastByteInv'
  BY DEF LastByteInv
<1>5. SettledBefore(p)' /\ CountsBefore(p)'
  BY <1>2, SameSettled DEF CountsBefore
<1>6. PrintedBefore(p)'
  <2>1. /\ ValidBefore(p)' = ValidBefore(p)
        /\ \A q : Rank(q)' = Rank(q) /\ FrameAt(q)' = FrameAt(q)
    BY SameSettled, SameData
  <2> QED BY <1>2, <2>1 DEF PrintedBefore
<1> QED BY <1>2, <1>3, <1>4, <1>5, <1>6, FeedInvAt

\* Noise while waiting for SOF1: the byte is skipped and counted.
LEMMA FeedNoise ==
    ASSUME DriverInv, FeedInv, state = "WaitSof1", pos <= Len(data), data[pos] # kSof1,
           pos' = pos + 1, wire' = wire, printed' = printed, data' = data,
           stats' = [stats EXCEPT !.discarded_bytes = Incremented(@)]
    PROVE  FeedInv'
<1>e. PICK p, r : p = Base /\ r = pos + 1
  OBVIOUS
<1>1. /\ data \in Seq(Byte) /\ Len(data) \in Nat /\ Len(data) < CounterModulus
      /\ stats \in ParserStats /\ wire = <<>>
  BY DEF DriverInv, IInv, TypeOK, FramingInv
<1>2. /\ WireInv /\ SettledBefore(p) /\ PrintedBefore(p) /\ CountsBefore(p)
      /\ stats.partial_packets = 0
  BY <1>e, FeedInvIs
<1>3. pos \in 1 .. Len(data) /\ p = pos
  <2>1. pos \in 1 .. Len(data) /\ Len(wire) = 0
    BY <1>1, <1>2 DEF WireInv
  <2> QED BY <1>e, <2>1 DEF Base
<1>4. /\ p \in 1 .. Len(data) + 1 /\ r \in p .. Len(data) + 1 /\ p \in p .. r - 1
      /\ r = p + 1 /\ p \in Int
  <2>1. p \in 1 .. Len(data) /\ r = p + 1
    BY <1>3, <1>e
  <2> QED BY <1>1, <2>1
<1>5. SofPairs(p) = SofPairs(r)
  BY <1>1, <1>3, <1>4 DEF SofPairs
<1>6. p \in Discarded
  <2>1. p \in Skipped
    BY <1>1, <1>2, <1>4, <1>5, SkipSettles
  <2> QED BY <1>3, <2>1 DEF Discarded, FalseStarts
<1>7. {y \in Discarded : y >= p /\ y < r} = {p}
  <2>1. \A y \in Discarded : y \in Int
    BY <1>1, AttemptsInFile
  <2>2. \A y \in Discarded : y >= p /\ y < r <=> y = p
    BY <1>4, <2>1
  <2> QED BY <1>6, <2>2
<1>8. /\ SettledBefore(r)' /\ PrintedBefore(r)' /\ CountsBefore(r)'
      /\ stats'.partial_packets = 0
  BY <1>1, <1>2, <1>4, <1>5, <1>7, SkipCounts
<1>9. WireInv' /\ Base' = r
  BY <1>1, <1>3, <1>e, WireEmptied
<1>10. LastByteInv'
  <2>1. pos' - 1 = pos
    BY <1>3
  <2> QED BY <2>1 DEF LastByteInv
<1> QED BY <1>8, <1>9, <1>10, FeedInvAt

\* A SOF1 that waits for its SOF2.
LEMMA AfterSof1 ==
    ASSUME DriverInv, WireInv, state = "WaitSof2"
    PROVE  /\ Len(data) \in Nat /\ pos \in 2 .. Len(data) + 1
           /\ Base = pos - 1 /\ Base \in 1 .. Len(data) /\ data[Base] = kSof1
<1>1. Len(data) \in Nat /\ Len(wire) = 1 /\ wire[1] = kSof1
  BY DEF DriverInv, IInv, TypeOK, FramingInv
<1>2. pos \in 2 .. Len(data) + 1 /\ Base = pos - 1 /\ Base \in 1 .. Len(data)
  BY <1>1 DEF WireInv, Base
<1>3. data[Base - 1 + 1] = kSof1 /\ Base - 1 + 1 = Base
  <2>1. 1 \in 1 .. Len(wire)
    BY <1>1
  <2> QED BY <1>1, <1>2, <2>1 DEF WireInv
<1> QED BY <1>1, <1>2, <1>3

\* A second SOF1: the first is skipped and counted, the second may start a frame.
LEMMA FeedSof1Again ==
    ASSUME DriverInv, FeedInv, state = "WaitSof2", pos <= Len(data), data[pos] = kSof1,
           pos' = pos + 1, wire' = wire, state' = state, printed' = printed, data' = data,
           stats' = [stats EXCEPT !.discarded_bytes = Incremented(@)]
    PROVE  FeedInv'
<1>e. PICK p, r : p = Base /\ r = pos
  OBVIOUS
<1>1. /\ data \in Seq(Byte) /\ Len(data) \in Nat /\ Len(data) < CounterModulus
      /\ stats \in ParserStats /\ Len(wire) = 1 /\ wire[1] = kSof1
  BY DEF DriverInv, IInv, TypeOK, FramingInv
<1>2. /\ WireInv /\ SettledBefore(p) /\ PrintedBefore(p) /\ CountsBefore(p)
      /\ stats.partial_packets = 0
  BY <1>e, FeedInvIs
<1>3. pos \in 2 .. Len(data) /\ p = pos - 1 /\ data[p] = kSof1
  BY <1>1, <1>2, <1>e, AfterSof1
<1>4. /\ p \in 1 .. Len(data) + 1 /\ r \in p .. Len(data) + 1 /\ p \in p .. r - 1
      /\ r = p + 1 /\ p \in Int /\ p < Len(data)
  BY <1>1, <1>3, <1>e
<1>5. SofPairs(p) = SofPairs(r)
  <2>1. data[p + 1] # kSof2
    BY <1>4, <1>e
  <2>2. \A q \in p .. Len(data) - 1 : q \in r .. Len(data) - 1 \/ q = p
    BY <1>1, <1>4
  <2>3. \A q \in r .. Len(data) - 1 : q \in p .. Len(data) - 1
    BY <1>1, <1>4
  <2> QED BY <2>1, <2>2, <2>3 DEF SofPairs
<1>6. p \in Discarded
  <2>1. p \in Skipped
    BY <1>1, <1>2, <1>4, <1>5, SkipSettles
  <2>2. p # Len(data) /\ data[p + 1] = kSof1
    BY <1>1, <1>4, <1>e
  <2> QED BY <2>1, <2>2 DEF Discarded, FalseStarts
<1>7. {y \in Discarded : y >= p /\ y < r} = {p}
  <2>1. \A y \in Discarded : y \in Int
    BY <1>1, AttemptsInFile
  <2>2. \A y \in Discarded : y >= p /\ y < r <=> y = p
    BY <1>4, <2>1
  <2> QED BY <1>6, <2>2
<1>8. /\ SettledBefore(r)' /\ PrintedBefore(r)' /\ CountsBefore(r)'
      /\ stats'.partial_packets = 0
  BY <1>1, <1>2, <1>4, <1>5, <1>7, SkipCounts
<1>9. WireInv' /\ Base' = r
  <2>1. Base' = pos /\ Len(wire') < pos' /\ pos' \in 1 .. Len(data') + 1
    BY <1>1, <1>3 DEF Base
  <2>2. \A i \in 1 .. Len(wire') : i = 1 /\ pos - 1 + i = pos
    BY <1>1, <1>3
  <2>3. \A i \in 1 .. Len(wire') : wire'[i] = data'[Base' - 1 + i]
    BY <1>1, <2>1, <2>2
  <2> QED BY <1>e, <2>1, <2>3 DEF WireInv
<1>10. LastByteInv'
  BY DEF LastByteInv
<1> QED BY <1>8, <1>9, <1>10, FeedInvAt

\* A SOF1 that starts nothing: it and its successor are skipped, the successor counted.
LEMMA FeedFalseStart ==
    ASSUME DriverInv, FeedInv, state = "WaitSof2", pos <= Len(data),
           data[pos] # kSof1, data[pos] # kSof2,
           pos' = pos + 1, wire' = <<>>, printed' = printed, data' = data,
           stats' = [stats EXCEPT !.discarded_bytes = Incremented(@)]
    PROVE  FeedInv'
<1>e. PICK p, x, r : p = Base /\ x = pos /\ r = pos + 1
  OBVIOUS
<1>1. /\ data \in Seq(Byte) /\ Len(data) \in Nat /\ Len(data) < CounterModulus
      /\ stats \in ParserStats
  BY DEF DriverInv, IInv, TypeOK
<1>2. /\ WireInv /\ SettledBefore(p) /\ PrintedBefore(p) /\ CountsBefore(p)
      /\ stats.partial_packets = 0
  BY <1>e, FeedInvIs
<1>3. pos \in 2 .. Len(data) /\ p = pos - 1 /\ data[p] = kSof1
  BY <1>1, <1>2, <1>e, AfterSof1
<1>4. /\ p \in 1 .. Len(data) + 1 /\ r \in p .. Len(data) + 1 /\ x \in p .. r - 1
      /\ p \in p .. r - 1 /\ x = p + 1 /\ r = p + 2 /\ p \in Int /\ x \in 1 .. Len(data)
  BY <1>1, <1>3, <1>e
<1>d. data[x] # kSof1 /\ data[x] # kSof2
  BY <1>e
<1>5. SofPairs(p) = SofPairs(r)
  <2>1. \A q \in p .. Len(data) - 1 : q \in r .. Len(data) - 1 \/ q = p \/ q = x
    BY <1>1, <1>4
  <2>2. \A q \in r .. Len(data) - 1 : q \in p .. Len(data) - 1
    BY <1>1, <1>4
  <2>3. data[p + 1] # kSof2 /\ data[x] # kSof1
    BY <1>4, <1>d
  <2> QED BY <2>1, <2>2, <2>3 DEF SofPairs
<1>6. x \in Discarded /\ p \notin Discarded
  <2>1. p \in Skipped /\ x \in Skipped
    BY <1>1, <1>2, <1>4, <1>5, SkipSettles
  <2>2. data[p + 1] # kSof1 /\ data[p] = kSof1
    BY <1>3, <1>4, <1>d
  <2> QED BY <1>d, <2>1, <2>2 DEF Discarded, FalseStarts
<1>7. {y \in Discarded : y >= p /\ y < r} = {x}
  <2>1. \A y \in Discarded : y \in Int
    BY <1>1, AttemptsInFile
  <2>2. \A y \in Discarded : y >= p /\ y < r <=> y = p \/ y = x
    BY <1>4, <2>1
  <2> QED BY <1>6, <2>2
<1>8. /\ SettledBefore(r)' /\ PrintedBefore(r)' /\ CountsBefore(r)'
      /\ stats'.partial_packets = 0
  BY <1>1, <1>2, <1>4, <1>5, <1>7, SkipCounts
<1>9. WireInv' /\ Base' = r
  <2>1. pos \in 1 .. Len(data)
    BY <1>3
  <2> QED BY <1>1, <1>e, <2>1, WireEmptied
<1>10. LastByteInv'
  <2>1. pos' - 1 = pos
    BY <1>3
  <2> QED BY <2>1 DEF LastByteInv
<1> QED BY <1>8, <1>9, <1>10, FeedInvAt

\* One byte of the file: a case for each branch of feed().
LEMMA FeedStep ==
    ASSUME DriverInv, FeedNext PROVE FeedInv' /\ printed' \in Seq(GoodPackets)
<1>1. /\ FeedInv /\ pos <= Len(data) /\ pos' = pos + 1 /\ data' = data
      /\ printed \in Seq(GoodPackets) /\ FramingInv /\ data \in Seq(Byte) /\ wire \in Seq(Byte)
  BY DEF FeedNext, DriverInv, GoodPackets, IInv, TypeOK
<1>2. data[pos] \in Byte
  BY <1>1 DEF FeedInv, WireInv
<1>3. printed' = IF event'.kind = "packet" THEN Append(printed, event'.packet) ELSE printed
  BY DEF FeedNext
<1> USE DEF NoEvent
<1>4. CASE FeedWaitSof1(data[pos])
  <2>1. event'.kind # "packet" /\ printed' = printed
    BY <1>3, <1>4 DEF FeedWaitSof1
  <2>2. CASE data[pos] = kSof1
    <3>1. wire' = <<data[pos]>> /\ stats' = stats /\ state' # "WaitSof1" /\ wire = <<>>
      BY <1>1, <1>4, <2>2 DEF FeedWaitSof1, FramingInv
    <3>2. wire' = Append(wire, data[pos])
      BY <3>1
    <3> QED BY <1>1, <2>1, <3>1, <3>2, FeedAttemptByte
  <2>3. CASE data[pos] # kSof1
    BY <1>1, <1>4, <2>1, <2>3, FeedNoise DEF FeedWaitSof1
  <2> QED BY <2>2, <2>3
<1>5. CASE FeedWaitSof2(data[pos])
  <2>1. event'.kind # "packet" /\ printed' = printed
    BY <1>3, <1>5 DEF FeedWaitSof2
  <2>2. CASE data[pos] = kSof2
    BY <1>1, <1>5, <2>1, <2>2, FeedAttemptByte DEF FeedWaitSof2
  <2>3. CASE data[pos] = kSof1
    BY <1>1, <1>5, <2>1, <2>3, FeedSof1Again DEF FeedWaitSof2
  <2>4. CASE data[pos] \notin {kSof1, kSof2}
    BY <1>1, <1>5, <2>1, <2>4, FeedFalseStart DEF FeedWaitSof2
  <2> QED BY <2>2, <2>3, <2>4
<1>6. ASSUME \/ FeedLength(data[pos]) \/ FeedType(data[pos])
             \/ FeedPayload(data[pos]) \/ FeedCrcLo(data[pos])
      PROVE  FeedInv' /\ printed' \in Seq(GoodPackets)
  <2>1. /\ event'.kind # "packet" /\ stats' = stats /\ wire' = Append(wire, data[pos])
        /\ state' # "WaitSof1"
    BY <1>6 DEF FeedLength, FeedType, AfterType, FeedPayload, FeedCrcLo
  <2> QED BY <1>1, <1>3, <2>1, FeedAttemptByte
<1>7. CASE FeedCrcHiValid(data[pos])
  <2>1. event'.kind = "packet"
    BY <1>7 DEF FeedCrcHiValid
  <2> QED BY <1>1, <1>3, <1>7, <2>1, FeedValidFrame
<1>8. CASE FeedCrcHiFailure(data[pos])
  <2>1. event'.kind # "packet"
    BY <1>8 DEF FeedCrcHiFailure
  <2> QED BY <1>1, <1>3, <1>8, <2>1, FeedCorruptFrame
<1>9. Feed(data[pos])
  BY DEF FeedNext
<1> QED BY <1>4, <1>5, <1>6, <1>7, <1>8, <1>9 DEF Feed

-----------------------------------------------------------------------------
(* The end of the file.                                                    *)

\* Where the parser stands at the end of the file, and what the offline reading says
\* of it: the frame it is in, if any, is the attempt that is not whole.
LEMMA EndOfFile ==
    ASSUME DriverInv, FeedInv, pos > Len(data), NEW p, p = Base
    PROVE  /\ MidPacket <=> EndsMidPacket
           /\ ValidAttempts = ValidBefore(p) /\ CorruptAttempts = CorruptBefore(p)
           /\ Discarded = DiscardedBefore(p)
<1>1. /\ data \in Seq(Byte) /\ Len(data) \in Nat /\ wire \in Seq(Byte) /\ Len(wire) \in Nat
      /\ FramingInv /\ state \in States /\ length \in Nat
  BY DEF DriverInv, IInv, TypeOK, Byte
<1>2. /\ WireInv /\ LastByteInv /\ SettledBefore(p)
      /\ pos = Len(data) + 1 /\ pos \in Int /\ p \in 1 .. Len(data) + 1
  <2>1. WireInv /\ LastByteInv /\ SettledBefore(p)
    BY FeedInvIs
  <2> QED BY <1>1, <2>1 DEF WireInv, Base
<1>3. \A q \in Attempts : q \in 1 .. Len(data)
  <2>1. Attempts \subseteq 1 .. Len(data) - 1
    BY <1>1, AttemptsInFile
  <2> QED BY <1>1, <2>1
<1>4. \A x \in Discarded : x \in 1 .. Len(data) /\ x \in Skipped
  BY <1>1, AttemptsInFile DEF Discarded
<1>5. \A x \in Skipped : x \in 1 .. Len(data)
  BY DEF Skipped
\* No attempt is left: every attempt lies before p and is whole.
<1>6. ASSUME SofPairs(p) = {}
      PROVE  /\ \A q \in Attempts : q < p /\ Whole(q)
             /\ \A x \in p .. Len(data) : x \in Skipped
  <2>1. Len(data) + 1 \in p .. Len(data) + 1 /\ SofPairs(Len(data) + 1) = {}
    BY <1>1, <1>2 DEF SofPairs
  <2>2. /\ \A q \in Attempts : q < Len(data) + 1 => q < p
        /\ \A x \in p .. (Len(data) + 1) - 1 : x \in Skipped
    BY <1>1, <1>2, <1>6, <2>1, SkipSettles
  <2>3. \A q \in Attempts : q < p
    BY <1>1, <1>3, <2>2
  <2>4. (Len(data) + 1) - 1 = Len(data)
    BY <1>1
  <2> QED BY <1>2, <2>2, <2>3, <2>4 DEF SettledBefore
<1>7. CASE state = "WaitSof1"
  <2>1. p = Len(data) + 1
    <3>1. Len(wire) = 0
      BY <1>1, <1>7 DEF FramingInv
    <3> QED BY <1>1, <1>2, <3>1 DEF Base
  <2>2. SofPairs(p) = {}
    BY <1>1, <2>1 DEF SofPairs
  <2>3. ~EndsMidPacket
    <3>1. \A q \in Attempts : Whole(q)
      BY <1>6, <2>2
    <3>2. ~(Len(data) \in Skipped /\ data[Len(data)] = kSof1)
      <4>1. CASE Len(data) = 0
        BY <1>1, <1>5, <4>1
      <4>2. CASE Len(data) # 0
        <5>1. pos > 1 /\ pos - 1 = Len(data)
          BY <1>1, <1>2, <4>2
        <5> QED BY <1>2, <1>7, <5>1 DEF LastByteInv
      <4> QED BY <4>1, <4>2
    <3> QED BY <3>1, <3>2 DEF EndsMidPacket
  <2>4. (\A q \in Attempts : q < p) /\ \A x \in Discarded : x < p
    BY <1>1, <1>3, <1>4, <2>1
  <2> QED BY <1>7, <2>3, <2>4
          DEF MidPacket, ValidBefore, CorruptBefore, DiscardedBefore, ValidAttempts, CorruptAttempts
<1>8. CASE state = "WaitSof2"
  <2>1. p = Len(data) /\ data[p] = kSof1 /\ p \in Int
    BY <1>1, <1>2, <1>8, AfterSof1
  <2>2. SofPairs(p) = {}
    BY <1>1, <2>1 DEF SofPairs
  <2>3. p \in Skipped
    BY <1>1, <1>2, <1>6, <2>1, <2>2
  <2>4. EndsMidPacket
    BY <2>1, <2>3 DEF EndsMidPacket
  <2>5. p \notin Discarded
    BY <2>1, <2>3 DEF Discarded, FalseStarts
  <2>6. \A x \in Discarded : x < p
    <3>1. \A x \in Discarded : x # p /\ x \in 1 .. Len(data)
      BY <1>4, <2>5
    <3> QED BY <1>1, <2>1, <3>1
  <2>7. \A q \in Attempts : q < p
    BY <1>6, <2>2
  <2> QED BY <1>8, <2>4, <2>6, <2>7
          DEF MidPacket, ValidBefore, CorruptBefore, DiscardedBefore, ValidAttempts, CorruptAttempts
<1>9. CASE state \notin {"WaitSof1", "WaitSof2"}
  <2>0. state \in {"Length", "Type", "Payload", "CrcLo", "CrcHi"}
    BY <1>1, <1>9 DEF States
  <2>1. Len(wire) >= 2 /\ wire[1] = kSof1 /\ wire[2] = kSof2
    <3>1. payload_index \in Nat
      BY DEF DriverInv, IInv, TypeOK
    <3>2. CASE state = "Length"
      <4>1. Len(wire) = 2 /\ wire[1] = kSof1 /\ wire[2] = kSof2
        BY <1>1, <3>2 DEF FramingInv
      <4> QED BY <4>1
    <3>3. CASE state # "Length"
      <4>1. FrameSoFar
        BY <1>1, <2>0, <3>3 DEF FramingInv
      <4>2. BodyBytes \in Nat
        BY <3>1 DEF BodyBytes
      <4> QED BY <1>1, <4>1, <4>2 DEF FrameSoFar
    <3> QED BY <3>2, <3>3
  <2>2. /\ p + Len(wire) = Len(data) + 1 /\ p \in 1 .. Len(data) - 1
        /\ \A i \in 1 .. Len(wire) : wire[i] = data[p - 1 + i]
    BY <1>1, <1>2, <2>1 DEF Base, WireInv
  <2>3. data[p] = kSof1 /\ data[p + 1] = kSof2
    <3>1. 1 \in 1 .. Len(wire) /\ 2 \in 1 .. Len(wire) /\ p - 1 + 1 = p /\ p - 1 + 2 = p + 1
      BY <1>1, <2>1, <2>2
    <3> QED BY <2>1, <2>2, <3>1
  <2>4. p \in SofPairs(p)
    BY <1>1, <2>2, <2>3 DEF SofPairs
  <2>5. ~Whole(p)
    <3>1. CASE state = "Length"
      <4>1. Len(wire) = 2
        BY <1>1, <3>1 DEF FramingInv
      <4> QED BY <1>1, <2>2, <4>1 DEF Whole
    <3>2. CASE state # "Length"
      <4>1. FrameSoFar
        BY <1>1, <2>0, <3>2 DEF FramingInv
      <4>2. payload_index \in Nat
        BY DEF DriverInv, IInv, TypeOK
      <4>3. Len(wire) >= 3 /\ Len(wire) <= 5 + length /\ wire[3] = length
        BY <1>1, <2>0, <3>2, <4>1, <4>2 DEF FrameSoFar, BodyBytes
      <4>4. data[p + 2] = length
        <5>1. 3 \in 1 .. Len(wire) /\ p - 1 + 3 = p + 2
          BY <1>1, <2>2, <4>3
        <5> QED BY <2>2, <4>3, <5>1
      <4> QED BY <1>1, <2>2, <4>3, <4>4 DEF Whole, FrameLen
    <3> QED BY <3>1, <3>2
  <2>6. p \in Attempts /\ AttemptsFrom[p] = {p}
    BY <1>1, <1>2, <2>2, <2>4, <2>5, PairIsAttempt
  <2>7. \A q \in Attempts : q < p \/ q = p
    <3>1. \A q \in Attempts : q >= p => q = p
      BY <1>2, <2>6 DEF SettledBefore
    <3> QED BY <1>3, <2>2, <3>1
  <2>8. \A q \in Attempts : Whole(q) => q < p
    BY <2>5, <2>7
  <2>9. \A x \in Skipped : x < p
    <3> DEFINE part(q) == IF Whole(q) THEN q .. q + FrameLen(q) - 1 ELSE q .. Len(data)
    <3>1. ASSUME NEW x \in p .. Len(data) PROVE x \notin Skipped
      <4>1. x \in part(p)
        BY <2>5, <3>1
      <4> HIDE DEF part
      <4>2. x \in UNION {part(q) : q \in Attempts}
        BY <2>6, <4>1
      <4> QED BY <4>2 DEF Skipped, part
    <3> QED BY <1>1, <1>5, <2>2, <3>1
  <2>10. EndsMidPacket
    BY <2>5, <2>6 DEF EndsMidPacket
  <2>11. \A x \in Discarded : x < p
    BY <1>4, <2>9
  <2>12. ValidAttempts = ValidBefore(p) /\ CorruptAttempts = CorruptBefore(p)
    BY <2>8 DEF ValidBefore, CorruptBefore, ValidAttempts, CorruptAttempts
  <2>13. Discarded = DiscardedBefore(p)
    BY <2>11 DEF DiscardedBefore
  <2> QED BY <1>9, <2>10, <2>12, <2>13 DEF MidPacket
<1> QED BY <1>7, <1>8, <1>9

\* finish() and the statistics it leaves.
LEMMA FinishStep ==
    ASSUME DriverInv, FinishInput PROVE ReportInv(stats)'
<1>e. PICK p : p = Base
  OBVIOUS
<1>1. /\ FeedInv /\ pos > Len(data) /\ data' = data /\ printed' = printed
      /\ stats \in ParserStats /\ stats.sync_losses = stats.crc_failures
  BY DEF FinishInput, DriverInv, IInv, TypeOK, SyncLossIsCrcFailure
<1>2. PrintedBefore(p) /\ CountsBefore(p) /\ stats.partial_packets = 0
  BY <1>1, <1>e, FeedInvIs
<1>3. /\ MidPacket <=> EndsMidPacket
      /\ ValidAttempts = ValidBefore(p) /\ CorruptAttempts = CorruptBefore(p)
      /\ Discarded = DiscardedBefore(p)
  BY <1>1, <1>e, EndOfFile
<1>4. /\ stats'.valid_packets = stats.valid_packets
      /\ stats'.crc_failures = stats.crc_failures /\ stats'.sync_losses = stats.sync_losses
      /\ stats'.discarded_bytes = stats.discarded_bytes
      /\ stats'.partial_packets =
            IF MidPacket THEN Incremented(stats.partial_packets) ELSE stats.partial_packets
  BY <1>1 DEF FinishInput, Finish, ParserStats
<1>5. Incremented(0) = 1
  BY CounterAssumption DEF Incremented
<1>6. stats'.partial_packets = IF EndsMidPacket THEN 1 ELSE 0
  BY <1>2, <1>3, <1>4, <1>5
<1>7. /\ ValidAttempts' = ValidAttempts /\ CorruptAttempts' = CorruptAttempts
      /\ Discarded' = Discarded /\ EndsMidPacket' = EndsMidPacket
      /\ \A q : Rank(q)' = Rank(q) /\ FrameAt(q)' = FrameAt(q)
  BY <1>1, SameData, SameSettled
<1> QED BY <1>1, <1>2, <1>3, <1>4, <1>6, <1>7 DEF ReportInv, PrintedBefore, CountsBefore

-----------------------------------------------------------------------------
(* The program.                                                            *)

\* Nothing is read yet.
LEMMA InitDriverInv == DriverInit => DriverInv
<1> SUFFICES ASSUME DriverInit PROVE DriverInv
  OBVIOUS
<1>1. IInv
  BY InitIInv DEF DriverInit
<1>2. data \in Seq(Byte) /\ Len(data) < CounterModulus /\ printed \in Seq(GoodPackets)
  BY CounterAssumption DEF DriverInit
<1> QED BY <1>1, <1>2 DEF DriverInv, DriverInit, Init, Phases

\* AttemptsInFile as an implication, to be used after a step as well as before it.
LEMMA FileBounds ==
    data \in Seq(Byte) => /\ Attempts \subseteq 1 .. Len(data) - 1
                         /\ ValidAttempts \subseteq 1 .. Len(data)
                         /\ CorruptAttempts \subseteq 1 .. Len(data)
                         /\ Discarded \subseteq 1 .. Len(data)
BY AttemptsInFile

\* The file is read: no attempt is settled, nothing is counted.
LEMMA ReadStep ==
    ASSUME DriverInv, ReadFile PROVE FeedInv' /\ printed' \in Seq(GoodPackets')
<1>1. /\ state = "WaitSof1" /\ pos = 1 /\ printed = <<>> /\ stats = ZeroStats /\ wire = <<>>
      /\ data' \in Seq(Byte)
      /\ pos' = pos /\ printed' = printed /\ stats' = stats /\ wire' = wire /\ state' = state
  BY StreamsAssumption DEF ReadFile, DriverInv, vars, members, IInv, FramingInv
<1>2. Base' = 1 /\ WireInv'
  <2>1. Len(wire') = 0 /\ Len(data') \in Nat /\ pos' = 1
    BY <1>1
  <2>2. Base' = 1
    BY <2>1 DEF Base
  <2>3. pos' \in 1 .. Len(data') + 1 /\ Len(wire') < pos' /\ 1 .. Len(wire') = {}
    BY <2>1
  <2> QED BY <2>2, <2>3 DEF WireInv
<1>3. LastByteInv'
  BY <1>1 DEF LastByteInv
<1>4. (data \in Seq(Byte) => /\ Attempts \subseteq 1 .. Len(data) - 1
                           /\ ValidAttempts \subseteq 1 .. Len(data)
                           /\ CorruptAttempts \subseteq 1 .. Len(data)
                           /\ Discarded \subseteq 1 .. Len(data))'
  BY FileBounds, PTL
<1>5. \A n \in Int : \A q \in 1 .. n : q >= 1 /\ ~(q < 1)
  OBVIOUS
<1>6. Len(data') \in Int /\ Len(data') - 1 \in Int
  BY <1>1
<1>7. SettledBefore(1)'
  BY <1>1, <1>4, <1>5, <1>6 DEF SettledBefore, Attempts
<1>8. ValidBefore(1)' = {} /\ CorruptBefore(1)' = {} /\ DiscardedBefore(1)' = {}
  BY <1>1, <1>4, <1>5, <1>6 DEF ValidBefore, CorruptBefore, DiscardedBefore
<1>9. Cardinality({}) = 0
  BY FS_EmptySet
<1>10. PrintedBefore(1)' /\ CountsBefore(1)' /\ stats'.partial_packets = 0
  BY <1>1, <1>8, <1>9 DEF PrintedBefore, CountsBefore, ZeroStats
<1> QED BY <1>1, <1>2, <1>3, <1>7, <1>10, FeedInvAt

\* DriverInv is inductive.
LEMMA DriverStep == DriverInv /\ [DriverNext]_allVars => DriverInv'
<1> SUFFICES ASSUME DriverInv, [DriverNext]_allVars PROVE DriverInv'
  OBVIOUS
<1> USE DEF Phases
<1>1. CASE OpenFails
  <2>1. UNCHANGED vars /\ data' = data /\ printed' = printed /\ phase' = "failed"
    BY <1>1 DEF OpenFails
  <2>2. IInv'
    BY <2>1, IInvStep DEF DriverInv
  <2>3. GoodPackets' = GoodPackets
    BY <2>1, SameData DEF GoodPackets
  <2> QED BY <2>1, <2>2, <2>3 DEF DriverInv
<1>2. CASE ReadFile
  <2>1. UNCHANGED vars /\ data' \in Streams /\ phase' = "feed"
    BY <1>2 DEF ReadFile
  <2>2. IInv'
    BY <2>1, IInvStep DEF DriverInv
  <2>3. data' \in Seq(Byte) /\ Len(data') < CounterModulus
    BY <2>1, StreamsAssumption
  <2> QED BY <1>2, <2>1, <2>2, <2>3, ReadStep DEF DriverInv
<1>3. CASE FeedNext
  <2>1. /\ data' = data /\ phase' = "feed" /\ Feed(data[pos])
        /\ phase = "feed" /\ pos <= Len(data)
    BY <1>3 DEF FeedNext
  <2>2. data[pos] \in Byte
    BY <2>1 DEF DriverInv, FeedInv, WireInv
  <2>3. IInv'
    BY <2>1, <2>2, IInvStep DEF DriverInv, Next
  <2>4. GoodPackets' = GoodPackets
    BY <2>1, SameData DEF GoodPackets
  <2> QED BY <1>3, <2>1, <2>3, <2>4, FeedStep DEF DriverInv
<1>4. CASE FinishInput
  <2>1. data' = data /\ printed' = printed /\ phase' = "report" /\ Finish
    BY <1>4 DEF FinishInput
  <2>2. IInv'
    BY <2>1, IInvStep DEF DriverInv, Next
  <2>3. GoodPackets' = GoodPackets
    BY <2>1, SameData DEF GoodPackets
  <2> QED BY <1>4, <2>1, <2>2, <2>3, FinishStep DEF DriverInv
<1>5. CASE PrintStats
  <2>1. /\ UNCHANGED vars /\ data' = data /\ printed' = printed /\ phase = "report"
        /\ phase' = "done" /\ report' = stats
    BY <1>5 DEF PrintStats
  <2>2. IInv'
    BY <2>1, IInvStep DEF DriverInv
  <2>3. /\ GoodPackets' = GoodPackets
        /\ ValidAttempts' = ValidAttempts /\ CorruptAttempts' = CorruptAttempts
        /\ Discarded' = Discarded /\ EndsMidPacket' = EndsMidPacket
        /\ \A q : Rank(q)' = Rank(q) /\ FrameAt(q)' = FrameAt(q)
    BY <2>1, SameData, SameSettled DEF GoodPackets
  <2>4. ReportInv(stats)
    BY <2>1 DEF DriverInv
  <2>5. ReportInv(report)'
    BY <2>1, <2>3, <2>4 DEF ReportInv
  <2> QED BY <2>1, <2>2, <2>3, <2>5 DEF DriverInv
<1>6. CASE UNCHANGED allVars
  <2>1. UNCHANGED vars /\ UNCHANGED driverVars
    BY <1>6 DEF allVars
  <2>2. IInv'
    BY <2>1, IInvStep DEF DriverInv
  <2>3. /\ data' = data /\ printed' = printed /\ phase' = phase /\ report' = report /\ pos' = pos
        /\ stats' = stats /\ wire' = wire /\ state' = state
    BY <2>1 DEF driverVars, vars, members
  <2> HIDE DEF Phases
  <2>4. /\ GoodPackets' = GoodPackets /\ Skipped' = Skipped
        /\ ValidAttempts' = ValidAttempts /\ CorruptAttempts' = CorruptAttempts
        /\ Discarded' = Discarded /\ EndsMidPacket' = EndsMidPacket
        /\ \A q : Rank(q)' = Rank(q) /\ FrameAt(q)' = FrameAt(q)
    BY <2>3, SameData, SameSettled DEF GoodPackets
  <2>5. ReportInv(stats)' = ReportInv(stats) /\ ReportInv(report)' = ReportInv(report)
    BY <2>3, <2>4 DEF ReportInv
  <2>6. FeedInv => FeedInv'
    <3> SUFFICES ASSUME FeedInv PROVE FeedInv'
      OBVIOUS
    <3>1. PICK p : p = Base
      OBVIOUS
    <3>2. /\ WireInv /\ LastByteInv
          /\ SettledBefore(p) /\ PrintedBefore(p) /\ CountsBefore(p)
          /\ stats.partial_packets = 0
      BY <3>1, FeedInvIs
    <3>3. Base' = p /\ WireInv' /\ LastByteInv'
      BY <2>3, <2>4, <3>1, <3>2 DEF Base, WireInv, LastByteInv
    <3>4. SettledBefore(p)' /\ CountsBefore(p)'
      BY <2>3, <3>2, SameSettled DEF CountsBefore
    <3>5. PrintedBefore(p)'
      BY <2>3, <2>4, <3>2, SameSettled DEF PrintedBefore
    <3> QED BY <2>3, <3>2, <3>3, <3>4, <3>5, FeedInvAt
  <2> QED BY <2>2, <2>3, <2>4, <2>5, <2>6 DEF DriverInv
<1>7. CASE Exited
  BY <1>6, <1>7 DEF Exited
<1> QED BY <1>1, <1>2, <1>3, <1>4, <1>5, <1>6, <1>7 DEF DriverNext

\* So it holds throughout the program.
LEMMA DriverInductive == DriverSpec => []DriverInv
BY InitDriverInv, DriverStep, PTL DEF DriverSpec

\* For every file: the program prints the packets of the intact frames, all of them, in
\* the order of the file, and nothing else (main.cpp:52-55, uart_parser.cpp:29-102).
THEOREM PrintedCorrect == DriverSpec => []PrintedIsValidFrames
<1>1. DriverInv => PrintedIsValidFrames
  BY DEF DriverInv, ReportInv, PrintedIsValidFrames, Rank
<1> QED BY <1>1, DriverInductive, PTL

\* For every file: the statistics it prints are the counts of the offline reading, so
\* every byte is accounted for (main.cpp:57-63, uart_parser.hpp:29-36).
THEOREM ReportCorrect == DriverSpec => []ReportMatchesStream
<1>1. DriverInv => ReportMatchesStream
  BY DEF DriverInv, ReportInv, ReportMatchesStream, Discarded
<1> QED BY <1>1, DriverInductive, PTL
=============================================================================
