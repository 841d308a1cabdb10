------------------------- MODULE SensorProducerProofs -------------------------
(***************************************************************************)
(* Proofs about SensorProducer, for any number of producers, any logs, any *)
(* positive speed and any stall: what a producer applies, in which order   *)
(* and when, with requestStop() and wake-ups at any time.                  *)
(***************************************************************************)
EXTENDS SensorProducer, ProofFacts, FunctionTheorems, SequenceTheorems, TLAPS

Waits == {"check", "enter", "blocked", "over"}
InLoop == Waits \cup {"apply"}

Applications == [row : Nat, at : Nat, stopped : BOOLEAN]

\* The parts of the state that TypeOK leaves open.
Shape ==
    /\ log \in [Sensors -> Seq(Nat)]
    /\ DOMAIN events = Sensors
    /\ \A p \in Sensors : events[p] \in [1 .. Len(log[p]) -> 1 .. Len(log[p])]
    /\ ev \in [Sensors -> Nat]
    /\ applied \in [Sensors -> Seq(Applications)]

\* The flags, and what is known at each label of run().
RunOf(p) ==
    /\ ctl[p] = "running" <=> ~stop_requested[p]
    /\ finished[p] <=> pc[p] = "done"
    /\ pc[p] \in InLoop => ev[p] <= Len(log[p])
    /\ pc[p] \in Waits => waiting[p] # "none"
    /\ pc[p] \in {"finish", "done"} => stop_requested[p] \/ ev[p] = Len(log[p]) + 1

\* What has been applied; after an application that came too late run() is on its way out.
AppliedOf(p) ==
    /\ Len(applied[p]) = ev[p] - 1
    /\ \A i \in 1 .. Len(applied[p]) :
          /\ applied[p][i].row = events[p][i]
          /\ applied[p][i].at <= clock
          /\ applied[p][i].stopped =>
                i = Len(applied[p]) /\ stop_requested[p] /\ pc[p] \in {"top", "finish", "done"}

\* The deadline of a wait, and that only a request to stop cuts a wait short.
WaitOf(p) ==
    /\ \A i \in ev[p] .. Len(log[p]) : replay_start[p] + Due(TimeOf(p, i)) >= 0
    /\ pc[p] = "over" => stop_requested[p] \/ clock >= deadline[p]
    /\ pc[p] = "apply" => clock >= deadline[p] /\ waiting[p] = "event"
    /\ pc[p] \in InLoop /\ waiting[p] = "event" =>
          deadline[p] = replay_start[p] + Due(TimeOf(p, ev[p]))

\* The time of the last sample before the stall.
QuietSince(p) == IF StallEvent(p) <= 1 THEN 0 ELSE applied[p][StallEvent(p) - 1].at

\* The stall happens once, before the event at the stall point, and moves the anchor.
StallOf(p) ==
    /\ stalled_once[p] => StallEvent(p) # 0 /\ ev[p] >= StallEvent(p)
    /\ ~stalled_once[p] =>
          /\ replay_start[p] = 0
          /\ StallEvent(p) = 0 \/ ev[p] <= StallEvent(p)
          /\ pc[p] \in InLoop =>
                waiting[p] = "event" /\ (StallEvent(p) = 0 \/ ev[p] < StallEvent(p))
    /\ pc[p] \in Waits /\ waiting[p] = "stall" =>
          /\ ev[p] = StallEvent(p)
          /\ deadline[p] >= QuietSince(p) + StallDuration[p]
    /\ /\ stalled_once[p]
       /\ pc[p] \in {"top", "apply"} \/ (pc[p] \in Waits /\ waiting[p] = "event")
       => replay_start[p] >= QuietSince(p) + StallDuration[p] - Due(TimeOf(p, StallEvent(p)))

\* Samples are on time before the stall point and shifted after it.
TimesOf(p) ==
    \A i \in 1 .. Len(applied[p]) :
        /\ StallEvent(p) # 0 /\ i >= StallEvent(p) =>
              applied[p][i].at >= QuietSince(p) + StallDuration[p]
                                  + Due(TimeOf(p, i)) - Due(TimeOf(p, StallEvent(p)))
        /\ StallEvent(p) = 0 \/ i < StallEvent(p) => applied[p][i].at >= Due(TimeOf(p, i))

CoreInv == TypeOK /\ Shape /\ \A p \in Sensors : RunOf(p) /\ AppliedOf(p) /\ WaitOf(p)

TimelineInv == \A p \in Sensors : StallOf(p) /\ TimesOf(p)

\* A step of producer p or of its controller.
PStep(p) == RunStep(p) \/ SpuriousWakeup(p) \/ StoreStop(p) \/ Notify(p) \/ Join(p)

\* A step that leaves producer q alone.
SameAt(q) ==
    /\ log' = log /\ events' = events
    /\ pc'[q] = pc[q] /\ ev'[q] = ev[q] /\ stalled_once'[q] = stalled_once[q]
    /\ replay_start'[q] = replay_start[q] /\ finished'[q] = finished[q]
    /\ waiting'[q] = waiting[q] /\ deadline'[q] = deadline[q]
    /\ stop_requested'[q] = stop_requested[q] /\ ctl'[q] = ctl[q] /\ applied'[q] = applied[q]

\* What comes d after an anchor that has been moved by at least quiet + dur - e.
LEMMA ShiftedTime ==
    ASSUME NEW c \in Nat, NEW start \in Int, NEW d \in Nat, NEW quiet \in Nat,
           NEW dur \in Nat, NEW e \in Nat, c >= start + d, start >= quiet + dur - e
    PROVE  c >= quiet + dur + d - e
OBVIOUS

USE SpeedAssumption, StallAssumption

-----------------------------------------------------------------------------
(* The operators of the specification.                                     *)

\* Scaling by the speed factor keeps the order of the timestamps.
LEMMA DueMonotone ==
    /\ \A t \in Nat : Due(t) \in Nat
    /\ \A t, u \in Nat : t <= u => Due(t) <= Due(u)
<1>1. ASSUME NEW n \in Nat \ {0}, NEW x \in Nat, NEW y \in Nat, x <= y
      PROVE  x \div n \in Nat /\ x \div n <= y \div n
  BY <1>1
<1>2. ASSUME NEW n \in Nat \ {0}, NEW x \in Nat, NEW y \in Nat, x <= y
      PROVE  x * n \in Nat /\ x * n <= y * n
  BY <1>2
<1>3. ASSUME NEW t \in Nat, NEW u \in Nat, t <= u PROVE Due(t) \in Nat /\ Due(t) <= Due(u)
  <2>1. t * SpeedDen \in Nat /\ u * SpeedDen \in Nat /\ t * SpeedDen <= u * SpeedDen
    BY <1>2, <1>3
  <2> QED BY <1>1, <2>1 DEF Due
<1> QED BY <1>3

\* A timestamp of the log is a natural number, and later events have later ones.
LEMMA TimeOfType ==
    ASSUME CoreInv, NEW p \in Sensors, NEW i \in 1 .. Len(log[p])
    PROVE  /\ Len(log[p]) \in Nat /\ Len(events[p]) = Len(log[p])
           /\ TimeOf(p, i) \in Nat /\ Due(TimeOf(p, i)) \in Nat
           /\ \A j \in i .. Len(log[p]) :
                 TimeOf(p, i) <= TimeOf(p, j) /\ Due(TimeOf(p, i)) <= Due(TimeOf(p, j))
<1>1. log[p] \in Seq(Nat) /\ events[p] \in [1 .. Len(log[p]) -> 1 .. Len(log[p])]
  BY DEF CoreInv, Shape
<1>2. Len(log[p]) \in Nat /\ DOMAIN events[p] = 1 .. Len(log[p])
  BY <1>1
<1>3. Len(events[p]) = Len(log[p])
  BY <1>1, <1>2
<1>4. ASSUME NEW j \in 1 .. Len(log[p]) PROVE TimeOf(p, j) \in Nat
  <2>1. events[p][j] \in 1 .. Len(log[p])
    BY <1>1
  <2> QED BY <1>1, <2>1, ElementOfSeq DEF TimeOf
<1>5. ASSUME NEW j \in i .. Len(log[p])
      PROVE  TimeOf(p, i) <= TimeOf(p, j) /\ Due(TimeOf(p, i)) <= Due(TimeOf(p, j))
  <2>1. i \in DOMAIN events[p] /\ j \in DOMAIN events[p] /\ j \in 1 .. Len(log[p])
    BY <1>2
  <2>2. TimeOf(p, i) <= TimeOf(p, j)
    <3>1. CASE i = j
      BY <1>4, <3>1
    <3>2. CASE i < j
      BY <2>1, <3>2 DEF CoreInv, TypeOK, EventsAreTheLog
    <3> QED BY <1>2, <3>1, <3>2
  <2> QED BY <1>4, <2>1, <2>2, DueMonotone
<1>6. TimeOf(p, i) \in Nat /\ Due(TimeOf(p, i)) \in Nat
  BY <1>4, DueMonotone
<1> QED BY <1>2, <1>3, <1>5, <1>6

\* The sort neither drops nor adds an event.
LEMMA TimeOfLen ==
    ASSUME CoreInv, NEW p \in Sensors PROVE Len(log[p]) \in Nat /\ Len(events[p]) = Len(log[p])
<1>1. log[p] \in Seq(Nat) /\ events[p] \in [1 .. Len(log[p]) -> 1 .. Len(log[p])]
  BY DEF CoreInv, Shape
<1> QED BY <1>1

\* What a producer has applied is a sequence of records.
LEMMA AppliedType ==
    ASSUME CoreInv, NEW p \in Sensors
    PROVE  /\ applied[p] \in Seq(Applications) /\ Len(applied[p]) \in Nat
           /\ DOMAIN applied[p] = 1 .. Len(applied[p])
           /\ \A i \in 1 .. Len(applied[p]) :
                 applied[p][i] \in Applications /\ applied[p][i].at \in Nat
<1>1. applied[p] \in Seq(Applications)
  BY DEF CoreInv, Shape
<1>2. \A i \in 1 .. Len(applied[p]) : applied[p][i] \in Applications
  BY <1>1, ElementOfSeq
<1> QED BY <1>1, <1>2 DEF Applications

\* std::sort leaves a sorted permutation of the rows.
LEMMA SortCorrect ==
    log \in [Sensors -> Seq(Nat)] /\ events \in SortedEvents =>
        /\ DOMAIN events = Sensors
        /\ \A p \in Sensors : events[p] \in [1 .. Len(log[p]) -> 1 .. Len(log[p])]
        /\ EventsAreTheLog
<1> SUFFICES ASSUME log \in [Sensors -> Seq(Nat)], events \in SortedEvents
             PROVE  /\ DOMAIN events = Sensors
                    /\ \A p \in Sensors : events[p] \in [1 .. Len(log[p]) -> 1 .. Len(log[p])]
                    /\ EventsAreTheLog
  OBVIOUS
<1>1. DOMAIN events = Sensors /\ \A p \in Sensors : events[p] \in Sorted(p)
  BY DEF SortedEvents
<1>2. ASSUME NEW p \in Sensors
      PROVE  /\ Len(log[p]) \in Nat /\ DOMAIN log[p] = 1 .. Len(log[p])
             /\ events[p] \in [1 .. Len(log[p]) -> 1 .. Len(log[p])]
             /\ \A i, j \in 1 .. Len(log[p]) : events[p][i] = events[p][j] => i = j
             /\ \A i, j \in 1 .. Len(log[p]) : i < j => TimeOf(p, i) <= TimeOf(p, j)
  <2>1. DOMAIN log[p] = 1 .. Len(log[p]) /\ Len(log[p]) \in Nat
    OBVIOUS
  <2>2. events[p] \in Sorted(p)
    BY <1>1
  <2> QED BY <2>1, <2>2 DEF Sorted, TimeOf
<1>3. ASSUME NEW p \in Sensors, NEW row \in DOMAIN log[p]
      PROVE  \E i \in DOMAIN events[p] : events[p][i] = row
  <2>1. ASSUME NEW n \in Nat, NEW f \in [1 .. n -> 1 .. n], row \in 1 .. n,
               \A i, j \in 1 .. n : f[i] = f[j] => i = j
        PROVE  \E i \in 1 .. n : f[i] = row
    <3>1. \A r \in 1 .. n : \E i \in 1 .. n : f[i] = r
      BY <2>1, InjectiveIsOnto
    <3> QED BY <2>1, <3>1
  <2>2. /\ Len(log[p]) \in Nat /\ events[p] \in [1 .. Len(log[p]) -> 1 .. Len(log[p])]
        /\ row \in 1 .. Len(log[p])
        /\ \A i, j \in 1 .. Len(log[p]) : events[p][i] = events[p][j] => i = j
    BY <1>2
  <2>3. DOMAIN events[p] = 1 .. Len(log[p])
    BY <2>2
  <2> QED BY <2>1, <2>2, <2>3
<1>4. EventsAreTheLog
  BY <1>2, <1>3 DEF EventsAreTheLog
<1> QED BY <1>1, <1>2, <1>4

-----------------------------------------------------------------------------
(* Frames.                                                                 *)

\* Producers share nothing: a step of one leaves the others alone.
LEMMA Others ==
    ASSUME CoreInv, NEW p \in Sensors, PStep(p)
    PROVE  /\ clock' = clock /\ log' = log /\ events' = events
           /\ \A q \in Sensors : q # p => SameAt(q)
<1> USE DEF SameAt, CoreInv, TypeOK, Shape
<1>1. CASE LeaveLoop(p)
  BY <1>1 DEF LeaveLoop, Goto, OnlyGoto, MoreEvents
<1>2. CASE BeginStall(p)
  BY <1>2 DEF BeginStall, Goto, BeginWait, MoreEvents
<1>3. CASE BeginEvent(p)
  BY <1>3 DEF BeginEvent, Goto, BeginWait, MoreEvents
<1>4. CASE EndStall(p)
  BY <1>4 DEF EndStall, Goto, BeginWait
<1>5. CASE EndWait(p)
  BY <1>5 DEF EndWait, Goto, OnlyGoto
<1>6. CASE Apply(p)
  BY <1>6 DEF Apply, Goto
<1>7. CASE Finish(p)
  BY <1>7 DEF Finish, Goto
<1>8. CASE Check(p)
  BY <1>8 DEF Check, Goto, OnlyGoto
<1>9. CASE Block(p)
  BY <1>9 DEF Block, Goto, OnlyGoto
<1>10. CASE TimeOut(p)
  BY <1>10 DEF TimeOut, Goto, OnlyGoto, TimedOut
<1>11. CASE SpuriousWakeup(p)
  BY <1>11 DEF SpuriousWakeup, Goto, OnlyGoto
<1>12. CASE StoreStop(p)
  BY <1>12 DEF StoreStop, SetStop, run
<1>13. CASE Notify(p)
  BY <1>13 DEF Notify
<1>14. CASE Join(p)
  BY <1>14 DEF Join, run
<1> QED
  BY <1>1, <1>2, <1>3, <1>4, <1>5, <1>6, <1>7, <1>8, <1>9, <1>10, <1>11, <1>12, <1>13, <1>14
     DEF PStep, RunStep

\* The invariant of a producer that is left alone, while the clock may advance.
LEMMA SameKeeps ==
    ASSUME CoreInv, NEW q \in Sensors, SameAt(q), clock' \in Nat, clock' >= clock
    PROVE  RunOf(q)' /\ AppliedOf(q)' /\ WaitOf(q)'
<1> USE DEF CoreInv, TypeOK, SameAt
<1>1. RunOf(q)'
  BY DEF RunOf
<1>2. AppliedOf(q)'
  <2>1. /\ AppliedOf(q) /\ Len(applied[q]) \in Nat
        /\ \A i \in 1 .. Len(applied[q]) : applied[q][i].at \in Nat
    BY AppliedType
  <2> QED BY <2>1, SMTT(30) DEF AppliedOf
<1>3. WaitOf(q)'
  <2>1. WaitOf(q) /\ \A i : TimeOf(q, i)' = TimeOf(q, i)
    BY DEF TimeOf
  <2> QED BY <2>1 DEF WaitOf
<1> QED BY <1>1, <1>2, <1>3

-----------------------------------------------------------------------------
(* The step of a producer keeps its own invariant.                         *)

\* Every operation keeps the types; the deadline of an event is not in the past of time 0.
LEMMA TypeKeeps ==
    ASSUME CoreInv, NEW p \in Sensors, PStep(p) PROVE TypeOK' /\ Shape'
<1>a. /\ log' = log /\ events' = events /\ clock' = clock
      /\ \A i : TimeOf(p, i)' = TimeOf(p, i)
  BY Others DEF TimeOf
<1>b. EventsAreTheLog'
  BY <1>a DEF EventsAreTheLog, TimeOf, CoreInv, TypeOK
<1>c. \A i \in 1 .. Len(log[p]) : Due(TimeOf(p, i)) \in Nat
  BY TimeOfType
<1> USE <1>a, <1>b
<1> USE DEF CoreInv, TypeOK, Shape, RunOf, Labels, InLoop, Waits, Applications
<1>1. CASE LeaveLoop(p)
  BY <1>1 DEF LeaveLoop, Goto, OnlyGoto, MoreEvents
<1>2. CASE BeginStall(p)
  <2>1. clock + StallDuration[p] \in Nat
    OBVIOUS
  <2> QED BY <1>2, <2>1 DEF BeginStall, Goto, BeginWait, MoreEvents
<1>3. CASE BeginEvent(p)
  <2>1. ev[p] \in 1 .. Len(log[p]) /\ ev[p] \in ev[p] .. Len(log[p])
    BY <1>3, TimeOfLen DEF BeginEvent, Goto, BeginWait, MoreEvents
  <2>2. replay_start[p] + Due(TimeOf(p, ev[p])) \in Nat
    BY <1>c, <2>1 DEF WaitOf
  <2> QED BY <1>3, <2>2 DEF BeginEvent, Goto, BeginWait, MoreEvents
<1>4. CASE EndStall(p)
  <2>1. CASE stop_requested[p]
    BY <1>4, <2>1 DEF EndStall, Goto, BeginWait
  <2>2. CASE ~stop_requested[p]
    <3>1. ev[p] \in 1 .. Len(log[p])
      BY <1>4 DEF EndStall, Goto, BeginWait
    <3>2. Reanchored(p) \in Int /\ Reanchored(p) + Due(TimeOf(p, ev[p])) \in Nat
      BY <1>c, <3>1, SMTT(30) DEF Reanchored
    <3> DEFINE r == Reanchored(p)
               d == Reanchored(p) + Due(TimeOf(p, ev[p]))
    <3>3. /\ replay_start' = [replay_start EXCEPT ![p] = r] /\ r \in Int
          /\ deadline' = [deadline EXCEPT ![p] = d] /\ d \in Nat
          /\ waiting' = [waiting EXCEPT ![p] = "event"] /\ pc' = [pc EXCEPT ![p] = "check"]
          /\ UNCHANGED <<ev, stalled_once, finished, stop_requested, ctl, applied>>
      BY <1>4, <2>2, <3>2 DEF EndStall, Goto, BeginWait
    <3> HIDE DEF r, d
    <3> QED BY <3>3
  <2> QED BY <2>1, <2>2
<1>5. CASE EndWait(p)
  BY <1>5 DEF EndWait, Goto, OnlyGoto
<1>6. CASE Apply(p)
  <2>1. ev[p] \in 1 .. Len(log[p]) /\ events[p][ev[p]] \in Nat
    BY <1>6, SMTT(30) DEF Apply, Goto
  <2>2. [row |-> events[p][ev[p]], at |-> clock, stopped |-> ctl[p] # "running"] \in Applications
    BY <2>1
  <2>3. applied' \in [Sensors -> Seq(Applications)]
    BY <1>6, <2>2, SMTT(30) DEF Apply, Goto
  <2>4. ev' = [ev EXCEPT ![p] = ev[p] + 1] /\ Len(log[p]) \in Nat
    BY <1>6, TimeOfLen DEF Apply
  <2>5. ev' \in [Sensors -> Nat]
    BY <2>1, <2>4, SMTT(30)
  <2>6. ASSUME NEW q \in Sensors PROVE ev'[q] \in 1 .. Len(log'[q]) + 1
    <3>1. CASE q = p
      BY <2>1, <2>4, <3>1, SMTT(30)
    <3>2. CASE q # p
      BY <2>4, <3>2
    <3> QED BY <3>1, <3>2
  <2> QED BY <1>6, <2>3, <2>5, <2>6 DEF Apply, Goto
<1>7. CASE Finish(p)
  BY <1>7 DEF Finish, Goto
<1>8. CASE Check(p)
  BY <1>8 DEF Check, Goto, OnlyGoto
<1>9. CASE Block(p)
  BY <1>9 DEF Block, Goto, OnlyGoto
<1>10. CASE TimeOut(p)
  BY <1>10 DEF TimeOut, Goto, OnlyGoto, TimedOut
<1>11. CASE SpuriousWakeup(p)
  BY <1>11 DEF SpuriousWakeup, Goto, OnlyGoto
<1>12. CASE StoreStop(p)
  BY <1>12 DEF StoreStop, SetStop, run
<1>13. CASE Notify(p)
  BY <1>13 DEF Notify
<1>14. CASE Join(p)
  BY <1>14 DEF Join, run
<1> QED
  BY <1>1, <1>2, <1>3, <1>4, <1>5, <1>6, <1>7, <1>8, <1>9, <1>10, <1>11, <1>12, <1>13, <1>14
     DEF PStep, RunStep

\* The flags agree with the position in run().
LEMMA RunKeeps ==
    ASSUME CoreInv, NEW p \in Sensors, PStep(p) PROVE RunOf(p)'
<1> USE DEF CoreInv, TypeOK, Shape, RunOf, Labels, InLoop, Waits
<1>1. CASE LeaveLoop(p)
  BY <1>1, TimeOfLen, SMTT(30) DEF LeaveLoop, Goto, OnlyGoto, MoreEvents
<1>2. CASE BeginStall(p)
  BY <1>2, TimeOfLen DEF BeginStall, Goto, BeginWait, MoreEvents
<1>3. CASE BeginEvent(p)
  BY <1>3, TimeOfLen DEF BeginEvent, Goto, BeginWait, MoreEvents
<1>4. CASE EndStall(p)
  BY <1>4 DEF EndStall, Goto, BeginWait
<1>5. CASE EndWait(p)
  BY <1>5 DEF EndWait, Goto, OnlyGoto
<1>6. CASE Apply(p)
  BY <1>6 DEF Apply, Goto
<1>7. CASE Finish(p)
  BY <1>7 DEF Finish, Goto
<1>8. CASE Check(p)
  BY <1>8 DEF Check, Goto, OnlyGoto
<1>9. CASE Block(p)
  BY <1>9 DEF Block, Goto, OnlyGoto
<1>10. CASE TimeOut(p)
  BY <1>10 DEF TimeOut, Goto, OnlyGoto, TimedOut
<1>11. CASE SpuriousWakeup(p)
  BY <1>11 DEF SpuriousWakeup, Goto, OnlyGoto
<1>12. CASE StoreStop(p)
  BY <1>12 DEF StoreStop, SetStop, run
<1>13. CASE Notify(p)
  BY <1>13 DEF Notify
<1>14. CASE Join(p)
  BY <1>14 DEF Join, run
<1> QED
  BY <1>1, <1>2, <1>3, <1>4, <1>5, <1>6, <1>7, <1>8, <1>9, <1>10, <1>11, <1>12, <1>13, <1>14
     DEF PStep, RunStep

\* Apply appends the next event; after a request to stop it is the last.
LEMMA AppliedKeeps ==
    ASSUME CoreInv, NEW p \in Sensors, PStep(p) PROVE AppliedOf(p)'
<1> USE DEF CoreInv, TypeOK, Shape, RunOf, AppliedOf, Labels, InLoop, Waits
<1>1. CASE LeaveLoop(p)
  BY <1>1 DEF LeaveLoop, Goto, OnlyGoto, MoreEvents
<1>2. CASE BeginStall(p)
  BY <1>2 DEF BeginStall, Goto, BeginWait, MoreEvents
<1>3. CASE BeginEvent(p)
  BY <1>3 DEF BeginEvent, Goto, BeginWait, MoreEvents
<1>4. CASE EndStall(p)
  BY <1>4 DEF EndStall, Goto, BeginWait
<1>5. CASE EndWait(p)
  BY <1>5 DEF EndWait, Goto, OnlyGoto
<1>6. CASE Apply(p)
  <2> DEFINE new == [row |-> events[p][ev[p]], at |-> clock, stopped |-> ctl[p] # "running"]
  <2>1. applied'[p] = Append(applied[p], new) /\ ev'[p] = ev[p] + 1 /\ pc'[p] = "top"
    BY <1>6 DEF Apply, Goto
  <2>2. clock' = clock /\ events' = events /\ stop_requested' = stop_requested
    BY <1>6 DEF Apply, Goto
  <2>3. /\ Len(applied'[p]) = Len(applied[p]) + 1
        /\ applied'[p][Len(applied[p]) + 1] = new
        /\ \A i \in 1 .. Len(applied[p]) : applied'[p][i] = applied[p][i]
    BY <2>1, AppliedType
  <2>4. \A i \in 1 .. Len(applied[p]) : ~applied[p][i].stopped
    BY <1>6 DEF Apply, Goto
  <2>5. Len(applied[p]) = ev[p] - 1 /\ ev[p] \in Nat /\ Len(applied[p]) \in Nat
    BY AppliedType
  <2>6. new.row = events[p][ev[p]] /\ new.at = clock /\ (new.stopped => stop_requested[p])
    OBVIOUS
  <2> HIDE DEF new
  <2>7. ASSUME NEW i \in 1 .. Len(applied'[p])
        PROVE  /\ applied'[p][i].row = events'[p][i] /\ applied'[p][i].at <= clock'
               /\ applied'[p][i].stopped => i = Len(applied'[p]) /\ stop_requested'[p]
    <3> HIDE DEF CoreInv, TypeOK, Shape, RunOf, AppliedOf, Labels, InLoop, Waits
    <3>a. clock \in Nat
      BY DEF CoreInv, TypeOK
    <3>1. CASE i = ev[p]
      BY <2>2, <2>3, <2>5, <2>6, <3>a, <3>1
    <3>2. CASE i \in 1 .. Len(applied[p])
      <4>1. applied[p][i].row = events[p][i] /\ applied[p][i].at <= clock
        BY <3>2, SMTT(30) DEF CoreInv, AppliedOf
      <4>2. applied'[p][i] = applied[p][i] /\ ~applied[p][i].stopped
        BY <2>3, <2>4, <3>2
      <4> QED BY <2>2, <4>1, <4>2
    <3> QED BY <2>3, <2>5, <3>1, <3>2
  <2> QED BY <2>1, <2>3, <2>5, <2>7, SMTT(30)
<1>7. CASE Finish(p)
  BY <1>7 DEF Finish, Goto
<1>8. CASE Check(p)
  BY <1>8 DEF Check, Goto, OnlyGoto
<1>9. CASE Block(p)
  BY <1>9 DEF Block, Goto, OnlyGoto
<1>10. CASE TimeOut(p)
  BY <1>10 DEF TimeOut, Goto, OnlyGoto, TimedOut
<1>11. CASE SpuriousWakeup(p)
  BY <1>11 DEF SpuriousWakeup, Goto, OnlyGoto
<1>12. CASE StoreStop(p)
  BY <1>12 DEF StoreStop, SetStop, run
<1>13. CASE Notify(p)
  BY <1>13 DEF Notify
<1>14. CASE Join(p)
  BY <1>14 DEF Join, run
<1> QED
  BY <1>1, <1>2, <1>3, <1>4, <1>5, <1>6, <1>7, <1>8, <1>9, <1>10, <1>11, <1>12, <1>13, <1>14
     DEF PStep, RunStep

\* A wait ends at its deadline or by a request to stop.
LEMMA WaitKeeps ==
    ASSUME CoreInv, NEW p \in Sensors, PStep(p) PROVE WaitOf(p)'
<1>a. /\ log' = log /\ clock' = clock
      /\ \A i : TimeOf(p, i)' = TimeOf(p, i)
  BY Others DEF TimeOf
<1>b. \A i \in 1 .. Len(log[p]) : Due(TimeOf(p, i)) \in Nat
  BY TimeOfType
<1> USE <1>a, <1>b
<1> USE DEF CoreInv, TypeOK, Shape, RunOf, WaitOf, Labels, InLoop, Waits
<1>1. CASE LeaveLoop(p)
  BY <1>1 DEF LeaveLoop, Goto, OnlyGoto, MoreEvents
<1>2. CASE BeginStall(p)
  BY <1>2 DEF BeginStall, Goto, BeginWait, MoreEvents
<1>3. CASE BeginEvent(p)
  BY <1>3 DEF BeginEvent, Goto, BeginWait, MoreEvents
<1>4. CASE EndStall(p)
  <2>1. CASE stop_requested[p]
    BY <1>4, <2>1 DEF EndStall, Goto, BeginWait
  <2>2. CASE ~stop_requested[p]
    <3>1. /\ replay_start'[p] = clock - Due(TimeOf(p, ev[p])) /\ ev' = ev
          /\ pc'[p] = "check" /\ waiting'[p] = "event"
          /\ deadline'[p] = replay_start'[p] + Due(TimeOf(p, ev[p]))
      BY <1>4, <2>2 DEF EndStall, Goto, BeginWait, Reanchored
    <3>2. ev[p] \in 1 .. Len(log[p])
      BY <1>4 DEF EndStall, Goto, BeginWait
    <3>3. \A i \in ev[p] .. Len(log[p]) :
             i \in 1 .. Len(log[p]) /\ Due(TimeOf(p, ev[p])) <= Due(TimeOf(p, i))
      <4>1. /\ Len(log[p]) \in Nat
            /\ \A j \in ev[p] .. Len(log[p]) : Due(TimeOf(p, ev[p])) <= Due(TimeOf(p, j))
        BY <3>2, TimeOfType
      <4> QED BY <3>2, <4>1
    <3> QED BY <3>1, <3>2, <3>3, SMTT(30)
  <2> QED BY <2>1, <2>2
<1>5. CASE EndWait(p)
  BY <1>5 DEF EndWait, Goto, OnlyGoto
<1>6. CASE Apply(p)
  BY <1>6 DEF Apply, Goto
<1>7. CASE Finish(p)
  BY <1>7 DEF Finish, Goto
<1>8. CASE Check(p)
  BY <1>8 DEF Check, Goto, OnlyGoto
<1>9. CASE Block(p)
  BY <1>9 DEF Block, Goto, OnlyGoto
<1>10. CASE TimeOut(p)
  BY <1>10 DEF TimeOut, Goto, OnlyGoto, TimedOut
<1>11. CASE SpuriousWakeup(p)
  BY <1>11 DEF SpuriousWakeup, Goto, OnlyGoto
<1>12. CASE StoreStop(p)
  BY <1>12 DEF StoreStop, SetStop, run
<1>13. CASE Notify(p)
  BY <1>13 DEF Notify
<1>14. CASE Join(p)
  BY <1>14 DEF Join, run
<1> QED
  BY <1>1, <1>2, <1>3, <1>4, <1>5, <1>6, <1>7, <1>8, <1>9, <1>10, <1>11, <1>12, <1>13, <1>14
     DEF PStep, RunStep

-----------------------------------------------------------------------------
(* What is applied.                                                        *)

\* A producer starts with its sorted events and nothing applied.
LEMMA InitCore == Init => CoreInv
<1> SUFFICES ASSUME Init PROVE CoreInv
  OBVIOUS
<1> USE DEF Init, ProducersInit
<1>1. log \in [Sensors -> Seq(Nat)]
  BY LogAssumption
<1>2. /\ DOMAIN events = Sensors /\ EventsAreTheLog
      /\ \A p \in Sensors : events[p] \in [1 .. Len(log[p]) -> 1 .. Len(log[p])]
  BY <1>1, SortCorrect
<1>3. ASSUME NEW p \in Sensors PROVE Len(log[p]) \in Nat
  <2>1. log[p] \in Seq(Nat)
    BY <1>1
  <2> QED BY <2>1
<1>4. TypeOK
  BY <1>2, <1>3 DEF TypeOK, Labels
<1>5. Shape
  BY <1>1, <1>2 DEF Shape
<1>6. ASSUME NEW p \in Sensors PROVE RunOf(p) /\ AppliedOf(p)
  BY <1>3 DEF RunOf, AppliedOf, InLoop, Waits
<1>7. ASSUME NEW p \in Sensors PROVE WaitOf(p)
  <2>1. ASSUME NEW i \in 1 .. Len(log[p]) PROVE Due(TimeOf(p, i)) \in Nat
    <3>1. events[p][i] \in 1 .. Len(log[p]) /\ log[p] \in Seq(Nat)
      BY <1>1, <1>2
    <3>2. TimeOf(p, i) \in Nat
      BY <3>1, ElementOfSeq DEF TimeOf
    <3> QED BY <3>2, DueMonotone
  <2> QED BY <1>3, <2>1 DEF WaitOf, InLoop, Waits
<1> QED BY <1>4, <1>5, <1>6, <1>7 DEF CoreInv

\* Tick, or no step at all.
LEMMA IdleKeeps ==
    ASSUME CoreInv, Tick \/ UNCHANGED vars
    PROVE  CoreInv' /\ (\A q \in Sensors : SameAt(q)) /\ clock' \in Nat /\ clock' >= clock
<1>1. \A q \in Sensors : SameAt(q)
  BY DEF SameAt, Tick, vars, run
<1>2. clock' \in Nat /\ clock' >= clock
  BY DEF CoreInv, TypeOK, Tick, vars
<1>3. TypeOK' /\ Shape'
  <2>1. UNCHANGED <<log, events, run, stop_requested, ctl, applied>>
    BY DEF Tick, vars
  <2>2. EventsAreTheLog'
    BY <2>1 DEF CoreInv, TypeOK, EventsAreTheLog, TimeOf
  <2> QED BY <1>2, <2>1, <2>2 DEF CoreInv, TypeOK, Shape, run
<1> QED BY <1>1, <1>2, <1>3, SameKeeps DEF CoreInv

\* Every step keeps the core of the invariant.
LEMMA CoreStep == CoreInv /\ [Next]_vars => CoreInv'
<1> SUFFICES ASSUME CoreInv, [Next]_vars PROVE CoreInv'
  OBVIOUS
<1>1. CASE Tick \/ Quiet \/ UNCHANGED vars
  BY <1>1, IdleKeeps DEF Quiet
<1>2. ASSUME NEW p \in Sensors, PStep(p) PROVE CoreInv'
  <2>1. TypeOK' /\ Shape' /\ RunOf(p)' /\ AppliedOf(p)' /\ WaitOf(p)'
    BY <1>2, TypeKeeps, RunKeeps, AppliedKeeps, WaitKeeps
  <2>2. clock' \in Nat /\ clock' >= clock
    BY <1>2, Others DEF CoreInv, TypeOK
  <2>3. ASSUME NEW q \in Sensors, q # p PROVE RunOf(q)' /\ AppliedOf(q)' /\ WaitOf(q)'
    BY <1>2, <2>2, <2>3, Others, SameKeeps
  <2> QED BY <2>1, <2>3 DEF CoreInv
<1> QED BY <1>1, <1>2 DEF Next, PStep

\* The core of the invariant holds of every behaviour.
LEMMA CoreInvariance == Spec => []CoreInv
BY InitCore, CoreStep, PTL DEF Spec

\* Every member of a producer has its type, and events_ is its log in order.
THEOREM TypeCorrect == Spec => []TypeOK
<1>1. CoreInv => TypeOK
  BY DEF CoreInv
<1> QED BY <1>1, CoreInvariance, PTL

\* Every row is applied once and in timestamp order, all of them unless stopped.
THEOREM OrderCorrect == Spec => []AppliedInOrder
<1>1. ASSUME CoreInv, NEW p \in Sensors
      PROVE  /\ Len(applied[p]) = ev[p] - 1
             /\ \A i \in DOMAIN applied[p] : applied[p][i].row = events[p][i]
             /\ \A i, j \in DOMAIN applied[p] :
                   i < j => log[p][applied[p][i].row] <= log[p][applied[p][j].row]
             /\ finished[p] /\ ~stop_requested[p] => Len(applied[p]) = Len(log[p])
  <2>1. DOMAIN applied[p] = 1 .. Len(applied[p]) /\ Len(applied[p]) \in Nat
    BY <1>1, AppliedType
  <2>2. /\ Len(applied[p]) = ev[p] - 1 /\ ev[p] \in 1 .. Len(log[p]) + 1
        /\ \A i \in 1 .. Len(applied[p]) : applied[p][i].row = events[p][i]
    BY <1>1 DEF CoreInv, TypeOK, AppliedOf
  <2>3. ASSUME NEW i \in DOMAIN applied[p], NEW j \in DOMAIN applied[p], i < j
        PROVE  log[p][applied[p][i].row] <= log[p][applied[p][j].row]
    <3>1. i \in 1 .. Len(log[p]) /\ j \in i .. Len(log[p])
      BY <1>1, <2>1, <2>2, <2>3, TimeOfLen
    <3>2. TimeOf(p, i) <= TimeOf(p, j)
      BY <1>1, <3>1, TimeOfType
    <3>3. applied[p][i].row = events[p][i] /\ applied[p][j].row = events[p][j]
      BY <2>1, <2>2
    <3> QED BY <3>2, <3>3 DEF TimeOf
  <2>4. finished[p] /\ ~stop_requested[p] => Len(applied[p]) = Len(log[p])
    BY <1>1, <2>2, TimeOfLen DEF CoreInv, RunOf
  <2> QED BY <2>1, <2>2, <2>3, <2>4
<1>2. CoreInv => AppliedInOrder
  BY <1>1 DEF AppliedInOrder
<1> QED BY <1>2, CoreInvariance, PTL

\* At most one sample is applied after requestStop(), whenever it is called.
THEOREM StopCorrect == Spec => []AtMostOneAfterStop
<1>1. CoreInv => AtMostOneAfterStop
  BY AppliedType DEF AtMostOneAfterStop, CoreInv, AppliedOf
<1> QED BY <1>1, CoreInvariance, PTL

-----------------------------------------------------------------------------
(* When it is applied.                                                     *)

\* StallEvent is the first event at or past the stall point.
LEMMA StallEventIs ==
    ASSUME CoreInv, NEW p \in Sensors
    PROVE  /\ StallEvent(p) \in Nat /\ StallEvent(p) <= Len(log[p])
           /\ StallEvent(p) # 0 =>
                 StallAfter[p] >= 0 /\ TimeOf(p, StallEvent(p)) >= StallAfter[p]
           /\ \A i \in 1 .. Len(log[p]) :
                 StallAfter[p] >= 0 /\ TimeOf(p, i) >= StallAfter[p] =>
                    StallEvent(p) # 0 /\ StallEvent(p) <= i
<1> DEFINE past == {i \in DOMAIN events[p] : StallAfter[p] >= 0 /\ TimeOf(p, i) >= StallAfter[p]}
<1>1. DOMAIN events[p] = 1 .. Len(log[p]) /\ Len(log[p]) \in Nat
  BY TimeOfLen DEF CoreInv, Shape
<1>2. StallEvent(p) = IF past = {} THEN 0 ELSE CHOOSE i \in past : \A j \in past : i <= j
  BY DEF StallEvent
<1>3. CASE past = {}
  BY <1>1, <1>2, <1>3
<1>4. CASE past # {}
  <2>1. past \in SUBSET Nat
    BY <1>1
  <2>2. \E i \in past : \A j \in past : i <= j
    <3> HIDE DEF past
    <3> QED BY <1>4, <2>1, SmallestNat
  <2>3. StallEvent(p) \in past /\ \A j \in past : StallEvent(p) <= j
    <3> HIDE DEF past
    <3> QED BY <1>2, <1>4, <2>2
  <2> QED BY <1>1, <2>3
<1> QED BY <1>3, <1>4

\* It depends on the log alone.
LEMMA StallEventSame ==
    ASSUME NEW p \in Sensors, log' = log, events' = events
    PROVE  /\ StallEvent(p)' = StallEvent(p)
           /\ \A i : TimeOf(p, i)' = TimeOf(p, i) /\ Due(TimeOf(p, i))' = Due(TimeOf(p, i))
<1>1. \A i : TimeOf(p, i)' = TimeOf(p, i)
  BY DEF TimeOf
<1>2. StallEvent(p)' = StallEvent(p)
  BY DEF StallEvent, TimeOf
<1> QED BY <1>1, <1>2 DEF Due

\* The stall lasts from a time that has passed.
LEMMA QuietSinceIs ==
    ASSUME CoreInv, NEW p \in Sensors, StallEvent(p) = 0 \/ ev[p] >= StallEvent(p)
    PROVE  QuietSince(p) \in Nat /\ QuietSince(p) <= clock
<1>a. StallEvent(p) \in Nat
  BY StallEventIs
<1>b. ev[p] \in Nat /\ Len(applied[p]) = ev[p] - 1 /\ clock \in Nat
  BY DEF CoreInv, TypeOK, Shape, AppliedOf
<1>1. StallEvent(p) \in Nat /\ ev[p] \in Nat /\ Len(applied[p]) = ev[p] - 1 /\ clock \in Nat
  BY <1>a, <1>b
<1>2. CASE StallEvent(p) <= 1
  BY <1>1, <1>2 DEF QuietSince
<1>3. CASE StallEvent(p) > 1
  <2>1. StallEvent(p) - 1 \in 1 .. Len(applied[p])
    BY <1>1, <1>3
  <2>2. applied[p][StallEvent(p) - 1].at \in Nat /\ applied[p][StallEvent(p) - 1].at <= clock
    BY <2>1, AppliedType DEF CoreInv, AppliedOf
  <2> QED BY <1>1, <1>3, <2>2 DEF QuietSince
<1> QED BY <1>1, <1>2, <1>3

\* The timeline of a producer that is left alone.
LEMMA SameTimeline ==
    ASSUME CoreInv, NEW q \in Sensors, SameAt(q), StallOf(q), TimesOf(q)
    PROVE  StallOf(q)' /\ TimesOf(q)'
<1>1. /\ StallEvent(q)' = StallEvent(q)
      /\ \A i : TimeOf(q, i)' = TimeOf(q, i)
  BY StallEventSame DEF SameAt
<1>2. QuietSince(q)' = QuietSince(q)
  BY <1>1 DEF QuietSince, SameAt
<1>3. StallOf(q)'
  BY <1>1, <1>2 DEF StallOf, SameAt
<1>4. TimesOf(q)'
  BY <1>1, <1>2 DEF TimesOf, SameAt
<1> QED BY <1>3, <1>4

\* What applying the next event does to the timeline.
LEMMA ApplyEffect ==
    ASSUME CoreInv, NEW p \in Sensors, Apply(p)
    PROVE  /\ Len(applied'[p]) = ev[p] /\ applied'[p][ev[p]].at = clock
           /\ \A i \in 1 .. ev[p] - 1 : applied'[p][i] = applied[p][i]
           /\ StallEvent(p) = 0 \/ ev[p] >= StallEvent(p) => QuietSince(p)' = QuietSince(p)
<1> DEFINE new == [row |-> events[p][ev[p]], at |-> clock, stopped |-> ctl[p] # "running"]
<1>1. applied'[p] = Append(applied[p], new) /\ log' = log /\ events' = events
  BY DEF Apply, CoreInv, Shape
<1>2. new.at = clock
  OBVIOUS
<1>3. applied[p] \in Seq(Applications) /\ Len(applied[p]) = ev[p] - 1 /\ ev[p] \in Nat
  BY AppliedType DEF CoreInv, AppliedOf, Shape
<1> HIDE DEF new
<1>4. /\ Len(applied'[p]) = ev[p] /\ applied'[p][ev[p]] = new
      /\ \A i \in 1 .. ev[p] - 1 : applied'[p][i] = applied[p][i]
  BY <1>1, <1>3
<1>5. ASSUME StallEvent(p) = 0 \/ ev[p] >= StallEvent(p) PROVE QuietSince(p)' = QuietSince(p)
  <2>1. StallEvent(p)' = StallEvent(p) /\ StallEvent(p) \in Nat
    BY <1>1, StallEventSame, StallEventIs, TimeOfLen
  <2>2. StallEvent(p) > 1 => applied'[p][StallEvent(p) - 1] = applied[p][StallEvent(p) - 1]
    BY <1>3, <1>4, <1>5, <2>1, SMTT(30)
  <2> QED BY <2>1, <2>2 DEF QuietSince
<1> QED BY <1>2, <1>4, <1>5

\* The stall is taken once, at its event, and moves the anchor by at least its duration.
LEMMA StallKeeps ==
    ASSUME CoreInv, NEW p \in Sensors, PStep(p), StallOf(p) PROVE StallOf(p)'
<1>a. /\ log' = log /\ events' = events /\ clock' = clock
      /\ StallEvent(p)' = StallEvent(p)
      /\ \A i : TimeOf(p, i)' = TimeOf(p, i)
  BY Others, StallEventSame
<1>b. applied'[p] = applied[p] => QuietSince(p)' = QuietSince(p)
  BY <1>a DEF QuietSince
<1>c. /\ StallEvent(p) \in Nat /\ ev[p] \in Nat /\ Len(log[p]) \in Nat
      /\ Len(events[p]) = Len(log[p])
  BY StallEventIs, TimeOfLen DEF CoreInv, Shape
<1>d. \A i \in 1 .. Len(log[p]) :
         StallAfter[p] >= 0 /\ TimeOf(p, i) >= StallAfter[p] =>
            StallEvent(p) # 0 /\ StallEvent(p) <= i
  BY StallEventIs
<1>e. StallEvent(p) = 0 \/ ev[p] >= StallEvent(p) => QuietSince(p) \in Nat /\ QuietSince(p) <= clock
  BY QuietSinceIs
<1> USE <1>a, <1>b, <1>c
<1> USE DEF CoreInv, TypeOK, Shape, RunOf, StallOf, Labels, InLoop, Waits
<1>1. CASE LeaveLoop(p)
  BY <1>1 DEF LeaveLoop, OnlyGoto, Goto
<1>2. CASE BeginStall(p)
  <2>1. ev[p] \in 1 .. Len(log[p]) /\ TimeOf(p, ev[p]) >= StallAfter[p] /\ StallAfter[p] >= 0
    BY <1>2 DEF BeginStall, StallNow, MoreEvents
  <2>2. ~stalled_once[p]
    BY <1>2 DEF BeginStall, StallNow
  <2>3. StallEvent(p) # 0 /\ ev[p] = StallEvent(p)
    BY <1>d, <2>1, <2>2
  <2>4. QuietSince(p) \in Nat /\ QuietSince(p) <= clock
    BY <1>e, <2>3
  <2>5. /\ ev' = ev /\ applied' = applied /\ stalled_once'[p] /\ waiting'[p] = "stall"
        /\ pc'[p] = "check" /\ deadline'[p] = clock + StallDuration[p]
    BY <1>2 DEF BeginStall, BeginWait, Goto
  <2> QED BY <2>3, <2>4, <2>5
<1>3. CASE BeginEvent(p)
  <2>1. ev[p] \in 1 .. Len(log[p]) /\ ~StallNow(p)
    BY <1>3 DEF BeginEvent, MoreEvents
  <2>2. /\ ev' = ev /\ applied' = applied /\ stalled_once' = stalled_once
        /\ replay_start' = replay_start /\ waiting'[p] = "event" /\ pc'[p] = "check"
    BY <1>3 DEF BeginEvent, BeginWait, Goto
  <2>3. ~stalled_once[p] => StallEvent(p) = 0 \/ ev[p] < StallEvent(p)
    <3> SUFFICES ASSUME ~stalled_once[p], StallEvent(p) # 0, ev[p] = StallEvent(p) PROVE FALSE
      OBVIOUS
    <3>1. StallAfter[p] >= 0 /\ TimeOf(p, ev[p]) >= StallAfter[p]
      BY StallEventIs
    <3> QED BY <2>1, <3>1 DEF StallNow
  <2>4. pc[p] = "top"
    BY <1>3 DEF BeginEvent
  <2> QED BY <2>2, <2>3, <2>4
<1>4. CASE EndStall(p)
  <2>1. CASE stop_requested[p]
    BY <1>4, <2>1 DEF EndStall, Goto
  <2>2. CASE ~stop_requested[p]
    <3>1. /\ ev' = ev /\ applied' = applied /\ stalled_once' = stalled_once
          /\ waiting'[p] = "event" /\ pc'[p] = "check"
          /\ replay_start'[p] = clock - Due(TimeOf(p, ev[p]))
      BY <1>4, <2>2 DEF EndStall, BeginWait, Goto, Reanchored
    <3>2. stalled_once[p] /\ ev[p] = StallEvent(p) /\ pc[p] = "over"
      BY <1>4 DEF EndStall
    <3>3. clock >= deadline[p] /\ deadline[p] >= QuietSince(p) + StallDuration[p]
      BY <1>4, <2>2 DEF EndStall, WaitOf
    <3>4. QuietSince(p) \in Nat
      BY <1>e, <3>2
    <3>5. Due(TimeOf(p, ev[p])) \in Nat
      <4>1. ev[p] \in 1 .. Len(log[p])
        BY <3>2
      <4> QED BY <4>1, TimeOfType
    <3>6. replay_start'[p] >= QuietSince(p) + StallDuration[p] - Due(TimeOf(p, StallEvent(p)))
      BY <3>1, <3>2, <3>3, <3>4, <3>5
    <3> QED BY <3>1, <3>2, <3>6
  <2> QED BY <2>1, <2>2
<1>5. CASE EndWait(p)
  BY <1>5 DEF EndWait, OnlyGoto, Goto
<1>6. CASE Apply(p)
  <2>1. /\ ev'[p] = ev[p] + 1 /\ stalled_once' = stalled_once /\ replay_start' = replay_start
        /\ pc[p] = "apply" /\ pc'[p] = "top"
    BY <1>6 DEF Apply, Goto
  <2>2. stalled_once[p] => QuietSince(p)' = QuietSince(p)
    BY <1>6, ApplyEffect
  <2> QED BY <2>1, <2>2
<1>7. CASE Finish(p)
  BY <1>7 DEF Finish, Goto
<1>8. CASE Check(p)
  BY <1>8 DEF Check, OnlyGoto, Goto
<1>9. CASE Block(p)
  BY <1>9 DEF Block, OnlyGoto, Goto
<1>10. CASE TimeOut(p)
  BY <1>10 DEF TimeOut, OnlyGoto, Goto
<1>11. CASE SpuriousWakeup(p)
  BY <1>11 DEF SpuriousWakeup, OnlyGoto, Goto
<1>12. CASE StoreStop(p)
  BY <1>12 DEF StoreStop, run
<1>13. CASE Notify(p)
  BY <1>13 DEF Notify
<1>14. CASE Join(p)
  BY <1>14 DEF Join, run
<1> QED
  BY <1>1, <1>2, <1>3, <1>4, <1>5, <1>6, <1>7, <1>8, <1>9, <1>10, <1>11, <1>12, <1>13, <1>14
     DEF PStep, RunStep

\* A sample is applied when its wait is over, which its deadline puts on the timeline.
LEMMA TimesKeep ==
    ASSUME CoreInv, NEW p \in Sensors, PStep(p), StallOf(p), TimesOf(p) PROVE TimesOf(p)'
<1>a. /\ log' = log /\ events' = events /\ clock' = clock
      /\ StallEvent(p)' = StallEvent(p)
      /\ \A i : TimeOf(p, i)' = TimeOf(p, i)
  BY Others, StallEventSame
<1>b. applied'[p] = applied[p] => QuietSince(p)' = QuietSince(p)
  BY <1>a DEF QuietSince
<1>c. ASSUME applied'[p] = applied[p] PROVE TimesOf(p)'
  BY <1>a, <1>b, <1>c DEF TimesOf
<1>d. StallEvent(p) \in Nat /\ StallEvent(p) <= Len(log[p]) /\ Len(log[p]) \in Nat
  BY StallEventIs, TimeOfLen
<1>e. StallEvent(p) = 0 \/ ev[p] >= StallEvent(p) => QuietSince(p) \in Nat
  BY QuietSinceIs
<1>f. \A i \in 1 .. Len(log[p]) : Due(TimeOf(p, i)) \in Nat
  BY TimeOfType
<1> USE DEF CoreInv, Shape
<1>1. CASE LeaveLoop(p)
  BY <1>1, <1>c DEF LeaveLoop, OnlyGoto
<1>2. CASE BeginStall(p)
  BY <1>2, <1>c DEF BeginStall
<1>3. CASE BeginEvent(p)
  BY <1>3, <1>c DEF BeginEvent
<1>4. CASE EndStall(p)
  BY <1>4, <1>c DEF EndStall
<1>5. CASE EndWait(p)
  BY <1>5, <1>c DEF EndWait, OnlyGoto
<1>6. CASE Apply(p)
  <2> DEFINE s == StallEvent(p)
             shift == QuietSince(p) + StallDuration[p] - Due(TimeOf(p, s))
  <2>a. s \in Nat /\ s <= Len(log[p])
    BY <1>d
  <2>b. ev[p] \in 1 .. Len(log[p]) /\ Len(log[p]) \in Nat /\ clock \in Nat /\ pc[p] = "apply"
    BY <1>6, <1>d DEF Apply, TypeOK, RunOf, InLoop
  <2>1. /\ s \in Nat /\ ev[p] \in 1 .. Len(log[p]) /\ Len(log[p]) \in Nat
        /\ clock \in Nat /\ pc[p] = "apply" /\ (s # 0 => s \in 1 .. Len(log[p]))
    BY <2>a, <2>b
  <2>2. /\ clock >= replay_start[p] + Due(TimeOf(p, ev[p]))
        /\ Due(TimeOf(p, ev[p])) \in Nat /\ replay_start[p] \in Int
    BY <1>f, <2>1 DEF TypeOK, WaitOf, InLoop
  <2>3. /\ Len(applied'[p]) = ev[p] /\ applied'[p][ev[p]].at = clock
        /\ \A i \in 1 .. ev[p] - 1 : applied'[p][i] = applied[p][i]
        /\ s = 0 \/ ev[p] >= s => QuietSince(p)' = QuietSince(p)
    BY <1>6, ApplyEffect
  <2>4. Len(applied[p]) = ev[p] - 1
    BY DEF AppliedOf
  <2>5. ASSUME NEW i \in 1 .. ev[p], s # 0, i >= s
        PROVE  applied'[p][i].at >= QuietSince(p)' + StallDuration[p]
                                    + Due(TimeOf(p, i)) - Due(TimeOf(p, s))
    <3>1. QuietSince(p)' = QuietSince(p) /\ QuietSince(p) \in Nat
      BY <1>e, <2>1, <2>3, <2>5
    <3>2. CASE i = ev[p]
      <4>1. replay_start[p] >= shift
        BY <2>1, <2>5, <3>2, SMTT(30) DEF StallOf, InLoop
      <4>2. Due(TimeOf(p, s)) \in Nat
        BY <1>f, <2>1, <2>5
      <4>3. StallDuration[p] \in Nat
        OBVIOUS
      <4>4. clock >= QuietSince(p) + StallDuration[p] + Due(TimeOf(p, ev[p])) - Due(TimeOf(p, s))
        BY <2>1, <2>2, <3>1, <4>1, <4>2, <4>3, ShiftedTime, SMTT(30)
      <4> QED BY <2>3, <3>1, <3>2, <4>4
    <3>3. CASE i \in 1 .. Len(applied[p])
      <4>1. applied[p][i].at >= QuietSince(p) + StallDuration[p]
                                + Due(TimeOf(p, i)) - Due(TimeOf(p, s))
        BY <2>5, <3>3 DEF TimesOf
      <4> QED BY <2>3, <2>4, <3>1, <3>3, <4>1
    <3> QED BY <2>1, <2>4, <3>2, <3>3
  <2>6. ASSUME NEW i \in 1 .. ev[p], s = 0 \/ i < s PROVE applied'[p][i].at >= Due(TimeOf(p, i))
    <3>1. CASE i = ev[p]
      <4>1. replay_start[p] = 0
        BY <2>1, <2>6, <3>1 DEF StallOf, TypeOK
      <4> QED BY <2>2, <2>3, <3>1, <4>1
    <3>2. CASE i \in 1 .. Len(applied[p])
      BY <2>3, <2>4, <2>6, <3>2 DEF TimesOf
    <3> QED BY <2>1, <2>4, <3>1, <3>2
  <2> QED BY <1>a, <2>3, <2>5, <2>6 DEF TimesOf
<1>7. CASE Finish(p)
  BY <1>7, <1>c DEF Finish
<1>8. CASE Check(p)
  BY <1>8, <1>c DEF Check, OnlyGoto
<1>9. CASE Block(p)
  BY <1>9, <1>c DEF Block, OnlyGoto
<1>10. CASE TimeOut(p)
  BY <1>10, <1>c DEF TimeOut, OnlyGoto
<1>11. CASE SpuriousWakeup(p)
  BY <1>11, <1>c DEF SpuriousWakeup, OnlyGoto
<1>12. CASE StoreStop(p)
  BY <1>12, <1>c DEF StoreStop
<1>13. CASE Notify(p)
  BY <1>13, <1>c DEF Notify
<1>14. CASE Join(p)
  BY <1>14, <1>c DEF Join
<1> QED
  BY <1>1, <1>2, <1>3, <1>4, <1>5, <1>6, <1>7, <1>8, <1>9, <1>10, <1>11, <1>12, <1>13, <1>14
     DEF PStep, RunStep

\* The timeline holds of every behaviour.
LEMMA TimelineInvariance == Spec => [](CoreInv /\ TimelineInv)
<1>1. ASSUME Init PROVE TimelineInv
  <2>1. ASSUME NEW p \in Sensors PROVE StallOf(p) /\ TimesOf(p)
    <3>1. CoreInv
      BY <1>1, InitCore
    <3>2. StallEvent(p) \in Nat
      BY <3>1, StallEventIs, TimeOfLen
    <3> QED BY <1>1, <3>2 DEF Init, ProducersInit, StallOf, TimesOf, InLoop, Waits
  <2> QED BY <2>1 DEF TimelineInv
<1>2. ASSUME CoreInv, TimelineInv, [Next]_vars PROVE TimelineInv'
  <2>1. CASE Tick \/ Quiet \/ UNCHANGED vars
    <3>1. \A q \in Sensors : SameAt(q)
      BY <1>2, <2>1, IdleKeeps DEF Quiet
    <3> QED BY <1>2, <3>1, SameTimeline DEF TimelineInv
  <2>2. ASSUME NEW p \in Sensors, PStep(p) PROVE TimelineInv'
    <3>1. StallOf(p)' /\ TimesOf(p)'
      BY <1>2, <2>2, StallKeeps, TimesKeep DEF TimelineInv
    <3>2. ASSUME NEW q \in Sensors, q # p PROVE StallOf(q)' /\ TimesOf(q)'
      BY <1>2, <2>2, <3>2, Others, SameTimeline DEF TimelineInv
    <3> QED BY <3>1, <3>2 DEF TimelineInv
  <2> QED BY <1>2, <2>1, <2>2 DEF Next, PStep
<1> QED BY <1>1, <1>2, InitCore, CoreStep, PTL DEF Spec

\* The sensor is quiet for stall_duration and later samples keep their distance.
THEOREM StallCorrect == Spec => []StallShiftsTimeline
<1>1. ASSUME CoreInv, TimelineInv PROVE StallShiftsTimeline
  BY <1>1, AppliedType DEF StallShiftsTimeline, TimelineInv, TimesOf, QuietSince
<1> QED BY <1>1, TimelineInvariance, PTL

\* Before the stall, or without one, no sample is applied ahead of its time.
THEOREM OnTimeCorrect == Spec => []OnTime
<1>1. ASSUME CoreInv, TimelineInv PROVE OnTime
  BY <1>1, AppliedType DEF OnTime, TimelineInv, TimesOf
<1> QED BY <1>1, TimelineInvariance, PTL
=============================================================================
