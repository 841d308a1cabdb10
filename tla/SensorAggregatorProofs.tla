------------------------ MODULE SensorAggregatorProofs ------------------------
(***************************************************************************)
(* Proofs about SensorAggregator, for any sensors, data files, speed and   *)
(* stalls.  What a replay thread does on its own is known from             *)
(* SensorProducerProofs: every step of the program but Load is a step of   *)
(* SensorProducer or leaves its variables alone.  Here it is related to    *)
(* main() and, through the manager's calls, to what main() prints.         *)
(***************************************************************************)
EXTENDS SensorAggregator, SensorProducerProofs

ShuttingDown == {"stopping", "notifying", "joining", "final", "final_print", "done"}
MainLabels == {"load", "failed", "starting", "loop", "sleeping", "printing"} \cup ShuttingDown

\* A producer whose thread has not been started.
Fresh(p) == pc[p] = "top" /\ ev[p] = 1 /\ applied[p] = <<>> /\ ctl[p] = "running"

\* main() and the threads: it stops none before all have come to their end.
MainInv ==
    /\ main \in MainLabels
    /\ nth \in 1 .. Len(Order)
    /\ files \in Directories
    /\ main \in {"load", "failed"} => started = {} /\ \A p \in Sensors : Fresh(p)
    /\ main \notin ShuttingDown => \A p \in Sensors : ctl[p] = "running"
    /\ main \in ShuttingDown => \A p \in Sensors : pc[p] = "done" /\ ev[p] = Len(log[p]) + 1

ManagerDomains ==
    /\ DOMAIN call = Sensors \cup {Main}
    /\ DOMAIN latest = Sensors
    /\ DOMAIN snap = {Main}

\* A thread is in the manager only from ev.apply(), with the event it has come to.
CallOf(p) ==
    call[p] = Manager!Idle \/
        /\ pc[p] = "apply"
        /\ call[p].in.sample = events[p][ev[p]]
        /\ call[p].in.source_ts = TimeOf(p, ev[p])

\* The manager holds the last event a thread has applied.
LatestOf(p) ==
    /\ ev[p] = 1 => latest[p].sample = NoSample
    /\ ev[p] > 1 => /\ latest[p].sample = events[p][ev[p] - 1]
                    /\ latest[p].source_ts = TimeOf(p, ev[p] - 1)

\* What printSnapshot would print as the source time of p.
SourceTime(p) == IF latest[p].sample = NoSample THEN -1 ELSE latest[p].source_ts

DisplayOf(p) == display[p].src \in Int /\ display[p].src <= SourceTime(p)

AggregatorInv ==
    /\ CoreInv
    /\ MainInv
    /\ ManagerDomains
    /\ \A p \in Sensors : CallOf(p) /\ LatestOf(p) /\ DisplayOf(p)

USE OrderAssumption

-----------------------------------------------------------------------------
\* The producer main() is at is one of the sensors.
LEMMA CurrentSensor == ASSUME MainInv PROVE Order[nth] \in Sensors /\ Len(Order) \in Nat
BY DEF MainInv

\* An event is not the absence of one.
LEMMA RowsAreNumbered ==
    ASSUME CoreInv, NEW p \in Sensors, NEW i \in 1 .. Len(log[p])
    PROVE  events[p][i] # NoSample /\ TimeOf(p, i) \in Nat
<1>0. events[p] \in [1 .. Len(log[p]) -> 1 .. Len(log[p])]
  BY DEF CoreInv, Shape
<1>1. events[p][i] \in 1 .. Len(log[p])
  BY <1>0
<1> QED BY <1>1, TimeOfType, TimeOfLen DEF NoSample

\* The step of the program is one of a producer, of the clock, of Load, or of none of them.
LEMMA StepIs ==
    ASSUME MainInv, [AggregatorNext]_allVars
    PROVE  \/ Load
           \/ Tick /\ UNCHANGED <<managerVars, mainVars>>
           \/ UNCHANGED vars
           \/ \E p \in Sensors : PStep(p)
<1>1. CASE MainStep
  <2>1. CASE RequestStop
    BY <2>1, CurrentSensor DEF RequestStop, PStep
  <2>2. CASE NotifyStop
    BY <2>2, CurrentSensor DEF NotifyStop, PStep
  <2>3. CASE JoinThread
    BY <2>3, CurrentSensor DEF JoinThread, PStep
  <2>4. CASE LoadFails \/ StartThread \/ TestLoop \/ WakeAndSnapshot \/ PrintSnapshot
             \/ FinalSnapshot \/ PrintFinal
    BY <2>4 DEF LoadFails, StartThread, TestLoop, WakeAndSnapshot, PrintSnapshot,
                FinalSnapshot, PrintFinal
  <2> QED BY <1>1, <2>1, <2>2, <2>3, <2>4 DEF MainStep
<1>2. CASE TimePasses
  BY <1>2 DEF TimePasses
<1>3. CASE Exited \/ UNCHANGED allVars
  BY <1>3 DEF Exited, allVars
<1>4. ASSUME NEW p \in Sensors, ThreadStep(p) \/ Wakeup(p)
      PROVE  PStep(p) \/ UNCHANGED vars
  BY <1>4 DEF ThreadStep, CallApply, ReturnApply, OtherRunStep, Wakeup, PStep, RunStep
<1> QED BY <1>1, <1>2, <1>3, <1>4 DEF AggregatorNext

-----------------------------------------------------------------------------
(* The producers.                                                          *)

\* Before Load the producers are there, with empty logs.
LEMMA InitAggregator == AggregatorInit => AggregatorInv
<1> SUFFICES ASSUME AggregatorInit PROVE AggregatorInv
  OBVIOUS
<1> USE DEF AggregatorInit, ProducersInit
<1>1. \A p \in Sensors : /\ log[p] = <<>> /\ events[p] = <<>> /\ Len(log[p]) = 0
                         /\ DOMAIN log[p] = {} /\ DOMAIN events[p] = {}
  <2>1. Len(<<>>) = 0 /\ DOMAIN <<>> = {}
    OBVIOUS
  <2>2. ASSUME NEW p \in Sensors PROVE log[p] = <<>> /\ events[p] = <<>>
    OBVIOUS
  <2> QED BY <2>1, <2>2
<1>2. EventsAreTheLog
  BY <1>1 DEF EventsAreTheLog
<1>3. TypeOK
  BY <1>1, <1>2 DEF TypeOK, Labels
<1>4. Shape
  <2>1. log \in [Sensors -> Seq(Nat)] /\ applied \in [Sensors -> Seq(Applications)]
    OBVIOUS
  <2>2. ASSUME NEW p \in Sensors PROVE events[p] \in [1 .. Len(log[p]) -> 1 .. Len(log[p])]
    <3>1. <<>> \in [1 .. 0 -> 1 .. 0]
      OBVIOUS
    <3> QED BY <1>1, <3>1
  <2> QED BY <2>1, <2>2 DEF Shape
<1>5. ASSUME NEW p \in Sensors PROVE RunOf(p) /\ AppliedOf(p) /\ WaitOf(p)
  BY <1>1 DEF RunOf, AppliedOf, WaitOf, InLoop, Waits
<1>6. MainInv
  <2>1. 1 \in 1 .. Len(Order)
    OBVIOUS
  <2> QED BY <2>1 DEF MainInv, Fresh, MainLabels, ShuttingDown
<1>7. ManagerDomains
  BY DEF ManagerDomains, Manager!SpecInit, Manager!Threads
<1>8. ASSUME NEW p \in Sensors PROVE CallOf(p) /\ LatestOf(p) /\ DisplayOf(p)
  <2>1. call[p] = Manager!Idle /\ latest[p] = Manager!NoUpdate
    BY DEF Manager!SpecInit, Manager!Threads
  <2>2. snap[Main] = Manager!SnapshotAt(latest, 0)
    BY DEF Manager!SpecInit
  <2>3. snap[Main].sample[p] = NoSample
    BY <2>1, <2>2 DEF Manager!SnapshotAt, Manager!NoUpdate
  <2>4. display[p].src = -1
    BY <2>3 DEF printSnapshot
  <2>5. latest[p].sample = NoSample
    BY <2>1 DEF Manager!NoUpdate
  <2> QED BY <2>1, <2>4, <2>5 DEF CallOf, LatestOf, DisplayOf, SourceTime
<1> QED BY <1>3, <1>4, <1>5, <1>6, <1>7, <1>8 DEF AggregatorInv, CoreInv

\* Load gives every producer the sorted events of its file.
LEMMA LoadCore == ASSUME CoreInv, MainInv, Load PROVE CoreInv'
<1>1. \A p \in Sensors : Fresh(p)
  BY DEF Load, MainInv
<1>2. log' \in [Sensors -> Seq(Nat)]
  <2>1. ASSUME NEW p \in Sensors PROVE buildEvents(files[p], Arity[p]).log \in Seq(Nat)
    BY DirectoriesAssumption DEF Load, MainInv, Readable
  <2> QED BY <2>1 DEF Load
<1>3. /\ DOMAIN events' = Sensors /\ EventsAreTheLog'
      /\ \A p \in Sensors : events'[p] \in [1 .. Len(log'[p]) -> 1 .. Len(log'[p])]
  <2>1. events' \in SortedEvents'
    BY DEF Load
  <2>2. (log \in [Sensors -> Seq(Nat)] /\ events \in SortedEvents =>
            /\ DOMAIN events = Sensors
            /\ \A p \in Sensors : events[p] \in [1 .. Len(log[p]) -> 1 .. Len(log[p])]
            /\ EventsAreTheLog)'
    BY SortCorrect, PTL
  <2> QED BY <1>2, <2>1, <2>2
<1>4. ASSUME NEW p \in Sensors PROVE Len(log'[p]) \in Nat
  <2>1. log'[p] \in Seq(Nat)
    BY <1>2
  <2> QED BY <2>1
<1>5. UNCHANGED <<clock, pc, ev, stalled_once, finished, waiting, deadline, stop_requested,
                  ctl, applied>> /\ replay_start' = [p \in Sensors |-> clock]
  BY DEF Load
<1>6. TypeOK'
  <2>1. \A p \in Sensors : ev'[p] \in 1 .. Len(log'[p]) + 1
    BY <1>1, <1>4, <1>5 DEF Fresh
  <2>2. replay_start' \in [Sensors -> Int]
    BY <1>5 DEF CoreInv, TypeOK
  <2> QED BY <1>3, <1>5, <2>1, <2>2 DEF CoreInv, TypeOK
<1>7. Shape'
  BY <1>2, <1>3, <1>5 DEF CoreInv, Shape
<1>8. ASSUME NEW p \in Sensors PROVE RunOf(p)' /\ AppliedOf(p)'
  <2>1. pc'[p] = "top" /\ ev'[p] = 1 /\ applied'[p] = <<>> /\ ~stop_requested'[p]
        /\ ctl'[p] = "running" /\ ~finished'[p]
    BY <1>1, <1>5 DEF Fresh, CoreInv, RunOf, TypeOK
  <2> QED BY <2>1 DEF RunOf, AppliedOf, InLoop, Waits
<1>9. ASSUME NEW p \in Sensors PROVE WaitOf(p)'
  <2>1. ASSUME NEW i \in 1 .. Len(log'[p]) PROVE Due(TimeOf(p, i)') \in Nat
    <3>0. events'[p] \in [1 .. Len(log'[p]) -> 1 .. Len(log'[p])]
      BY <1>3
    <3>1. events'[p][i] \in 1 .. Len(log'[p]) /\ log'[p] \in Seq(Nat)
      BY <1>2, <3>0
    <3>2. log'[p][events'[p][i]] \in Nat
      BY <3>1, ElementOfSeq
    <3>3. TimeOf(p, i)' \in Nat
      BY <3>2 DEF TimeOf
    <3> QED BY <3>3, DueMonotone
  <2>2. pc'[p] = "top" /\ ev'[p] = 1 /\ replay_start'[p] = clock /\ clock \in Nat
    BY <1>1, <1>5 DEF Fresh, CoreInv, TypeOK
  <2> QED BY <1>4, <2>1, <2>2 DEF WaitOf, InLoop, Waits
<1> QED BY <1>6, <1>7, <1>8, <1>9 DEF CoreInv

\* So the invariant of the producers holds of the program.
LEMMA CoreKeeps == ASSUME CoreInv, MainInv, [AggregatorNext]_allVars PROVE CoreInv'
<1>1. CASE Load
  BY <1>1, LoadCore
<1>2. CASE Tick \/ UNCHANGED vars
  BY <1>2, IdleKeeps
<1>3. ASSUME NEW p \in Sensors, PStep(p) PROVE CoreInv'
  BY <1>3, CoreStep DEF Next, PStep
<1> QED BY <1>1, <1>2, <1>3, StepIs

-----------------------------------------------------------------------------
(* main().                                                                 *)

\* Going on in Order keeps the position inside it.
LEMMA AdvanceStays ==
    ASSUME MainInv, NEW here, NEW label, Advance(here, label)
    PROVE  nth' \in 1 .. Len(Order) /\ main' \in {here, label}
<1>1. nth \in 1 .. Len(Order) /\ Len(Order) \in Nat
  BY DEF MainInv
<1> QED BY <1>1 DEF Advance

\* main() keeps its part: it goes on to stop the threads only when all have finished,
\* and none of them takes a step from then on.
LEMMA MainKeeps == ASSUME CoreInv, MainInv, [AggregatorNext]_allVars PROVE MainInv'
<1> USE DEF MainLabels, ShuttingDown
<1>a. CoreInv'
  BY CoreKeeps
<1>b. Order[nth] \in Sensors
  BY CurrentSensor
<1>1. CASE LoadFails
  BY <1>1 DEF LoadFails, MainInv, Fresh, vars, run
<1>2. CASE Load
  BY <1>2 DEF Load, MainInv, Fresh
<1>3. CASE StartThread
  <2>1. nth' \in 1 .. Len(Order) /\ main' \in {"starting", "loop"}
    BY <1>3, AdvanceStays DEF StartThread
  <2> QED BY <1>3, <2>1 DEF StartThread, MainInv, vars, run
<1>4. CASE TestLoop
  <2>1. ASSUME AllFinished, NEW p \in Sensors PROVE pc[p] = "done" /\ ev[p] = Len(log[p]) + 1
    <3>1. ctl[p] = "running" /\ finished[p]
      BY <1>4, <2>1 DEF TestLoop, MainInv, AllFinished
    <3> QED BY <3>1 DEF CoreInv, RunOf
  <2> QED BY <1>4, <2>1 DEF TestLoop, MainInv, vars, run
<1>5. CASE WakeAndSnapshot
  BY <1>5 DEF WakeAndSnapshot, MainInv, vars, run
<1>6. CASE PrintSnapshot
  BY <1>6 DEF PrintSnapshot, MainInv, vars, run
<1>7. CASE RequestStop
  BY <1>7 DEF RequestStop, StoreStop, MainInv, run
<1>8. CASE NotifyStop
  <2>1. nth' \in 1 .. Len(Order) /\ main' \in {"stopping", "joining"}
    BY <1>8, AdvanceStays DEF NotifyStop
  <2>2. \A p \in Sensors : pc'[p] = pc[p]
    BY <1>8 DEF NotifyStop, Notify, MainInv, CoreInv, TypeOK
  <2> QED BY <1>8, <2>1, <2>2 DEF NotifyStop, Notify, MainInv
<1>9. CASE JoinThread
  <2>1. nth' \in 1 .. Len(Order) /\ main' \in {"joining", "final"}
    BY <1>9, AdvanceStays DEF JoinThread
  <2> QED BY <1>9, <2>1 DEF JoinThread, Join, MainInv, run
<1>10. CASE FinalSnapshot
  BY <1>10 DEF FinalSnapshot, MainInv, vars, run
<1>11. CASE PrintFinal
  BY <1>11 DEF PrintFinal, MainInv, vars, run
<1>12. CASE TimePasses
  BY <1>12 DEF TimePasses, Tick, MainInv, Fresh, mainVars, run
<1>13. CASE Exited \/ UNCHANGED allVars
  BY <1>13 DEF Exited, allVars, MainInv, Fresh, mainVars, vars, run
<1>14. ASSUME NEW p \in Sensors, ThreadStep(p) \/ Wakeup(p) PROVE MainInv'
  <2>1. UNCHANGED mainVars
    BY <1>14 DEF ThreadStep, CallApply, ReturnApply, OtherRunStep, Wakeup
  <2>2. CASE UNCHANGED vars
    BY <2>1, <2>2 DEF MainInv, Fresh, mainVars, vars, run
  <2>3. CASE (RunStep(p) /\ p \in started) \/ SpuriousWakeup(p)
    <3>1. main \notin ShuttingDown /\ main \notin {"load", "failed"}
      BY <2>3 DEF MainInv, Fresh, RunStep, LeaveLoop, BeginStall, BeginEvent, EndStall, EndWait,
                  Apply, Finish, Check, Block, TimeOut, SpuriousWakeup
    <3>2. ctl' = ctl
      BY <2>3 DEF RunStep, LeaveLoop, BeginStall, BeginEvent, EndStall, EndWait,
                  Apply, Finish, Check, Block, TimeOut, SpuriousWakeup, OnlyGoto
    <3> QED BY <2>1, <3>1, <3>2 DEF MainInv, mainVars
  <2> QED BY <1>14, <2>2, <2>3 DEF ThreadStep, CallApply, ReturnApply, OtherRunStep, Wakeup, RunStep
<1> QED
  BY <1>1, <1>2, <1>3, <1>4, <1>5, <1>6, <1>7, <1>8, <1>9, <1>10, <1>11, <1>12, <1>13, <1>14
     DEF AggregatorNext, MainStep

-----------------------------------------------------------------------------
(* The manager.                                                            *)

\* The maps of the manager keep their keys.
LEMMA DomainsKeep ==
    ASSUME MainInv, ManagerDomains, [AggregatorNext]_allVars PROVE ManagerDomains'
<1> USE DEF ManagerDomains
<1>1. CASE MainStep
  BY <1>1 DEF MainStep, LoadFails, Load, StartThread, TestLoop, WakeAndSnapshot, PrintSnapshot,
              RequestStop, NotifyStop, JoinThread, FinalSnapshot, PrintFinal, managerVars,
              Manager!CallSnapshot, Manager!Snapshot
<1>2. CASE TimePasses \/ Exited \/ UNCHANGED allVars
  BY <1>2 DEF TimePasses, Exited, allVars, managerVars
<1>3. ASSUME NEW p \in Sensors, ThreadStep(p) \/ Wakeup(p) PROVE ManagerDomains'
  BY <1>3 DEF ThreadStep, CallApply, ReturnApply, OtherRunStep, Wakeup, managerVars,
              Manager!CallUpdate, Manager!Update
<1> QED BY <1>1, <1>2, <1>3 DEF AggregatorNext

\* A step that leaves sensor q's thread, its entry in the manager and the display alone.
Untouched(q) ==
    /\ log' = log /\ events' = events /\ pc'[q] = pc[q] /\ ev'[q] = ev[q]
    /\ call'[q] = call[q] /\ latest'[q] = latest[q] /\ display' = display

\* What the invariant says of q survives such a step.
LEMMA UntouchedKeeps ==
    ASSUME NEW q \in Sensors, Untouched(q), CallOf(q), LatestOf(q), DisplayOf(q)
    PROVE  CallOf(q)' /\ LatestOf(q)' /\ DisplayOf(q)'
<1>1. \A i : TimeOf(q, i)' = TimeOf(q, i)
  BY DEF Untouched, TimeOf
<1>2. CallOf(q)'
  BY <1>1 DEF CallOf, Untouched, Manager!Idle
<1>3. LatestOf(q)'
  BY <1>1 DEF LatestOf, Untouched
<1>4. DisplayOf(q)'
  BY DEF DisplayOf, SourceTime, Untouched
<1> QED BY <1>2, <1>3, <1>4

\* ev.apply(): the manager has the event, later than the one it had.
LEMMA ReturnKeeps ==
    ASSUME CoreInv, ManagerDomains, NEW p \in Sensors, ReturnApply(p),
           CallOf(p), LatestOf(p), DisplayOf(p)
    PROVE  CallOf(p)' /\ LatestOf(p)' /\ DisplayOf(p)'
<1>1. ev'[p] = ev[p] + 1 /\ log' = log /\ events' = events /\ display' = display
  BY DEF ReturnApply, Apply, CoreInv, Shape, mainVars
<1>2. ev[p] \in 1 .. Len(log[p]) /\ Len(log[p]) \in Nat /\ ev[p] \in Nat
  BY TimeOfLen, SMTT(30) DEF ReturnApply, Apply, CoreInv, RunOf, TypeOK, InLoop
<1>3. call[p].op = "update" /\ call'[p] = Manager!Idle
  BY DEF ReturnApply, Manager!Update, ManagerDomains
<1>4. call[p].in.sample = events[p][ev[p]] /\ call[p].in.source_ts = TimeOf(p, ev[p])
  BY <1>3 DEF CallOf, Manager!Idle
<1>5. latest'[p].sample = events[p][ev[p]] /\ latest'[p].source_ts = TimeOf(p, ev[p])
  BY <1>4 DEF ReturnApply, Manager!Update, ManagerDomains
<1>6. \A i : TimeOf(p, i)' = TimeOf(p, i)
  BY <1>1 DEF TimeOf
<1>7. LatestOf(p)'
  <2>1. ev'[p] - 1 = ev[p] /\ ev'[p] # 1
    <3>1. PICK e \in Nat \ {0} : e = ev[p]
      BY <1>2
    <3>2. ev'[p] = e + 1 /\ (e + 1) - 1 = e /\ e + 1 # 1
      BY <1>1, <3>1
    <3> QED BY <3>1, <3>2
  <2> QED BY <1>1, <1>5, <1>6, <2>1 DEF LatestOf
<1>8. SourceTime(p)' = TimeOf(p, ev[p]) /\ TimeOf(p, ev[p]) \in Nat
  <2>1. events[p][ev[p]] # NoSample /\ TimeOf(p, ev[p]) \in Nat
    BY <1>2, RowsAreNumbered
  <2> QED BY <1>5, <2>1 DEF SourceTime
<1>9. SourceTime(p) \in Int /\ SourceTime(p) <= TimeOf(p, ev[p])
  <2>1. CASE ev[p] = 1
    BY <1>8, <2>1 DEF LatestOf, SourceTime
  <2>2. CASE ev[p] > 1
    <3>1. ev[p] - 1 \in 1 .. Len(log[p]) /\ ev[p] \in ev[p] - 1 .. Len(log[p])
      BY <1>2, <2>2
    <3>2. TimeOf(p, ev[p] - 1) \in Nat /\ TimeOf(p, ev[p] - 1) <= TimeOf(p, ev[p])
      BY <3>1, TimeOfType
    <3>3. latest[p].sample # NoSample /\ latest[p].source_ts = TimeOf(p, ev[p] - 1)
      BY <2>2, <3>1, RowsAreNumbered DEF LatestOf
    <3> QED BY <3>2, <3>3 DEF SourceTime
  <2> QED BY <1>2, <2>1, <2>2
<1>10. DisplayOf(p)'
  BY <1>1, <1>8, <1>9 DEF DisplayOf
<1> QED BY <1>3, <1>7, <1>10 DEF CallOf, Manager!Idle

\* printSnapshot prints what the manager holds when the snapshot is taken.
LEMMA PrintKeeps ==
    ASSUME CoreInv, ManagerDomains, PrintSnapshot \/ PrintFinal, NEW p \in Sensors,
           CallOf(p), LatestOf(p), DisplayOf(p)
    PROVE  /\ CallOf(p)' /\ LatestOf(p)' /\ DisplayOf(p)'
           /\ display'[p].src = SourceTime(p)
<1>1. PICK now \in 0 .. clock : Manager!Snapshot(Main, now)
  BY DEF PrintSnapshot, PrintFinal
<1>2. UNCHANGED vars /\ display' = printSnapshot(snap'[Main])
  BY DEF PrintSnapshot, PrintFinal
<1>3. snap'[Main] = Manager!SnapshotAt(latest, now) /\ latest' = latest /\ call'[p] = call[p]
  BY <1>1 DEF Manager!Snapshot, ManagerDomains
<1>4. /\ snap'[Main].sample[p] = latest[p].sample
      /\ snap'[Main].source_ts[p] = latest[p].source_ts
  BY <1>3 DEF Manager!SnapshotAt
<1>5. display'[p].src = SourceTime(p)
  BY <1>2, <1>4 DEF printSnapshot, SourceTime
<1>6. SourceTime(p)' = SourceTime(p)
  BY <1>3 DEF SourceTime
<1>7. \A i : TimeOf(p, i)' = TimeOf(p, i)
  BY <1>2 DEF TimeOf, vars
<1>8. SourceTime(p) \in Int
  <2>1. ev[p] \in 1 .. Len(log[p]) + 1 /\ Len(log[p]) \in Nat
    BY TimeOfLen DEF CoreInv, TypeOK
  <2>2. ev[p] > 1 => ev[p] - 1 \in 1 .. Len(log[p])
    <3>1. PICK e, l \in Nat : e = ev[p] /\ l = Len(log[p]) /\ e \in 1 .. l + 1
      BY <2>1
    <3>2. e > 1 => e - 1 \in 1 .. l
      BY <3>1
    <3> QED BY <3>1, <3>2
  <2>3. ev[p] > 1 => TimeOf(p, ev[p] - 1) \in Nat
    BY <2>2, RowsAreNumbered
  <2> QED BY <2>1, <2>3 DEF LatestOf, SourceTime
<1>9. DisplayOf(p)'
  BY <1>5, <1>6, <1>8 DEF DisplayOf
<1>10. LatestOf(p)'
  BY <1>2, <1>3, <1>7 DEF LatestOf, vars, run
<1>11. CallOf(p)'
  BY <1>2, <1>3, <1>7 DEF CallOf, vars, run, Manager!Idle
<1> QED BY <1>5, <1>9, <1>10, <1>11

\* Every step keeps what is known of the calls, the manager and the display.
LEMMA ThreadsKeep ==
    ASSUME AggregatorInv, [AggregatorNext]_allVars, NEW q \in Sensors
    PROVE  CallOf(q)' /\ LatestOf(q)' /\ DisplayOf(q)'
<1>a. CoreInv /\ MainInv /\ ManagerDomains /\ CallOf(q) /\ LatestOf(q) /\ DisplayOf(q)
  BY DEF AggregatorInv
<1>b. Order[nth] \in Sensors
  BY <1>a, CurrentSensor
<1>1. CASE PrintSnapshot \/ PrintFinal
  BY <1>1, <1>a, PrintKeeps
<1>2. CASE LoadFails \/ StartThread \/ TestLoop \/ WakeAndSnapshot \/ FinalSnapshot
  <2>1. Untouched(q)
    BY <1>2, <1>a DEF Untouched, LoadFails, StartThread, TestLoop, WakeAndSnapshot,
          FinalSnapshot, vars, run, managerVars, Manager!CallSnapshot, ManagerDomains
  <2> QED BY <1>a, <2>1, UntouchedKeeps
<1>3. CASE RequestStop \/ JoinThread
  <2>1. Untouched(q)
    BY <1>3 DEF Untouched, RequestStop, JoinThread, StoreStop, Join, run, managerVars
  <2> QED BY <1>a, <2>1, UntouchedKeeps
<1>4. CASE NotifyStop
  <2>1. pc[Order[nth]] = "done"
    BY <1>4, <1>a, <1>b DEF NotifyStop, MainInv, ShuttingDown
  <2>2. pc'[q] = pc[q]
    BY <1>4, <1>a, <1>b, <2>1 DEF NotifyStop, Notify, CoreInv, TypeOK
  <2>3. Untouched(q)
    BY <1>4, <2>2 DEF Untouched, NotifyStop, Notify, managerVars
  <2> QED BY <1>a, <2>3, UntouchedKeeps
<1>5. CASE Load
  <2>1. pc[q] = "top" /\ ev[q] = 1
    BY <1>5, <1>a DEF Load, MainInv, Fresh
  <2>2. /\ ev'[q] = 1 /\ pc'[q] = "top" /\ call' = call /\ latest' = latest
        /\ display' = display
    BY <1>5, <2>1 DEF Load, managerVars
  <2>3. call[q] = Manager!Idle
    BY <1>a, <2>1 DEF CallOf
  <2> QED BY <1>a, <2>1, <2>2, <2>3 DEF CallOf, LatestOf, DisplayOf, SourceTime, Manager!Idle
<1>6. CASE TimePasses \/ Exited \/ UNCHANGED allVars
  <2>1. Untouched(q)
    BY <1>6 DEF Untouched, TimePasses, Tick, Exited, allVars, vars, run, managerVars, mainVars
  <2> QED BY <1>a, <2>1, UntouchedKeeps
<1>7. ASSUME NEW p \in Sensors, ThreadStep(p) \/ Wakeup(p)
      PROVE  CallOf(q)' /\ LatestOf(q)' /\ DisplayOf(q)'
  <2>1. CASE CallApply(p)
    <3>1. CASE q = p
      <4>1. UNCHANGED <<vars, mainVars>> /\ latest' = latest
        BY <2>1 DEF CallApply, Manager!CallUpdate
      <4>2. \A i : TimeOf(q, i)' = TimeOf(q, i)
        BY <4>1 DEF TimeOf, vars
      <4>3. /\ call'[q].in.sample = events[q][ev[q]] /\ call'[q].in.source_ts = TimeOf(q, ev[q])
            /\ pc[q] = "apply"
        BY <1>a, <2>1, <3>1 DEF CallApply, Manager!CallUpdate, ManagerDomains
      <4>4. CallOf(q)'
        BY <4>1, <4>2, <4>3 DEF CallOf, vars, run
      <4> QED BY <1>a, <4>1, <4>2, <4>4 DEF LatestOf, DisplayOf, SourceTime, vars, run, mainVars
    <3>2. CASE q # p
      <4>1. Untouched(q)
        BY <1>a, <2>1, <3>2 DEF Untouched, CallApply, Manager!CallUpdate, ManagerDomains, vars,
              run, mainVars
      <4> QED BY <1>a, <4>1, UntouchedKeeps
    <3> QED BY <3>1, <3>2
  <2>2. CASE ReturnApply(p)
    <3>1. CASE q = p
      BY <1>a, <2>2, <3>1, ReturnKeeps
    <3>2. CASE q # p
      <4>1. Untouched(q)
        BY <1>a, <2>2, <3>2 DEF Untouched, ReturnApply, Apply, Goto, Manager!Update,
              ManagerDomains, mainVars, CoreInv, TypeOK, Shape
      <4> QED BY <1>a, <4>1, UntouchedKeeps
    <3> QED BY <3>1, <3>2
  <2>3. CASE OtherRunStep(p) \/ Wakeup(p)
    <3>1. PStep(p) /\ UNCHANGED <<managerVars, mainVars>> /\ pc[p] # "apply"
      BY <2>3 DEF OtherRunStep, Wakeup, PStep, SpuriousWakeup
    <3>2. log' = log /\ events' = events /\ (q # p => SameAt(q))
      BY <1>a, <3>1, Others
    <3>3. ev' = ev
      BY <2>3 DEF OtherRunStep, Wakeup, SpuriousWakeup, RunStep, LeaveLoop, BeginStall,
            BeginEvent, EndStall, EndWait, Apply, Finish, Check, Block, TimeOut, OnlyGoto
    <3>4. CASE q = p
      <4>1. call[q] = Manager!Idle /\ call' = call /\ latest' = latest /\ display' = display
        BY <1>a, <3>1, <3>4 DEF CallOf, managerVars, mainVars
      <4>2. \A i : TimeOf(q, i)' = TimeOf(q, i)
        BY <3>2 DEF TimeOf
      <4> QED BY <1>a, <3>2, <3>3, <4>1, <4>2
              DEF CallOf, LatestOf, DisplayOf, SourceTime, Manager!Idle
    <3>5. CASE q # p
      <4>1. Untouched(q)
        BY <3>1, <3>2, <3>5 DEF Untouched, SameAt, managerVars, mainVars
      <4> QED BY <1>a, <4>1, UntouchedKeeps
    <3> QED BY <3>4, <3>5
  <2> QED BY <1>7, <2>1, <2>2, <2>3 DEF ThreadStep
<1> QED BY <1>1, <1>2, <1>3, <1>4, <1>5, <1>6, <1>7 DEF AggregatorNext, MainStep

\* The invariant of the program.
LEMMA AggregatorInvariance == AggregatorSpec => []AggregatorInv
<1>1. AggregatorInv /\ [AggregatorNext]_allVars => AggregatorInv'
  <2> SUFFICES ASSUME AggregatorInv, [AggregatorNext]_allVars PROVE AggregatorInv'
    OBVIOUS
  <2>1. CoreInv /\ MainInv /\ ManagerDomains
    BY DEF AggregatorInv
  <2>2. CoreInv' /\ MainInv' /\ ManagerDomains'
    BY <2>1, CoreKeeps, MainKeeps, DomainsKeep
  <2>3. \A q \in Sensors : CallOf(q)' /\ LatestOf(q)' /\ DisplayOf(q)'
    BY ThreadsKeep
  <2> QED BY <2>2, <2>3 DEF AggregatorInv
<1> QED BY <1>1, InitAggregator, PTL DEF AggregatorSpec

\* The shutdown code of main() cuts no replay short: when it runs, every thread has
\* applied all of its log and is out of the manager.
THEOREM ShutdownCorrect == AggregatorSpec => []ShutdownIsNatural
<1>1. AggregatorInv => ShutdownIsNatural
  <2> SUFFICES ASSUME AggregatorInv, main \in ShuttingDown, NEW p \in Sensors
               PROVE  Len(applied[p]) = Len(log[p]) /\ call[p] = Manager!Idle
    BY DEF ShutdownIsNatural, ShuttingDown
  <2>1. pc[p] = "done" /\ ev[p] = Len(log[p]) + 1
    BY DEF AggregatorInv, MainInv
  <2>2. Len(applied[p]) = ev[p] - 1 /\ Len(log[p]) \in Nat
    BY TimeOfLen DEF AggregatorInv, CoreInv, AppliedOf
  <2> QED BY <2>1, <2>2 DEF AggregatorInv, CallOf
<1> QED BY <1>1, AggregatorInvariance, PTL

\* No sensor's printed source time goes back, and none returns to "no data".
THEOREM DisplayCorrect == AggregatorSpec => DisplayNeverGoesBack
<1>1. ASSUME AggregatorInv, [AggregatorNext]_allVars
      PROVE  [\A p \in Sensors : display'[p].src >= display[p].src]_allVars
  <2> SUFFICES ASSUME NEW p \in Sensors PROVE display'[p].src >= display[p].src
    OBVIOUS
  <2>a. CoreInv /\ ManagerDomains /\ CallOf(p) /\ LatestOf(p) /\ DisplayOf(p)
    BY <1>1 DEF AggregatorInv
  <2>1. CASE PrintSnapshot \/ PrintFinal
    BY <2>1, <2>a, PrintKeeps DEF DisplayOf
  <2>2. CASE ~(PrintSnapshot \/ PrintFinal)
    <3>1. display' = display
      BY <1>1, <2>2 DEF AggregatorNext, MainStep, LoadFails, Load, StartThread, TestLoop,
            WakeAndSnapshot, RequestStop, NotifyStop, JoinThread, FinalSnapshot, TimePasses,
            Exited, allVars, mainVars, ThreadStep, CallApply, ReturnApply, OtherRunStep, Wakeup
    <3> QED BY <2>a, <3>1 DEF DisplayOf
  <2> QED BY <2>1, <2>2
<1> QED BY <1>1, AggregatorInvariance, PTL DEF AggregatorSpec, DisplayNeverGoesBack

-----------------------------------------------------------------------------
(* The files: what readAll and buildEvents make of the lines.              *)

\* The fields of a row are those of its line; the last one is gone if there was nothing
\* in it.
LEMMA RowIs ==
    ASSUME NEW line \in Lines
    PROVE  /\ Len(line) \in Nat \ {0} /\ DOMAIN line = 1 .. Len(line)
           /\ \A i \in 1 .. Len(line) : line[i] \in Texts
           /\ Len(Split(Strip(line))) =
                 IF line[Len(line)] \in {Empty, CarriageReturn} THEN Len(line) - 1 ELSE Len(line)
           /\ \A i \in 1 .. Len(Split(Strip(line))) : Split(Strip(line))[i] = line[i]
           /\ Strip(line) = <<Empty>> <=> line \in {<<Empty>>, <<CarriageReturn>>}
<1>1. line \in Seq(Texts) /\ line # <<>>
  BY DEF Lines
<1>2. Len(line) \in Nat \ {0} /\ DOMAIN line = 1 .. Len(line)
  BY <1>1
<1>3. ASSUME NEW i \in 1 .. Len(line) PROVE line[i] \in Texts
  BY <1>1, <1>3, ElementOfSeq
<1> DEFINE s == Strip(line)
<1>4. /\ s \in Seq(Texts) /\ Len(s) = Len(line)
      /\ \A i \in 1 .. Len(line) - 1 : s[i] = line[i]
      /\ s[Len(line)] = IF line[Len(line)] = CarriageReturn THEN Empty ELSE line[Len(line)]
  <2>1. Empty \in Texts
    BY DEF Texts
  <2>2. CASE line[Len(line)] = CarriageReturn
    <3>1. s = [line EXCEPT ![Len(line)] = Empty]
      BY <2>2 DEF Strip
    <3>2. Len(line) \in 1 .. Len(line)
      BY <1>2
    <3>3. [line EXCEPT ![Len(line)] = Empty] \in Seq(Texts)
          /\ Len([line EXCEPT ![Len(line)] = Empty]) = Len(line)
      BY <1>1, <2>1, <3>2, ExceptSeq
    <3> QED BY <1>2, <2>2, <3>1, <3>2, <3>3
  <2>3. CASE line[Len(line)] # CarriageReturn
    BY <1>1, <2>3 DEF Strip
  <2> QED BY <2>2, <2>3
<1>5. s = <<Empty>> <=> line \in {<<Empty>>, <<CarriageReturn>>}
  <2>1. ASSUME NEW t \in Seq(Texts), NEW e \in Texts PROVE t = <<e>> <=> Len(t) = 1 /\ t[1] = e
    BY <2>1
  <2>2. Empty \in Texts /\ CarriageReturn \in Texts
    BY DEF Texts
  <2>3. CASE Len(line) = 1
    <3>1. s = <<Empty>> <=> s[1] = Empty
      BY <1>4, <2>1, <2>2, <2>3
    <3>2. line = <<Empty>> <=> line[1] = Empty
      BY <1>1, <2>1, <2>2, <2>3
    <3>3. line = <<CarriageReturn>> <=> line[1] = CarriageReturn
      BY <1>1, <2>1, <2>2, <2>3
    <3>4. s[1] = IF line[1] = CarriageReturn THEN Empty ELSE line[1]
      BY <1>4, <2>3
    <3> HIDE DEF s
    <3> QED BY <3>1, <3>2, <3>3, <3>4
  <2>4. CASE Len(line) # 1
    BY <1>1, <1>4, <2>1, <2>2, <2>4
  <2> QED BY <2>3, <2>4
<1> HIDE DEF s
<1>6. s[Len(line)] = Empty <=> line[Len(line)] \in {Empty, CarriageReturn}
  BY <1>4
<1>7. CASE s[Len(line)] = Empty
  <2>1. Split(s) = SubSeq(s, 1, Len(line) - 1)
    BY <1>4, <1>7 DEF Split
  <2>2. /\ Len(SubSeq(s, 1, Len(line) - 1)) = Len(line) - 1
        /\ \A i \in 1 .. Len(line) - 1 : SubSeq(s, 1, Len(line) - 1)[i] = s[i]
    BY <1>2, <1>4
  <2> QED BY <1>2, <1>3, <1>4, <1>5, <1>6, <1>7, <2>1, <2>2 DEF s
<1>8. CASE s[Len(line)] # Empty
  <2>1. Split(s) = s
    BY <1>4, <1>8 DEF Split
  <2>2. \A i \in 1 .. Len(line) : s[i] = line[i]
    BY <1>2, <1>4, <1>6, <1>8
  <2> QED BY <1>2, <1>3, <1>4, <1>5, <1>6, <1>8, <2>1, <2>2 DEF s
<1> QED BY <1>7, <1>8

\* readAll: a row for every line with something on it, in their order; the rows after
\* the first are the lines below the header.
LEMMA RowsAre ==
    ASSUME NEW file \in Seq(Lines)
    PROVE  /\ Len(readAll(file)) \in Nat
           /\ \A k \in 1 .. Len(readAll(file)) : \E m \in Kept(file) :
                 readAll(file)[k] = Split(Strip(file[m])) /\ (k >= 2 => m \in BelowHeader(file))
           /\ \A m \in Kept(file) \cap BelowHeader(file) : \E k \in 2 .. Len(readAll(file)) :
                 readAll(file)[k] = Split(Strip(file[m]))
<1> DEFINE n == Len(file)
           K == Kept(file)
           c == Cardinality(K)
<1>1. n \in Nat /\ DOMAIN file = 1 .. n
  OBVIOUS
<1>2. K \in SUBSET (1 .. n)
  BY <1>1 DEF Kept
<1>3. /\ Len(readAll(file)) = c /\ c \in Nat
      /\ \A k \in 1 .. c :
            readAll(file)[k] = [m \in DOMAIN file |-> Split(Strip(file[m]))][Nth(K, k)]
  <2> DEFINE s == [m \in DOMAIN file |-> Split(Strip(file[m]))]
  <2>1. readAll(file) = Selected(s, K)
    BY DEF readAll
  <2> HIDE DEF n, K, s
  <2>2. /\ Len(Selected(s, K)) = c /\ c \in Nat
        /\ \A k \in 1 .. c : Selected(s, K)[k] = s[Nth(K, k)]
    <3>1. n \in Nat /\ K \in SUBSET (1 .. n)
      BY <1>1, <1>2
    <3> QED BY <3>1, SelectedIs, ZenonT(30)
  <2> QED BY <2>1, <2>2 DEF s
<1>4. /\ \A k \in 1 .. c : Nth(K, k) \in K /\ RankIn(K, Nth(K, k)) = k
      /\ \A m \in K : \E k \in 1 .. c : Nth(K, k) = m
  BY <1>1, <1>2, NthIs
<1>5. \A k \in 1 .. c : readAll(file)[k] = Split(Strip(file[Nth(K, k)]))
  BY <1>1, <1>2, <1>3, <1>4
<1>6. \A m \in 1 .. n : m \in K <=> file[m] \notin {<<Empty>>, <<CarriageReturn>>}
  <2> SUFFICES ASSUME NEW m \in 1 .. n
               PROVE  m \in K <=> file[m] \notin {<<Empty>>, <<CarriageReturn>>}
    OBVIOUS
  <2>1. file[m] \in Lines
    BY ElementOfSeq
  <2> QED BY <1>1, <2>1, RowIs DEF Kept
<1>7. \A m \in 1 .. n : m \in BelowHeader(file) <=> \E j \in K : j < m
  <2> SUFFICES ASSUME NEW m \in 1 .. n
               PROVE  m \in BelowHeader(file) <=> \E j \in K : j < m
    OBVIOUS
  <2>1. ASSUME NEW j \in K, j < m PROVE j \in 1 .. m - 1 /\ j \in 1 .. n
    BY <1>1, <1>2, <2>1
  <2>2. \A j \in 1 .. m - 1 : j \in 1 .. n /\ j < m
    BY <1>1
  <2> HIDE DEF n, K
  <2> QED BY <1>1, <1>6, <2>1, <2>2 DEF BelowHeader
<1> HIDE DEF n, K, c
<1>8. ASSUME NEW k \in 1 .. c, k >= 2 PROVE Nth(K, k) \in BelowHeader(file)
  <2>1. Nth(K, k) \in K /\ RankIn(K, Nth(K, k)) >= 2 /\ Nth(K, k) \in 1 .. n
    BY <1>2, <1>4, <1>8
  <2>2. \E j \in K : j < Nth(K, k)
    BY <1>1, <1>2, <2>1, RankIs
  <2> QED BY <1>7, <2>1, <2>2
<1>9. ASSUME NEW m \in K, m \in BelowHeader(file)
      PROVE  \E k \in 2 .. c : readAll(file)[k] = Split(Strip(file[m]))
  <2>1. PICK k \in 1 .. c : Nth(K, k) = m
    BY <1>4
  <2>2. RankIn(K, m) = k
    BY <1>4, <2>1
  <2>3. m \in 1 .. n
    BY <1>2
  <2>4. PICK j \in K : j < m
    BY <1>7, <1>9, <2>3
  <2>5. RankIn(K, j) < k /\ RankIn(K, j) \in 1 .. Cardinality(K)
    BY <1>1, <1>2, <2>2, <2>4, RankIs
  <2>6. k \in 2 .. c
    BY <1>3, <2>1, <2>5
  <2> QED BY <1>5, <2>1, <2>6
<1> QED BY <1>3, <1>4, <1>5, <1>8, <1>9 DEF K

\* buildEvents: the timestamps are those of the data lines, and it throws only if there
\* is a bad line below the header.
LEMMA ReadCorrect ==
    ASSUME NEW file \in Seq(Lines), NEW arity \in Nat \ {0}
    PROVE  /\ Len(buildEvents(file, arity).log) \in Nat
           /\ buildEvents(file, arity).ok =>
                 /\ \A k \in 1 .. Len(buildEvents(file, arity).log) :
                       \E n \in DataLines(file, arity) :
                          buildEvents(file, arity).log[k] = file[n][1]
                 /\ \A n \in DataLines(file, arity) :
                       \E k \in 1 .. Len(buildEvents(file, arity).log) :
                          buildEvents(file, arity).log[k] = file[n][1]
           /\ ~buildEvents(file, arity).ok => \E n \in BelowHeader(file) : BadLine(file[n])
<1> DEFINE rows == readAll(file)
           D == LongRows(rows, arity)
           data == Selected(rows, D)
           c == Cardinality(D)
<1>1. Len(rows) \in Nat
  BY RowsAre
<1>2. D \in SUBSET (1 .. Len(rows)) /\ \A k \in D : k >= 2
  BY <1>1 DEF LongRows
<1>3. /\ Len(data) = c /\ c \in Nat /\ DOMAIN data = 1 .. c
      /\ \A k \in 1 .. c : data[k] = rows[Nth(D, k)]
  <2> HIDE DEF rows, D
  <2> QED BY <1>1, <1>2, SelectedIs
<1>4. /\ \A k \in 1 .. c : Nth(D, k) \in D
      /\ \A m \in D : \E k \in 1 .. c : Nth(D, k) = m
  <2> HIDE DEF rows, D
  <2> QED BY <1>1, <1>2, NthIs
<1>5. /\ buildEvents(file, arity).ok <=> \A k \in 1 .. c : \A i \in 1 .. arity : data[k][i] \in Int
      /\ Len(buildEvents(file, arity).log) = c
      /\ \A k \in 1 .. c : buildEvents(file, arity).log[k] = data[k][1]
  <2>1. buildEvents(file, arity) =
           [ok |-> \A k \in DOMAIN data : \A i \in 1 .. arity : data[k][i] \in Int,
            log |-> [k \in DOMAIN data |-> data[k][1]]]
    BY DEF buildEvents
  <2>2. c \in Nat /\ DOMAIN data = 1 .. c
    BY <1>3
  <2> HIDE DEF data, c
  <2>3. Len([k \in 1 .. c |-> data[k][1]]) = c
    BY <2>2
  <2>4. buildEvents(file, arity).log = [k \in 1 .. c |-> data[k][1]]
    BY <2>1, <2>2
  <2>5. buildEvents(file, arity).ok =
           \A k \in DOMAIN data : \A i \in 1 .. arity : data[k][i] \in Int
    BY <2>1
  <2>6. buildEvents(file, arity).ok <=> \A k \in 1 .. c : \A i \in 1 .. arity : data[k][i] \in Int
    BY <2>2, <2>5
  <2>7. /\ Len(buildEvents(file, arity).log) = c
        /\ \A k \in 1 .. c : buildEvents(file, arity).log[k] = data[k][1]
    BY <2>3, <2>4
  <2> QED BY <2>6, <2>7
<1>6. \A n \in DOMAIN file : file[n] \in Lines
  BY ElementOfSeq
\* Every row of data comes from a line below the header and has its fields.
<1>7. ASSUME NEW k \in 1 .. c
      PROVE  \E n \in BelowHeader(file) :
                /\ n \in DOMAIN file
                /\ Len(Split(Strip(file[n]))) >= arity
                /\ data[k] = Split(Strip(file[n]))
  <2>1. Nth(D, k) \in D /\ data[k] = rows[Nth(D, k)]
    BY <1>3, <1>4
  <2>2. PICK m : m = Nth(D, k)
    OBVIOUS
  <2>3. m \in 2 .. Len(rows) /\ Len(rows[m]) >= arity
    BY <2>1, <2>2 DEF LongRows
  <2>4. m \in 1 .. Len(rows) /\ m >= 2
    BY <1>1, <2>3
  <2>5. PICK n \in Kept(file) : rows[m] = Split(Strip(file[n])) /\ n \in BelowHeader(file)
    BY <2>4, RowsAre
  <2>6. n \in DOMAIN file
    BY DEF Kept
  <2> QED BY <2>1, <2>2, <2>3, <2>5, <2>6
<1> HIDE DEF data, c
<1>8. ASSUME buildEvents(file, arity).ok, NEW k \in 1 .. c
      PROVE  \E n \in DataLines(file, arity) : data[k][1] = file[n][1]
  <2>1. PICK n \in BelowHeader(file) :
                /\ n \in DOMAIN file
                /\ Len(Split(Strip(file[n]))) >= arity
                /\ data[k] = Split(Strip(file[n]))
    BY <1>7
  <2>2. PICK row : row = Split(Strip(file[n]))
    OBVIOUS
  <2>3. /\ Len(file[n]) \in Nat /\ Len(row) \in Nat /\ Len(row) <= Len(file[n])
        /\ \A i \in 1 .. Len(row) : row[i] = file[n][i]
    BY <1>6, <2>1, <2>2, RowIs
  <2>4. \A i \in 1 .. arity : i \in 1 .. Len(row)
    BY <2>1, <2>2, <2>3
  <2>5. \A i \in 1 .. arity : file[n][i] \in Int /\ data[k][i] = file[n][i]
    BY <1>5, <1>8, <2>1, <2>2, <2>3, <2>4
  <2>6. Len(file[n]) >= arity /\ 1 \in 1 .. arity
    BY <2>1, <2>2, <2>3
  <2> QED BY <2>1, <2>5, <2>6 DEF DataLines
<1>9. ASSUME NEW n \in DataLines(file, arity)
      PROVE  \E k \in 1 .. c : data[k][1] = file[n][1]
  <2>1. /\ n \in DOMAIN file /\ n \in BelowHeader(file)
        /\ Len(file[n]) >= arity /\ \A i \in 1 .. arity : file[n][i] \in Int
    BY DEF DataLines, BelowHeader
  <2>2. PICK line \in Lines : line = file[n]
    BY <1>6, <2>1
  <2>3. Empty \notin Int /\ CarriageReturn \notin Int
    BY TextsAssumption
  <2>4. Len(line) \in Nat \ {0} /\ 1 \in 1 .. arity /\ line[1] \in Int
    BY <2>1, <2>2, RowIs
  <2>5. line \notin {<<Empty>>, <<CarriageReturn>>}
    BY <2>3, <2>4
  <2>6. n \in Kept(file)
    <3>1. Strip(line) # <<Empty>>
      BY <2>5, RowIs
    <3> QED BY <2>1, <2>2, <3>1 DEF Kept
  <2>7. PICK m \in 2 .. Len(rows) : rows[m] = Split(Strip(line))
    <3>1. \E m \in 2 .. Len(rows) : rows[m] = Split(Strip(file[n]))
      BY <2>1, <2>6, RowsAre
    <3> QED BY <2>2, <3>1
  <2>8. PICK row : row = Split(Strip(line))
    OBVIOUS
  <2>9. /\ Len(row) = IF line[Len(line)] \in {Empty, CarriageReturn}
                      THEN Len(line) - 1 ELSE Len(line)
        /\ \A i \in 1 .. Len(row) : row[i] = line[i]
    BY <2>8, RowIs
  <2>10. Len(row) >= arity
    <3>1. CASE Len(line) = arity
      <4>1. line[Len(line)] \in Int
        BY <2>1, <2>2, <2>4, <3>1
      <4> QED BY <2>3, <2>9, <3>1, <4>1
    <3>2. CASE Len(line) > arity
      BY <2>4, <2>9, <3>2
    <3> QED BY <2>1, <2>2, <2>4, <3>1, <3>2
  <2>11. m \in D
    BY <2>7, <2>8, <2>10 DEF LongRows
  <2>12. PICK k \in 1 .. c : Nth(D, k) = m
    BY <1>4, <2>11
  <2>13. data[k] = row
    BY <1>3, <2>7, <2>8, <2>12
  <2>14. Len(row) \in Nat
    BY <2>4, <2>9
  <2>15. row[1] = line[1]
    BY <2>4, <2>9, <2>10, <2>14
  <2> QED BY <2>2, <2>12, <2>13, <2>15
<1>10. ASSUME ~buildEvents(file, arity).ok
       PROVE  \E n \in BelowHeader(file) : BadLine(file[n])
  <2>1. PICK k \in 1 .. c, i \in 1 .. arity : data[k][i] \notin Int
    BY <1>5, <1>10
  <2>2. PICK n \in BelowHeader(file) :
                /\ n \in DOMAIN file
                /\ Len(Split(Strip(file[n]))) >= arity
                /\ data[k] = Split(Strip(file[n]))
    BY <1>7
  <2>3. PICK line \in Lines : line = file[n]
    BY <1>6, <2>2
  <2>4. PICK row : row = Split(Strip(line))
    OBVIOUS
  <2>5. /\ DOMAIN line = 1 .. Len(line) /\ \A j \in 1 .. Len(line) : line[j] \in Texts
        /\ \A j \in 1 .. Len(row) : row[j] = line[j]
    BY <2>4, RowIs
  <2>6. PICK l \in Nat \ {0}, r \in Nat :
           /\ l = Len(line) /\ r = Len(row) /\ r <= l
           /\ line[l] \in {Empty, CarriageReturn} => r < l
    <3>1. /\ Len(line) \in Nat \ {0}
          /\ Len(row) = IF line[Len(line)] \in {Empty, CarriageReturn}
                        THEN Len(line) - 1 ELSE Len(line)
      BY <2>4, RowIs
    <3>2. PICK l \in Nat \ {0} : l = Len(line)
      BY <3>1
    <3>3. PICK r : r = Len(row)
      OBVIOUS
    <3>4. r = IF line[l] \in {Empty, CarriageReturn} THEN l - 1 ELSE l
      BY <3>1, <3>2, <3>3
    <3>5. r \in Nat /\ r <= l /\ (line[l] \in {Empty, CarriageReturn} => r < l)
      BY <3>4
    <3> QED BY <3>2, <3>3, <3>5
  <2>7. i \in 1 .. r /\ i \in 1 .. l
    <3>1. r >= arity
      BY <2>2, <2>3, <2>4, <2>6
    <3> QED BY <2>6, <3>1
  <2>8. line[i] \in {Word, Empty, CarriageReturn}
    <3>1. line[i] \notin Int
      BY <2>1, <2>2, <2>3, <2>4, <2>5, <2>6, <2>7
    <3> QED BY <2>5, <2>6, <2>7, <3>1 DEF Texts
  <2>9. line[i] \in {Empty, CarriageReturn} => i < l
    <3>1. i = l => line[i] \notin {Empty, CarriageReturn}
      BY <2>6, <2>7
    <3> QED BY <2>7, <3>1
  <2>10. BadLine(line)
    BY <2>5, <2>6, <2>7, <2>8, <2>9 DEF BadLine
  <2> QED BY <2>2, <2>3, <2>10
<1> QED BY <1>3, <1>5, <1>8, <1>9, <1>10

-----------------------------------------------------------------------------
(* From the files to the final state.                                      *)

\* The producers have the rows of the files; main() gave up only because it could not
\* read one; at the end it has printed what the manager holds.
FilesInv ==
    /\ main \notin {"load", "failed"} =>
          \A p \in Sensors : Readable(p) /\ log[p] = buildEvents(files[p], Arity[p]).log
    /\ main = "failed" => \E p \in Sensors : ~Readable(p)
    /\ main = "done" =>
          \A p \in Sensors : /\ display[p].src = SourceTime(p)
                             /\ latest[p].sample = NoSample => display[p].flag = "no data"

\* Once the program has printed the final state, nothing changes it.
LEMMA DoneIsDone ==
    ASSUME AggregatorInv, [AggregatorNext]_allVars, main = "done"
    PROVE  latest' = latest /\ display' = display
<1>1. \A p \in Sensors : pc[p] = "done"
  BY DEF AggregatorInv, MainInv, ShuttingDown
<1>2. ~MainStep
  BY DEF MainStep, LoadFails, Load, StartThread, TestLoop, WakeAndSnapshot, PrintSnapshot,
         RequestStop, NotifyStop, JoinThread, FinalSnapshot, PrintFinal
<1>3. ASSUME NEW p \in Sensors PROVE ~ThreadStep(p) /\ ~Wakeup(p)
  BY <1>1, <1>3 DEF ThreadStep, CallApply, ReturnApply, OtherRunStep, Wakeup, RunStep, LeaveLoop,
         BeginStall, BeginEvent, EndStall, EndWait, Apply, Finish, Check, Block, TimeOut,
         SpuriousWakeup
<1>4. TimePasses \/ Exited \/ UNCHANGED allVars
  BY <1>2, <1>3 DEF AggregatorNext
<1> QED BY <1>4 DEF TimePasses, Exited, allVars, managerVars, mainVars

\* Every step keeps what is known of the files.
LEMMA FilesKeep ==
    ASSUME AggregatorInv, FilesInv, [AggregatorNext]_allVars PROVE FilesInv'
<1>a. CoreInv /\ MainInv /\ ManagerDomains
  BY DEF AggregatorInv
<1>1. files' = files
  BY DEF AggregatorNext, MainStep, LoadFails, Load, StartThread, TestLoop, WakeAndSnapshot,
         PrintSnapshot, RequestStop, NotifyStop, JoinThread, FinalSnapshot, PrintFinal,
         TimePasses, Exited, allVars, mainVars, ThreadStep, CallApply, ReturnApply,
         OtherRunStep, Wakeup
<1>2. \A p : Readable(p)' <=> Readable(p)
  BY <1>1 DEF Readable
<1>3. ~Load => log' = log
  BY <1>a, StepIs, Others DEF Tick, vars, run
<1>4. \/ Load \/ LoadFails \/ PrintFinal
      \/ main' = main
      \/ main \notin {"load", "failed", "done"} /\ main' \notin {"load", "failed", "done"}
  <2>1. CASE StartThread \/ NotifyStop \/ JoinThread
    BY <1>a, <2>1, AdvanceStays DEF StartThread, NotifyStop, JoinThread
  <2>2. CASE TestLoop \/ WakeAndSnapshot \/ PrintSnapshot \/ RequestStop \/ FinalSnapshot
    BY <2>2 DEF TestLoop, WakeAndSnapshot, PrintSnapshot, RequestStop, FinalSnapshot
  <2>3. CASE ~MainStep
    BY <2>3 DEF AggregatorNext, TimePasses, Exited, allVars, mainVars, ThreadStep, CallApply,
           ReturnApply, OtherRunStep, Wakeup
  <2> QED BY <2>1, <2>2, <2>3 DEF MainStep
<1>5. CASE Load
  <2>1. /\ \A p \in Sensors : Readable(p)
        /\ log' = [p \in Sensors |-> buildEvents(files[p], Arity[p]).log]
        /\ main' = "starting"
    BY <1>5 DEF Load
  <2> QED BY <1>1, <1>2, <2>1 DEF FilesInv
<1>6. CASE LoadFails
  <2>1. main' = "failed" /\ \E p \in Sensors : ~Readable(p)
    BY <1>6 DEF LoadFails
  <2> QED BY <1>2, <2>1 DEF FilesInv
<1>7. CASE PrintFinal
  <2>1. main = "final_print" /\ main' = "done" /\ ~Load
    BY <1>7 DEF PrintFinal, Load
  <2>2. PICK now \in 0 .. clock : Manager!Snapshot(Main, now)
    BY <1>7 DEF PrintFinal
  <2>3. snap'[Main] = Manager!SnapshotAt(latest, now) /\ latest' = latest
    BY <1>a, <2>2 DEF Manager!Snapshot, ManagerDomains
  <2>4. ASSUME NEW p \in Sensors
        PROVE  /\ display'[p].src = SourceTime(p)'
               /\ latest'[p].sample = NoSample => display'[p].flag = "no data"
    <3>1. /\ snap'[Main].sample[p] = latest[p].sample
          /\ snap'[Main].source_ts[p] = latest[p].source_ts
      BY <2>3 DEF Manager!SnapshotAt
    <3>2. display' = printSnapshot(snap'[Main])
      BY <1>7 DEF PrintFinal
    <3> QED BY <2>3, <3>1, <3>2 DEF printSnapshot, SourceTime
  <2> QED BY <1>1, <1>2, <1>3, <2>1, <2>4 DEF FilesInv
<1>8. CASE ~Load /\ main' = main
  <2>1. main = "done" => latest' = latest /\ display' = display
    BY DoneIsDone
  <2> QED BY <1>1, <1>2, <1>3, <1>8, <2>1 DEF FilesInv, SourceTime
<1>9. CASE ~Load /\ main \notin {"load", "failed", "done"}
                 /\ main' \notin {"load", "failed", "done"}
  BY <1>1, <1>2, <1>3, <1>9 DEF FilesInv
<1> QED BY <1>4, <1>5, <1>6, <1>7, <1>8, <1>9

\* The final state printed is complete: for any files and sensors, the greatest timestamp
\* among the data lines of each file; the program fails only on a bad or missing file.
THEOREM FinalStateCorrect == AggregatorSpec => []FinalStateIsComplete
<1>1. AggregatorInit => FilesInv
  BY DEF AggregatorInit, FilesInv
<1>2. AggregatorInv /\ FilesInv /\ [AggregatorNext]_allVars => FilesInv'
  BY FilesKeep
<1>3. AggregatorInv /\ FilesInv => FinalStateIsComplete
  <2> SUFFICES ASSUME AggregatorInv, FilesInv PROVE FinalStateIsComplete
    OBVIOUS
  <2>a. ASSUME NEW p \in Sensors, files[p] # NoFile
        PROVE  files[p] \in Seq(Lines) /\ Arity[p] \in Nat \ {0}
    BY <2>a, DirectoriesAssumption DEF AggregatorInv, MainInv
  <2>1. ASSUME main = "failed"
        PROVE  \E p \in Sensors :
                  files[p] = NoFile \/ \E n \in BelowHeader(files[p]) : BadLine(files[p][n])
    <3>1. PICK p \in Sensors : ~Readable(p)
      BY <2>1 DEF FilesInv
    <3>2. CASE files[p] # NoFile
      <4>1. ~buildEvents(files[p], Arity[p]).ok
        BY <3>1, <3>2 DEF Readable
      <4> QED BY <2>a, <3>2, <4>1, ReadCorrect
    <3> QED BY <3>2
  <2>2. ASSUME main = "done", NEW p \in Sensors
        PROVE  LET written == {files[p][n][1] : n \in DataLines(files[p], Arity[p])}
               IN  IF written = {} THEN display[p].flag = "no data"
                   ELSE display[p].src \in written /\ \A ts \in written : ts <= display[p].src
    <3> DEFINE written == {files[p][n][1] : n \in DataLines(files[p], Arity[p])}
    <3>1. /\ Readable(p) /\ log[p] = buildEvents(files[p], Arity[p]).log
          /\ display[p].src = SourceTime(p)
          /\ latest[p].sample = NoSample => display[p].flag = "no data"
      BY <2>2 DEF FilesInv
    <3>2. /\ \A k \in 1 .. Len(log[p]) : log[p][k] \in written
          /\ \A ts \in written : \E k \in 1 .. Len(log[p]) : log[p][k] = ts
      <4>1. files[p] \in Seq(Lines) /\ Arity[p] \in Nat \ {0}
        BY <2>a, <3>1 DEF Readable
      <4>2. buildEvents(files[p], Arity[p]).ok
        BY <3>1 DEF Readable
      <4>3. PICK file \in Seq(Lines), arity \in Nat \ {0} : file = files[p] /\ arity = Arity[p]
        BY <4>1
      <4>4. log[p] = buildEvents(file, arity).log /\ buildEvents(file, arity).ok
        BY <3>1, <4>2, <4>3
      <4>5. /\ \A k \in 1 .. Len(log[p]) : \E n \in DataLines(file, arity) :
                  log[p][k] = file[n][1]
            /\ \A n \in DataLines(file, arity) : \E k \in 1 .. Len(log[p]) :
                  log[p][k] = file[n][1]
        BY <4>4, ReadCorrect
      <4>6. written = {file[n][1] : n \in DataLines(file, arity)}
        BY <4>3
      <4> HIDE DEF written
      <4>7. ASSUME NEW k \in 1 .. Len(log[p]) PROVE log[p][k] \in written
        <5>1. PICK n \in DataLines(file, arity) : log[p][k] = file[n][1]
          BY <4>5
        <5> QED BY <4>6, <5>1
      <4>8. ASSUME NEW ts \in written PROVE \E k \in 1 .. Len(log[p]) : log[p][k] = ts
        <5>1. PICK n \in DataLines(file, arity) : ts = file[n][1]
          BY <4>6
        <5> QED BY <4>5, <5>1
      <4> QED BY <4>7, <4>8
    <3> HIDE DEF written
    <3>3. CoreInv /\ LatestOf(p) /\ ev[p] = Len(log[p]) + 1 /\ Len(log[p]) \in Nat
      BY <2>2, TimeOfLen DEF AggregatorInv, MainInv, ShuttingDown
    <3>4. PICK last \in Nat : last = Len(log[p])
      BY <3>3
    <3>5. CASE last = 0
      <4>1. written = {}
        BY <3>2, <3>4, <3>5
      <4>2. latest[p].sample = NoSample
        BY <3>3, <3>4, <3>5 DEF LatestOf
      <4> QED BY <3>1, <4>1, <4>2 DEF written
    <3>6. CASE last > 0
      <4>1. ev[p] > 1 /\ ev[p] - 1 = last /\ last \in 1 .. Len(log[p])
        BY <3>3, <3>4, <3>6
      <4>2. latest[p].sample = events[p][last] /\ latest[p].source_ts = TimeOf(p, last)
        BY <3>3, <4>1 DEF LatestOf
      <4>3. display[p].src = TimeOf(p, last)
        <5>1. events[p][last] # NoSample
          BY <3>3, <4>1, RowsAreNumbered
        <5> QED BY <3>1, <4>2, <5>1 DEF SourceTime
      <4>4. events[p] \in [1 .. Len(log[p]) -> 1 .. Len(log[p])] /\ log[p] \in Seq(Nat)
        BY <3>3 DEF CoreInv, Shape
      <4>5. TimeOf(p, last) \in written
        BY <3>2, <4>1, <4>4 DEF TimeOf
      <4>6. ASSUME NEW ts \in written PROVE ts <= TimeOf(p, last)
        <5>1. PICK k \in 1 .. Len(log[p]) : log[p][k] = ts
          BY <3>2
        <5>2. DOMAIN log[p] = 1 .. Len(log[p]) /\ DOMAIN events[p] = 1 .. Len(log[p])
          BY <4>4
        <5>3. PICK i \in 1 .. Len(log[p]) : events[p][i] = k
          <6>1. EventsAreTheLog
            BY <3>3 DEF CoreInv, TypeOK
          <6> QED BY <5>2, <6>1 DEF EventsAreTheLog
        <5>4. TimeOf(p, i) = ts
          BY <5>1, <5>3 DEF TimeOf
        <5>5. last \in i .. Len(log[p])
          BY <3>4, <4>1
        <5> QED BY <3>3, <5>4, <5>5, TimeOfType
      <4>7. /\ written # {} /\ display[p].src \in written
            /\ \A ts \in written : ts <= display[p].src
        BY <4>3, <4>5, <4>6
      <4> QED BY <4>7 DEF written
    <3>7. last = 0 \/ last > 0
      OBVIOUS
    <3> QED BY <3>5, <3>6, <3>7
  <2> QED BY <2>1, <2>2 DEF FinalStateIsComplete
<1> QED BY <1>1, <1>2, <1>3, AggregatorInvariance, PTL DEF AggregatorSpec
=============================================================================
