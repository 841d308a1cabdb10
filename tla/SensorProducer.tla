---------------------------- MODULE SensorProducer ----------------------------
(***************************************************************************)
(* The replay threads of task 2 (class SensorReplayProducer), one per      *)
(* sensor, and a controller that may call requestStop() on any of them at  *)
(* any time and then join() it.                                            *)
(*                                                                         *)
(* A condition-variable wait with a predicate is the loop of the C++       *)
(* library: evaluate the predicate, block, on a wake-up evaluate it again, *)
(* on a timeout return.  Evaluating the predicate and blocking are two     *)
(* steps: cv_mutex_ makes them one only for a notifier that holds it, and  *)
(* requestStop() does not.  cv_mutex_ itself is never contended (only the  *)
(* producer locks it), so it is not a variable.                            *)
(***************************************************************************)
EXTENDS Integers, Sequences

CONSTANTS
    Sensors,                  \* one producer each
    Logs,                     \* the logs a run may replay, see log
    SpeedNum, SpeedDen,       \* speed_factor = SpeedNum / SpeedDen
    StallAfter,               \* StallAfter[p]: stall_after_ms_, -1 for no stall
    StallDuration,            \* StallDuration[p]: stall_duration_, in ms
    MaxTime                   \* the clock advances to MaxTime, and further while
                              \* a thread is waiting for a later deadline

ASSUME LogAssumption == Logs \subseteq [Sensors -> Seq(Nat)]

ASSUME SpeedAssumption == SpeedNum \in Nat \ {0} /\ SpeedDen \in Nat \ {0}

ASSUME StallAssumption ==
    /\ StallAfter \in [Sensors -> Int] /\ StallDuration \in [Sensors -> Nat]
    /\ MaxTime \in Nat

VARIABLES
    clock,           \* steady_clock
    log,             \* log[p]: source timestamps (ms) of p's events, in file order
    events,          \* events_ after the constructor's sort: positions in log
    pc,              \* where run() is
    ev,              \* the loop's position in events
    stalled_once, replay_start, stop_requested, finished,
    waiting,         \* which of run()'s two waits it is in
    deadline,        \* when that wait times out
    ctl,             \* how far the controller is with each producer
    applied          \* history: [row, at, stopped] of every ev.apply(), stopped
                     \* if it came after requestStop() was called

run == <<pc, ev, stalled_once, replay_start, finished, waiting, deadline>>
vars == <<clock, log, events, run, stop_requested, ctl, applied>>

-----------------------------------------------------------------------------
\* static_cast<long long>(ts_ms / speed_factor_).
Due(ts) == (ts * SpeedDen) \div SpeedNum

TimeOf(p, i) == log[p][events[p][i]]

\* std::sort by timestamp: any ordering of the rows in which timestamps do not
\* decrease (the sort is not stable).
Unsorted(p) == {[i \in DOMAIN log[p] |-> i]}
Sorted(p) ==
    {order \in [DOMAIN log[p] -> DOMAIN log[p]] :
        /\ \A i, j \in DOMAIN log[p] : order[i] = order[j] => i = j
        /\ \A i, j \in DOMAIN log[p] : i < j => log[p][order[i]] <= log[p][order[j]]}

SortedEvents ==
    {e \in [Sensors -> UNION {Sorted(p) : p \in Sensors}] : \A p \in Sensors : e[p] \in Sorted(p)}

\* The producers before their constructors run.
ProducersInit ==
    /\ clock = 0
    /\ pc = [p \in Sensors |-> "top"]
    /\ ev = [p \in Sensors |-> 1]
    /\ stalled_once = [p \in Sensors |-> FALSE]
    /\ replay_start = [p \in Sensors |-> 0]
    /\ stop_requested = [p \in Sensors |-> FALSE]
    /\ finished = [p \in Sensors |-> FALSE]
    /\ waiting = [p \in Sensors |-> "none"]
    /\ deadline = [p \in Sensors |-> 0]
    /\ ctl = [p \in Sensors |-> "running"]
    /\ applied = [p \in Sensors |-> <<>>]

Init ==
    /\ ProducersInit
    /\ log \in Logs
    /\ events \in SortedEvents

-----------------------------------------------------------------------------
(* cv_.wait_for (the stall) and cv_.wait_until (the event): check evaluates *)
(* the predicate, enter is about to block, over has returned to run().     *)

Goto(p, label) == pc' = [pc EXCEPT ![p] = label]

BeginWait(p, wait, t) ==
    /\ waiting' = [waiting EXCEPT ![p] = wait]
    /\ deadline' = [deadline EXCEPT ![p] = t]
    /\ Goto(p, "check")

\* A step that only moves run() on.
OnlyGoto(p, label) ==
    /\ Goto(p, label)
    /\ UNCHANGED <<clock, log, events, ev, stalled_once, replay_start, finished, waiting,
                   deadline, stop_requested, ctl, applied>>

Check(p) ==
    /\ pc[p] = "check"
    /\ OnlyGoto(p, IF stop_requested[p] THEN "over" ELSE "enter")

Block(p) ==
    /\ pc[p] = "enter"
    /\ OnlyGoto(p, "blocked")

TimedOutAnyTime(p) == TRUE
TimedOutNever(p) == FALSE
TimedOut(p) == clock >= deadline[p]

\* The library returns the predicate's value, which run() ignores.
TimeOut(p) ==
    /\ pc[p] = "blocked"
    /\ TimedOut(p)
    /\ OnlyGoto(p, "over")

\* After the deadline a wake-up is reported as a timeout.
SpuriousWakeup(p) ==
    /\ pc[p] = "blocked"
    /\ ~TimedOut(p)
    /\ OnlyGoto(p, "check")

-----------------------------------------------------------------------------
(* run().                                                                  *)

StallNow(p) ==
    ~stalled_once[p] /\ StallAfter[p] >= 0 /\ TimeOf(p, ev[p]) >= StallAfter[p]

MoreEvents(p) == ev[p] <= Len(events[p])

LeaveLoop(p) ==
    /\ pc[p] = "top"
    /\ ~MoreEvents(p) \/ stop_requested[p]
    /\ OnlyGoto(p, "finish")

BeginStall(p) ==
    /\ pc[p] = "top"
    /\ MoreEvents(p) /\ ~stop_requested[p]
    /\ StallNow(p)
    /\ stalled_once' = [stalled_once EXCEPT ![p] = TRUE]
    /\ BeginWait(p, "stall", clock + StallDuration[p])
    /\ UNCHANGED <<clock, log, events, ev, replay_start, finished, stop_requested, ctl, applied>>

BeginEvent(p) ==
    /\ pc[p] = "top"
    /\ MoreEvents(p) /\ ~stop_requested[p]
    /\ ~StallNow(p)
    /\ BeginWait(p, "event", replay_start[p] + Due(TimeOf(p, ev[p])))
    /\ UNCHANGED <<clock, log, events, ev, stalled_once, replay_start, finished,
                   stop_requested, ctl, applied>>

\* The stall is over: stop, or re-anchor the replay clock on this event.
ReanchoredNotAtAll(p) == replay_start[p]
Reanchored(p) == clock - Due(TimeOf(p, ev[p]))

EndStall(p) ==
    /\ pc[p] = "over" /\ waiting[p] = "stall"
    /\ \/ /\ stop_requested[p]
          /\ Goto(p, "finish")
          /\ UNCHANGED <<replay_start, waiting, deadline>>
       \/ /\ ~stop_requested[p]
          /\ replay_start' = [replay_start EXCEPT ![p] = Reanchored(p)]
          /\ BeginWait(p, "event", Reanchored(p) + Due(TimeOf(p, ev[p])))
    /\ UNCHANGED <<clock, log, events, ev, stalled_once, finished, stop_requested, ctl, applied>>

EndWait(p) ==
    /\ pc[p] = "over" /\ waiting[p] = "event"
    /\ OnlyGoto(p, IF stop_requested[p] THEN "finish" ELSE "apply")

Apply(p) ==
    /\ pc[p] = "apply"
    /\ applied' = [applied EXCEPT ![p] = Append(@, [row |-> events[p][ev[p]], at |-> clock,
                                                    stopped |-> ctl[p] # "running"])]
    /\ ev' = [ev EXCEPT ![p] = @ + 1]
    /\ Goto(p, "top")
    /\ UNCHANGED <<clock, log, events, stalled_once, replay_start, finished, waiting, deadline,
                   stop_requested, ctl>>

Finish(p) ==
    /\ pc[p] = "finish"
    /\ finished' = [finished EXCEPT ![p] = TRUE]
    /\ Goto(p, "done")
    /\ UNCHANGED <<clock, log, events, ev, stalled_once, replay_start, waiting, deadline,
                   stop_requested, ctl, applied>>

RunStep(p) ==
    \/ LeaveLoop(p)
    \/ BeginStall(p)
    \/ BeginEvent(p)
    \/ EndStall(p)
    \/ EndWait(p)
    \/ Apply(p)
    \/ Finish(p)
    \/ Check(p)
    \/ Block(p)
    \/ TimeOut(p)

-----------------------------------------------------------------------------
(* The controller: requestStop() stores and then notifies; join() returns  *)
(* when the thread has.                                                    *)

SetStopForgotten(p) == UNCHANGED stop_requested
SetStop(p) == stop_requested' = [stop_requested EXCEPT ![p] = TRUE]

StoreStop(p) ==
    /\ ctl[p] = "running"
    /\ SetStop(p)
    /\ ctl' = [ctl EXCEPT ![p] = "stored"]
    /\ UNCHANGED <<clock, log, events, run, applied>>

Notify(p) ==
    /\ ctl[p] = "stored"
    /\ ctl' = [ctl EXCEPT ![p] = "stopping"]
    /\ pc' = [pc EXCEPT ![p] = IF @ = "blocked" THEN "check" ELSE @]
    /\ UNCHANGED <<clock, log, events, ev, stalled_once, replay_start, finished, waiting, deadline,
                   stop_requested, applied>>

Join(p) ==
    /\ ctl[p] = "stopping"
    /\ pc[p] = "done"
    /\ ctl' = [ctl EXCEPT ![p] = "joined"]
    /\ UNCHANGED <<clock, log, events, run, stop_requested, applied>>

TimeNeeded ==
    clock < MaxTime \/ \E p \in Sensors : pc[p] # "done" /\ clock < deadline[p]

Tick ==
    /\ TimeNeeded
    /\ clock' = clock + 1
    /\ UNCHANGED <<log, events, run, stop_requested, ctl, applied>>

\* Every thread has returned.
Quiet ==
    /\ \A p \in Sensors : pc[p] = "done" /\ ctl[p] \in {"running", "joined"}
    /\ ~TimeNeeded
    /\ UNCHANGED vars

Next ==
    \/ Tick
    \/ Quiet
    \/ \E p \in Sensors :
          \/ RunStep(p)
          \/ SpuriousWakeup(p)
          \/ StoreStop(p)
          \/ Notify(p)
          \/ Join(p)

Spec == Init /\ [][Next]_vars

\* The clock advances, a runnable thread runs, and a requestStop() that was begun is
\* completed.  Nothing makes the controller stop a producer.
Fairness ==
    /\ WF_vars(Tick)
    /\ \A p \in Sensors : WF_vars(RunStep(p)) /\ WF_vars(Notify(p))

FairSpec == Spec /\ Fairness

-----------------------------------------------------------------------------
(* Properties.                                                             *)

Labels == {"top", "check", "enter", "blocked", "over", "apply", "finish", "done"}

\* events_ is all the rows of the log, each once, by non-decreasing timestamp.
EventsAreTheLog ==
    \A p \in Sensors :
        /\ DOMAIN events[p] = DOMAIN log[p]
        /\ \A row \in DOMAIN log[p] : \E i \in DOMAIN events[p] : events[p][i] = row
        /\ \A i, j \in DOMAIN events[p] : i < j => TimeOf(p, i) <= TimeOf(p, j)

\* Every member has its type, and the constructor's sort holds for the whole replay.
TypeOK ==
    /\ clock \in Nat
    /\ EventsAreTheLog
    /\ pc \in [Sensors -> Labels]
    /\ \A p \in Sensors : ev[p] \in 1 .. Len(log[p]) + 1
    /\ stalled_once \in [Sensors -> BOOLEAN]
    /\ replay_start \in [Sensors -> Int]
    /\ stop_requested \in [Sensors -> BOOLEAN]
    /\ finished \in [Sensors -> BOOLEAN]
    /\ waiting \in [Sensors -> {"none", "stall", "event"}]
    /\ deadline \in [Sensors -> Nat]
    /\ ctl \in [Sensors -> {"running", "stored", "stopping", "joined"}]

\* Every row is applied once and in timestamp order; a producer that was not asked
\* to stop has applied all of its log when it reports finished().
AppliedInOrder ==
    \A p \in Sensors :
        /\ Len(applied[p]) = ev[p] - 1
        /\ \A i \in DOMAIN applied[p] : applied[p][i].row = events[p][i]
        /\ \A i, j \in DOMAIN applied[p] :
              i < j => log[p][applied[p][i].row] <= log[p][applied[p][j].row]
        /\ finished[p] /\ ~stop_requested[p] => Len(applied[p]) = Len(log[p])

\* requestStop() can land between the last check of the flag and ev.apply(): at most
\* one sample, the last one, is still applied after it, wherever in run() the
\* request lands and however many events are already due.
AtMostOneAfterStop ==
    \A p \in Sensors : \A i \in DOMAIN applied[p] :
        applied[p][i].stopped => i = Len(applied[p])

\* The position of the first event at or past the stall point (0: there is none).
StallEvent(p) ==
    LET past == {i \in DOMAIN events[p] : StallAfter[p] >= 0 /\ TimeOf(p, i) >= StallAfter[p]}
    IN  IF past = {} THEN 0 ELSE CHOOSE i \in past : \A j \in past : i <= j

\* The stall shifts the rest of the timeline: the sensor is quiet for stall_duration
\* after its last sample before the stall ("pause emitting updates for
\* stall_duration", sensor_producer.hpp:44), whatever wakes the thread meanwhile,
\* and later events keep their source distance from the stalled one instead of
\* "firing a burst of overdue events" (sensor_producer.cpp:52).
StallShiftsTimeline ==
    \A p \in Sensors : \A i \in DOMAIN applied[p] :
        LET s == StallEvent(p)
            quietSince == IF s <= 1 THEN 0 ELSE applied[p][s - 1].at
        IN  s # 0 /\ i >= s =>
                applied[p][i].at >= quietSince + StallDuration[p]
                                    + Due(TimeOf(p, i)) - Due(TimeOf(p, s))

\* Before the stall point, or without one, no sample is emitted ahead of its source
\* time scaled by the speed factor.
OnTime ==
    \A p \in Sensors : \A i \in DOMAIN applied[p] :
        StallEvent(p) = 0 \/ i < StallEvent(p) => applied[p][i].at >= Due(TimeOf(p, i))

\* "stop()/pause() can wake the thread immediately instead of it having to finish a
\* sleep first" (sensor_producer.hpp:33): once requestStop() has returned, the
\* producer does not sleep towards a later deadline.
StopWakesProducer ==
    \A p \in Sensors :
        ctl[p] = "stopping" => ~(pc[p] = "blocked" /\ clock < deadline[p])

\* A producer finishes, stopped or at the end of its log, even if the notification
\* of requestStop() is lost: its waits are timed.
ReplayEnds == \A p \in Sensors : <>finished[p]
=============================================================================
