--------------------------- MODULE SensorAggregator ---------------------------
(***************************************************************************)
(* The task 2 program: main() reads the logs, starts one replay thread per *)
(* sensor, prints snapshots of the shared state until all have finished,   *)
(* stops and joins them, and prints a final snapshot.                      *)
(*                                                                         *)
(* The threads are those of SensorProducer, with main() as the controller; *)
(* the shared state is VehicleStateSpec, which VehicleStateManager is      *)
(* shown to implement: ev.apply() is a call and a later return.            *)
(***************************************************************************)
EXTENDS SensorProducer, SensorCsv

CONSTANTS
    Order,          \* the order in which main() starts, stops and joins the sensors
    Directories,    \* the data directories a run may read: a CSV file for each sensor
    Arity,          \* the fields of a row of each sensor (5, 7, 4)
    kStaleAfter,    \* staleness thresholds
    Main            \* the printing thread

ASSUME OrderAssumption ==
    /\ Sensors # {} /\ Main \notin Sensors
    /\ Order \in Seq(Sensors)
    /\ \A p \in Sensors : \E i \in DOMAIN Order : Order[i] = p
    /\ \A i, j \in DOMAIN Order : Order[i] = Order[j] => i = j

\* Source timestamps count from the start of the log.
ASSUME DirectoriesAssumption ==
    \A p \in Sensors :
        /\ Arity[p] \in Nat \ {0}
        /\ \A dir \in Directories : dir[p] # NoFile =>
              /\ dir[p] \in Seq(Lines)
              /\ buildEvents(dir[p], Arity[p]).ok =>
                    buildEvents(dir[p], Arity[p]).log \in Seq(Nat)

VARIABLES
    files,          \* the data directory
    main,           \* where main() is
    nth,            \* its position in Order
    started,        \* the producers whose thread is running
    display,        \* what printSnapshot last printed
    call, latest, horizon, snap     \* the shared state, see VehicleStateSpec

NoSample == 0

Rows == [sample : Nat \ {0}, source_ts : Nat]

Manager == INSTANCE VehicleStateSpec WITH Readers <- {Main}, Inputs <- Rows

managerVars == <<call, latest, horizon, snap>>
mainVars == <<files, main, nth, started, display>>
allVars == <<vars, managerVars, mainVars>>

\* The source time is printed only for a sensor that has data.
printSnapshot(s) ==
    [p \in Sensors |->
        IF s.sample[p] = NoSample THEN [flag |-> "no data", src |-> -1]
        ELSE [flag |-> IF s.stale[p] THEN "STALE" ELSE "ok", src |-> s.source_ts[p]]]

AggregatorInit ==
    /\ ProducersInit
    /\ log = [p \in Sensors |-> <<>>]
    /\ events = [p \in Sensors |-> <<>>]
    /\ Manager!SpecInit
    /\ files \in Directories
    /\ display = printSnapshot(snap[Main])
    /\ main = "load"
    /\ nth = 1
    /\ started = {}

-----------------------------------------------------------------------------
(* The replay threads, calling the manager from ev.apply().                *)

CallApply(p) ==
    /\ pc[p] = "apply"
    /\ Manager!CallUpdate(p, [sample |-> events[p][ev[p]], source_ts |-> TimeOf(p, ev[p])])
    /\ UNCHANGED <<vars, mainVars>>

ReturnApply(p) ==
    /\ Apply(p)
    /\ \E at \in 0 .. clock : Manager!Update(p, at)
    /\ UNCHANGED mainVars

OtherRunStep(p) ==
    /\ pc[p] # "apply"
    /\ RunStep(p)
    /\ UNCHANGED <<managerVars, mainVars>>

ThreadStep(p) ==
    /\ p \in started
    /\ CallApply(p) \/ ReturnApply(p) \/ OtherRunStep(p)

Wakeup(p) ==
    /\ SpuriousWakeup(p)
    /\ UNCHANGED <<managerVars, mainVars>>

-----------------------------------------------------------------------------
(* main().                                                                 *)

Readable(p) == files[p] # NoFile /\ buildEvents(files[p], Arity[p]).ok

LoadFails ==
    /\ main = "load"
    /\ \E p \in Sensors : ~Readable(p)
    /\ main' = "failed"
    /\ UNCHANGED <<vars, managerVars, files, nth, started, display>>

\* The constructors: every producer is anchored on the same start time.
Load ==
    /\ main = "load"
    /\ \A p \in Sensors : Readable(p)
    /\ log' = [p \in Sensors |-> buildEvents(files[p], Arity[p]).log]
    /\ events' \in SortedEvents'
    /\ replay_start' = [p \in Sensors |-> clock]
    /\ main' = "starting"
    /\ UNCHANGED <<clock, pc, ev, stalled_once, finished, waiting, deadline,
                   stop_requested, ctl, applied, managerVars, files, nth, started, display>>

\* Go on to the next sensor of Order, or to `label` after the last one.
Advance(here, label) ==
    IF nth < Len(Order)
    THEN nth' = nth + 1 /\ main' = here
    ELSE nth' = 1 /\ main' = label

StartThread ==
    /\ main = "starting"
    /\ started' = started \cup {Order[nth]}
    /\ Advance("starting", "loop")
    /\ UNCHANGED <<vars, managerVars, files, display>>

AllFinishedAny == \E p \in Sensors : finished[p]
AllFinished == \A p \in Sensors : finished[p]

TestLoop ==
    /\ main = "loop"
    /\ main' = IF AllFinished THEN "stopping" ELSE "sleeping"
    /\ UNCHANGED <<vars, managerVars, files, nth, started, display>>

\* sleep_for(printInterval) lasts as long as it likes; then snapshot() is called.
WakeAndSnapshot ==
    /\ main = "sleeping"
    /\ Manager!CallSnapshot(Main)
    /\ main' = "printing"
    /\ UNCHANGED <<vars, files, nth, started, display>>

PrintSnapshot ==
    /\ main = "printing"
    /\ \E now \in 0 .. clock : Manager!Snapshot(Main, now)
    /\ display' = printSnapshot(snap'[Main])
    /\ main' = "loop"
    /\ UNCHANGED <<vars, files, nth, started>>

RequestStop ==
    /\ main = "stopping"
    /\ StoreStop(Order[nth])
    /\ main' = "notifying"
    /\ UNCHANGED <<managerVars, files, nth, started, display>>

NotifyStop ==
    /\ main = "notifying"
    /\ Notify(Order[nth])
    /\ Advance("stopping", "joining")
    /\ UNCHANGED <<managerVars, files, started, display>>

JoinThread ==
    /\ main = "joining"
    /\ Join(Order[nth])
    /\ Advance("joining", "final")
    /\ UNCHANGED <<managerVars, files, started, display>>

FinalSnapshot ==
    /\ main = "final"
    /\ Manager!CallSnapshot(Main)
    /\ main' = "final_print"
    /\ UNCHANGED <<vars, files, nth, started, display>>

PrintFinal ==
    /\ main = "final_print"
    /\ \E now \in 0 .. clock : Manager!Snapshot(Main, now)
    /\ display' = printSnapshot(snap'[Main])
    /\ main' = "done"
    /\ UNCHANGED <<vars, files, nth, started>>

MainStep ==
    \/ LoadFails \/ Load \/ StartThread
    \/ TestLoop \/ WakeAndSnapshot \/ PrintSnapshot
    \/ RequestStop \/ NotifyStop \/ JoinThread
    \/ FinalSnapshot \/ PrintFinal

TimePasses == Tick /\ UNCHANGED <<managerVars, mainVars>>

\* The process has exited.
Exited == main \in {"done", "failed"} /\ UNCHANGED allVars

AggregatorNext ==
    \/ MainStep
    \/ TimePasses
    \/ Exited
    \/ \E p \in Sensors : ThreadStep(p) \/ Wakeup(p)

\* Every runnable thread runs and the clock advances.
AggregatorSpec ==
    /\ AggregatorInit /\ [][AggregatorNext]_allVars
    /\ WF_allVars(MainStep)
    /\ WF_allVars(TimePasses)
    /\ \A p \in Sensors : WF_allVars(ThreadStep(p))

-----------------------------------------------------------------------------
(* The files as they were written.                                         *)

\* The lines below the header, which is the first line with something on it.
BelowHeader(file) ==
    {n \in DOMAIN file : \E m \in 1 .. n - 1 : file[m] \notin {<<Empty>>, <<CarriageReturn>>}}

\* Those with a number in every field.
DataLines(file, arity) ==
    {n \in BelowHeader(file) :
        Len(file[n]) >= arity /\ \A i \in 1 .. arity : file[n][i] \in Int}

\* A line with a word in it, or with a field left empty before its last one.
BadLine(line) ==
    \E i \in DOMAIN line :
        line[i] = Word \/ (i < Len(line) /\ line[i] \in {Empty, CarriageReturn})

-----------------------------------------------------------------------------
(* Properties.                                                             *)

\* "all producers have naturally reached the end of their logs by this point"
\* (main.cpp:204): the shutdown code cuts no replay short.
ShutdownIsNatural ==
    main \in {"stopping", "notifying", "joining", "final", "final_print", "done"} =>
        \A p \in Sensors : Len(applied[p]) = Len(log[p]) /\ call[p] = Manager!Idle

\* The final state printed shows, for every sensor, the greatest timestamp among the
\* data lines of its file, whatever else is in the file (blank lines, carriage
\* returns, short rows) and in whatever order; no data if it has none.  Only a file
\* that is missing, a field with a word in it, or a field left empty before the last one
\* of its line, keeps the program from getting there.
FinalStateIsComplete ==
    /\ main = "done" =>
          \A p \in Sensors :
              LET written == {files[p][n][1] : n \in DataLines(files[p], Arity[p])}
              IN  IF written = {} THEN display[p].flag = "no data"
                  ELSE display[p].src \in written /\ \A ts \in written : ts <= display[p].src
    /\ main = "failed" =>
          \E p \in Sensors :
              files[p] = NoFile \/ \E n \in BelowHeader(files[p]) : BadLine(files[p][n])

\* From one printed snapshot to the next, no sensor's source timestamp goes back and
\* none returns to "no data": "last-value-wins per sensor" (main.cpp:20) over a replay
\* in timestamp order.
DisplayNeverGoesBack ==
    [][\A p \in Sensors : display'[p].src >= display[p].src]_allVars

\* The program ends: no thread waits for another for ever.
Terminates == <>(main \in {"done", "failed"})
=============================================================================
